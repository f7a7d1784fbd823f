----------------------------- MODULE UploadStore -----------------------------
(***************************************************************************)
(* file-service: the files under a lease each.  MongoDB holds, per file id, *)
(* the lease, the progress of an upload and the pointer to the published    *)
(* bytes (services/uploadStore.ts); the bytes lie in uniquely named files   *)
(* on a volume (services/uploadService.ts), and deletion retires the id and *)
(* then removes them (utils/storage.ts).                                    *)
(*                                                                          *)
(* A call of MongoDB is a step, and so is what a request does to the volume *)
(* between two of them.  A lease may lapse under a request that is slow or  *)
(* dead, at any moment.                                                     *)
(***************************************************************************)
EXTENDS Integers, Sequences

CONSTANTS UploadFiles,    \* file ids
          UploadClients,  \* requests in flight at once
          UploadOps,      \* bound: what happens in an instance
          Contents,       \* what a client may send for a byte
          Plain,          \* the content of a file from before the store
          Sizes,          \* sizes of the files clients upload, in bytes
          MAX_BYTES,      \* the largest upload allowed
          BulkStalls,     \* whether a bulk deletion may outlive its claim
          MaxOwners,      \* bound: leases taken
          MaxLapses       \* bound: leases that lapse

ASSUME UploadAssumption ==
    /\ UploadFiles # {}
    /\ UploadOps \subseteq {"reserve", "chunk", "whole", "internal", "delete", "bulk", "read"}
    /\ Plain \notin Contents
    /\ MAX_BYTES \in Nat /\ Sizes \subseteq 1..MAX_BYTES
    /\ BulkStalls \in BOOLEAN
    /\ MaxOwners \in Nat
    /\ MaxLapses \in Nat

VARIABLES upload,   \* the FileUpload document of each file id
          bytes,    \* what lies in each file's directory on the volume
          plain,    \* the file ids with a file from before the store
          writer,   \* requests in flight
          owners,   \* leases taken so far
          lapses    \* leases lapsed so far

uploadVars == <<upload, bytes, plain, writer, owners, lapses>>

-----------------------------------------------------------------------------
(* Types. *)

OwnerId == 0..MaxOwners                   \* 0: nobody
\* Bytes are named after the owner who made them; an upload begun by an older release has two parts.
EarlyParts == <<<<0, "part1">>, <<0, "part2">>>>
ByteId == (1..MaxOwners) \X {"part", "blob"} \cup {EarlyParts[1], EarlyParts[2]}
NoId == <<0, "none">>
Data == UNION {[1..n -> Contents] : n \in 0..MAX_BYTES}
Size == 0..MAX_BYTES

Part == [id : ByteId, size : Size]


\* How far an upload is, and where the published bytes are; 0: no total yet.
Progress == [mode : {"none", "public", "internal"}, status : {"uploading", "complete", "retired"},
             offset : Size, total : Size, parts : Seq(Part), published : ByteId \cup {NoId}]
NoProgress == [mode |-> "none", status |-> "uploading", offset |-> 0, total |-> 0,
               parts |-> <<>>, published |-> NoId]

FileUpload == [owner : OwnerId, live : BOOLEAN, state : Progress]

WriterPC == {"idle", "open", "collect", "owned", "receive", "assemble", "publish", "commit", "remove",
             "close", "next", "claimed", "retiring", "wiping", "resolve", "fetch", "missing"}

\* `mine` is the request's copy of the state, `found` the bytes it will remove, `todo` the files it
\* has yet to delete, `claimed` those it took in bulk, `end` the offset it uploads to.  Of a read:
\* whether there was something to see when it began (`had`), and how often that was replaced since.
Writer == [op : UploadOps \cup {"none"}, at : WriterPC, file : UploadFiles, owner : OwnerId,
           mine : Progress, found : SUBSET ByteId, todo : SUBSET UploadFiles,
           claimed : SUBSET UploadFiles, end : Size, id : ByteId \cup {NoId},
           tries : 0..2, had : BOOLEAN, moved : 0..2]
NoWriter(f) == [op |-> "none", at |-> "idle", file |-> f, owner |-> 0, mine |-> NoProgress,
                found |-> {}, todo |-> {}, claimed |-> {}, end |-> 0, id |-> NoId,
                tries |-> 0, had |-> FALSE, moved |-> 0]

-----------------------------------------------------------------------------
(* State formulae. *)

Stored(f) == {id \in ByteId : bytes[f][id] # <<>>}

Referenced(s) == {s.parts[i].id : i \in DOMAIN s.parts} \cup {s.published}

\* What a reader of file f is given (openPublished).
Visible(f) ==
    LET s == upload[f].state
    IN  CASE s.status = "retired" -> <<>>
          [] s.status # "retired" /\ s.published # NoId -> bytes[f][s.published]
          [] OTHER -> IF s.mode # "public" /\ f \in plain THEN <<Plain>> ELSE <<>>

\* Nobody is writing the file.
Unclaimed(f) == upload[f].owner = 0 \/ ~upload[f].live

\* The lease of request c stands: the condition of each of its updates.
Fenced(c) ==
    LET f == writer[c].file
    IN  upload[f].owner = writer[c].owner /\ upload[f].live

\* Bytes `from` + 1 to `to` of d are written with v.
Written(d, from, to, v) ==
    [i \in 1..(IF to > Len(d) THEN to ELSE Len(d)) |-> IF from < i /\ i <= to THEN v ELSE d[i]]

RetiredState(s) == [s EXCEPT !.mode = IF @ = "none" THEN "internal" ELSE @, !.status = "retired",
                        !.parts = <<>>, !.published = NoId]

-----------------------------------------------------------------------------
(* Taking the lease of a file and giving it back (openUploadStore). *)

\* A request that has nothing left to do but to give the lease back.
Closing(w) == [w EXCEPT !.at = "close", !.mine = NoProgress, !.found = {}, !.end = 0, !.id = NoId]

\* Before it asks for the lease a request notes the bytes it finds on the volume.
Opening(w, f) == [w EXCEPT !.at = "open", !.file = f, !.found = Stored(f)]

Call(c) ==
    /\ writer[c].at = "idle"
    /\ \E op \in UploadOps \ {"bulk", "read"}, f \in UploadFiles :
         writer' = [writer EXCEPT ![c] = Opening([NoWriter(f) EXCEPT !.op = op], f)]
    /\ UNCHANGED <<upload, bytes, plain, owners, lapses>>

OpenUploadStore(c) ==
    /\ writer[c].at = "open"
    /\ Unclaimed(writer[c].file)
    /\ owners < MaxOwners
    /\ owners' = owners + 1
    /\ upload' = [upload EXCEPT ![writer[c].file].owner = owners', ![writer[c].file].live = TRUE]
    /\ writer' = [writer EXCEPT ![c].at = "collect", ![c].owner = owners',
                                ![c].mine = upload[writer[c].file].state]
    /\ UNCHANGED <<bytes, plain, lapses>>

\* Bytes that an earlier owner left behind are removed.
CollectBytes(c) ==
    LET w == writer[c]
    IN  /\ w.at = "collect"
        /\ bytes' = [bytes EXCEPT ![w.file] =
                        [id \in ByteId |-> IF id \in w.found \ Referenced(w.mine) THEN <<>> ELSE @[id]]]
        /\ writer' = [writer EXCEPT ![c].at = "owned", ![c].found = {}]
        /\ UNCHANGED <<upload, plain, owners, lapses>>

\* The state becomes s and the request is w next, if its lease still stands; otherwise it fails.
Save(c, s, w) ==
    /\ upload' = [upload EXCEPT ![w.file].state = IF Fenced(c) THEN s ELSE @]
    /\ writer' = [writer EXCEPT ![c] =
                     IF ~Fenced(c) THEN Closing([w EXCEPT !.todo = {}])
                     ELSE IF w.at = "close" THEN Closing(w) ELSE [w EXCEPT !.mine = s]]

\* The lease is given back, whoever fails; a bulk deletion goes on with the next file.
CloseStore(c) ==
    LET w == writer[c]
    IN  /\ w.at = "close"
        /\ upload' = [upload EXCEPT ![w.file].owner = IF @ = w.owner THEN 0 ELSE @]
        /\ writer' = [writer EXCEPT ![c] =
              IF w.todo = {} THEN NoWriter(w.file)
              ELSE [NoWriter(w.file) EXCEPT !.op = w.op, !.at = "next", !.todo = w.todo]]
        /\ UNCHANGED <<bytes, plain, owners, lapses>>

\* A call that is refused or interrupted, or gets no answer, closes what it opened.
FailUpload(c) ==
    /\ writer[c].at \in {"collect", "owned", "receive", "assemble", "publish", "commit", "remove"}
    /\ writer' = [writer EXCEPT ![c] = Closing([@ EXCEPT !.todo = {}])]
    /\ UNCHANGED <<upload, bytes, plain, owners, lapses>>

\* A call that finds the file taken, cannot give its lease back, or dies with its process.
GiveUp(c) ==
    /\ writer[c].at # "idle"
    /\ writer' = [writer EXCEPT ![c] = NoWriter(writer[c].file)]
    /\ UNCHANGED <<upload, bytes, plain, owners, lapses>>

\* Time passes: a lease that was not renewed in time.  Only one that BulkStalls allows to lapses
\* under a bulk deletion that holds it.
LapseLease(f) ==
    /\ upload[f].owner # 0 /\ upload[f].live
    /\ BulkStalls \/ \A c \in UploadClients :
                        writer[c].owner = upload[f].owner => writer[c].at \notin {"claimed", "retiring"}
    /\ lapses < MaxLapses
    /\ lapses' = lapses + 1
    /\ upload' = [upload EXCEPT ![f].live = FALSE]
    /\ UNCHANGED <<bytes, plain, writer, owners>>

-----------------------------------------------------------------------------
(* Reserving and uploading (uploadService). *)

\* reserveFileUpload: a path is reserved once; asking again extends the reservation.
ReserveFileUpload(c) ==
    LET w == writer[c]
    IN  /\ w.at = "owned" /\ w.op = "reserve"
        /\ \/ w.mine.mode = "none" /\ w.file \notin plain
           \/ w.mine.mode = "public" /\ w.mine.status = "uploading"
        /\ Save(c, [w.mine EXCEPT !.mode = "public"], [w EXCEPT !.at = "close"])
        /\ UNCHANGED <<bytes, plain, owners, lapses>>

\* writeUpload for another service: what is published stays until the replacement is.
BeginReplacement(c) ==
    LET w == writer[c]
    IN  /\ w.at = "owned" /\ w.op = "internal"
        /\ w.mine.mode # "public" /\ w.mine.status # "retired"
        /\ \E end \in Sizes :
             Save(c, [NoProgress EXCEPT !.mode = "internal", !.published = w.mine.published],
                  [w EXCEPT !.at = "receive", !.end = end])
        /\ UNCHANGED <<bytes, plain, owners, lapses>>

\* writeUpload under an upload URL: an upload that is complete is not repeated, ...
UploadAgain(c) ==
    LET w == writer[c]
    IN  /\ w.at = "owned" /\ w.op \in {"whole", "chunk"}
        /\ w.mine.mode = "public" /\ w.mine.status = "complete"
        /\ writer' = [writer EXCEPT ![c] = Closing(w)]
        /\ UNCHANGED <<upload, bytes, plain, owners, lapses>>

\* Mutant of BeginWhole: a body is taken for any file that was reserved.
BeginWholeAgain(c) ==
    LET w == writer[c]
    IN  /\ w.at = "owned" /\ w.op = "whole"
        /\ w.mine.mode = "public"
        /\ \E end \in Sizes :
             writer' = [writer EXCEPT ![c].at = "receive", ![c].end = end]
        /\ UNCHANGED <<upload, bytes, plain, owners, lapses>>

\* ... a whole body starts where nothing was uploaded yet, ...
BeginWhole(c) ==
    LET w == writer[c]
    IN  /\ w.at = "owned" /\ w.op = "whole"
        /\ w.mine.mode = "public" /\ w.mine.status = "uploading" /\ w.mine.offset = 0
        /\ \E end \in Sizes :
             writer' = [writer EXCEPT ![c].at = "receive", ![c].end = end]
        /\ UNCHANGED <<upload, bytes, plain, owners, lapses>>

\* ... and a chunk at the committed offset, of a total that never changes.
BeginChunk(c) ==
    LET w == writer[c]
    IN  /\ w.at = "owned" /\ w.op = "chunk"
        /\ w.mine.mode = "public" /\ w.mine.status = "uploading"
        /\ \E total \in Sizes :
             /\ w.mine.total \in {0, total}
             /\ \E end \in w.mine.offset + 1..total :
                  Save(c, [w.mine EXCEPT !.total = total], [w EXCEPT !.at = "receive", !.end = end])
        /\ UNCHANGED <<bytes, plain, owners, lapses>>

\* A later chunk is written into the file the first one started; an older release gave each chunk
\* a file of its own.
Extending(s) == Len(s.parts) = 1 /\ s.parts[1].size = s.offset

\* The bytes arrive, all or some of them; what is committed is written to the volume first.
Receive(c) ==
    LET w == writer[c]
        s == w.mine
        id == IF Extending(s) THEN s.parts[1].id ELSE <<w.owner, "part">>
        from == IF Extending(s) THEN s.offset ELSE 0
        old == bytes[w.file][id]
        parts == IF Extending(s) THEN <<[id |-> id, size |-> w.end]>>
                 ELSE Append(s.parts, [id |-> id, size |-> w.end - s.offset])
        complete == w.op # "chunk" \/ w.end = s.total
    IN  /\ w.at = "receive"
        /\ from <= Len(old)
        /\ \E v \in Contents, n \in 1..w.end - s.offset :
             /\ bytes' = [bytes EXCEPT ![w.file][id] = Written(old, from, from + n, v)]
             /\ writer' = [writer EXCEPT ![c] =
                   IF n < w.end - s.offset THEN Closing(w)
                   ELSE [w EXCEPT !.at = IF complete THEN "assemble" ELSE "commit",
                                  !.mine = [s EXCEPT !.parts = parts, !.offset = w.end]]]
        /\ UNCHANGED <<upload, plain, owners, lapses>>

\* The parts become one file, if there are several, each with the bytes it was committed with.
Assemble(c) ==
    LET w == writer[c]
        parts == w.mine.parts
        data(i) == bytes[w.file][parts[i].id]
        id == IF Len(parts) = 1 THEN parts[1].id ELSE <<w.owner, "blob">>
        joined == IF Len(parts) = 1 THEN data(1)
                  ELSE IF Len(parts) = 2 THEN data(1) \o data(2)
                  ELSE data(1) \o data(2) \o data(3)
    IN  /\ w.at = "assemble"
        /\ \A i \in DOMAIN parts : Len(data(i)) = parts[i].size
        /\ bytes' = [bytes EXCEPT ![w.file][id] = joined]
        /\ writer' = [writer EXCEPT ![c].at = "publish", ![c].id = id]
        /\ UNCHANGED <<upload, plain, owners, lapses>>

\* A reader that is under way is told of a new version by nobody: it may meet the old one gone.
Replaced(f, ws) ==
    [d \in UploadClients |->
        IF ws[d].op = "read" /\ ws[d].file = f /\ ws[d].moved < 2
        THEN [ws[d] EXCEPT !.moved = @ + 1] ELSE ws[d]]

\* Mutant of Publish: the update asks for the document and not for the lease.
UnfencedPublish(c) ==
    LET w == writer[c]
        s == [w.mine EXCEPT !.published = w.id, !.parts = <<>>, !.total = w.mine.offset,
                            !.status = "complete"]
    IN  /\ w.at = "publish"
        /\ upload' = [upload EXCEPT ![w.file].state = s]
        /\ writer' = Replaced(w.file, [writer EXCEPT ![c] = Closing(w)])
        /\ UNCHANGED <<bytes, plain, owners, lapses>>

Publish(c) ==
    LET w == writer[c]
        s == [w.mine EXCEPT !.published = w.id, !.parts = <<>>, !.total = w.mine.offset,
                            !.status = "complete"]
    IN  /\ w.at = "publish"
        /\ upload' = [upload EXCEPT ![w.file].state = IF Fenced(c) THEN s ELSE @]
        /\ writer' = LET ws == [writer EXCEPT ![c] = Closing(w)]
                     IN  IF Fenced(c) THEN Replaced(w.file, ws) ELSE ws
        /\ UNCHANGED <<bytes, plain, owners, lapses>>

CommitChunk(c) ==
    LET w == writer[c]
    IN  /\ w.at = "commit"
        /\ Save(c, w.mine, [w EXCEPT !.at = "close"])
        /\ UNCHANGED <<bytes, plain, owners, lapses>>

-----------------------------------------------------------------------------
(* Deleting (deleteFile, retireInBulk, deleteFiles): the id is retired first. *)

RetireFile(c) ==
    LET w == writer[c]
    IN  /\ w.at = "owned" /\ w.op \in {"delete", "bulk"}
        /\ Save(c, RetiredState(w.mine), [w EXCEPT !.at = "remove", !.found = Referenced(w.mine) \ {NoId}])
        /\ UNCHANGED <<bytes, plain, owners, lapses>>

RemoveBytes(c) ==
    LET w == writer[c]
    IN  /\ w.at = "remove"
        /\ plain' = plain \ {w.file}
        /\ bytes' = [bytes EXCEPT ![w.file] = [id \in ByteId |-> IF id \in w.found THEN <<>> ELSE @[id]]]
        /\ writer' = [writer EXCEPT ![c] = Closing(w)]
        /\ UNCHANGED <<upload, owners, lapses>>

\* One update claims every file of the batch that is managed and free, ...
ClaimBulk(c) ==
    /\ writer[c].at = "idle" /\ "bulk" \in UploadOps
    /\ owners < MaxOwners
    /\ owners' = owners + 1
    /\ \E S \in SUBSET UploadFiles, f \in UploadFiles :
         /\ f \in S
         /\ upload' = [g \in UploadFiles |->
                         IF g \in S /\ Unclaimed(g) /\ upload[g].state.mode # "none"
                         THEN [upload[g] EXCEPT !.owner = owners', !.live = TRUE] ELSE upload[g]]
         /\ writer' = [writer EXCEPT ![c] = [NoWriter(f) EXCEPT !.op = "bulk", !.at = "claimed",
                                                !.owner = owners', !.todo = S]]
    /\ UNCHANGED <<bytes, plain, lapses>>

\* ... a query reads which, ...
FindClaimed(c) ==
    LET w == writer[c]
    IN  /\ w.at = "claimed"
        /\ writer' = [writer EXCEPT ![c].at = "retiring",
                        ![c].claimed = {f \in w.todo : upload[f].owner = w.owner}]
        /\ UNCHANGED <<upload, bytes, plain, owners, lapses>>

\* ... a second update retires those that are still its own, ...
RetireBulk(c) ==
    LET w == writer[c]
    IN  /\ w.at = "retiring"
        /\ upload' = [f \in UploadFiles |->
                         IF f \in w.claimed /\ upload[f].owner = w.owner
                         THEN [upload[f] EXCEPT !.owner = 0, !.state = RetiredState(@)] ELSE upload[f]]
        /\ writer' = [writer EXCEPT ![c].at = "wiping"]
        /\ UNCHANGED <<bytes, plain, owners, lapses>>

\* ... and what the query returned loses its bytes.  The rest is deleted one by one.
WipeBulk(c) ==
    LET w == writer[c]
    IN  /\ w.at = "wiping"
        /\ plain' = plain \ w.claimed
        /\ bytes' = [f \in UploadFiles |->
                        IF f \in w.claimed THEN [id \in ByteId |-> <<>>] ELSE bytes[f]]
        /\ writer' = [writer EXCEPT ![c] = [NoWriter(w.file) EXCEPT
                        !.op = IF w.todo \subseteq w.claimed THEN "none" ELSE w.op,
                        !.at = IF w.todo \subseteq w.claimed THEN "idle" ELSE "next",
                        !.todo = w.todo \ w.claimed]]
        /\ UNCHANGED <<upload, owners, lapses>>

DeleteNext(c) ==
    /\ writer[c].at = "next"
    /\ \E f \in writer[c].todo :
         writer' = [writer EXCEPT ![c] = Opening([writer[c] EXCEPT !.todo = @ \ {f}], f)]
    /\ UNCHANGED <<upload, bytes, plain, owners, lapses>>

-----------------------------------------------------------------------------
(* Reading (openPublished): resolve the pointer, open what it names, and try once more. *)

BeginRead(c) ==
    /\ writer[c].at = "idle" /\ "read" \in UploadOps
    /\ \E f \in UploadFiles :
         writer' = [writer EXCEPT ![c] = [NoWriter(f) EXCEPT !.op = "read", !.at = "resolve",
                                             !.had = Visible(f) # <<>>]]
    /\ UNCHANGED <<upload, bytes, plain, owners, lapses>>

ResolvePointer(c) ==
    LET w == writer[c]
        s == upload[w.file].state
    IN  /\ w.at = "resolve"
        /\ IF s.status = "retired" \/ (s.mode = "public" /\ s.published = NoId)
           THEN writer' = [writer EXCEPT ![c].at = "missing"]
           ELSE writer' = [writer EXCEPT ![c].at = "fetch", ![c].id = s.published]
        /\ UNCHANGED <<upload, bytes, plain, owners, lapses>>

\* Mutant of FetchBytes: bytes that are gone are missing, without a second look at the pointer.
FetchOnce(c) ==
    LET w == writer[c]
        there == IF w.id = NoId THEN w.file \in plain ELSE bytes[w.file][w.id] # <<>>
    IN  /\ w.at = "fetch"
        /\ writer' = [writer EXCEPT ![c] = IF there THEN NoWriter(w.file) ELSE [w EXCEPT !.at = "missing"]]
        /\ UNCHANGED <<upload, bytes, plain, owners, lapses>>

FetchBytes(c) ==
    LET w == writer[c]
        there == IF w.id = NoId THEN w.file \in plain ELSE bytes[w.file][w.id] # <<>>
    IN  /\ w.at = "fetch"
        /\ writer' = [writer EXCEPT ![c] =
              IF there THEN NoWriter(w.file)
              ELSE [w EXCEPT !.at = IF w.tries = 0 THEN "resolve" ELSE "missing", !.tries = w.tries + 1]]
        /\ UNCHANGED <<upload, bytes, plain, owners, lapses>>

-----------------------------------------------------------------------------
UploadInit ==
    /\ plain \in SUBSET UploadFiles
    /\ \/ /\ upload = [f \in UploadFiles |-> [owner |-> 0, live |-> FALSE, state |-> NoProgress]]
          /\ bytes = [f \in UploadFiles |-> [id \in ByteId |-> <<>>]]
       \/ \* Two chunks of three that an older release received.
          /\ MAX_BYTES >= 3 /\ plain = {}
          /\ upload = [f \in UploadFiles |-> [owner |-> 0, live |-> FALSE, state |->
                [NoProgress EXCEPT !.mode = "public", !.offset = 2, !.total = 3,
                    !.parts = [i \in 1..2 |-> [id |-> EarlyParts[i], size |-> 1]]]]]
          /\ \E v \in Contents :
                bytes = [f \in UploadFiles |-> [id \in ByteId |->
                            IF id \in {EarlyParts[1], EarlyParts[2]} THEN <<v>> ELSE <<>>]]
    /\ writer = [c \in UploadClients |-> NoWriter(CHOOSE f \in UploadFiles : TRUE)]
    /\ owners = 0
    /\ lapses = 0

UploadNext ==
    \/ \E c \in UploadClients :
         \/ Call(c) \/ OpenUploadStore(c) \/ CollectBytes(c) \/ CloseStore(c)
         \/ FailUpload(c) \/ GiveUp(c)
         \/ ReserveFileUpload(c) \/ BeginReplacement(c) \/ UploadAgain(c) \/ BeginWhole(c)
         \/ BeginChunk(c) \/ Receive(c) \/ Assemble(c) \/ Publish(c) \/ CommitChunk(c)
         \/ RetireFile(c) \/ RemoveBytes(c)
         \/ ClaimBulk(c) \/ FindClaimed(c) \/ RetireBulk(c) \/ WipeBulk(c) \/ DeleteNext(c)
         \/ BeginRead(c) \/ ResolvePointer(c) \/ FetchBytes(c)
    \/ \E f \in UploadFiles : LapseLease(f)

UploadSpec == UploadInit /\ [][UploadNext]_uploadVars

-----------------------------------------------------------------------------
(* Properties. *)

UploadTypeOK ==
    /\ upload \in [UploadFiles -> FileUpload]
    /\ bytes \in [UploadFiles -> [ByteId -> Data]]
    /\ plain \subseteq UploadFiles
    /\ writer \in [UploadClients -> Writer]
    /\ owners \in 0..MaxOwners
    /\ lapses \in 0..MaxLapses

\* What MongoDB says was uploaded is on the volume, whoever collects leftovers or deletes meanwhile:
\* an upload can be resumed at its offset and a published file can be read.
CommittedIsStored ==
    \A f \in UploadFiles :
        LET s == upload[f].state
        IN  /\ \A i \in DOMAIN s.parts : Len(bytes[f][s.parts[i].id]) >= s.parts[i].size
            /\ s.published # NoId => bytes[f][s.published] # <<>>

\* A reader is told that a file it could have read is missing only if the file was deleted, or was
\* replaced twice while it looked.
ReadersFind ==
    \A c \in UploadClients :
        writer[c].at = "missing" /\ writer[c].had =>
            upload[writer[c].file].state.status = "retired" \/ writer[c].moved = 2

Life == INSTANCE FileLife WITH
    StoredFiles <- UploadFiles, Versions <- ByteId, NoVersion <- NoId,
    version <- [f \in UploadFiles |-> upload[f].state.published],
    visible <- [f \in UploadFiles |-> Visible(f)],
    immutable <- {f \in UploadFiles : upload[f].state.mode = "public"},
    gone <- {f \in UploadFiles : upload[f].state.status = "retired"}

\* The files live the life FileLife describes: readers see what was published last, a public upload
\* is never replaced and a deleted id stays deleted.
FileLifeSpec == Life!LifeSpec
=============================================================================
