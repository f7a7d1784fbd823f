-------------------------- MODULE UploadStore_proofs ---------------------------
(***************************************************************************)
(* Proofs about UploadStore, for any number of files, requests, leases and  *)
(* sizes.                                                                   *)
(***************************************************************************)
EXTENDS UploadStore, SequenceTheorems, TLAPS

-----------------------------------------------------------------------------
(* The first inductive invariant: leases, and what the requests under them remember. *)

\* A request that has a lease, and one that holds the lease of a file to upload to.
AtWork == {"collect", "owned", "receive", "assemble", "publish", "commit", "remove", "close"}
Batch == {"claimed", "retiring", "wiping"}
Early == {"collect", "owned", "receive"}
Late == {"assemble", "publish", "commit"}

State(c) == upload[writer[c].file].state

\* Owners are numbered as they come, and each number is of one request; the lease of a file goes to
\* newer owners only.
LeasesKept ==
    /\ \A f \in UploadFiles : upload[f].owner <= owners
    /\ \A c \in UploadClients :
         /\ writer[c].owner <= owners
         /\ writer[c].owner # 0 <=> writer[c].at \in AtWork \cup Batch
         /\ \A d \in UploadClients : writer[c].owner = writer[d].owner /\ writer[c].owner # 0 => c = d
         /\ writer[c].at \in AtWork =>
              LET o == upload[writer[c].file].owner IN o = 0 \/ o >= writer[c].owner

\* A part written by one owner or by several, one after the other; the two parts of an older release.
OnePart(s) ==
    /\ Len(s.parts) = 1
    /\ s.parts[1].size = s.offset /\ s.offset > 0
    /\ s.parts[1].id[2] = "part"
EarlyUpload(s) ==
    /\ s.parts = [i \in 1..2 |-> [id |-> EarlyParts[i], size |-> 1]]
    /\ s.offset = 2 /\ s.total = 3

\* How far an upload can be.
Consistent(s) ==
    /\ s.mode = "none" => s = NoProgress
    /\ s.mode = "public" /\ s.status = "uploading" => s.published = NoId
    /\ s.status = "complete" => s.published # NoId /\ s.offset = s.total
    /\ s.status = "retired" => s.published = NoId
    /\ s.parts = <<>> /\ s.status = "uploading" => s.offset = 0
    /\ s.parts # <<>> =>
         /\ s.mode = "public" /\ s.status = "uploading"
         /\ s.offset <= s.total
         /\ OnePart(s) \/ EarlyUpload(s)

PartIds(s) == {s.parts[i].id : i \in DOMAIN s.parts}

RecordsKept ==
    \A f \in UploadFiles :
        /\ Consistent(upload[f].state)
        /\ \A id \in Referenced(upload[f].state) : id[1] <= owners

\* Until it has received anything a request remembers what it read; while its lease stands, that is
\* what the record says.
Remembers(c) ==
    LET w == writer[c]
    IN  w.at \in Early =>
            /\ Consistent(w.mine)
            /\ \A id \in Referenced(w.mine) : id[1] < w.owner
            /\ Fenced(c) => w.mine = State(c)

\* What it is about to receive begins where the record says the upload is.
Receives(c) ==
    LET w == writer[c]
        s == w.mine
    IN  w.at = "receive" =>
            /\ w.op \in {"whole", "chunk", "internal"}
            /\ s.mode # "none" /\ s.status = "uploading" /\ s.offset < w.end
            /\ w.op = "chunk" => s.mode = "public" /\ w.end <= s.total
            /\ w.op # "chunk" => s.parts = <<>>
            /\ s.parts # <<>> =>
                  State(c).mode = "public" /\ State(c).offset > 0 /\ State(c).total = s.total

\* What it has received continues what the record still says.
Received(c) ==
    LET w == writer[c]
        s == w.mine
    IN  w.at \in Late =>
            /\ w.op \in {"whole", "chunk", "internal"}
            /\ s.mode # "none" /\ s.status = "uploading"
            /\ s.offset > 0
            /\ s.mode = "public" => s.published = NoId
            /\ \/ OnePart(s)
               \/ /\ w.op = "chunk" /\ w.at # "commit"
                  /\ s.parts = <<[id |-> EarlyParts[1], size |-> 1], [id |-> EarlyParts[2], size |-> 1],
                                 [id |-> <<w.owner, "part">>, size |-> 1]>>
                  /\ s.offset = 3 /\ s.total = 3
            /\ w.op = "chunk" => s.mode = "public" /\ s.offset <= s.total
            /\ w.op = "chunk" /\ w.at # "commit" => s.offset = s.total
            /\ w.at = "commit" => w.op = "chunk"
            /\ w.at = "publish" => \/ w.id = <<w.owner, "blob">>
                                   \/ OnePart(s) /\ w.id = s.parts[1].id
            /\ Fenced(c) =>
                 /\ State(c).mode = s.mode /\ State(c).status = "uploading"
                 /\ State(c).published = s.published
                 /\ w.op = "chunk" => State(c).total = s.total
                 /\ w.op # "chunk" => State(c).parts = <<>>
                 /\ PartIds(s) \subseteq PartIds(State(c)) \cup {<<w.owner, "part">>}

\* Nothing goes by the names of a request that has not saved anything.
Unnamed(c) ==
    writer[c].at \in Early \cup Late => \A id \in Referenced(State(c)) : id[1] # writer[c].owner

\* A reader looks twice.
Looks(c) == writer[c].at \in {"resolve", "fetch"} => writer[c].tries <= 1

RequestKept(c) == Remembers(c) /\ Receives(c) /\ Received(c) /\ Unnamed(c) /\ Looks(c)
RequestsKept == \A c \in UploadClients : RequestKept(c)

UploadIInv == UploadTypeOK /\ LeasesKept /\ RecordsKept /\ RequestsKept

-----------------------------------------------------------------------------
(* The second one: what is on the volume, if no bulk deletion outlives its claim. *)

\* Bytes are named after owners there were.
BytesNamed == \A f \in UploadFiles, id \in ByteId : bytes[f][id] # <<>> => id[1] <= owners

\* Leftovers that a request is to remove were there before it took its lease; what it did not read of
\* then is newer.
Collects(c) ==
    LET w == writer[c]
    IN  /\ w.at = "open" => \A id \in w.found : id[1] <= owners
        /\ w.at = "collect" =>
             /\ \A id \in w.found : id[1] < w.owner
             /\ \A id \in ByteId \cap Referenced(State(c)) : id[1] < w.owner => id \in Referenced(w.mine)

\* Bytes go after their file is retired; what a bulk deletion claimed is its own until then.
Removes(c) ==
    LET w == writer[c]
    IN  /\ w.at = "remove" => State(c).status = "retired"
        /\ w.at \in {"claimed", "retiring"} =>
             \A f \in UploadFiles : upload[f].owner = w.owner => upload[f].live
        /\ w.at = "retiring" => \A f \in w.claimed : upload[f].owner = w.owner
        /\ w.at = "wiping" => \A f \in w.claimed : upload[f].state.status = "retired"

\* What a request whose lease stands is about to save is on the volume.
Stores(c) ==
    LET w == writer[c]
        data(id) == bytes[w.file][id]
    IN  Fenced(c) =>
          /\ w.at = "commit" => Len(data(w.mine.parts[1].id)) >= w.mine.offset
          /\ w.at = "publish" => Len(data(w.id)) = w.mine.offset

PublishedParts ==
    \A f \in UploadFiles :
        LET s == upload[f].state
        IN  s.status = "complete" => Len(bytes[f][s.published]) = s.total

PlainStays == \A f \in plain : upload[f].state.mode # "public"

\* A reader that finds its bytes gone was overtaken by another version.
Reads(c) ==
    LET w == writer[c]
    IN  /\ w.op = "read" <=> w.at \in {"resolve", "fetch", "missing"}
        /\ w.op = "read" /\ w.had /\ State(c).status # "retired" /\ w.moved < 2 =>
             /\ State(c).published # NoId \/ w.file \in plain
             /\ w.at # "missing"
             /\ w.tries <= w.moved
             /\ w.at = "fetch" /\ w.id # State(c).published => w.tries < w.moved

VolumeRequest(c) == Collects(c) /\ Removes(c) /\ Stores(c) /\ Reads(c)

VolumeKept ==
    /\ BytesNamed /\ PublishedParts /\ PlainStays
    /\ \A c \in UploadClients : VolumeRequest(c)

VolumeIInv == UploadIInv /\ CommittedIsStored /\ VolumeKept

-----------------------------------------------------------------------------
(* What a step does, as everybody else sees it. *)

\* What a request with owner number o may make of the state s of the file it holds.
Successor(s, t, o) ==
    /\ Consistent(t)
    /\ \A id \in Referenced(t) : id \in Referenced(s) \cup {NoId} \/ id[1] = o
    /\ s.mode = "public" /\ s.offset > 0 => t.mode = "public" /\ t.offset > 0 /\ t.total = s.total

\* What a step of a request with owner number o may make of the records.
Touched(o) ==
    \A f \in UploadFiles :
        \/ upload'[f] = upload[f]
        \/ /\ Unclaimed(f) /\ owners' = owners + 1
           /\ upload'[f].owner = owners' /\ upload'[f].state = upload[f].state
        \/ upload'[f] = [upload[f] EXCEPT !.live = FALSE]
        \/ /\ o # 0 /\ upload[f].owner = o
           /\ upload'[f].owner \in {0, o} /\ upload'[f].live = upload[f].live
           /\ Successor(upload[f].state, upload'[f].state, o)

\* The other requests stay as they are, but for what is counted of readers.
OthersKeep(c) ==
    \A d \in UploadClients \ {c} : \E n \in 0..2 : writer'[d] = [writer[d] EXCEPT !.moved = n]

LEMMA ProgressFacts ==
    NoProgress \in Progress /\ Consistent(NoProgress) /\ Referenced(NoProgress) = {NoId}
  <1>1. <<>> \in Seq(Part)
    BY EmptySeq
  <1>2. NoProgress \in Progress
    BY <1>1, UploadAssumption DEF NoProgress, Progress, Size
  <1>3. Len(NoProgress.parts) = 0 /\ DOMAIN NoProgress.parts = {}
    BY <1>1, EmptySeq, LenProperties DEF NoProgress
  <1> QED
    BY <1>2, <1>3 DEF NoProgress, Consistent, Referenced, NoId

LEMMA ReferencedTyped ==
    ASSUME NEW s \in Progress
    PROVE  /\ \A i \in DOMAIN s.parts : s.parts[i] \in Part
           /\ Referenced(s) \subseteq ByteId \cup {NoId}
           /\ \A id \in Referenced(s) : id[1] \in Nat
  <1>1. s.parts \in Seq(Part) /\ s.published \in ByteId \cup {NoId}
    BY DEF Progress
  <1>2. \A i \in DOMAIN s.parts : s.parts[i] \in Part
    BY <1>1, LenProperties, ElementOfSeq
  <1>3. Referenced(s) \subseteq ByteId \cup {NoId}
    BY <1>1, <1>2 DEF Referenced, Part
  <1>4. \A id \in ByteId \cup {NoId} : id[1] \in Nat
    BY UploadAssumption DEF ByteId, NoId, EarlyParts
  <1> QED
    BY <1>2, <1>3, <1>4

LEMMA NoWriterFacts ==
    ASSUME NEW f \in UploadFiles
    PROVE  /\ NoWriter(f) \in Writer
           /\ NoWriter(f).file = f /\ NoWriter(f).owner = 0 /\ NoWriter(f).at = "idle"
           /\ NoWriter(f).op = "none" /\ NoWriter(f).todo = {} /\ NoWriter(f).found = {}
  <1>1. /\ "idle" \in WriterPC /\ "none" \in UploadOps \cup {"none"} /\ 0 \in OwnerId /\ 0 \in Size
        /\ NoId \in ByteId \cup {NoId}
    BY UploadAssumption DEF OwnerId, Size, WriterPC
  <1> QED
    BY <1>1, ProgressFacts DEF NoWriter, Writer

LEMMA ClosingFacts ==
    ASSUME NEW w \in Writer
    PROVE  /\ Closing(w) \in Writer
           /\ Closing(w).file = w.file /\ Closing(w).owner = w.owner /\ Closing(w).at = "close"
           /\ Closing(w).op = w.op /\ Closing(w).todo = w.todo
  <1>1. "close" \in WriterPC /\ 0 \in Size /\ NoId \in ByteId \cup {NoId}
    BY UploadAssumption DEF Size, WriterPC
  <1> QED
    BY <1>1, ProgressFacts DEF Closing, Writer

\* A request that is not the one that steps does not see a change of what it holds.
LEMMA OtherKept ==
    ASSUME UploadIInv, NEW c \in UploadClients, NEW d \in UploadClients, d # c,
           NEW n \in 0..2, writer'[d] = [writer[d] EXCEPT !.moved = n],
           Touched(writer[c].owner), upload' \in [UploadFiles -> FileUpload]
    PROVE  RequestKept(d)'
  <1> DEFINE w == writer[d]
             f == w.file
             o == writer[c].owner
  <1>1. w \in Writer /\ f \in UploadFiles /\ upload[f] \in FileUpload /\ writer[c] \in Writer
    BY DEF UploadIInv, UploadTypeOK, Writer
  <1>2. /\ writer'[d].at = w.at /\ writer'[d].file = f /\ writer'[d].owner = w.owner
        /\ writer'[d].mine = w.mine /\ writer'[d].op = w.op /\ writer'[d].end = w.end
        /\ writer'[d].id = w.id /\ writer'[d].tries = w.tries
    BY <1>1 DEF Writer
  <1>11. Looks(d)'
    BY <1>2 DEF UploadIInv, RequestsKept, RequestKept, Looks
  <1> SUFFICES ASSUME w.at \in Early \cup Late PROVE RequestKept(d)'
    BY <1>2, <1>11 DEF RequestKept, Remembers, Receives, Received, Unnamed, Early, Late
  <1>3. w.owner # 0 /\ w.owner <= owners /\ o # w.owner
    BY DEF UploadIInv, LeasesKept, Early, Late, AtWork
  <1>4. upload'[f].state = upload[f].state \/ (upload[f].owner = o /\ Successor(upload[f].state, upload'[f].state, o))
    BY <1>1 DEF Touched, FileUpload
  <1>5. Fenced(d)' => Fenced(d) /\ upload'[f].state = upload[f].state
    <2>1. w.owner \in Nat /\ upload[f].owner \in Nat /\ upload[f].owner <= owners /\ owners \in Nat
      BY <1>1 DEF Writer, FileUpload, OwnerId, UploadIInv, UploadTypeOK, LeasesKept
    <2>2. Fenced(d)' <=> upload'[f].owner = w.owner /\ upload'[f].live
      BY <1>2 DEF Fenced
    <2>3. CASE upload'[f] = upload[f]
      BY <2>2, <2>3 DEF Fenced
    <2>4. CASE owners' = owners + 1 /\ upload'[f].owner = owners'
      BY <1>3, <2>1, <2>2, <2>4
    <2>5. CASE upload'[f] = [upload[f] EXCEPT !.live = FALSE]
      BY <1>1, <2>2, <2>5 DEF FileUpload
    <2>6. CASE upload[f].owner = o /\ upload'[f].owner \in {0, o}
      BY <1>3, <2>2, <2>6
    <2> QED
      BY <1>1, <2>3, <2>4, <2>5, <2>6 DEF Touched
  <1>6. Remembers(d) /\ Receives(d) /\ Received(d) /\ Unnamed(d)
    BY DEF UploadIInv, RequestsKept, RequestKept
  <1>7. Remembers(d)'
    BY <1>2, <1>5, <1>6 DEF Remembers, State
  <1>8. Receives(d)'
    <2>1. upload[f].state.mode = "public" /\ upload[f].state.offset > 0 =>
             /\ upload'[f].state.mode = "public" /\ upload'[f].state.offset > 0
             /\ upload'[f].state.total = upload[f].state.total
      BY <1>4 DEF Successor
    <2> QED
      BY <1>2, <1>6, <2>1 DEF Receives, State
  <1>9. Received(d)'
    BY <1>2, <1>5, <1>6 DEF Received, State
  <1>10. Unnamed(d)'
    <2>1. \A id \in Referenced(upload'[f].state) : id \in Referenced(upload[f].state) \cup {NoId} \/ id[1] = o
      BY <1>4 DEF Successor
    <2>2. \A id \in Referenced(upload[f].state) : id[1] # w.owner
      BY <1>6 DEF Unnamed, State
    <2>3. NoId[1] # w.owner
      BY <1>3 DEF NoId
    <2> QED
      BY <1>2, <1>3, <2>1, <2>2, <2>3 DEF Unnamed, State
  <1> QED
    BY <1>7, <1>8, <1>9, <1>10, <1>11 DEF RequestKept

\* A step keeps the invariant if it does to the records what a request may do, and the request
\* itself remembers what it should.
LEMMA StepKeeps ==
    ASSUME UploadIInv, UploadTypeOK', NEW c \in UploadClients,
           Touched(writer[c].owner), OthersKeep(c),
           \/ owners' = owners /\ writer'[c].owner \in {0, writer[c].owner}
           \/ owners' = owners + 1 /\ writer'[c].owner = owners',
           writer'[c].owner # 0 <=> writer'[c].at \in AtWork \cup Batch,
           writer'[c].at \in AtWork => \/ upload'[writer'[c].file].owner = writer'[c].owner
                                       \/ /\ writer[c].at \in AtWork /\ writer'[c].file = writer[c].file
                                          /\ writer'[c].owner = writer[c].owner,
           RequestKept(c)'
    PROVE  UploadIInv'
  <1>1. /\ owners \in Nat /\ owners' \in Nat /\ owners <= owners'
        /\ writer \in [UploadClients -> Writer] /\ writer' \in [UploadClients -> Writer]
        /\ upload \in [UploadFiles -> FileUpload] /\ upload' \in [UploadFiles -> FileUpload]
        /\ \A d \in UploadClients : writer[d].owner \in Nat /\ writer'[d].owner \in Nat /\ writer[d].owner <= owners
        /\ \A f \in UploadFiles : upload[f].owner \in Nat /\ upload'[f].owner \in Nat /\ upload[f].owner <= owners
    BY UploadAssumption DEF UploadIInv, UploadTypeOK, LeasesKept, Writer, FileUpload, OwnerId
  <1>2. \A d \in UploadClients \ {c} :
          /\ writer'[d].at = writer[d].at /\ writer'[d].owner = writer[d].owner
          /\ writer'[d].file = writer[d].file
    BY <1>1 DEF OthersKeep, Writer
  <1>3. \A f \in UploadFiles : \/ upload'[f].owner = upload[f].owner \/ upload'[f].owner = 0
                               \/ owners' = owners + 1 /\ upload'[f].owner = owners'
    BY <1>1 DEF Touched, FileUpload
  <1>4. LeasesKept'
    <2>1. \A f \in UploadFiles : upload'[f].owner <= owners'
      BY <1>1, <1>3
    <2>2. ASSUME NEW d \in UploadClients
          PROVE  /\ writer'[d].owner <= owners'
                 /\ writer'[d].owner # 0 <=> writer'[d].at \in AtWork \cup Batch
      BY <1>1, <1>2 DEF UploadIInv, LeasesKept
    <2>3. ASSUME NEW d \in UploadClients, NEW e \in UploadClients,
                 writer'[d].owner = writer'[e].owner, writer'[d].owner # 0
          PROVE  d = e
      <3>1. \A x \in UploadClients, y \in UploadClients :
               writer[x].owner = writer[y].owner /\ writer[x].owner # 0 => x = y
        BY DEF UploadIInv, LeasesKept
      <3> QED
        BY <1>1, <1>2, <2>3, <3>1
    <2>4. ASSUME NEW d \in UploadClients, writer'[d].at \in AtWork
          PROVE  LET o == upload'[writer'[d].file].owner IN o = 0 \/ o >= writer'[d].owner
      <3> DEFINE f == writer'[d].file
      <3>1. f \in UploadFiles
        BY <1>1 DEF Writer
      <3>2. CASE d = c /\ upload'[f].owner = writer'[d].owner
        BY <1>1, <3>1, <3>2
      <3>3. CASE writer[d].at \in AtWork /\ f = writer[d].file /\ writer'[d].owner = writer[d].owner
        <4>1. upload[f].owner = 0 \/ upload[f].owner >= writer[d].owner
          BY <3>3 DEF UploadIInv, LeasesKept
        <4> QED
          BY <1>1, <1>3, <3>1, <3>3, <4>1
      <3> QED
        BY <1>2, <2>4, <3>2, <3>3
    <2> QED
      BY <2>1, <2>2, <2>3, <2>4 DEF LeasesKept
  <1>5. RecordsKept'
    <2> SUFFICES ASSUME NEW f \in UploadFiles
                 PROVE  /\ Consistent(upload'[f].state)
                        /\ \A id \in Referenced(upload'[f].state) : id[1] <= owners'
      BY DEF RecordsKept
    <2>1. /\ Consistent(upload[f].state)
          /\ \A id \in Referenced(upload[f].state) : id[1] <= owners
      BY DEF UploadIInv, RecordsKept
    <2>2. \A id \in Referenced(upload[f].state) : id[1] \in Nat
      BY <1>1, ReferencedTyped DEF FileUpload
    <2>3. NoId[1] = 0
      BY DEF NoId
    <2>4. CASE upload'[f].state = upload[f].state
      BY <1>1, <2>1, <2>2, <2>4
    <2>5. CASE Successor(upload[f].state, upload'[f].state, writer[c].owner)
      BY <1>1, <2>1, <2>2, <2>3, <2>5 DEF Successor
    <2> QED
      BY <1>1, <2>4, <2>5 DEF Touched, FileUpload
  <1>6. RequestsKept'
    <2>1. ASSUME NEW d \in UploadClients, d # c
          PROVE  RequestKept(d)'
      BY <1>1, <2>1, OtherKept DEF OthersKeep
    <2> QED
      BY <2>1 DEF RequestsKept
  <1> QED
    BY <1>4, <1>5, <1>6 DEF UploadIInv

-----------------------------------------------------------------------------
(* What requests make of an upload. *)

\* A state whose parts are those of s refers to no bytes but those of s and to what is published.
LEMMA SameParts ==
    ASSUME NEW s, NEW t, t.parts \in {s.parts, <<>>}
    PROVE  Referenced(t) \subseteq Referenced(s) \cup {t.published}
  <1>1. DOMAIN <<>> = {}
    BY EmptySeq, LenProperties
  <1> QED
    BY <1>1 DEF Referenced

LEMMA ReserveSucceeds ==
    ASSUME NEW s \in Progress, Consistent(s), NEW o,
           s.mode = "none" \/ (s.mode = "public" /\ s.status = "uploading")
    PROVE  LET t == [s EXCEPT !.mode = "public"]
           IN  t \in Progress /\ Successor(s, t, o) /\ t.published = s.published
  <1> DEFINE t == [s EXCEPT !.mode = "public"]
  <1>1. /\ t \in Progress /\ t.parts = s.parts /\ t.published = s.published /\ t.mode = "public"
        /\ t.status = s.status /\ t.offset = s.offset /\ t.total = s.total
    BY DEF Progress
  <1> HIDE DEF t
  <1>2. s.published \in Referenced(s)
    BY DEF Referenced
  <1>3. Referenced(t) \subseteq Referenced(s)
    BY <1>1, <1>2, SameParts
  <1>4. s.mode = "none" => s.published = NoId /\ s.status = "uploading" /\ s.parts = <<>> /\ s.offset = 0
    BY DEF Consistent, NoProgress
  <1>5. Consistent(t)
    BY <1>1, <1>4 DEF Consistent, OnePart, EarlyUpload
  <1> QED
    BY <1>1, <1>3, <1>5 DEF Successor, t

LEMMA ReplacementSucceeds ==
    ASSUME NEW s \in Progress, Consistent(s), NEW o, s.mode # "public", s.status # "retired"
    PROVE  LET t == [NoProgress EXCEPT !.mode = "internal", !.published = s.published]
           IN  /\ t \in Progress /\ Successor(s, t, o) /\ t.published = s.published
               /\ t.parts = <<>> /\ t.offset = 0 /\ t.status = "uploading" /\ t.mode = "internal"
  <1> DEFINE t == [NoProgress EXCEPT !.mode = "internal", !.published = s.published]
  <1>1. t \in Progress
    BY ProgressFacts DEF Progress
  <1>2. /\ t.parts = <<>> /\ t.published = s.published /\ t.mode = "internal"
        /\ t.status = "uploading" /\ t.offset = 0
    BY DEF NoProgress
  <1> HIDE DEF t
  <1>3. s.published \in Referenced(s)
    BY DEF Referenced
  <1>4. Referenced(t) \subseteq Referenced(s)
    BY <1>2, <1>3, SameParts
  <1>5. Consistent(t)
    BY <1>2 DEF Consistent
  <1> QED
    BY <1>1, <1>2, <1>4, <1>5 DEF Successor, t

LEMMA BeginChunkSucceeds ==
    ASSUME NEW s \in Progress, Consistent(s), NEW o, NEW total \in Sizes,
           s.mode = "public", s.status = "uploading", s.total \in {0, total}, s.offset < total
    PROVE  LET t == [s EXCEPT !.total = total]
           IN  /\ t \in Progress /\ Successor(s, t, o) /\ t.published = s.published
               /\ t.mode = "public" /\ t.status = "uploading" /\ t.offset = s.offset /\ t.total = total
               /\ t.parts = s.parts
               /\ s.parts # <<>> => s.offset > 0 /\ t.total = s.total
  <1> DEFINE t == [s EXCEPT !.total = total]
  <1>0. total \in Size /\ total \in Nat /\ s.offset \in Nat /\ s.total \in Nat
    BY UploadAssumption DEF Size, Progress
  <1>1. /\ t \in Progress /\ t.parts = s.parts /\ t.published = s.published /\ t.mode = s.mode
        /\ t.status = s.status /\ t.offset = s.offset /\ t.total = total
    BY <1>0 DEF Progress
  <1> HIDE DEF t
  <1>2. s.published \in Referenced(s)
    BY DEF Referenced
  <1>3. Referenced(t) \subseteq Referenced(s)
    BY <1>1, <1>2, SameParts
  <1>4. s.parts # <<>> => s.offset > 0 /\ s.total > 0
    BY <1>0 DEF Consistent, OnePart, EarlyUpload
  <1>5. s.offset > 0 => s.parts # <<>>
    BY DEF Consistent
  <1>6. Consistent(t)
    BY <1>0, <1>1, <1>4 DEF Consistent, OnePart, EarlyUpload
  <1> QED
    BY <1>0, <1>1, <1>3, <1>4, <1>5, <1>6 DEF Successor, t

LEMMA RetireSucceeds ==
    ASSUME NEW s \in Progress, Consistent(s), NEW o
    PROVE  /\ RetiredState(s) \in Progress /\ Successor(s, RetiredState(s), o)
           /\ RetiredState(s).status = "retired" /\ RetiredState(s).published = NoId
           /\ RetiredState(s).parts = <<>>
           /\ RetiredState(s).mode = "public" <=> s.mode = "public"
  <1> DEFINE t == RetiredState(s)
  <1>1. <<>> \in Seq(Part)
    BY EmptySeq
  <1>2. /\ t \in Progress /\ t.parts = <<>> /\ t.published = NoId /\ t.status = "retired"
        /\ t.mode # "none" /\ (t.mode = "public" <=> s.mode = "public")
        /\ t.offset = s.offset /\ t.total = s.total
    BY <1>1 DEF Progress, RetiredState
  <1>3. Referenced(t) \subseteq Referenced(s) \cup {NoId}
    BY <1>2, SameParts
  <1>4. Consistent(t)
    BY <1>2 DEF Consistent
  <1> QED
    BY <1>2, <1>3, <1>4 DEF Successor

\* What is published was received by the request itself or continues what the record says.
LEMMA PublishSucceeds ==
    ASSUME UploadIInv, NEW c \in UploadClients, writer[c].at = "publish", Fenced(c)
    PROVE  LET w == writer[c]
               t == [w.mine EXCEPT !.published = w.id, !.parts = <<>>, !.total = w.mine.offset,
                                   !.status = "complete"]
           IN  /\ Successor(State(c), t, w.owner)
               /\ w.id # NoId /\ w.id \notin Referenced(State(c)) \ PartIds(State(c))
  <1> DEFINE w == writer[c]
             s == w.mine
             u == State(c)
             t == [s EXCEPT !.published = w.id, !.parts = <<>>, !.total = s.offset, !.status = "complete"]
  <1>1. w \in Writer /\ s \in Progress /\ u \in Progress /\ s.parts \in Seq(Part)
    BY DEF UploadIInv, UploadTypeOK, Writer, FileUpload, State, Progress
  <1>2. w.owner # 0
    BY DEF UploadIInv, LeasesKept, AtWork
  <1>3. /\ s.mode # "none" /\ s.status = "uploading" /\ s.offset > 0
        /\ w.op = "chunk" => s.mode = "public" /\ s.offset = s.total
        /\ \/ w.id = <<w.owner, "blob">>
           \/ Len(s.parts) = 1 /\ s.parts[1].id[2] = "part" /\ w.id = s.parts[1].id
        /\ u.mode = s.mode /\ u.status = "uploading"
        /\ u.published = s.published
        /\ w.op = "chunk" => u.total = s.total
        /\ w.op # "chunk" => u.parts = <<>>
        /\ PartIds(s) \subseteq PartIds(u) \cup {<<w.owner, "part">>}
    <2>1. Received(c) /\ writer[c].at \in Late
      BY DEF UploadIInv, RequestsKept, RequestKept, Late
    <2>2. w.id = <<w.owner, "blob">> \/ (Len(s.parts) = 1 /\ s.parts[1].id[2] = "part" /\ w.id = s.parts[1].id)
      BY <2>1 DEF Received, OnePart
    <2> QED
      BY <2>1, <2>2 DEF Received
  <1>4. Consistent(u) /\ (\A id \in Referenced(u) : id[1] # w.owner)
    BY DEF UploadIInv, RequestsKept, RequestKept, RecordsKept, Unnamed, Late, State, Writer, UploadTypeOK
  <1>5. /\ t.parts = <<>> /\ t.published = w.id /\ t.mode = s.mode /\ t.status = "complete"
        /\ t.offset = s.offset /\ t.total = s.offset
    BY <1>1 DEF Progress
  <1> HIDE DEF t
  <1>6. w.id # NoId /\ w.id \in PartIds(u) \cup {<<w.owner, "part">>, <<w.owner, "blob">>}
    <2>1. CASE w.id = <<w.owner, "blob">>
      BY <1>2, <2>1 DEF NoId
    <2>2. CASE Len(s.parts) = 1 /\ s.parts[1].id[2] = "part" /\ w.id = s.parts[1].id
      <3>1. 1 \in DOMAIN s.parts
        BY <1>1, <2>2, LenProperties
      <3>2. s.parts[1].id \in PartIds(s)
        BY <3>1 DEF PartIds
      <3> QED
        BY <1>3, <2>2, <3>2 DEF NoId
    <2> QED
      BY <1>3, <2>1, <2>2
  <1>7. w.id \in Referenced(u) => w.id \in PartIds(u)
    <2>1. <<w.owner, "part">>[1] = w.owner /\ <<w.owner, "blob">>[1] = w.owner
      OBVIOUS
    <2> QED
      BY <1>4, <1>6, <2>1
  <1>8. \A id \in Referenced(t) : id \in Referenced(u) \cup {NoId} \/ id[1] = w.owner
    <2>1. PartIds(u) \subseteq Referenced(u)
      BY DEF PartIds, Referenced
    <2>2. DOMAIN t.parts = {}
      BY <1>5, EmptySeq, LenProperties
    <2>3. Referenced(t) = {w.id}
      BY <1>5, <2>2 DEF Referenced
    <2>4. <<w.owner, "part">>[1] = w.owner /\ <<w.owner, "blob">>[1] = w.owner
      OBVIOUS
    <2> QED
      BY <1>6, <2>1, <2>3, <2>4
  <1>9. u.mode = "public" /\ u.offset > 0 => t.mode = "public" /\ t.offset > 0 /\ t.total = u.total
    <2>1. u.offset \in Nat
      BY <1>1, UploadAssumption DEF Progress, Size
    <2>2. u.offset > 0 => u.parts # <<>>
      BY <1>3, <1>4, <2>1 DEF Consistent
    <2> QED
      BY <1>3, <1>5, <2>2
  <1>10. Consistent(t)
    BY <1>3, <1>5, <1>6 DEF Consistent
  <1> QED
    BY <1>6, <1>7, <1>8, <1>9, <1>10 DEF Successor, t

\* So is what is committed.
LEMMA CommitSucceeds ==
    ASSUME UploadIInv, NEW c \in UploadClients, writer[c].at = "commit"
    PROVE  Consistent(writer[c].mine) /\ (Fenced(c) => Successor(State(c), writer[c].mine, writer[c].owner))
  <1> DEFINE w == writer[c]
             s == w.mine
             u == State(c)
  <1>1. w \in Writer /\ s \in Progress /\ u \in Progress /\ s.parts \in Seq(Part)
    BY DEF UploadIInv, UploadTypeOK, Writer, FileUpload, State, Progress
  <1>2. /\ s.mode = "public" /\ s.status = "uploading" /\ s.offset > 0 /\ OnePart(s)
        /\ s.published = NoId /\ s.offset <= s.total
        /\ Fenced(c) => u.total = s.total /\ PartIds(s) \subseteq PartIds(u) \cup {<<w.owner, "part">>}
    BY DEF UploadIInv, RequestsKept, RequestKept, Received, Late
  <1>3. Consistent(s)
    <2>1. Len(<<>>) = 0
      BY EmptySeq
    <2> QED
      BY <1>2, <2>1 DEF Consistent, OnePart
  <1>4. Fenced(c) => \A id \in Referenced(s) : id \in Referenced(u) \cup {NoId} \/ id[1] = w.owner
    <2>1. PartIds(u) \subseteq Referenced(u) /\ Referenced(s) = PartIds(s) \cup {NoId}
      BY <1>2 DEF PartIds, Referenced
    <2>2. <<w.owner, "part">>[1] = w.owner
      OBVIOUS
    <2> QED
      BY <1>2, <2>1, <2>2
  <1> QED
    BY <1>2, <1>3, <1>4 DEF Successor

\* What a save of s by request c, which is w then, does.
SaveDone(c, s, w) ==
    /\ upload' \in [UploadFiles -> FileUpload] /\ writer' \in [UploadClients -> Writer]
    /\ Touched(writer[c].owner) /\ OthersKeep(c)
    /\ writer'[c].file = writer[c].file /\ writer'[c].owner = writer[c].owner
    /\ \A f \in UploadFiles : upload'[f].owner = upload[f].owner /\ upload'[f].live = upload[f].live
    /\ \A f \in UploadFiles : f # w.file => upload'[f] = upload[f]
    /\ Fenced(c) => /\ upload'[w.file].state = s
                    /\ writer'[c] = IF w.at = "close" THEN Closing(w) ELSE [w EXCEPT !.mine = s]
    /\ ~Fenced(c) => upload' = upload /\ writer'[c].at = "close"
    /\ writer'[c].at \in {"close", w.at} /\ writer'[c].op = w.op
    /\ \A d \in UploadClients : d # c => writer'[d] = writer[d]

\* A save, fenced or not, is a step of a request as others see it.
LEMMA SaveFacts ==
    ASSUME UploadIInv, NEW c \in UploadClients, NEW s \in Progress, NEW w \in Writer,
           w.file = writer[c].file, w.owner = writer[c].owner, writer[c].at \in AtWork,
           Save(c, s, w), Fenced(c) => Successor(State(c), s, w.owner)
    PROVE  SaveDone(c, s, w)
  <1>1. /\ upload \in [UploadFiles -> FileUpload] /\ writer \in [UploadClients -> Writer]
        /\ w.file \in UploadFiles
    BY DEF UploadIInv, UploadTypeOK, Writer
  <1>2. upload' = [upload EXCEPT ![w.file].state = IF Fenced(c) THEN s ELSE upload[w.file].state]
    BY DEF Save
  <1>3. /\ upload' \in [UploadFiles -> FileUpload]
        /\ \A f \in UploadFiles : upload'[f].owner = upload[f].owner /\ upload'[f].live = upload[f].live
        /\ \A f \in UploadFiles : f # w.file => upload'[f] = upload[f]
        /\ upload'[w.file].state = IF Fenced(c) THEN s ELSE upload[w.file].state
    BY <1>1, <1>2 DEF FileUpload
  <1>4. ~Fenced(c) => upload' = upload
    BY <1>1, <1>2, <1>3 DEF FileUpload
  <1> DEFINE v == [w EXCEPT !.todo = {}]
             x == IF ~Fenced(c) THEN Closing(v) ELSE IF w.at = "close" THEN Closing(w) ELSE [w EXCEPT !.mine = s]
  <1>5. v \in Writer /\ v.file = w.file /\ v.owner = w.owner /\ v.op = w.op
    BY DEF Writer
  <1>6. [w EXCEPT !.mine = s] \in Writer
    BY DEF Writer
  <1>7. x \in Writer /\ x.file = w.file /\ x.owner = w.owner /\ x.at \in {"close", w.at}
        /\ (~Fenced(c) => x.at = "close") /\ x.op = w.op
    <2> HIDE DEF v
    <2>1. CASE ~Fenced(c)
      BY <1>5, <2>1, ClosingFacts
    <2>2. CASE Fenced(c) /\ w.at = "close"
      BY <2>2, ClosingFacts
    <2>3. CASE Fenced(c) /\ w.at # "close"
      BY <1>6, <2>3 DEF Writer
    <2> QED
      BY <2>1, <2>2, <2>3
  <1>8. writer' = [writer EXCEPT ![c] = x]
    BY DEF Save
  <1> HIDE DEF v, x
  <1>9. /\ writer' \in [UploadClients -> Writer] /\ writer'[c] = x
        /\ \A d \in UploadClients \ {c} : writer'[d] = writer[d]
    BY <1>1, <1>7, <1>8
  <1>10. OthersKeep(c)
    <2>1. \A d \in UploadClients : writer[d].moved \in 0..2 /\ writer[d] = [writer[d] EXCEPT !.moved = writer[d].moved]
      BY <1>1 DEF Writer
    <2> QED
      BY <1>9, <2>1 DEF OthersKeep
  <1>11. Touched(writer[c].owner)
    <2> SUFFICES ASSUME NEW f \in UploadFiles, upload'[f] # upload[f]
                 PROVE  /\ w.owner # 0 /\ upload[f].owner = w.owner
                        /\ upload'[f].owner \in {0, w.owner} /\ upload'[f].live = upload[f].live
                        /\ Successor(upload[f].state, upload'[f].state, w.owner)
      BY DEF Touched
    <2>1. f = w.file /\ Fenced(c)
      BY <1>3, <1>4
    <2>2. w.owner # 0
      BY DEF UploadIInv, LeasesKept
    <2> QED
      BY <1>3, <2>1, <2>2 DEF Fenced, State
  <1> QED
    BY <1>3, <1>4, <1>7, <1>9, <1>10, <1>11 DEF x, SaveDone

-----------------------------------------------------------------------------
(* The steps of the first invariant. *)

\* Stored bytes are sequences of bounded length.
LEMMA DataFacts ==
    /\ <<>> \in Data
    /\ \A d \in Data : d \in Seq(Contents) /\ Len(d) \in Nat /\ Len(d) <= MAX_BYTES
    /\ \A d \in Seq(Contents) : Len(d) <= MAX_BYTES => d \in Data
  <1>1. \A d \in Seq(Contents) : Len(d) <= MAX_BYTES => d \in Data
    <2> SUFFICES ASSUME NEW d \in Seq(Contents), Len(d) <= MAX_BYTES PROVE d \in Data
      OBVIOUS
    <2>1. Len(d) \in 0..MAX_BYTES /\ d \in [1..Len(d) -> Contents]
      BY LenProperties, UploadAssumption
    <2> QED
      BY <2>1 DEF Data
  <1>2. <<>> \in Data
    <2>1. <<>> \in Seq(Contents) /\ Len(<<>>) = 0
      BY EmptySeq
    <2>2. Len(<<>>) <= MAX_BYTES
      BY <2>1, UploadAssumption
    <2> QED
      BY <1>1, <2>1, <2>2, Zenon
  <1>3. ASSUME NEW d \in Data
        PROVE  d \in Seq(Contents) /\ Len(d) \in Nat /\ Len(d) <= MAX_BYTES
    <2>1. PICK n \in 0..MAX_BYTES : d \in [1..n -> Contents]
      BY DEF Data
    <2>2. n \in Nat /\ n <= MAX_BYTES
      BY <2>1, UploadAssumption
    <2>3. d \in Seq(Contents)
      BY <2>1, <2>2, SeqDef
    <2>4. DOMAIN d = 1..Len(d) /\ Len(d) \in Nat
      BY <2>3, LenProperties
    <2>5. Len(d) = n
      BY <2>1, <2>2, <2>4
    <2> QED
      BY <2>2, <2>3, <2>5
  <1> QED
    BY <1>1, <1>2, <1>3

\* A request that is neither early nor late in an upload has nothing to remember.
LEMMA Rests ==
    ASSUME NEW c, writer'[c].at \notin Early \cup Late, Looks(c)'
    PROVE  RequestKept(c)'
  BY DEF RequestKept, Remembers, Receives, Received, Unnamed, Early, Late

LEMMA BecomesFacts ==
    ASSUME UploadIInv, NEW c \in UploadClients, NEW v \in Writer, writer' = [writer EXCEPT ![c] = v]
    PROVE  /\ writer' \in [UploadClients -> Writer] /\ writer'[c] = v
           /\ OthersKeep(c)
           /\ \A d \in UploadClients : d # c => writer'[d] = writer[d]
  <1>1. writer \in [UploadClients -> Writer]
    BY DEF UploadIInv, UploadTypeOK
  <1>2. \A d \in UploadClients : writer[d].moved \in 0..2 /\ writer[d] = [writer[d] EXCEPT !.moved = writer[d].moved]
    BY <1>1 DEF Writer
  <1> QED
    BY <1>1, <1>2 DEF OthersKeep

\* A request goes on and the records stay as they are.
LEMMA Passes ==
    ASSUME UploadIInv, NEW c \in UploadClients, NEW v \in Writer, writer' = [writer EXCEPT ![c] = v],
           UNCHANGED <<upload, owners, lapses>>, bytes' \in [UploadFiles -> [ByteId -> Data]],
           plain' \subseteq UploadFiles,
           v.owner # 0 <=> v.at \in AtWork \cup Batch,
           v.owner \in {0, writer[c].owner},
           v.at \in AtWork => writer[c].at \in AtWork /\ v.file = writer[c].file,
           RequestKept(c)'
    PROVE  UploadIInv'
  <1>1. /\ writer' \in [UploadClients -> Writer] /\ writer'[c] = v /\ OthersKeep(c)
    BY BecomesFacts
  <1>2. UploadTypeOK'
    BY <1>1 DEF UploadIInv, UploadTypeOK
  <1>3. Touched(writer[c].owner)
    BY DEF Touched
  <1>4. v.at \in AtWork => v.owner = writer[c].owner
    OBVIOUS
  <1> QED
    BY <1>1, <1>2, <1>3, <1>4, StepKeeps

\* What a request is, and that it holds a lease exactly as its place says.
LEMMA WriterFacts ==
    ASSUME UploadIInv, NEW c \in UploadClients
    PROVE  /\ writer[c] \in Writer /\ writer[c].file \in UploadFiles /\ writer[c].owner \in Nat
           /\ writer[c].owner # 0 <=> writer[c].at \in AtWork \cup Batch
           /\ upload[writer[c].file] \in FileUpload /\ State(c) \in Progress /\ Consistent(State(c))
           /\ bytes[writer[c].file] \in [ByteId -> Data]
           /\ Remembers(c) /\ Receives(c) /\ Received(c) /\ Unnamed(c) /\ Looks(c)
  BY UploadAssumption DEF RequestKept, UploadIInv, UploadTypeOK, Writer, OwnerId, LeasesKept, State, FileUpload, RecordsKept, RequestsKept

\* A request that asks for a file notes what it finds of it.
LEMMA OpeningFacts ==
    ASSUME NEW w \in Writer, NEW f \in UploadFiles
    PROVE  /\ Opening(w, f) \in Writer /\ Opening(w, f).at = "open" /\ Opening(w, f).owner = w.owner
           /\ Opening(w, f).file = f /\ Opening(w, f).op = w.op
  <1>1. Stored(f) \in SUBSET ByteId
    BY DEF Stored
  <1> QED
    BY <1>1 DEF Opening, Writer, WriterPC

LEMMA AskSteps ==
    ASSUME UploadIInv, NEW c \in UploadClients,
           Call(c) \/ GiveUp(c) \/ DeleteNext(c) \/ BeginRead(c) \/ ResolvePointer(c) \/ FetchBytes(c)
    PROVE  UploadIInv'
  <1>1. writer[c] \in Writer /\ writer[c].file \in UploadFiles
        /\ (writer[c].owner # 0 <=> writer[c].at \in AtWork \cup Batch)
    BY WriterFacts
  <1>2. UNCHANGED <<upload, bytes, plain, owners, lapses>>
    BY DEF Call, GiveUp, DeleteNext, BeginRead, ResolvePointer, FetchBytes
  <1>3. ASSUME NEW v \in Writer, writer' = [writer EXCEPT ![c] = v], v.owner = 0,
               v.at \notin AtWork \cup Batch, v.at \in {"resolve", "fetch"} => v.tries <= 1
        PROVE  UploadIInv'
    <2>1. writer'[c] = v
      BY <1>3, BecomesFacts
    <2>2. Looks(c)'
      BY <1>3, <2>1 DEF Looks
    <2>3. RequestKept(c)'
      BY <1>3, <2>1, <2>2, Rests DEF AtWork, Early, Late
    <2> QED
      BY <1>2, <1>3, <2>3, Passes DEF UploadIInv, UploadTypeOK
  <1>4. CASE Call(c)
    <2>1. PICK op \in UploadOps \ {"bulk", "read"}, f \in UploadFiles :
             writer' = [writer EXCEPT ![c] = Opening([NoWriter(f) EXCEPT !.op = op], f)]
      BY <1>4 DEF Call
    <2>2. [NoWriter(f) EXCEPT !.op = op] \in Writer /\ [NoWriter(f) EXCEPT !.op = op].owner = 0
      BY NoWriterFacts DEF Writer
    <2> QED
      BY <1>3, <2>1, <2>2, OpeningFacts DEF AtWork, Batch
  <1>5. CASE GiveUp(c)
    BY <1>1, <1>3, <1>5, NoWriterFacts DEF GiveUp, AtWork, Batch
  <1>6. CASE DeleteNext(c)
    <2>1. PICK f \in writer[c].todo :
             writer' = [writer EXCEPT ![c] = Opening([writer[c] EXCEPT !.todo = @ \ {f}], f)]
      BY <1>6 DEF DeleteNext
    <2> DEFINE w == [writer[c] EXCEPT !.todo = writer[c].todo \ {f}]
               v == Opening(w, f)
    <2>2. w \in Writer /\ f \in UploadFiles /\ w.owner = writer[c].owner
      BY <1>1 DEF Writer
    <2>3. writer[c].owner = 0
      BY <1>1, <1>6 DEF DeleteNext, AtWork, Batch
    <2>4. writer' = [writer EXCEPT ![c] = v]
      BY <2>1
    <2> HIDE DEF w
    <2>5. v \in Writer /\ v.owner = 0 /\ v.at = "open"
      BY <2>2, <2>3, OpeningFacts
    <2> HIDE DEF v
    <2> QED
      BY <1>3, <2>4, <2>5 DEF AtWork, Batch
  <1>7. CASE BeginRead(c)
    <2>1. PICK f \in UploadFiles : writer' = [writer EXCEPT ![c] = [NoWriter(f) EXCEPT
                    !.op = "read", !.at = "resolve", !.had = Visible(f) # <<>>]]
      BY <1>7 DEF BeginRead
    <2> DEFINE v == [NoWriter(f) EXCEPT !.op = "read", !.at = "resolve", !.had = Visible(f) # <<>>]
    <2>2. \A b \in BOOLEAN : LET x == [NoWriter(f) EXCEPT !.op = "read", !.at = "resolve", !.had = b]
                            IN  x \in Writer /\ x.owner = 0 /\ x.at = "resolve" /\ x.tries = 0
      BY <1>7, NoWriterFacts DEF Writer, WriterPC, BeginRead, NoWriter
    <2>3. v \in Writer /\ v.owner = 0 /\ v.at = "resolve" /\ v.tries = 0
      BY <2>2, Zenon
    <2>4. writer' = [writer EXCEPT ![c] = v]
      BY <2>1
    <2> HIDE DEF v
    <2>5. v.at \notin AtWork \cup Batch /\ v.tries <= 1
      BY <2>3 DEF AtWork, Batch
    <2> QED
      BY <1>3, <2>3, <2>4, <2>5
  <1>8. CASE ResolvePointer(c)
    <2> DEFINE v == IF State(c).status = "retired" \/ (State(c).mode = "public" /\ State(c).published = NoId)
                    THEN [writer[c] EXCEPT !.at = "missing"]
                    ELSE [writer[c] EXCEPT !.at = "fetch", !.id = State(c).published]
    <2>1. /\ v \in Writer /\ v.owner = writer[c].owner /\ v.at \in {"missing", "fetch"}
          /\ v.tries = writer[c].tries
      BY <1>1, WriterFacts DEF Writer, WriterPC, Progress
    <2>2. writer' = [writer EXCEPT ![c] = v]
      BY <1>8 DEF ResolvePointer, State
    <2>3. writer[c].owner = 0 /\ writer[c].tries <= 1
      BY <1>1, <1>8, WriterFacts DEF ResolvePointer, AtWork, Batch, Looks
    <2> HIDE DEF v
    <2> QED
      BY <1>3, <2>1, <2>2, <2>3 DEF AtWork, Batch
  <1>9. CASE FetchBytes(c)
    <2>1. writer[c].owner = 0 /\ writer[c].tries \in 0..1
      BY <1>1, <1>9, WriterFacts DEF FetchBytes, AtWork, Batch, Writer, Looks
    <2>2. CASE writer' = [writer EXCEPT ![c] = NoWriter(writer[c].file)]
      BY <1>1, <1>3, <2>2, NoWriterFacts DEF AtWork, Batch
    <2>3. \A a \in {"resolve", "missing"}, n \in 0..2 :
             LET x == [writer[c] EXCEPT !.at = a, !.tries = n]
             IN  x \in Writer /\ x.owner = writer[c].owner /\ x.at = a /\ x.tries = n
      BY <1>1 DEF Writer, WriterPC
    <2>4. CASE writer[c].tries = 0 /\ writer' = [writer EXCEPT ![c] = [writer[c] EXCEPT !.at = "resolve", !.tries = 1]]
      <3> DEFINE v == [writer[c] EXCEPT !.at = "resolve", !.tries = 1]
      <3>1. v \in Writer /\ v.owner = 0 /\ v.at = "resolve" /\ v.tries = 1
        BY <2>1, <2>3
      <3>2. writer' = [writer EXCEPT ![c] = v]
        BY <2>4
      <3> HIDE DEF v
      <3>3. v.at \notin AtWork \cup Batch /\ (v.at \in {"resolve", "fetch"} => v.tries <= 1)
        BY <3>1 DEF AtWork, Batch
      <3> QED
        BY <1>3, <3>1, <3>2, <3>3
    <2>5. CASE writer[c].tries = 1 /\ writer' = [writer EXCEPT ![c] = [writer[c] EXCEPT !.at = "missing", !.tries = 2]]
      <3> DEFINE v == [writer[c] EXCEPT !.at = "missing", !.tries = 2]
      <3>1. v \in Writer /\ v.owner = 0 /\ v.at = "missing"
        BY <2>1, <2>3
      <3>2. writer' = [writer EXCEPT ![c] = v]
        BY <2>5
      <3> HIDE DEF v
      <3>3. v.at \notin AtWork \cup Batch /\ (v.at \in {"resolve", "fetch"} => v.tries <= 1)
        BY <3>1 DEF AtWork, Batch
      <3> QED
        BY <1>3, <3>1, <3>2, <3>3
    <2>6. writer[c].tries = 0 \/ writer[c].tries = 1
      BY <2>1
    <2> DEFINE there == IF writer[c].id = NoId THEN writer[c].file \in plain
                       ELSE bytes[writer[c].file][writer[c].id] # <<>>
               v == [writer[c] EXCEPT !.at = IF writer[c].tries = 0 THEN "resolve" ELSE "missing",
                                      !.tries = writer[c].tries + 1]
    <2>7. writer' = [writer EXCEPT ![c] = IF there THEN NoWriter(writer[c].file) ELSE v]
      BY <1>9 DEF FetchBytes
    <2>8. CASE there
      BY <2>2, <2>7, <2>8, Zenon
    <2>9. CASE ~there /\ writer[c].tries = 0
      <3>1. v = [writer[c] EXCEPT !.at = "resolve", !.tries = 1]
        BY <2>9
      <3> QED
        BY <2>4, <2>7, <2>9, <3>1, Zenon
    <2>10. CASE ~there /\ writer[c].tries = 1
      <3>1. v = [writer[c] EXCEPT !.at = "missing", !.tries = 2]
        BY <2>10
      <3> QED
        BY <2>5, <2>7, <2>10, <3>1, Zenon
    <2> QED
      BY <2>6, <2>8, <2>9, <2>10, Zenon
  <1> QED
    BY <1>4, <1>5, <1>6, <1>7, <1>8, <1>9

\* Bytes are removed.
LEMMA WipeTyped ==
    ASSUME UploadIInv, NEW f \in UploadFiles, NEW S,
           bytes' = [bytes EXCEPT ![f] = [id \in ByteId |-> IF id \in S THEN <<>> ELSE bytes[f][id]]]
    PROVE  bytes' \in [UploadFiles -> [ByteId -> Data]]
  <1>1. bytes \in [UploadFiles -> [ByteId -> Data]] /\ <<>> \in Data
    BY DataFacts DEF UploadIInv, UploadTypeOK
  <1>2. [id \in ByteId |-> IF id \in S THEN <<>> ELSE bytes[f][id]] \in [ByteId -> Data]
    BY <1>1
  <1> QED
    BY <1>1, <1>2

\* A request that has a lease has only to give it back.
LEMMA Closes ==
    ASSUME UploadIInv, NEW c \in UploadClients, writer[c].at \in AtWork, NEW x \in Writer,
           x.owner = writer[c].owner, x.file = writer[c].file,
           writer' = [writer EXCEPT ![c] = Closing(x)],
           UNCHANGED <<upload, owners, lapses>>, bytes' \in [UploadFiles -> [ByteId -> Data]],
           plain' \subseteq UploadFiles
    PROVE  UploadIInv'
  <1>1. writer[c].owner # 0
    BY WriterFacts
  <1> DEFINE v == Closing(x)
  <1>2. /\ v \in Writer /\ v.file = writer[c].file /\ v.owner = writer[c].owner /\ v.at = "close"
        /\ writer' = [writer EXCEPT ![c] = v]
    BY ClosingFacts
  <1> HIDE DEF v
  <1>3. writer'[c] = v
    BY <1>2, BecomesFacts
  <1>4. RequestKept(c)'
    BY <1>2, <1>3, Rests DEF Looks, Early, Late
  <1>5. v.at \in AtWork
    BY <1>2 DEF AtWork
  <1> QED
    BY <1>1, <1>2, <1>4, <1>5, Passes

LEMMA ClosingSteps ==
    ASSUME UploadIInv, NEW c \in UploadClients, FailUpload(c) \/ UploadAgain(c) \/ RemoveBytes(c)
    PROVE  UploadIInv'
  <1>1. writer[c] \in Writer /\ writer[c].file \in UploadFiles
    BY WriterFacts
  <1>2. writer[c].at \in AtWork
    BY DEF FailUpload, UploadAgain, RemoveBytes, AtWork
  <1>3. bytes \in [UploadFiles -> [ByteId -> Data]] /\ plain \subseteq UploadFiles
    BY DEF UploadIInv, UploadTypeOK
  <1>4. CASE FailUpload(c)
    <2> DEFINE x == [writer[c] EXCEPT !.todo = {}]
    <2>1. x \in Writer /\ x.owner = writer[c].owner /\ x.file = writer[c].file
      BY <1>1 DEF Writer
    <2>2. writer' = [writer EXCEPT ![c] = Closing(x)] /\ UNCHANGED <<upload, bytes, plain, owners, lapses>>
      BY <1>4 DEF FailUpload
    <2> HIDE DEF x
    <2> QED
      BY <1>2, <1>3, <2>1, <2>2, Closes
  <1>5. CASE UploadAgain(c)
    BY <1>1, <1>2, <1>3, <1>5, Closes DEF UploadAgain
  <1>6. CASE RemoveBytes(c)
    <2>1. /\ bytes' = [bytes EXCEPT ![writer[c].file] =
                [id \in ByteId |-> IF id \in writer[c].found THEN <<>> ELSE bytes[writer[c].file][id]]]
          /\ plain' = plain \ {writer[c].file}
          /\ writer' = [writer EXCEPT ![c] = Closing(writer[c])]
          /\ UNCHANGED <<upload, owners, lapses>>
      BY <1>6 DEF RemoveBytes
    <2>2. bytes' \in [UploadFiles -> [ByteId -> Data]]
      BY <1>1, <2>1, WipeTyped
    <2>3. plain' \subseteq UploadFiles
      BY <1>3, <2>1
    <2> QED
      BY <1>1, <1>2, <2>1, <2>2, <2>3, Closes
  <1> QED
    BY <1>4, <1>5, <1>6

\* A request goes on with what it read.
LEMMA CollectSteps ==
    ASSUME UploadIInv, NEW c \in UploadClients, CollectBytes(c) \/ BeginWhole(c)
    PROVE  UploadIInv'
  <1>1. /\ writer[c] \in Writer /\ writer[c].file \in UploadFiles
        /\ (writer[c].owner # 0 <=> writer[c].at \in AtWork \cup Batch)
        /\ Remembers(c) /\ Unnamed(c)
    BY WriterFacts
  <1>2. bytes \in [UploadFiles -> [ByteId -> Data]] /\ plain \subseteq UploadFiles
        /\ writer \in [UploadClients -> Writer]
    BY DEF UploadIInv, UploadTypeOK
  <1>3. CASE CollectBytes(c)
    <2> DEFINE v == [writer[c] EXCEPT !.at = "owned", !.found = {}]
    <2>1. /\ v \in Writer /\ v.owner = writer[c].owner /\ v.file = writer[c].file
          /\ v.at = "owned" /\ v.mine = writer[c].mine
      BY <1>1 DEF Writer, WriterPC
    <2>2. writer' = [writer EXCEPT ![c] = v]
      BY <1>2, <1>3 DEF CollectBytes, Writer
    <2>3. UNCHANGED <<upload, plain, owners, lapses>> /\ writer[c].at = "collect"
      BY <1>3 DEF CollectBytes
    <2>4. bytes' = [bytes EXCEPT ![writer[c].file] = [id \in ByteId |->
                      IF id \in writer[c].found \ Referenced(writer[c].mine) THEN <<>>
                      ELSE bytes[writer[c].file][id]]]
      BY <1>3 DEF CollectBytes
    <2>5. bytes' \in [UploadFiles -> [ByteId -> Data]]
      BY <1>1, <2>4, WipeTyped
    <2> HIDE DEF v
    <2>6. writer'[c] = v
      BY <2>1, <2>2, BecomesFacts
    <2>7. RequestKept(c)'
      BY <1>1, <2>1, <2>3, <2>6
         DEF RequestKept, Remembers, Receives, Received, Unnamed, Looks, Fenced, State, Early, Late
    <2> QED
      BY <1>1, <1>2, <2>1, <2>2, <2>3, <2>5, <2>7, Passes DEF AtWork, Batch
  <1>4. CASE BeginWhole(c)
    <2>1. PICK end \in Sizes : writer' = [writer EXCEPT ![c].at = "receive", ![c].end = end]
      BY <1>4 DEF BeginWhole
    <2> DEFINE v == [writer[c] EXCEPT !.at = "receive", !.end = end]
               s == writer[c].mine
    <2>2. end \in Size /\ end > 0
      BY UploadAssumption DEF Size
    <2>3. /\ v \in Writer /\ v.owner = writer[c].owner /\ v.file = writer[c].file /\ v.end = end
          /\ v.at = "receive" /\ v.mine = s /\ v.op = writer[c].op
      BY <1>1, <2>2 DEF Writer, WriterPC
    <2>4. writer' = [writer EXCEPT ![c] = v]
      BY <1>2, <2>1 DEF Writer
    <2>5. /\ UNCHANGED <<upload, bytes, plain, owners, lapses>> /\ writer[c].at = "owned"
          /\ writer[c].op = "whole" /\ s.mode = "public" /\ s.status = "uploading" /\ s.offset = 0
      BY <1>4 DEF BeginWhole
    <2> HIDE DEF v
    <2>6. writer'[c] = v
      BY <2>3, <2>4, BecomesFacts
    <2>7. s.parts = <<>>
      BY <1>1, <2>5 DEF Remembers, Early, Consistent, OnePart, EarlyUpload
    <2>8. Receives(c)'
      BY <2>2, <2>3, <2>5, <2>6, <2>7 DEF Receives
    <2>9. Remembers(c)' /\ Unnamed(c)' /\ Received(c)' /\ Looks(c)'
      BY <1>1, <2>3, <2>5, <2>6
         DEF Remembers, Received, Unnamed, Looks, Fenced, State, Early, Late
    <2> QED
      BY <1>1, <1>2, <2>3, <2>4, <2>5, <2>8, <2>9, Passes DEF AtWork, Batch, RequestKept
  <1> QED
    BY <1>3, <1>4

\* What parts hold is joined.
LEMMA JoinedFacts ==
    ASSUME NEW d \in Seq(Contents), NEW e \in Seq(Contents)
    PROVE  d \o e \in Seq(Contents) /\ Len(d \o e) = Len(d) + Len(e)
  BY ConcatProperties

\* What has been received so far and what is received now are one part, or the three of an upload
\* that an older release began.
LEMMA ReceivedParts ==
    ASSUME UploadIInv, NEW c \in UploadClients, writer[c].at = "receive"
    PROVE  LET w == writer[c]
               s == w.mine
               id == IF Extending(s) THEN s.parts[1].id ELSE <<w.owner, "part">>
               parts == IF Extending(s) THEN <<[id |-> id, size |-> w.end]>>
                        ELSE Append(s.parts, [id |-> id, size |-> w.end - s.offset])
           IN  /\ id \in ByteId
               /\ parts \in Seq(Part)
               /\ parts # <<>>
               /\ \A i \in DOMAIN parts : parts[i].id \in PartIds(s) \cup {<<w.owner, "part">>}
               /\ \/ Len(parts) = 1 /\ parts[1].size = w.end /\ parts[1].id[2] = "part"
                  \/ /\ w.op = "chunk" /\ w.end = 3 /\ s.total = 3
                     /\ parts = <<[id |-> EarlyParts[1], size |-> 1], [id |-> EarlyParts[2], size |-> 1],
                                  [id |-> <<w.owner, "part">>, size |-> 1]>>
  <1> DEFINE w == writer[c]
             s == w.mine
             id == IF Extending(s) THEN s.parts[1].id ELSE <<w.owner, "part">>
             new == [id |-> <<w.owner, "part">>, size |-> w.end - s.offset]
             parts == IF Extending(s) THEN <<[id |-> id, size |-> w.end]>>
                      ELSE Append(s.parts, [id |-> id, size |-> w.end - s.offset])
  <1>1. /\ w \in Writer /\ s \in Progress /\ s.parts \in Seq(Part) /\ w.owner # 0
        /\ Consistent(s) /\ s.status = "uploading" /\ s.offset < w.end
        /\ (w.op = "chunk" => w.end <= s.total)
        /\ (w.op # "chunk" => s.parts = <<>>)
        /\ w.op \in {"whole", "chunk", "internal"}
    BY WriterFacts DEF Remembers, Receives, Writer, Progress, AtWork, Early
  <1>2. /\ s.offset \in Nat /\ w.end \in Nat /\ w.end <= MAX_BYTES /\ w.owner \in 1..MaxOwners
        /\ s.total \in Nat
    BY <1>1, UploadAssumption DEF Writer, Progress, Size, OwnerId
  <1>3. <<w.owner, "part">> \in ByteId /\ w.end \in Size /\ w.end - s.offset \in Size
    BY <1>1, <1>2, UploadAssumption DEF ByteId, Size
  <1>4. new \in Part
    BY <1>3 DEF Part
  <1>5. CASE Extending(s)
    <2>1. Len(s.parts) = 1 /\ 1 \in DOMAIN s.parts
      BY <1>1, <1>5, LenProperties DEF Extending
    <2>2. s.parts # <<>>
      BY <2>1, EmptySeq
    <2>3. s.parts[1] \in Part /\ s.parts[1].id \in ByteId /\ s.parts[1].id \in PartIds(s)
      BY <1>1, <2>1, ReferencedTyped DEF Part, PartIds
    <2>4. s.parts[1].id[2] = "part"
      <3>1. CASE OnePart(s)
        BY <3>1 DEF OnePart
      <3>2. CASE EarlyUpload(s)
        <4>1. Len(s.parts) = 2
          BY <1>1, <3>2, LenProperties DEF EarlyUpload
        <4> QED
          BY <2>1, <4>1
      <3> QED
        BY <1>1, <2>2, <3>1, <3>2 DEF Consistent
    <2> DEFINE e == [id |-> s.parts[1].id, size |-> w.end]
    <2>5. e \in Part /\ e.id = s.parts[1].id /\ e.size = w.end
      BY <1>3, <2>3 DEF Part
    <2>6. parts = <<e>>
      BY <1>5
    <2> HIDE DEF e
    <2>7. <<e>> \in Seq(Part) /\ Len(<<e>>) = 1 /\ <<e>>[1] = e /\ DOMAIN <<e>> = {1} /\ <<e>> # <<>>
      BY <2>5, EmptySeq
    <2> HIDE DEF parts
    <2> QED
      BY <1>5, <2>3, <2>4, <2>5, <2>6, <2>7 DEF parts
  <1>6. CASE ~Extending(s)
    <2>1. parts = Append(s.parts, new)
      BY <1>6
    <2> HIDE DEF new, parts
    <2>2. /\ parts \in Seq(Part) /\ Len(parts) = Len(s.parts) + 1
          /\ \A i \in 1..Len(s.parts) : parts[i] = s.parts[i]
          /\ parts[Len(s.parts) + 1] = new
      BY <1>1, <1>4, <2>1, AppendProperties
    <2>3. DOMAIN parts = 1..Len(parts) /\ DOMAIN s.parts = 1..Len(s.parts) /\ Len(s.parts) \in Nat
      BY <1>1, <2>2, LenProperties
    <2>4. new.id = <<w.owner, "part">> /\ new.size = w.end - s.offset
      BY DEF new
    <2>5. ASSUME NEW i \in DOMAIN parts
          PROVE  parts[i].id \in PartIds(s) \cup {<<w.owner, "part">>}
      <3>1. i \in 1..Len(s.parts) \/ i = Len(s.parts) + 1
        <4>1. \A m \in Nat : \A j \in 1..(m + 1) : j \in 1..m \/ j = m + 1
          OBVIOUS
        <4>2. DOMAIN parts = 1..(Len(s.parts) + 1) /\ Len(s.parts) \in Nat
          BY <2>2, <2>3
        <4> QED
          BY <4>1, <4>2
      <3>2. CASE i \in 1..Len(s.parts)
        <4>1. parts[i] = s.parts[i] /\ s.parts[i].id \in PartIds(s)
          BY <2>2, <2>3, <3>2 DEF PartIds
        <4> QED
          BY <4>1
      <3>3. CASE i = Len(s.parts) + 1
        BY <2>2, <2>4, <3>3
      <3> QED
        BY <3>1, <3>2, <3>3
    <2>6. parts # <<>>
      BY <2>2, <2>3, EmptySeq
    <2>7. CASE s.parts = <<>>
      <3>1. s.offset = 0 /\ Len(s.parts) = 0
        BY <1>1, <2>7, EmptySeq DEF Consistent
      <3>2. Len(parts) = 1 /\ parts[1] = new
        BY <2>2, <3>1
      <3>3. parts[1].size = w.end /\ parts[1].id[2] = "part"
        BY <1>2, <2>4, <3>1, <3>2
      <3> QED
        BY <1>3, <1>6, <2>2, <2>5, <2>6, <3>2, <3>3 DEF parts
    <2>8. CASE s.parts # <<>>
      <3>1. EarlyUpload(s) /\ w.op = "chunk"
        BY <1>1, <1>6, <2>8 DEF Consistent, OnePart, Extending
      <3>2. /\ s.offset = 2 /\ s.total = 3 /\ w.end = 3 /\ Len(s.parts) = 2
            /\ s.parts[1] = [id |-> EarlyParts[1], size |-> 1]
            /\ s.parts[2] = [id |-> EarlyParts[2], size |-> 1]
        BY <1>1, <1>2, <2>3, <3>1 DEF EarlyUpload
      <3> DEFINE q == <<[id |-> EarlyParts[1], size |-> 1], [id |-> EarlyParts[2], size |-> 1],
                        [id |-> <<w.owner, "part">>, size |-> 1]>>
      <3>3. new = [id |-> <<w.owner, "part">>, size |-> 1]
        BY <3>2 DEF new
      <3>4. Len(parts) = 3 /\ parts[1] = q[1] /\ parts[2] = q[2] /\ parts[3] = q[3]
        BY <2>2, <3>2, <3>3
      <3>5. q \in Seq(Part) /\ Len(q) = 3
        <4>1. q[1] \in Part /\ q[2] \in Part /\ q[3] \in Part
          BY <1>1, <1>4, <2>3, <3>2, <3>3, ReferencedTyped
        <4> QED
          BY <4>1
      <3> HIDE DEF q
      <3>6. parts = q
        <4>1. \A i \in 1..Len(parts) : parts[i] = q[i]
          BY <3>4
        <4> QED
          BY <2>2, <3>4, <3>5, <4>1, SeqEqual
      <3> QED
        BY <1>3, <1>6, <2>2, <2>5, <2>6, <3>1, <3>2, <3>6 DEF parts, q
    <2> QED
      BY <2>7, <2>8
  <1> QED
    BY <1>5, <1>6

\* Bytes are written where there is no gap, within the largest size.
LEMMA WrittenFacts ==
    ASSUME NEW d \in Data, NEW from \in Nat, NEW to \in Nat, from <= Len(d), to <= MAX_BYTES,
           NEW v \in Contents
    PROVE  /\ Written(d, from, to, v) \in Data
           /\ Len(Written(d, from, to, v)) = IF to > Len(d) THEN to ELSE Len(d)
  <1> DEFINE n == IF to > Len(d) THEN to ELSE Len(d)
             x == Written(d, from, to, v)
  <1>1. d \in Seq(Contents) /\ Len(d) \in Nat /\ Len(d) <= MAX_BYTES
    BY DataFacts
  <1>2. n \in Nat /\ n <= MAX_BYTES /\ n >= to /\ n >= Len(d) /\ (n = to \/ n = Len(d))
    BY <1>1
  <1> HIDE DEF n
  <1>3. \A i \in 1..n : i <= from => d[i] \in Contents
    <2> SUFFICES ASSUME NEW i \in 1..n, i <= from PROVE d[i] \in Contents
      OBVIOUS
    <2>1. i \in 1..Len(d)
      BY <1>1, <1>2
    <2> QED
      BY <1>1, <2>1, ElementOfSeq
  <1>4. \A i \in 1..n : i > to => d[i] \in Contents
    <2> SUFFICES ASSUME NEW i \in 1..n, i > to PROVE d[i] \in Contents
      OBVIOUS
    <2>1. i \in 1..Len(d)
      BY <1>1, <1>2
    <2> QED
      BY <1>1, <2>1, ElementOfSeq
  <1>5. x = [i \in 1..n |-> IF from < i /\ i <= to THEN v ELSE d[i]]
    BY DEF Written, n
  <1>6. x \in [1..n -> Contents]
    <2>1. \A i \in 1..n : (IF from < i /\ i <= to THEN v ELSE d[i]) \in Contents
      BY <1>2, <1>3, <1>4
    <2> QED
      BY <1>5, <2>1
  <1>7. x \in Data
    BY <1>2, <1>6, UploadAssumption DEF Data
  <1>8. Len(x) = n
    BY <1>2, <1>5
  <1> QED
    BY <1>7, <1>8 DEF n

\* What a step writes under a name is in its place.
LEMMA StoreTyped ==
    ASSUME UploadIInv, NEW f \in UploadFiles, NEW id \in ByteId, NEW x \in Data,
           bytes' = [bytes EXCEPT ![f][id] = x]
    PROVE  /\ bytes' \in [UploadFiles -> [ByteId -> Data]] /\ bytes'[f][id] = x
           /\ \A g \in UploadFiles, i \in ByteId : g # f \/ i # id => bytes'[g][i] = bytes[g][i]
  BY DEF UploadIInv, UploadTypeOK

\* What arrives fits.
LEMMA ReceiveSize ==
    ASSUME UploadIInv, NEW c \in UploadClients, writer[c].at = "receive"
    PROVE  LET w == writer[c]
               s == w.mine
               from == IF Extending(s) THEN s.offset ELSE 0
           IN  /\ from \in Nat /\ w.end \in Nat /\ s.offset \in Nat /\ w.end <= MAX_BYTES
               /\ s.offset < w.end /\ w.end \in Size
               /\ \A n \in 1..w.end - s.offset : from + n \in Nat /\ from + n <= w.end
  <1> DEFINE w == writer[c]
             s == w.mine
             from == IF Extending(s) THEN s.offset ELSE 0
  <1>1. w \in Writer /\ s \in Progress /\ s.offset < w.end
    BY WriterFacts DEF Receives, Writer
  <1>2. s.offset \in Nat /\ w.end \in Nat /\ w.end <= MAX_BYTES
    BY <1>1, UploadAssumption DEF Writer, Progress, Size
  <1>3. from \in {0, s.offset}
    OBVIOUS
  <1> HIDE DEF from
  <1>4. from \in Nat /\ from <= s.offset
    BY <1>2, <1>3
  <1>5. \A n \in 1..w.end - s.offset : from + n \in Nat /\ from + n <= w.end
    BY <1>2, <1>4
  <1> QED
    BY <1>1, <1>2, <1>4, <1>5 DEF from, Writer

LEMMA ReceiveStep ==
    ASSUME UploadIInv, NEW c \in UploadClients, Receive(c)
    PROVE  UploadIInv'
  <1> DEFINE w == writer[c]
             s == w.mine
             id == IF Extending(s) THEN s.parts[1].id ELSE <<w.owner, "part">>
             from == IF Extending(s) THEN s.offset ELSE 0
             old == bytes[w.file][id]
             parts == IF Extending(s) THEN <<[id |-> id, size |-> w.end]>>
                      ELSE Append(s.parts, [id |-> id, size |-> w.end - s.offset])
             complete == w.op # "chunk" \/ w.end = s.total
  <1>1. /\ w \in Writer /\ w.file \in UploadFiles /\ w.owner # 0 /\ w.at = "receive"
        /\ bytes[w.file] \in [ByteId -> Data] /\ w.at \in AtWork
        /\ s \in Progress
        /\ Remembers(c) /\ Receives(c) /\ Unnamed(c)
    BY WriterFacts DEF Receive, AtWork, Writer
  <1>2. UNCHANGED <<upload, plain, owners, lapses>> /\ plain' \subseteq UploadFiles
    BY DEF Receive, UploadIInv, UploadTypeOK
  <1>3. from <= Len(old)
    BY DEF Receive
  <1>4. PICK v \in Contents, n \in 1..w.end - s.offset :
             /\ bytes' = [bytes EXCEPT ![w.file][id] = Written(old, from, from + n, v)]
             /\ writer' = [writer EXCEPT ![c] =
                   IF n < w.end - s.offset THEN Closing(w)
                   ELSE [w EXCEPT !.at = IF complete THEN "assemble" ELSE "commit",
                                  !.mine = [s EXCEPT !.parts = parts, !.offset = w.end]]]
    BY DEF Receive
  <1>5. /\ id \in ByteId /\ parts \in Seq(Part) /\ parts # <<>>
        /\ \A i \in DOMAIN parts : parts[i].id \in PartIds(s) \cup {<<w.owner, "part">>}
        /\ \/ Len(parts) = 1 /\ parts[1].size = w.end /\ parts[1].id[2] = "part"
           \/ /\ w.op = "chunk" /\ w.end = 3 /\ s.total = 3
              /\ parts = <<[id |-> EarlyParts[1], size |-> 1], [id |-> EarlyParts[2], size |-> 1],
                           [id |-> <<w.owner, "part">>, size |-> 1]>>
    BY <1>1, ReceivedParts
  <1>6. /\ from \in Nat /\ w.end \in Nat /\ s.offset \in Nat /\ w.end <= MAX_BYTES
        /\ s.offset < w.end /\ w.end \in Size
        /\ from + n \in Nat /\ from + n <= w.end
    BY <1>1, ReceiveSize
  <1> HIDE DEF id, from, parts
  <1>7. bytes' \in [UploadFiles -> [ByteId -> Data]]
    <2>1. old \in Data
      BY <1>1, <1>5
    <2>2. from + n <= MAX_BYTES
      BY <1>6, UploadAssumption
    <2> DEFINE x == Written(old, from, from + n, v)
    <2>3. x \in Data
      BY <1>3, <1>6, <2>1, <2>2, WrittenFacts
    <2>4. bytes' = [bytes EXCEPT ![w.file][id] = x]
      BY <1>4
    <2> HIDE DEF x
    <2> QED
      BY <1>1, <1>5, <2>3, <2>4, StoreTyped
  <1>8. CASE n < w.end - s.offset
    BY <1>1, <1>2, <1>4, <1>7, <1>8, Closes
  <1>9. CASE ~(n < w.end - s.offset)
    <2> DEFINE t == [s EXCEPT !.parts = parts, !.offset = w.end]
               at == IF complete THEN "assemble" ELSE "commit"
               x == [w EXCEPT !.at = at, !.mine = t]
    <2>1. /\ t \in Progress /\ t.parts = parts /\ t.offset = w.end /\ t.mode = s.mode
          /\ t.status = s.status /\ t.total = s.total /\ t.published = s.published
      BY <1>1, <1>5, <1>6 DEF Progress
    <2>2. /\ at \in {"assemble", "commit"}
          /\ at = "commit" => w.op = "chunk"
          /\ w.op = "chunk" /\ w.end = s.total => at = "assemble"
          /\ w.op = "chunk" /\ at # "commit" => w.end = s.total
      OBVIOUS
    <2>3. writer' = [writer EXCEPT ![c] = x]
      BY <1>4, <1>9
    <2> HIDE DEF t, at
    <2>4. /\ x \in Writer /\ x.owner = w.owner /\ x.file = w.file /\ x.op = w.op /\ x.at = at
          /\ x.mine = t
      BY <1>1, <2>1, <2>2 DEF Writer, WriterPC
    <2> HIDE DEF x
    <2>5. writer'[c] = x
      BY <2>3, <2>4, BecomesFacts
    <2>6. /\ Consistent(s) /\ (Fenced(c) => s = State(c))
          /\ w.op \in {"whole", "chunk", "internal"}
          /\ s.mode # "none" /\ s.status = "uploading"
          /\ (w.op = "chunk" => s.mode = "public" /\ w.end <= s.total)
          /\ (w.op # "chunk" => s.parts = <<>>)
      BY <1>1 DEF Remembers, Receives, Early
    <2>7. s.mode = "public" => s.published = NoId
      BY <2>6 DEF Consistent
    <2>8. PartIds(t) \subseteq PartIds(s) \cup {<<w.owner, "part">>}
      BY <1>5, <2>1 DEF PartIds
    <2>9. \/ OnePart(t)
          \/ /\ w.op = "chunk" /\ at # "commit"
             /\ t.parts = <<[id |-> EarlyParts[1], size |-> 1], [id |-> EarlyParts[2], size |-> 1],
                            [id |-> <<w.owner, "part">>, size |-> 1]>>
             /\ t.offset = 3 /\ t.total = 3
      <3>1. t.offset > 0
        BY <1>6, <2>1
      <3>2. CASE Len(parts) = 1 /\ parts[1].size = w.end /\ parts[1].id[2] = "part"
        BY <2>1, <3>1, <3>2 DEF OnePart
      <3>3. CASE /\ w.op = "chunk" /\ w.end = 3 /\ s.total = 3
                 /\ parts = <<[id |-> EarlyParts[1], size |-> 1], [id |-> EarlyParts[2], size |-> 1],
                              [id |-> <<w.owner, "part">>, size |-> 1]>>
        BY <2>1, <2>2, <3>3
      <3> QED
        BY <1>5, <3>2, <3>3
    <2>10. Fenced(c)' => /\ State(c)'.mode = t.mode /\ State(c)'.status = "uploading"
                         /\ State(c)'.published = t.published
                         /\ w.op = "chunk" => State(c)'.total = t.total
                         /\ w.op # "chunk" => State(c)'.parts = <<>>
                         /\ PartIds(t) \subseteq PartIds(State(c)') \cup {<<w.owner, "part">>}
      <3>1. State(c)' = State(c) /\ (Fenced(c)' <=> Fenced(c))
        BY <1>2, <2>4, <2>5 DEF State, Fenced
      <3> QED
        BY <2>1, <2>6, <2>8, <3>1
    <2>11. t.offset > 0
      BY <1>6, <2>1
    <2>12. Received(c)'
      <3> HIDE DEF w, s
      <3> SUFFICES
             /\ x.op \in {"whole", "chunk", "internal"}
             /\ t.mode # "none" /\ t.status = "uploading"
             /\ t.offset > 0
             /\ (t.mode = "public" => t.published = NoId)
             /\ \/ OnePart(t)
                \/ /\ x.op = "chunk" /\ x.at # "commit"
                   /\ t.parts = <<[id |-> EarlyParts[1], size |-> 1], [id |-> EarlyParts[2], size |-> 1],
                                  [id |-> <<x.owner, "part">>, size |-> 1]>>
                   /\ t.offset = 3 /\ t.total = 3
             /\ (x.op = "chunk" => t.mode = "public" /\ t.offset <= t.total)
             /\ (x.op = "chunk" /\ x.at # "commit" => t.offset = t.total)
             /\ (x.at = "commit" => x.op = "chunk")
             /\ x.at # "publish"
             /\ Fenced(c)' => /\ State(c)'.mode = t.mode /\ State(c)'.status = "uploading"
                              /\ State(c)'.published = t.published
                              /\ x.op = "chunk" => State(c)'.total = t.total
                              /\ x.op # "chunk" => State(c)'.parts = <<>>
                              /\ PartIds(t) \subseteq PartIds(State(c)') \cup {<<x.owner, "part">>}
        BY <2>4, <2>5 DEF Received
      <3> QED
        BY <2>1, <2>2, <2>4, <2>6, <2>7, <2>9, <2>10, <2>11
    <2>13. Unnamed(c)'
      BY <1>1, <1>2, <2>4, <2>5 DEF Unnamed, State, Early
    <2>14. Remembers(c)' /\ Receives(c)' /\ Looks(c)'
      BY <2>2, <2>4, <2>5 DEF Remembers, Receives, Looks, Early
    <2>15. x.at \in AtWork /\ x.owner # 0
      BY <1>1, <2>2, <2>4 DEF AtWork
    <2> QED
      BY <1>1, <1>2, <1>7, <2>3, <2>4, <2>12, <2>13, <2>14, <2>15, Passes DEF RequestKept
  <1> QED
    BY <1>8, <1>9

LEMMA AssembledFacts ==
    ASSUME UploadIInv, NEW c \in UploadClients, Assemble(c)
    PROVE  \E id \in ByteId, x \in Data :
             /\ bytes' = [bytes EXCEPT ![writer[c].file][id] = x]
             /\ writer' = [writer EXCEPT ![c].at = "publish", ![c].id = id]
             /\ Len(x) = writer[c].mine.offset
             /\ \/ id = <<writer[c].owner, "blob">>
                \/ /\ OnePart(writer[c].mine) /\ id = writer[c].mine.parts[1].id
                   /\ x = bytes[writer[c].file][id]
  <1> DEFINE w == writer[c]
             s == w.mine
             data(i) == bytes[w.file][s.parts[i].id]
             id == IF Len(s.parts) = 1 THEN s.parts[1].id ELSE <<w.owner, "blob">>
             joined == IF Len(s.parts) = 1 THEN data(1)
                       ELSE IF Len(s.parts) = 2 THEN data(1) \o data(2)
                       ELSE data(1) \o data(2) \o data(3)
  <1>1. /\ w \in Writer /\ w.file \in UploadFiles /\ w.owner # 0 /\ w.at = "assemble"
        /\ bytes[w.file] \in [ByteId -> Data] /\ w.at \in AtWork
        /\ s \in Progress /\ s.parts \in Seq(Part)
        /\ Received(c) /\ Unnamed(c) /\ writer \in [UploadClients -> Writer]
    BY WriterFacts DEF Assemble, AtWork, Writer, Progress, UploadIInv, UploadTypeOK
  <1>2. /\ UNCHANGED <<upload, plain, owners, lapses>> /\ plain' \subseteq UploadFiles
        /\ \A i \in DOMAIN s.parts : Len(data(i)) = s.parts[i].size
        /\ bytes' = [bytes EXCEPT ![w.file][id] = joined]
        /\ writer' = [writer EXCEPT ![c].at = "publish", ![c].id = id]
    BY DEF Assemble, UploadIInv, UploadTypeOK
  <1>3. \A i \in DOMAIN s.parts : s.parts[i].id \in ByteId /\ data(i) \in Data /\ data(i) \in Seq(Contents)
    BY <1>1, ReferencedTyped, DataFacts DEF Part
  <1>4. w.owner \in 1..MaxOwners
    BY <1>1, UploadAssumption DEF Writer, OwnerId
  <1>5. /\ w.op \in {"whole", "chunk", "internal"}
        /\ s.mode # "none" /\ s.status = "uploading" /\ s.offset > 0
        /\ (s.mode = "public" => s.published = NoId)
        /\ \/ OnePart(s)
           \/ /\ w.op = "chunk"
              /\ s.parts = <<[id |-> EarlyParts[1], size |-> 1], [id |-> EarlyParts[2], size |-> 1],
                             [id |-> <<w.owner, "part">>, size |-> 1]>>
              /\ s.offset = 3 /\ s.total = 3
        /\ (w.op = "chunk" => s.mode = "public" /\ s.offset <= s.total /\ s.offset = s.total)
        /\ Fenced(c) =>
             /\ State(c).mode = s.mode /\ State(c).status = "uploading"
             /\ State(c).published = s.published
             /\ w.op = "chunk" => State(c).total = s.total
             /\ w.op # "chunk" => State(c).parts = <<>>
             /\ PartIds(s) \subseteq PartIds(State(c)) \cup {<<w.owner, "part">>}
    <2> HIDE DEF data, joined, id
    <2> QED
      BY <1>1 DEF Received, Late
  <1>6. /\ id \in ByteId /\ joined \in Data /\ Len(joined) = s.offset
        /\ \/ id = <<w.owner, "blob">>
           \/ OnePart(s) /\ id = s.parts[1].id /\ joined = bytes[w.file][id]
    <2>1. CASE OnePart(s)
      <3>1. Len(s.parts) = 1 /\ 1 \in DOMAIN s.parts
        BY <1>1, <2>1, LenProperties DEF OnePart
      <3>2. id = s.parts[1].id /\ joined = data(1)
        BY <3>1
      <3>3. Len(joined) = s.offset
        BY <1>2, <2>1, <3>1, <3>2 DEF OnePart
      <3>4. joined = bytes[w.file][id]
        BY <3>2
      <3>5. id \in ByteId /\ joined \in Data
        <4>1. s.parts[1].id \in ByteId /\ data(1) \in Data
          BY <1>3, <3>1
        <4> QED
          BY <3>2, <4>1
      <3> HIDE DEF id, joined, data
      <3> QED
        BY <2>1, <3>2, <3>3, <3>4, <3>5
    <2>2. CASE /\ s.parts = <<[id |-> EarlyParts[1], size |-> 1], [id |-> EarlyParts[2], size |-> 1],
                             [id |-> <<w.owner, "part">>, size |-> 1]>>
               /\ s.offset = 3 /\ s.total = 3
      <3>1. Len(s.parts) = 3 /\ DOMAIN s.parts = 1..3
            /\ s.parts[1].size = 1 /\ s.parts[2].size = 1 /\ s.parts[3].size = 1
        BY <2>2
      <3>2. id = <<w.owner, "blob">> /\ joined = data(1) \o data(2) \o data(3)
        BY <3>1
      <3>3. /\ Len(data(1)) = 1 /\ Len(data(2)) = 1 /\ Len(data(3)) = 1
            /\ data(1) \in Seq(Contents) /\ data(2) \in Seq(Contents) /\ data(3) \in Seq(Contents)
        <4>1. 1 \in DOMAIN s.parts /\ 2 \in DOMAIN s.parts /\ 3 \in DOMAIN s.parts
          BY <3>1
        <4> HIDE DEF data, s
        <4> QED
          BY <1>2, <1>3, <3>1, <4>1
      <3> DEFINE d1 == data(1)
                 d2 == data(2)
                 d3 == data(3)
      <3>8. joined = d1 \o d2 \o d3
        BY <3>2
      <3>9. /\ Len(d1) = 1 /\ Len(d2) = 1 /\ Len(d3) = 1
            /\ d1 \in Seq(Contents) /\ d2 \in Seq(Contents) /\ d3 \in Seq(Contents)
        BY <3>3
      <3> HIDE DEF id, joined, data, d1, d2, d3
      <3>4. d1 \o d2 \in Seq(Contents) /\ Len(d1 \o d2) = Len(d1) + Len(d2)
        BY <3>9, JoinedFacts, Zenon
      <3> DEFINE d12 == d1 \o d2
      <3>10. d12 \in Seq(Contents) /\ Len(d12) = 2 /\ joined = d12 \o d3
        <4>1. Len(d12) = Len(d1) + Len(d2)
          BY <3>4
        <4> HIDE DEF d12
        <4>2. Len(d12) = 2
          BY <3>9, <4>1
        <4> QED
          BY <3>4, <3>8, <4>2 DEF d12
      <3> HIDE DEF d12
      <3>11. d12 \o d3 \in Seq(Contents) /\ Len(d12 \o d3) = Len(d12) + Len(d3)
        BY <3>9, <3>10, JoinedFacts, Zenon
      <3>5. joined \in Seq(Contents) /\ Len(joined) = 3
        BY <3>9, <3>10, <3>11
      <3>6. 3 <= MAX_BYTES
        BY <1>1, <2>2, UploadAssumption DEF Progress, Size
      <3>7. joined \in Data
        BY <3>5, <3>6, DataFacts
      <3> QED
        BY <1>4, <2>2, <3>2, <3>5, <3>7 DEF ByteId
    <2> QED
      BY <1>5, <2>1, <2>2
  <1> HIDE DEF id, joined
  <1> QED
    BY <1>2, <1>6

\* The parts become one file, and the request remembers what it will publish.
LEMMA AssembleStep ==
    ASSUME UploadIInv, NEW c \in UploadClients, Assemble(c)
    PROVE  UploadIInv'
  <1> DEFINE w == writer[c]
             s == w.mine
  <1>1. /\ w \in Writer /\ w.file \in UploadFiles /\ w.owner # 0 /\ w.at = "assemble"
        /\ w.at \in AtWork
        /\ s \in Progress /\ s.parts \in Seq(Part)
        /\ Received(c) /\ Unnamed(c) /\ writer \in [UploadClients -> Writer]
    BY WriterFacts DEF Assemble, AtWork, Writer, Progress, UploadIInv, UploadTypeOK
  <1>2. UNCHANGED <<upload, plain, owners, lapses>> /\ plain' \subseteq UploadFiles
    BY DEF Assemble, UploadIInv, UploadTypeOK
  <1>3. PICK id \in ByteId, joined \in Data :
             /\ bytes' = [bytes EXCEPT ![w.file][id] = joined]
             /\ writer' = [writer EXCEPT ![c].at = "publish", ![c].id = id]
             /\ Len(joined) = s.offset
             /\ \/ id = <<w.owner, "blob">>
                \/ OnePart(s) /\ id = s.parts[1].id /\ joined = bytes[w.file][id]
    BY AssembledFacts
  <1> DEFINE x == [w EXCEPT !.at = "publish", !.id = id]
  <1>5. /\ w.op \in {"whole", "chunk", "internal"}
        /\ s.mode # "none" /\ s.status = "uploading" /\ s.offset > 0
        /\ (s.mode = "public" => s.published = NoId)
        /\ \/ OnePart(s)
           \/ /\ w.op = "chunk"
              /\ s.parts = <<[id |-> EarlyParts[1], size |-> 1], [id |-> EarlyParts[2], size |-> 1],
                             [id |-> <<w.owner, "part">>, size |-> 1]>>
              /\ s.offset = 3 /\ s.total = 3
        /\ (w.op = "chunk" => s.mode = "public" /\ s.offset <= s.total /\ s.offset = s.total)
        /\ Fenced(c) =>
             /\ State(c).mode = s.mode /\ State(c).status = "uploading"
             /\ State(c).published = s.published
             /\ w.op = "chunk" => State(c).total = s.total
             /\ w.op # "chunk" => State(c).parts = <<>>
             /\ PartIds(s) \subseteq PartIds(State(c)) \cup {<<w.owner, "part">>}
    <2> HIDE DEF x
    <2> QED
      BY <1>1 DEF Received, Late
  <1>6. id \in ByteId /\ (id = <<w.owner, "blob">> \/ (OnePart(s) /\ id = s.parts[1].id))
    BY <1>3
  <1>7. bytes' \in [UploadFiles -> [ByteId -> Data]]
    BY <1>1, <1>3, StoreTyped
  <1>8. /\ x \in Writer /\ x.owner = w.owner /\ x.file = w.file /\ x.op = w.op /\ x.at = "publish"
        /\ x.mine = s /\ x.id = id
    BY <1>1, <1>6 DEF Writer, WriterPC
  <1>9. writer' = [writer EXCEPT ![c] = x]
    BY <1>1, <1>3 DEF Writer
  <1> HIDE DEF x
  <1>10. writer'[c] = x
    BY <1>8, <1>9, BecomesFacts
  <1>11. Received(c)'
    <2>1. State(c)' = State(c) /\ (Fenced(c)' <=> Fenced(c))
      BY <1>2, <1>8, <1>10 DEF State, Fenced
    <2> HIDE DEF w, s
    <2> SUFFICES
           /\ x.op \in {"whole", "chunk", "internal"}
           /\ s.mode # "none" /\ s.status = "uploading"
           /\ s.offset > 0
           /\ (s.mode = "public" => s.published = NoId)
           /\ \/ OnePart(s)
              \/ /\ x.op = "chunk"
                 /\ s.parts = <<[id |-> EarlyParts[1], size |-> 1], [id |-> EarlyParts[2], size |-> 1],
                                [id |-> <<x.owner, "part">>, size |-> 1]>>
                 /\ s.offset = 3 /\ s.total = 3
           /\ (x.op = "chunk" => s.mode = "public" /\ s.offset <= s.total)
           /\ (x.op = "chunk" => s.offset = s.total)
           /\ \/ x.id = <<x.owner, "blob">>
              \/ OnePart(s) /\ x.id = s.parts[1].id
           /\ Fenced(c)' => /\ State(c)'.mode = s.mode /\ State(c)'.status = "uploading"
                            /\ State(c)'.published = s.published
                            /\ x.op = "chunk" => State(c)'.total = s.total
                            /\ x.op # "chunk" => State(c)'.parts = <<>>
                            /\ PartIds(s) \subseteq PartIds(State(c)') \cup {<<x.owner, "part">>}
      BY <1>8, <1>10 DEF Received
    <2> QED
      BY <1>5, <1>6, <1>8, <2>1
  <1>12. Unnamed(c)'
    BY <1>1, <1>2, <1>8, <1>10 DEF Unnamed, State, Late
  <1>13. Remembers(c)' /\ Receives(c)' /\ Looks(c)'
    BY <1>8, <1>10 DEF Remembers, Receives, Looks, Early
  <1>14. x.at \in AtWork /\ x.owner # 0
    BY <1>1, <1>8 DEF AtWork
  <1> QED
    BY <1>1, <1>2, <1>7, <1>8, <1>9, <1>11, <1>12, <1>13, <1>14, Passes DEF RequestKept

\* A lease is given back and the upload stays as it is.
LEMMA SameSucceeds ==
    ASSUME NEW s, Consistent(s), NEW o
    PROVE  Successor(s, s, o)
  BY DEF Successor

LEMMA CloseStep ==
    ASSUME UploadIInv, NEW c \in UploadClients, CloseStore(c)
    PROVE  UploadIInv'
  <1> DEFINE w == writer[c]
             f == w.file
             x == IF w.todo = {} THEN NoWriter(f)
                  ELSE [NoWriter(f) EXCEPT !.op = w.op, !.at = "next", !.todo = w.todo]
  <1>1. /\ w \in Writer /\ f \in UploadFiles /\ w.owner # 0 /\ w.owner \in Nat
        /\ w.at = "close"
        /\ upload \in [UploadFiles -> FileUpload] /\ upload[f] \in FileUpload
        /\ Consistent(upload[f].state)
    BY WriterFacts DEF CloseStore, AtWork, UploadIInv, UploadTypeOK, State
  <1>2. /\ upload' = [upload EXCEPT ![f].owner = IF upload[f].owner = w.owner THEN 0 ELSE upload[f].owner]
        /\ writer' = [writer EXCEPT ![c] = x]
        /\ UNCHANGED <<bytes, plain, owners, lapses>>
    BY DEF CloseStore
  <1>3. x \in Writer /\ x.owner = 0 /\ x.at \in {"idle", "next"}
    <2>1. [NoWriter(f) EXCEPT !.op = w.op, !.at = "next", !.todo = w.todo] \in Writer
          /\ [NoWriter(f) EXCEPT !.op = w.op, !.at = "next", !.todo = w.todo].owner = 0
          /\ [NoWriter(f) EXCEPT !.op = w.op, !.at = "next", !.todo = w.todo].at = "next"
      <3>1. w.op \in UploadOps \cup {"none"} /\ w.todo \in SUBSET UploadFiles
        BY <1>1 DEF Writer
      <3>2. \A op \in UploadOps \cup {"none"}, S \in SUBSET UploadFiles :
               LET y == [NoWriter(f) EXCEPT !.op = op, !.at = "next", !.todo = S]
               IN  y \in Writer /\ y.owner = 0 /\ y.at = "next"
        <4>1. NoWriter(f) \in Writer /\ NoWriter(f).owner = 0
          BY <1>1, NoWriterFacts
        <4> HIDE DEF w, f
        <4> QED
          BY <4>1 DEF Writer, WriterPC
      <3> QED
        BY <3>1, <3>2
    <2> QED
      BY <1>1, <2>1, NoWriterFacts
  <1> HIDE DEF x
  <1>4. writer' \in [UploadClients -> Writer] /\ writer'[c] = x /\ OthersKeep(c)
    BY <1>2, <1>3, BecomesFacts
  <1>5. upload' \in [UploadFiles -> FileUpload]
    <2>1. 0 \in OwnerId
      BY UploadAssumption DEF OwnerId
    <2>2. (IF upload[f].owner = w.owner THEN 0 ELSE upload[f].owner) \in OwnerId
      BY <1>1, <2>1 DEF FileUpload
    <2> QED
      BY <1>1, <1>2, <2>2 DEF FileUpload
  <1>6. Touched(w.owner)
    <2> SUFFICES ASSUME NEW g \in UploadFiles, upload'[g] # upload[g]
                 PROVE  /\ w.owner # 0 /\ upload[g].owner = w.owner
                        /\ upload'[g].owner \in {0, w.owner} /\ upload'[g].live = upload[g].live
                        /\ Successor(upload[g].state, upload'[g].state, w.owner)
      BY DEF Touched
    <2>1. g = f /\ upload[f].owner = w.owner
      BY <1>1, <1>2 DEF FileUpload
    <2>2. /\ upload'[f].owner = 0 /\ upload'[f].live = upload[f].live
          /\ upload'[f].state = upload[f].state
      BY <1>1, <1>2, <2>1 DEF FileUpload
    <2> QED
      BY <1>1, <2>1, <2>2, SameSucceeds
  <1>7. RequestKept(c)'
    BY <1>3, <1>4, Rests DEF Looks, Early, Late
  <1>8. UploadTypeOK'
    BY <1>2, <1>4, <1>5 DEF UploadIInv, UploadTypeOK
  <1> QED
    BY <1>2, <1>3, <1>4, <1>6, <1>7, <1>8, StepKeeps DEF AtWork, Batch

\* A lease that lapses takes nothing from the records.
LEMMA LapseStep ==
    ASSUME UploadIInv, NEW f \in UploadFiles, LapseLease(f)
    PROVE  UploadIInv'
  <1>1. upload \in [UploadFiles -> FileUpload] /\ writer \in [UploadClients -> Writer]
    BY DEF UploadIInv, UploadTypeOK
  <1>2. /\ upload' = [upload EXCEPT ![f].live = FALSE] /\ UNCHANGED <<bytes, plain, writer, owners>>
        /\ lapses' = lapses + 1 /\ lapses < MaxLapses
    BY DEF LapseLease
  <1>3. /\ upload' \in [UploadFiles -> FileUpload]
        /\ \A g \in UploadFiles : /\ upload'[g].owner = upload[g].owner
                                  /\ upload'[g].state = upload[g].state
                                  /\ upload'[g].live => upload[g].live
    BY <1>1, <1>2 DEF FileUpload
  <1>4. UploadTypeOK'
    <2>1. lapses' \in 0..MaxLapses
      BY <1>2, UploadAssumption DEF UploadIInv, UploadTypeOK
    <2> QED
      BY <1>2, <1>3, <2>1 DEF UploadIInv, UploadTypeOK
  <1>5. \A c \in UploadClients : writer[c].file \in UploadFiles
    BY <1>1 DEF Writer
  <1>6. LeasesKept'
    BY <1>2, <1>3, <1>5 DEF UploadIInv, LeasesKept
  <1>7. RecordsKept'
    BY <1>2, <1>3 DEF UploadIInv, RecordsKept
  <1>8. ASSUME NEW c \in UploadClients
        PROVE  RequestKept(c)'
    <2>1. RequestKept(c)
      BY DEF UploadIInv, RequestsKept
    <2>2. State(c)' = State(c) /\ (Fenced(c)' => Fenced(c))
      BY <1>2, <1>3, <1>5 DEF State, Fenced
    <2>3. Remembers(c)' /\ Receives(c)'
      BY <1>2, <2>1, <2>2 DEF RequestKept, Remembers, Receives
    <2>4. Received(c)'
      BY <1>2, <2>1, <2>2 DEF RequestKept, Received
    <2>5. Unnamed(c)' /\ Looks(c)'
      BY <1>2, <2>1, <2>2 DEF RequestKept, Unnamed, Looks
    <2> QED
      BY <2>3, <2>4, <2>5 DEF RequestKept
  <1> QED
    BY <1>4, <1>6, <1>7, <1>8 DEF UploadIInv, RequestsKept

Taken(u, o) == [u EXCEPT !.owner = o, !.live = TRUE]

LEMMA GrantFacts ==
    ASSUME NEW u \in FileUpload, NEW o \in OwnerId
    PROVE  /\ Taken(u, o) \in FileUpload /\ Taken(u, o).owner = o /\ Taken(u, o).state = u.state
           /\ Taken(u, o).live
  BY DEF FileUpload, Taken

Batched(f, op, at, o, S) == [NoWriter(f) EXCEPT !.op = op, !.at = at, !.owner = o, !.todo = S]

LEMMA BatchedFacts ==
    ASSUME NEW f \in UploadFiles, NEW op \in UploadOps \cup {"none"}, NEW at \in WriterPC,
           NEW o \in OwnerId, NEW S \in SUBSET UploadFiles
    PROVE  /\ Batched(f, op, at, o, S) \in Writer
           /\ Batched(f, op, at, o, S).owner = o /\ Batched(f, op, at, o, S).at = at
           /\ Batched(f, op, at, o, S).op = op
  <1>1. NoWriter(f) \in Writer /\ NoWriter(f).owner = 0
    BY NoWriterFacts
  <1> QED
    BY <1>1 DEF Writer, Batched

Waiting(f, op, at, S) == [NoWriter(f) EXCEPT !.op = op, !.at = at, !.todo = S]

LEMMA WaitingFacts ==
    ASSUME NEW f \in UploadFiles, NEW op \in UploadOps \cup {"none"}, NEW at \in WriterPC,
           NEW S \in SUBSET UploadFiles
    PROVE  /\ Waiting(f, op, at, S) \in Writer
           /\ Waiting(f, op, at, S).owner = 0 /\ Waiting(f, op, at, S).at = at
           /\ Waiting(f, op, at, S).op = op
  <1>1. NoWriter(f) \in Writer /\ NoWriter(f).owner = 0
    BY NoWriterFacts
  <1> QED
    BY <1>1 DEF Writer, Waiting

\* One update takes the leases of a batch and no more.
LEMMA LeaseFacts ==
    ASSUME UploadIInv, NEW c \in UploadClients, ClaimBulk(c)
    PROVE  /\ owners' = owners + 1 /\ owners' \in OwnerId /\ owners' # 0
           /\ UNCHANGED <<bytes, plain, lapses>>
           /\ upload' \in [UploadFiles -> FileUpload] /\ Touched(writer[c].owner)
           /\ \A g \in UploadFiles :
                 /\ upload'[g].state = upload[g].state
                 /\ upload'[g] = upload[g] \/ (upload'[g].owner = owners' /\ upload'[g].live)
           /\ \E v \in Writer : /\ v.owner = owners' /\ v.at = "claimed" /\ v.op = "bulk"
                               /\ writer' = [writer EXCEPT ![c] = v]
  <1>1. upload \in [UploadFiles -> FileUpload] /\ owners \in Nat
    BY UploadAssumption DEF UploadIInv, UploadTypeOK
  <1>2. owners' = owners + 1 /\ owners' \in OwnerId /\ owners' # 0
    <2>1. owners' = owners + 1 /\ owners < MaxOwners /\ MaxOwners \in Nat
      BY UploadAssumption DEF ClaimBulk
    <2> QED
      BY <1>1, <2>1 DEF OwnerId
  <1>3. "bulk" \in UploadOps /\ UNCHANGED <<bytes, plain, lapses>>
    BY DEF ClaimBulk
  <1>4. PICK S \in SUBSET UploadFiles, f \in UploadFiles :
           /\ upload' = [g \in UploadFiles |->
                           IF g \in S /\ Unclaimed(g) /\ upload[g].state.mode # "none"
                           THEN [upload[g] EXCEPT !.owner = owners', !.live = TRUE] ELSE upload[g]]
           /\ writer' = [writer EXCEPT ![c] = [NoWriter(f) EXCEPT !.op = "bulk", !.at = "claimed",
                                                  !.owner = owners', !.todo = S]]
    BY DEF ClaimBulk
  <1> DEFINE v == Batched(f, "bulk", "claimed", owners', S)
  <1>5. v \in Writer /\ v.owner = owners' /\ v.at = "claimed" /\ v.op = "bulk"
    <2>1. "bulk" \in UploadOps \cup {"none"} /\ "claimed" \in WriterPC
      BY <1>3 DEF WriterPC
    <2> QED
      BY <1>2, <2>1, BatchedFacts
  <1>6. writer' = [writer EXCEPT ![c] = v]
    BY <1>4 DEF Batched
  <1> HIDE DEF v
  <1>7. ASSUME NEW g \in UploadFiles
        PROVE  /\ upload'[g] \in FileUpload /\ upload'[g].state = upload[g].state
               /\ \/ upload'[g] = upload[g]
                  \/ Unclaimed(g) /\ upload'[g].owner = owners' /\ upload'[g].live
    <2>1. CASE g \in S /\ Unclaimed(g) /\ upload[g].state.mode # "none"
      <3>1. upload'[g] = Taken(upload[g], owners')
        BY <1>4, <2>1, Zenon DEF Taken
      <3>2. /\ upload'[g] \in FileUpload /\ upload'[g].owner = owners' /\ upload'[g].live
            /\ upload'[g].state = upload[g].state
        BY <1>1, <1>2, <3>1, GrantFacts
      <3> QED
        BY <2>1, <3>2
    <2>2. CASE ~(g \in S /\ Unclaimed(g) /\ upload[g].state.mode # "none")
      <3>1. upload'[g] = upload[g]
        BY <1>4, <2>2, Zenon
      <3> QED
        BY <1>1, <3>1
    <2> QED
      BY <2>1, <2>2
  <1>8. upload' \in [UploadFiles -> FileUpload]
    <2>1. DOMAIN upload' = UploadFiles
      BY <1>4, Zenon
    <2>2. upload' = [g \in UploadFiles |-> upload'[g]]
      BY <1>4, <2>1, Zenon
    <2> QED
      BY <1>7, <2>2, Zenon
  <1>9. Touched(writer[c].owner)
    BY <1>2, <1>7 DEF Touched
  <1> QED
    BY <1>2, <1>3, <1>5, <1>6, <1>7, <1>8, <1>9

\* A lease is taken, of one file or of several at once.
LEMMA TakeSteps ==
    ASSUME UploadIInv, NEW c \in UploadClients, OpenUploadStore(c) \/ ClaimBulk(c)
    PROVE  UploadIInv'
  <1>1. /\ upload \in [UploadFiles -> FileUpload] /\ writer \in [UploadClients -> Writer]
        /\ writer[c] \in Writer /\ writer[c].file \in UploadFiles
        /\ owners \in Nat
    BY UploadAssumption DEF UploadIInv, UploadTypeOK, Writer
  <1>2. owners' = owners + 1 /\ owners' \in OwnerId /\ owners' # 0
    <2>1. owners' = owners + 1 /\ owners < MaxOwners /\ MaxOwners \in Nat
      BY UploadAssumption DEF OpenUploadStore, ClaimBulk
    <2> QED
      BY <1>1, <2>1 DEF OwnerId
  <1>3. CASE OpenUploadStore(c)
    <2> DEFINE f == writer[c].file
               v == [writer[c] EXCEPT !.at = "collect", !.owner = owners', !.mine = upload[f].state]
    <2>1. /\ Unclaimed(f) /\ writer[c].at = "open"
          /\ upload' = [upload EXCEPT ![f].owner = owners', ![f].live = TRUE]
          /\ writer' = [writer EXCEPT ![c].at = "collect", ![c].owner = owners', ![c].mine = upload[f].state]
          /\ UNCHANGED <<bytes, plain, lapses>>
      BY <1>3 DEF OpenUploadStore
    <2>2. /\ upload' \in [UploadFiles -> FileUpload]
          /\ upload'[f].owner = owners' /\ upload'[f].state = upload[f].state
          /\ \A g \in UploadFiles : g # f => upload'[g] = upload[g]
      BY <1>1, <1>2, <2>1 DEF FileUpload
    <2>3. /\ v \in Writer /\ v.owner = owners' /\ v.at = "collect" /\ v.file = f
          /\ v.mine = upload[f].state
      BY <1>1, <1>2 DEF Writer, WriterPC, FileUpload
    <2>4. writer' = [writer EXCEPT ![c] = v]
      BY <1>1, <2>1 DEF Writer
    <2> HIDE DEF v
    <2>5. writer' \in [UploadClients -> Writer] /\ writer'[c] = v /\ OthersKeep(c)
      BY <2>3, <2>4, BecomesFacts
    <2>6. UploadTypeOK'
      BY <1>2, <2>1, <2>2, <2>5 DEF UploadIInv, UploadTypeOK, OwnerId
    <2>7. Touched(writer[c].owner)
      BY <1>2, <2>1, <2>2 DEF Touched
    <2>8. Consistent(upload[f].state) /\ \A id \in Referenced(upload[f].state) : id[1] <= owners /\ id[1] \in Nat
      BY <1>1, ReferencedTyped DEF UploadIInv, RecordsKept, FileUpload
    <2>9. \A id \in Referenced(upload[f].state) : id[1] < owners' /\ id[1] # owners'
      BY <1>1, <1>2, <2>8
    <2>10. Remembers(c)' /\ Unnamed(c)'
      <3>1. State(c)' = upload[f].state
        BY <2>2, <2>3, <2>5 DEF State
      <3> QED
        BY <2>3, <2>5, <2>8, <2>9, <3>1 DEF Remembers, Unnamed, Early
    <2>11. Receives(c)' /\ Received(c)' /\ Looks(c)'
      BY <2>3, <2>5 DEF Receives, Received, Looks, Late
    <2> QED
      BY <1>2, <2>2, <2>3, <2>5, <2>6, <2>7, <2>10, <2>11, StepKeeps DEF RequestKept, AtWork, Batch
  <1>4. CASE ClaimBulk(c)
    <2>1. /\ UNCHANGED <<bytes, plain, lapses>> /\ upload' \in [UploadFiles -> FileUpload]
          /\ Touched(writer[c].owner)
      BY <1>4, LeaseFacts
    <2>2. PICK v \in Writer : /\ v.owner = owners' /\ v.at = "claimed"
                              /\ writer' = [writer EXCEPT ![c] = v]
      BY <1>4, LeaseFacts
    <2>3. writer' \in [UploadClients -> Writer] /\ writer'[c] = v /\ OthersKeep(c)
      BY <2>2, BecomesFacts
    <2>4. UploadTypeOK'
      BY <1>2, <2>1, <2>3 DEF UploadIInv, UploadTypeOK, OwnerId
    <2>5. RequestKept(c)'
      BY <2>2, <2>3, Rests DEF Looks, Early, Late
    <2> QED
      BY <1>2, <2>1, <2>2, <2>3, <2>4, <2>5, StepKeeps DEF AtWork, Batch
  <1> QED
    BY <1>3, <1>4

\* What a batch still holds is retired.
LEMMA RetireBulkFacts ==
    ASSUME UploadIInv, NEW c \in UploadClients, RetireBulk(c)
    PROVE  LET w == writer[c]
           IN  /\ UNCHANGED <<bytes, plain, owners, lapses>>
               /\ upload' \in [UploadFiles -> FileUpload] /\ Touched(w.owner)
               /\ \A g \in UploadFiles :
                     /\ upload'[g].live = upload[g].live
                     /\ upload'[g].state \in {upload[g].state, RetiredState(upload[g].state)}
                     /\ g \in w.claimed /\ upload[g].owner = w.owner => upload'[g].state.status = "retired"
               /\ \E v \in Writer : /\ v.owner = w.owner /\ v.at = "wiping" /\ v.op = w.op
                                   /\ v.claimed = w.claimed /\ writer' = [writer EXCEPT ![c] = v]
  <1> DEFINE w == writer[c]
             v == [w EXCEPT !.at = "wiping"]
  <1>1. /\ upload \in [UploadFiles -> FileUpload] /\ writer \in [UploadClients -> Writer]
        /\ w \in Writer /\ w.owner # 0
    BY WriterFacts DEF UploadIInv, UploadTypeOK, RetireBulk, Batch
  <1>2. /\ v \in Writer /\ v.owner = w.owner /\ v.at = "wiping" /\ v.op = w.op
        /\ v.claimed = w.claimed
    BY <1>1 DEF Writer, WriterPC
  <1>3. /\ UNCHANGED <<bytes, plain, owners, lapses>> /\ writer' = [writer EXCEPT ![c] = v]
        /\ upload' = [f \in UploadFiles |->
                       IF f \in w.claimed /\ upload[f].owner = w.owner
                       THEN [upload[f] EXCEPT !.owner = 0, !.state = RetiredState(upload[f].state)]
                       ELSE upload[f]]
    BY <1>1 DEF RetireBulk, Writer
  <1> HIDE DEF v
  <1>4. ASSUME NEW g \in UploadFiles
        PROVE  /\ upload'[g] \in FileUpload
               /\ \/ upload'[g] = upload[g]
                  \/ /\ upload[g].owner = w.owner /\ upload'[g].owner = 0
                     /\ upload'[g].live = upload[g].live
                     /\ upload'[g].state = RetiredState(upload[g].state)
                     /\ Successor(upload[g].state, upload'[g].state, w.owner)
               /\ g \in w.claimed /\ upload[g].owner = w.owner => upload'[g].state.status = "retired"
    <2>1. CASE g \in w.claimed /\ upload[g].owner = w.owner
      <3> DEFINE t == RetiredState(upload[g].state)
      <3>1. upload'[g] = [upload[g] EXCEPT !.owner = 0, !.state = t]
        BY <1>3, <2>1
      <3>2. upload[g] \in FileUpload /\ upload[g].state \in Progress /\ Consistent(upload[g].state)
        BY <1>1 DEF FileUpload, UploadIInv, RecordsKept
      <3>3. t \in Progress /\ Successor(upload[g].state, t, w.owner) /\ t.status = "retired"
        BY <3>2, RetireSucceeds
      <3>4. 0 \in OwnerId
        BY UploadAssumption DEF OwnerId
      <3>5. t = RetiredState(upload[g].state)
        OBVIOUS
      <3> HIDE DEF t
      <3>6. upload'[g] \in FileUpload /\ upload'[g].state = t /\ upload'[g].owner = 0 /\ upload'[g].live = upload[g].live
        BY <3>1, <3>2, <3>3, <3>4 DEF FileUpload
      <3> QED
        BY <2>1, <3>3, <3>5, <3>6
    <2>2. CASE ~(g \in w.claimed /\ upload[g].owner = w.owner)
      <3>1. upload'[g] = upload[g]
        BY <1>3, <2>2, Zenon
      <3> QED
        BY <1>1, <2>2, <3>1
    <2> QED
      BY <2>1, <2>2
  <1>5. upload' \in [UploadFiles -> FileUpload]
    <2>1. upload' = [g \in UploadFiles |-> upload'[g]]
      BY <1>3, Zenon
    <2> QED
      BY <1>4, <2>1, Zenon
  <1>6. Touched(w.owner)
    BY <1>1, <1>4 DEF Touched
  <1>7. \A g \in UploadFiles :
          /\ upload'[g].live = upload[g].live
          /\ upload'[g].state \in {upload[g].state, RetiredState(upload[g].state)}
    BY <1>4
  <1> QED
    BY <1>2, <1>3, <1>4, <1>5, <1>6, <1>7

\* What was claimed in bulk is found, retired and removed.
LEMMA BulkSteps ==
    ASSUME UploadIInv, NEW c \in UploadClients, FindClaimed(c) \/ RetireBulk(c) \/ WipeBulk(c)
    PROVE  UploadIInv'
  <1> DEFINE w == writer[c]
  <1>1. /\ upload \in [UploadFiles -> FileUpload] /\ writer \in [UploadClients -> Writer]
        /\ w \in Writer /\ w.file \in UploadFiles /\ w.owner # 0 /\ w.at \in Batch
        /\ plain \subseteq UploadFiles /\ bytes \in [UploadFiles -> [ByteId -> Data]]
    BY WriterFacts DEF UploadIInv, UploadTypeOK, Writer, FindClaimed, RetireBulk, WipeBulk, Batch
  <1>2. CASE FindClaimed(c)
    <2> DEFINE S == {f \in w.todo : upload[f].owner = w.owner}
               v == [w EXCEPT !.at = "retiring", !.claimed = S]
    <2>1. S \in SUBSET UploadFiles
      BY <1>1 DEF Writer
    <2> HIDE DEF S
    <2>2. v \in Writer /\ v.owner = w.owner /\ v.at = "retiring"
      BY <1>1, <2>1 DEF Writer, WriterPC
    <2>3. UNCHANGED <<upload, bytes, plain, owners, lapses>> /\ writer' = [writer EXCEPT ![c] = v]
      BY <1>1, <1>2 DEF FindClaimed, Writer, S
    <2> HIDE DEF v
    <2>4. writer'[c] = v
      BY <2>2, <2>3, BecomesFacts
    <2>5. RequestKept(c)'
      BY <2>2, <2>4, Rests DEF Looks, Early, Late
    <2> QED
      BY <1>1, <2>2, <2>3, <2>5, Passes DEF AtWork, Batch
  <1>3. CASE RetireBulk(c)
    <2>1. /\ UNCHANGED <<bytes, plain, owners, lapses>> /\ Touched(w.owner)
          /\ upload' \in [UploadFiles -> FileUpload]
      BY <1>3, RetireBulkFacts
    <2>2. PICK v \in Writer : /\ v.owner = w.owner /\ v.at = "wiping"
                              /\ writer' = [writer EXCEPT ![c] = v]
      BY <1>3, RetireBulkFacts
    <2>3. writer' \in [UploadClients -> Writer] /\ writer'[c] = v /\ OthersKeep(c)
      BY <2>2, BecomesFacts
    <2>4. UploadTypeOK'
      BY <2>1, <2>3 DEF UploadIInv, UploadTypeOK
    <2>5. RequestKept(c)'
      BY <2>2, <2>3, Rests DEF Looks, Early, Late
    <2> QED
      BY <1>1, <2>1, <2>2, <2>3, <2>4, <2>5, StepKeeps DEF AtWork, Batch
  <1>4. CASE WipeBulk(c)
    <2> DEFINE op == IF w.todo \subseteq w.claimed THEN "none" ELSE w.op
               at == IF w.todo \subseteq w.claimed THEN "idle" ELSE "next"
               v == Waiting(w.file, op, at, w.todo \ w.claimed)
    <2>1. /\ op \in UploadOps \cup {"none"} /\ at \in {"idle", "next"}
          /\ w.todo \ w.claimed \in SUBSET UploadFiles
      BY <1>1 DEF Writer
    <2>2. /\ UNCHANGED <<upload, owners, lapses>> /\ writer' = [writer EXCEPT ![c] = v]
          /\ plain' = plain \ w.claimed
          /\ bytes' = [f \in UploadFiles |->
                        IF f \in w.claimed THEN [id \in ByteId |-> <<>>] ELSE bytes[f]]
      BY <1>4 DEF WipeBulk, Waiting
    <2> HIDE DEF op, at
    <2>3. v \in Writer /\ v.owner = 0 /\ v.at = at
      <3>1. at \in WriterPC
        BY <2>1 DEF WriterPC
      <3>2. w.file \in UploadFiles /\ op \in UploadOps \cup {"none"} /\ w.todo \ w.claimed \in SUBSET UploadFiles
        BY <1>1, <2>1
      <3> DEFINE S == w.todo \ w.claimed
                 g == w.file
      <3> HIDE DEF w, S, g
      <3> QED
        BY <3>1, <3>2, WaitingFacts DEF S, g
    <2> HIDE DEF v
    <2>4. writer'[c] = v
      BY <2>2, <2>3, BecomesFacts
    <2>5. RequestKept(c)'
      BY <2>1, <2>3, <2>4, Rests DEF Looks, Early, Late
    <2>6. bytes' \in [UploadFiles -> [ByteId -> Data]]
      <3>1. [id \in ByteId |-> <<>>] \in [ByteId -> Data]
        BY DataFacts
      <3> QED
        BY <1>1, <2>2, <3>1
    <2> QED
      BY <1>1, <2>1, <2>2, <2>3, <2>5, <2>6, Passes DEF AtWork, Batch
  <1> QED
    BY <1>2, <1>3, <1>4

\* A request saves what it makes of its upload.
LEMMA SaveKeeps ==
    ASSUME UploadIInv, NEW c \in UploadClients, NEW s \in Progress, NEW w \in Writer,
           w.file = writer[c].file, w.owner = writer[c].owner, writer[c].at \in AtWork,
           Save(c, s, w), Fenced(c) => Successor(State(c), s, w.owner),
           UNCHANGED <<bytes, plain, owners, lapses>>, w.at \in AtWork, RequestKept(c)'
    PROVE  UploadIInv'
  <1>1. /\ upload' \in [UploadFiles -> FileUpload] /\ writer' \in [UploadClients -> Writer]
        /\ Touched(writer[c].owner) /\ OthersKeep(c)
        /\ writer'[c].file = writer[c].file /\ writer'[c].owner = writer[c].owner
        /\ writer'[c].at \in {"close", w.at}
    BY SaveFacts DEF SaveDone
  <1>2. UploadTypeOK'
    BY <1>1 DEF UploadIInv, UploadTypeOK
  <1>3. writer[c].owner # 0
    BY WriterFacts
  <1>4. writer'[c].at \in AtWork
    BY <1>1 DEF AtWork
  <1> QED
    BY <1>1, <1>2, <1>3, <1>4, StepKeeps

LEMMA SaveAndClose ==
    ASSUME UploadIInv, NEW c \in UploadClients, NEW s \in Progress, NEW w \in Writer,
           w.file = writer[c].file, w.owner = writer[c].owner, writer[c].at \in AtWork,
           Save(c, s, w), Fenced(c) => Successor(State(c), s, w.owner),
           UNCHANGED <<bytes, plain, owners, lapses>>, w.at \in {"close", "remove"}
    PROVE  UploadIInv'
  <1>1. writer'[c].at \in {"close", "remove"}
    <2>1. writer'[c].at \in {"close", w.at}
      BY SaveFacts DEF SaveDone
    <2> QED
      BY <2>1
  <1>2. RequestKept(c)'
    BY <1>1, Rests DEF Looks, Early, Late
  <1>3. w.at \in AtWork
    BY DEF AtWork
  <1> QED
    BY <1>2, <1>3, SaveKeeps

LEMMA SavingSteps ==
    ASSUME UploadIInv, NEW c \in UploadClients, ReserveFileUpload(c) \/ CommitChunk(c) \/ RetireFile(c)
    PROVE  UploadIInv'
  <1> DEFINE w == writer[c]
  <1>1. /\ w \in Writer /\ w.mine \in Progress /\ w.at \in AtWork
        /\ Remembers(c) /\ UNCHANGED <<bytes, plain, owners, lapses>>
    BY WriterFacts DEF Writer, ReserveFileUpload, CommitChunk, RetireFile, AtWork
  <1>2. CASE ReserveFileUpload(c)
    <2> DEFINE s == [w.mine EXCEPT !.mode = "public"]
               x == [w EXCEPT !.at = "close"]
    <2>1. /\ Consistent(w.mine) /\ (Fenced(c) => w.mine = State(c))
          /\ w.mine.mode = "none" \/ (w.mine.mode = "public" /\ w.mine.status = "uploading")
          /\ Save(c, s, x)
      BY <1>1, <1>2 DEF ReserveFileUpload, Remembers, Early
    <2>2. s \in Progress /\ Successor(w.mine, s, w.owner)
      BY <1>1, <2>1, ReserveSucceeds
    <2>3. x \in Writer /\ x.file = w.file /\ x.owner = w.owner /\ x.at = "close"
      BY <1>1 DEF Writer, WriterPC
    <2> HIDE DEF s, x
    <2>4. Fenced(c) => Successor(State(c), s, x.owner)
      BY <2>1, <2>2, <2>3
    <2> QED
      BY <1>1, <2>1, <2>2, <2>3, <2>4, SaveAndClose
  <1>3. CASE CommitChunk(c)
    <2> DEFINE x == [w EXCEPT !.at = "close"]
    <2>1. w.at = "commit" /\ Save(c, w.mine, x)
      BY <1>3 DEF CommitChunk
    <2>2. x \in Writer /\ x.file = w.file /\ x.owner = w.owner /\ x.at = "close"
      BY <1>1 DEF Writer, WriterPC
    <2> HIDE DEF x
    <2>3. Fenced(c) => Successor(State(c), w.mine, x.owner)
      BY <2>1, <2>2, CommitSucceeds
    <2> QED
      BY <1>1, <2>1, <2>2, <2>3, SaveAndClose
  <1>4. CASE RetireFile(c)
    <2> DEFINE s == RetiredState(w.mine)
               S == Referenced(w.mine) \ {NoId}
               x == [w EXCEPT !.at = "remove", !.found = S]
    <2>1. /\ Consistent(w.mine) /\ (Fenced(c) => w.mine = State(c))
          /\ Save(c, s, x)
      BY <1>1, <1>4 DEF RetireFile, Remembers, Early
    <2>2. s \in Progress /\ Successor(w.mine, s, w.owner)
      BY <1>1, <2>1, RetireSucceeds
    <2>3. S \in SUBSET ByteId
      BY <1>1, ReferencedTyped
    <2> HIDE DEF S
    <2>4. x \in Writer /\ x.file = w.file /\ x.owner = w.owner /\ x.at = "remove"
      BY <1>1, <2>3 DEF Writer, WriterPC
    <2> HIDE DEF s, x
    <2>5. Fenced(c) => Successor(State(c), s, x.owner)
      BY <2>1, <2>2, <2>4
    <2> QED
      BY <1>1, <2>1, <2>2, <2>4, <2>5, SaveAndClose
  <1> QED
    BY <1>2, <1>3, <1>4

\* An upload begins where the record says it is.
LEMMA BeginKeeps ==
    ASSUME UploadIInv, NEW c \in UploadClients, writer[c].at = "owned",
           NEW s \in Progress, NEW end \in Size,
           Save(c, s, [writer[c] EXCEPT !.at = "receive", !.end = end]),
           UNCHANGED <<bytes, plain, owners, lapses>>,
           Successor(writer[c].mine, s, writer[c].owner),
           s.published = writer[c].mine.published,
           s.parts \in {writer[c].mine.parts, <<>>},
           writer[c].op \in {"chunk", "internal"},
           s.mode # "none", s.status = "uploading", s.offset < end,
           writer[c].op = "chunk" => s.mode = "public" /\ end <= s.total,
           writer[c].op # "chunk" => s.parts = <<>>,
           s.parts # <<>> => s.mode = "public" /\ s.offset > 0
    PROVE  UploadIInv'
  <1> DEFINE w == writer[c]
             x == [w EXCEPT !.at = "receive", !.end = end]
             y == [x EXCEPT !.mine = s]
  <1>1. /\ w \in Writer /\ w.at \in AtWork /\ Remembers(c) /\ w.owner \in Nat
        /\ upload \in [UploadFiles -> FileUpload] /\ w.file \in UploadFiles
        /\ w.mine \in Progress
    BY WriterFacts DEF AtWork, UploadIInv, UploadTypeOK, Writer
  <1>2. /\ x \in Writer /\ x.file = w.file /\ x.owner = w.owner /\ x.at = "receive"
        /\ x.op = w.op /\ x.end = end
    BY <1>1 DEF Writer, WriterPC
  <1>3. Save(c, s, x)
    OBVIOUS
  <1>4. /\ y \in Writer /\ y.file = w.file /\ y.owner = w.owner /\ y.at = "receive"
        /\ y.op = w.op /\ y.end = end /\ y.mine = s
    BY <1>1 DEF Writer, WriterPC
  <1>5. /\ Fenced(c) => w.mine = State(c)
        /\ \A id \in Referenced(w.mine) : id[1] < w.owner
    BY <1>1 DEF Remembers, Early
  <1>6. Fenced(c) => Successor(State(c), s, x.owner)
    BY <1>2, <1>5
  <1> HIDE DEF x, y
  <1>7. Fenced(c) => writer'[c] = y /\ upload'[w.file].state = s
    <2>1. Fenced(c) => /\ upload'[x.file].state = s
                       /\ writer'[c] = IF x.at = "close" THEN Closing(x) ELSE [x EXCEPT !.mine = s]
      BY <1>1, <1>2, <1>3, <1>6, SaveFacts DEF SaveDone
    <2>2. Fenced(c) => upload'[w.file].state = s
      BY <1>2, <2>1
    <2> QED
      BY <1>2, <2>1, <2>2 DEF y
  <1>8. ~Fenced(c) => writer'[c].at = "close"
    BY <1>1, <1>2, <1>3, <1>6, SaveFacts DEF SaveDone
  <1>9. \A id \in Referenced(s) : id[1] < w.owner /\ id[1] # w.owner
    <2>1. Referenced(s) \subseteq Referenced(w.mine)
      BY SameParts DEF Referenced
    <2>2. \A id \in Referenced(w.mine) : id[1] \in Nat
      BY <1>1, ReferencedTyped
    <2> QED
      BY <1>1, <1>5, <2>1, <2>2
  <1>10. RequestKept(c)'
    <2>1. CASE ~Fenced(c)
      BY <1>8, <2>1, Rests DEF Looks, Early, Late
    <2>2. CASE Fenced(c)
      <3>1. writer'[c] = y /\ State(c)' = s
        BY <1>4, <1>7, <2>2 DEF State
      <3>2. Consistent(s)
        BY DEF Successor
      <3>3. Remembers(c)' /\ Unnamed(c)'
        BY <1>4, <1>9, <3>1, <3>2 DEF Remembers, Unnamed
      <3>4. Receives(c)'
        BY <1>4, <3>1 DEF Receives
      <3>5. Received(c)' /\ Looks(c)'
        BY <1>4, <3>1 DEF Received, Looks, Late
      <3> QED
        BY <3>3, <3>4, <3>5 DEF RequestKept
    <2> QED
      BY <2>1, <2>2
  <1>11. x.at \in AtWork
    BY <1>2 DEF AtWork
  <1> QED
    BY <1>1, <1>2, <1>3, <1>6, <1>10, <1>11, SaveKeeps

LEMMA BeginSteps ==
    ASSUME UploadIInv, NEW c \in UploadClients, BeginReplacement(c) \/ BeginChunk(c)
    PROVE  UploadIInv'
  <1> DEFINE w == writer[c]
  <1>1. w \in Writer /\ w.mine \in Progress /\ w.at = "owned" /\ Remembers(c)
    BY WriterFacts DEF Writer, BeginReplacement, BeginChunk
  <1>2. Consistent(w.mine) /\ UNCHANGED <<bytes, plain, owners, lapses>>
    BY <1>1 DEF Remembers, Early, BeginReplacement, BeginChunk
  <1>3. CASE BeginReplacement(c)
    <2> DEFINE s == [NoProgress EXCEPT !.mode = "internal", !.published = w.mine.published]
    <2>1. /\ w.op = "internal" /\ w.mine.mode # "public" /\ w.mine.status # "retired"
      BY <1>3 DEF BeginReplacement
    <2>2. PICK end \in Sizes : Save(c, s, [w EXCEPT !.at = "receive", !.end = end])
      BY <1>3 DEF BeginReplacement
    <2>3. end \in Size /\ end > 0
      BY UploadAssumption DEF Size
    <2>4. /\ s \in Progress /\ Successor(w.mine, s, w.owner) /\ s.published = w.mine.published
          /\ s.parts = <<>> /\ s.offset = 0 /\ s.status = "uploading" /\ s.mode = "internal"
      BY <1>1, <1>2, <2>1, ReplacementSucceeds
    <2> HIDE DEF s
    <2> QED
      BY <1>1, <1>2, <2>1, <2>2, <2>3, <2>4, BeginKeeps
  <1>4. CASE BeginChunk(c)
    <2>1. /\ w.op = "chunk" /\ w.mine.mode = "public" /\ w.mine.status = "uploading"
      BY <1>4 DEF BeginChunk
    <2>2. PICK total \in Sizes : /\ w.mine.total \in {0, total}
                                 /\ \E end \in w.mine.offset + 1..total :
                                      Save(c, [w.mine EXCEPT !.total = total],
                                           [w EXCEPT !.at = "receive", !.end = end])
      BY <1>4 DEF BeginChunk
    <2>3. PICK end \in w.mine.offset + 1..total :
             Save(c, [w.mine EXCEPT !.total = total], [w EXCEPT !.at = "receive", !.end = end])
      BY <2>2
    <2>4. w.mine.offset \in Nat /\ total \in Nat /\ total <= MAX_BYTES
      BY <1>1, UploadAssumption DEF Progress, Size
    <2>5. end \in Size /\ w.mine.offset < end /\ end <= total /\ w.mine.offset < total
      BY <2>4, UploadAssumption DEF Size
    <2> DEFINE s == [w.mine EXCEPT !.total = total]
    <2>6. /\ s \in Progress /\ Successor(w.mine, s, w.owner) /\ s.published = w.mine.published
          /\ s.mode = "public" /\ s.status = "uploading" /\ s.offset = w.mine.offset /\ s.total = total
          /\ s.parts = w.mine.parts
          /\ s.parts # <<>> => s.offset > 0
      BY <1>1, <1>2, <2>1, <2>2, <2>5, BeginChunkSucceeds
    <2>7. Save(c, s, [w EXCEPT !.at = "receive", !.end = end])
      BY <2>3
    <2> HIDE DEF s
    <2> QED
      BY <1>1, <1>2, <2>1, <2>5, <2>6, <2>7, BeginKeeps
  <1> QED
    BY <1>3, <1>4

\* What publishing counts of the readers of the file.
LEMMA ReplacedFacts ==
    ASSUME NEW ws \in [UploadClients -> Writer], NEW f, NEW d \in UploadClients
    PROVE  /\ Replaced(f, ws)[d] \in Writer
           /\ \E n \in 0..2 : Replaced(f, ws)[d] = [ws[d] EXCEPT !.moved = n]
  <1>1. ws[d] \in Writer /\ ws[d].moved \in 0..2 /\ ws[d] = [ws[d] EXCEPT !.moved = ws[d].moved]
    BY DEF Writer
  <1>2. CASE ws[d].op = "read" /\ ws[d].file = f /\ ws[d].moved < 2
    <2>1. Replaced(f, ws)[d] = [ws[d] EXCEPT !.moved = ws[d].moved + 1]
      BY <1>2 DEF Replaced
    <2>2. ws[d].moved + 1 \in 0..2
      BY <1>1, <1>2
    <2>3. [ws[d] EXCEPT !.moved = ws[d].moved + 1] \in Writer
      BY <1>1, <2>2 DEF Writer
    <2> QED
      BY <1>2, <2>1, <2>2, <2>3
  <1>3. CASE ~(ws[d].op = "read" /\ ws[d].file = f /\ ws[d].moved < 2)
    <2>1. Replaced(f, ws)[d] = ws[d]
      BY <1>3 DEF Replaced
    <2> QED
      BY <1>1, <2>1
  <1> QED
    BY <1>2, <1>3

LEMMA ReplacedOther ==
    ASSUME NEW ws \in [UploadClients -> Writer], NEW f, NEW d \in UploadClients,
           ~(ws[d].op = "read" /\ ws[d].file = f)
    PROVE  Replaced(f, ws)[d] = ws[d]
  BY DEF Replaced

LEMMA ReplacedReader ==
    ASSUME NEW ws \in [UploadClients -> Writer], NEW f, NEW d \in UploadClients,
           ws[d].op = "read", ws[d].file = f
    PROVE  Replaced(f, ws)[d].moved = 2 \/ Replaced(f, ws)[d].moved = ws[d].moved + 1
  <1>1. ws[d] \in Writer /\ ws[d].moved \in 0..2
    BY DEF Writer
  <1>2. CASE ws[d].moved < 2
    <2>1. Replaced(f, ws)[d] = [ws[d] EXCEPT !.moved = ws[d].moved + 1]
      BY <1>2 DEF Replaced
    <2> QED
      BY <1>1, <2>1 DEF Writer
  <1>3. CASE ~(ws[d].moved < 2)
    <2>1. Replaced(f, ws)[d] = ws[d]
      BY <1>3 DEF Replaced
    <2> QED
      BY <1>1, <1>3, <2>1
  <1> QED
    BY <1>2, <1>3

LEMMA ReplacedTyped ==
    ASSUME NEW ws \in [UploadClients -> Writer], NEW f
    PROVE  Replaced(f, ws) \in [UploadClients -> Writer]
  <1>1. \A d \in UploadClients : Replaced(f, ws)[d] \in Writer
    BY ReplacedFacts
  <1>2. Replaced(f, ws) = [d \in UploadClients |-> Replaced(f, ws)[d]]
    BY DEF Replaced
  <1> QED
    BY <1>1, <1>2

LEMMA PublishWriters ==
    ASSUME UploadIInv, NEW c \in UploadClients, Publish(c)
    PROVE  /\ writer' \in [UploadClients -> Writer] /\ OthersKeep(c)
           /\ writer'[c] = Closing(writer[c])
           /\ \A d \in UploadClients \ {c} :
                ~(Fenced(c) /\ writer[d].op = "read" /\ writer[d].file = writer[c].file) => writer'[d] = writer[d]
           /\ \A d \in UploadClients \ {c} :
                Fenced(c) /\ writer[d].op = "read" /\ writer[d].file = writer[c].file =>
                    writer'[d].moved = 2 \/ writer'[d].moved = writer[d].moved + 1
  <1> DEFINE w == writer[c]
             v == Closing(w)
             ws == [writer EXCEPT ![c] = v]
  <1>1. /\ w \in Writer /\ w.at = "publish" /\ w.op # "read"
        /\ writer \in [UploadClients -> Writer]
    BY WriterFacts DEF Publish, Received, Late, UploadIInv, UploadTypeOK
  <1>2. v \in Writer /\ v.op = w.op
    BY <1>1, ClosingFacts
  <1> HIDE DEF v
  <1>3. /\ ws \in [UploadClients -> Writer] /\ ws[c] = v
        /\ \A d \in UploadClients \ {c} : ws[d] = writer[d]
    BY <1>1, <1>2
  <1>4. writer' = IF Fenced(c) THEN Replaced(w.file, ws) ELSE ws
    BY DEF Publish, v
  <1> HIDE DEF ws
  <1>5. CASE Fenced(c)
    <2>1. writer' \in [UploadClients -> Writer]
      BY <1>3, <1>4, <1>5, ReplacedTyped
    <2>2. writer'[c] = v
      <3>1. ws[c].op # "read"
        BY <1>1, <1>2, <1>3
      <3>2. Replaced(w.file, ws)[c] = ws[c]
        BY <1>3, <3>1, ReplacedOther
      <3> QED
        BY <1>3, <1>4, <1>5, <3>2
    <2>3. ASSUME NEW d \in UploadClients \ {c}
          PROVE  /\ \E n \in 0..2 : writer'[d] = [writer[d] EXCEPT !.moved = n]
                 /\ ~(writer[d].op = "read" /\ writer[d].file = w.file) => writer'[d] = writer[d]
                 /\ writer[d].op = "read" /\ writer[d].file = w.file =>
                      writer'[d].moved = 2 \/ writer'[d].moved = writer[d].moved + 1
      <3>1. ws[d] = writer[d] /\ writer' = Replaced(w.file, ws)
        BY <1>3, <1>4, <1>5
      <3>2. \E n \in 0..2 : Replaced(w.file, ws)[d] = [ws[d] EXCEPT !.moved = n]
        BY <1>3, ReplacedFacts
      <3>3. ~(ws[d].op = "read" /\ ws[d].file = w.file) => Replaced(w.file, ws)[d] = ws[d]
        BY <1>3, ReplacedOther
      <3>4. ws[d].op = "read" /\ ws[d].file = w.file =>
               Replaced(w.file, ws)[d].moved = 2 \/ Replaced(w.file, ws)[d].moved = ws[d].moved + 1
        BY <1>3, ReplacedReader
      <3> QED
        BY <3>1, <3>2, <3>3, <3>4
    <2>4. OthersKeep(c)
      BY <2>3 DEF OthersKeep
    <2> HIDE DEF v
    <2> QED
      BY <1>5, <2>1, <2>2, <2>3, <2>4 DEF v
  <1>6. CASE ~Fenced(c)
    <2>1. \A d \in UploadClients : writer[d].moved \in 0..2 /\ writer[d] = [writer[d] EXCEPT !.moved = writer[d].moved]
      BY <1>1 DEF Writer
    <2> QED
      BY <1>3, <1>4, <1>6, <2>1 DEF OthersKeep, v
  <1> QED
    BY <1>5, <1>6

\* The state that a request publishes.
Publishing(w) ==
    [w.mine EXCEPT !.published = w.id, !.parts = <<>>, !.total = w.mine.offset, !.status = "complete"]

LEMMA PublishFacts ==
    ASSUME UploadIInv, NEW c \in UploadClients, Publish(c)
    PROVE  /\ upload' \in [UploadFiles -> FileUpload] /\ Touched(writer[c].owner)
           /\ \A f \in UploadFiles : upload'[f].owner = upload[f].owner /\ upload'[f].live = upload[f].live
           /\ \A f \in UploadFiles : f # writer[c].file => upload'[f] = upload[f]
           /\ Fenced(c) => upload'[writer[c].file].state = Publishing(writer[c])
           /\ ~Fenced(c) => upload' = upload
  <1> DEFINE w == writer[c]
             s == w.mine
             t == Publishing(w)
  <1>1. /\ w \in Writer /\ w.file \in UploadFiles /\ w.owner # 0 /\ w.at = "publish"
        /\ s \in Progress /\ upload \in [UploadFiles -> FileUpload]
    BY WriterFacts DEF Publish, AtWork, Writer, UploadIInv, UploadTypeOK
  <1>2. upload' = [upload EXCEPT ![w.file].state = IF Fenced(c) THEN t ELSE upload[w.file].state]
    BY DEF Publish, Publishing
  <1>3. Fenced(c) => Successor(State(c), t, w.owner) /\ w.id # NoId
    BY <1>1, PublishSucceeds DEF Publishing
  <1>4. Fenced(c) => t \in Progress
    <2>1. <<>> \in Seq(Part)
      BY EmptySeq
    <2> QED
      BY <1>1, <2>1 DEF Progress, Writer, Publishing
  <1> HIDE DEF t
  <1>5. /\ upload' \in [UploadFiles -> FileUpload]
        /\ \A f \in UploadFiles : upload'[f].owner = upload[f].owner /\ upload'[f].live = upload[f].live
        /\ \A f \in UploadFiles : f # w.file => upload'[f] = upload[f]
        /\ Fenced(c) => upload'[w.file].state = t
        /\ ~Fenced(c) => upload' = upload
    <2>1. CASE Fenced(c)
      <3>1. upload' = [upload EXCEPT ![w.file].state = t]
        BY <1>2, <2>1
      <3> QED
        BY <1>1, <1>4, <2>1, <3>1 DEF FileUpload
    <2>2. CASE ~Fenced(c)
      <3>1. upload' = [upload EXCEPT ![w.file].state = upload[w.file].state]
        BY <1>2, <2>2
      <3>2. upload' = upload
        BY <1>1, <3>1 DEF FileUpload
      <3> QED
        BY <1>1, <2>2, <3>2
    <2> QED
      BY <2>1, <2>2
  <1>6. Touched(w.owner)
    <2> SUFFICES ASSUME NEW f \in UploadFiles, upload'[f] # upload[f]
                 PROVE  /\ w.owner # 0 /\ upload[f].owner = w.owner
                        /\ upload'[f].owner \in {0, w.owner} /\ upload'[f].live = upload[f].live
                        /\ Successor(upload[f].state, upload'[f].state, w.owner)
      BY DEF Touched
    <2> QED
      BY <1>1, <1>3, <1>5 DEF Fenced, State
  <1> QED
    BY <1>5, <1>6 DEF t

LEMMA PublishStep ==
    ASSUME UploadIInv, NEW c \in UploadClients, Publish(c)
    PROVE  UploadIInv'
  <1> DEFINE w == writer[c]
  <1>1. w \in Writer /\ w.owner # 0 /\ w.at = "publish"
    BY WriterFacts DEF Publish, AtWork
  <1>2. UNCHANGED <<bytes, plain, owners, lapses>>
    BY DEF Publish
  <1>3. upload' \in [UploadFiles -> FileUpload] /\ Touched(w.owner)
    BY PublishFacts
  <1>4. /\ writer' \in [UploadClients -> Writer] /\ OthersKeep(c)
        /\ writer'[c] = Closing(w)
    BY PublishWriters
  <1>5. writer'[c].at = "close" /\ writer'[c].owner = w.owner /\ writer'[c].file = w.file
    BY <1>1, <1>4, ClosingFacts
  <1>6. UploadTypeOK'
    BY <1>2, <1>3, <1>4 DEF UploadIInv, UploadTypeOK
  <1>7. RequestKept(c)'
    BY <1>5, Rests DEF Looks, Early, Late
  <1> QED
    BY <1>1, <1>2, <1>3, <1>4, <1>5, <1>6, <1>7, StepKeeps DEF AtWork

-----------------------------------------------------------------------------
LEMMA UploadInitIInv ==
    UploadInit => UploadIInv
  <1> SUFFICES ASSUME UploadInit PROVE UploadIInv
    OBVIOUS
  <1> DEFINE F == CHOOSE f \in UploadFiles : TRUE
             early == [NoProgress EXCEPT !.mode = "public", !.offset = 2, !.total = 3,
                          !.parts = [i \in 1..2 |-> [id |-> EarlyParts[i], size |-> 1]]]
  <1>1. F \in UploadFiles
    BY UploadAssumption
  <1>2. /\ plain \subseteq UploadFiles /\ writer = [c \in UploadClients |-> NoWriter(F)]
        /\ owners = 0 /\ lapses = 0
    BY DEF UploadInit
  <1> HIDE DEF F
  <1>3. \A c \in UploadClients : writer[c] = NoWriter(F) /\ writer[c].at = "idle" /\ writer[c].owner = 0
    BY <1>1, <1>2, NoWriterFacts
  <1>4. 0 \in OwnerId
    BY UploadAssumption DEF OwnerId
  <1>5. MAX_BYTES >= 3 =>
           /\ early \in Progress /\ Consistent(early)
           /\ \A id \in Referenced(early) : id[1] = 0
    <2> SUFFICES ASSUME MAX_BYTES >= 3
                 PROVE  /\ early \in Progress /\ Consistent(early)
                        /\ \A id \in Referenced(early) : id[1] = 0
      OBVIOUS
    <2> DEFINE parts == [i \in 1..2 |-> [id |-> EarlyParts[i], size |-> 1]]
    <2>1. /\ parts \in Seq(Part) /\ DOMAIN parts = 1..2 /\ Len(parts) = 2
          /\ parts[1].id = EarlyParts[1] /\ parts[2].id = EarlyParts[2]
      <3>1. 1 \in Size /\ EarlyParts[1] \in ByteId /\ EarlyParts[2] \in ByteId
        BY UploadAssumption DEF Size, ByteId
      <3>2. \A i \in 1..2 : [id |-> EarlyParts[i], size |-> 1] \in Part
        BY <3>1 DEF Part
      <3> QED
        BY <3>2
    <2>2. /\ early.parts = parts /\ early.mode = "public" /\ early.status = "uploading"
          /\ early.offset = 2 /\ early.total = 3 /\ early.published = NoId
      BY DEF NoProgress
    <2>3. early \in Progress
      <3>1. 2 \in Size /\ 3 \in Size
        BY UploadAssumption DEF Size
      <3>2. NoProgress \in Progress
        BY ProgressFacts
      <3> HIDE DEF parts
      <3>3. [NoProgress EXCEPT !.mode = "public", !.offset = 2, !.total = 3, !.parts = parts] \in Progress
        BY <2>1, <3>1, <3>2 DEF Progress
      <3> QED
        BY <3>3 DEF parts
    <2>4. Consistent(early)
      BY <2>2 DEF Consistent, EarlyUpload
    <2>5. \A id \in Referenced(early) : id[1] = 0
      <3>1. Referenced(early) = {early.parts[i].id : i \in DOMAIN early.parts} \cup {early.published}
        BY DEF Referenced
      <3> HIDE DEF early, parts
      <3>2. \A i \in DOMAIN early.parts : early.parts[i].id \in {EarlyParts[1], EarlyParts[2]}
        BY <2>1, <2>2
      <3> QED
        BY <2>2, <3>1, <3>2 DEF EarlyParts, NoId
    <2> QED
      BY <2>3, <2>4, <2>5
  <1>6. \A f \in UploadFiles :
           /\ upload[f] \in FileUpload /\ upload[f].owner = 0
           /\ Consistent(upload[f].state) /\ (\A id \in Referenced(upload[f].state) : id[1] = 0)
    <2>1. CASE upload = [f \in UploadFiles |-> [owner |-> 0, live |-> FALSE, state |-> NoProgress]]
      <3>1. /\ NoProgress \in Progress /\ Consistent(NoProgress)
            /\ \A id \in Referenced(NoProgress) : id[1] = 0
        BY ProgressFacts DEF NoId
      <3> QED
        BY <1>4, <2>1, <3>1 DEF FileUpload
    <2>2. CASE MAX_BYTES >= 3
               /\ upload = [f \in UploadFiles |-> [owner |-> 0, live |-> FALSE, state |-> early]]
      <3> HIDE DEF early
      <3> QED
        BY <1>4, <1>5, <2>2 DEF FileUpload
    <2> QED
      BY <2>1, <2>2 DEF UploadInit
  <1>7. upload \in [UploadFiles -> FileUpload]
    <2>1. upload = [f \in UploadFiles |-> upload[f]]
      BY DEF UploadInit
    <2> QED
      BY <1>6, <2>1
  <1>8. bytes \in [UploadFiles -> [ByteId -> Data]]
    <2>1. CASE bytes = [f \in UploadFiles |-> [id \in ByteId |-> <<>>]]
      BY <2>1, DataFacts
    <2>2. CASE MAX_BYTES >= 3 /\ \E v \in Contents :
                  bytes = [f \in UploadFiles |-> [id \in ByteId |->
                            IF id \in {EarlyParts[1], EarlyParts[2]} THEN <<v>> ELSE <<>>]]
      <3>1. PICK v \in Contents :
                  bytes = [f \in UploadFiles |-> [id \in ByteId |->
                            IF id \in {EarlyParts[1], EarlyParts[2]} THEN <<v>> ELSE <<>>]]
        BY <2>2
      <3>2. <<v>> \in Data
        <4>1. <<v>> \in Seq(Contents) /\ Len(<<v>>) = 1
          OBVIOUS
        <4>2. 1 <= MAX_BYTES
          BY <2>2, UploadAssumption
        <4> QED
          BY <4>1, <4>2, DataFacts
      <3> QED
        BY <3>1, <3>2, DataFacts
    <2> QED
      BY <2>1, <2>2 DEF UploadInit
  <1>9. writer \in [UploadClients -> Writer]
    BY <1>1, <1>2, NoWriterFacts
  <1>10. UploadTypeOK
    <2>1. owners \in 0..MaxOwners /\ lapses \in 0..MaxLapses
      BY <1>2, UploadAssumption
    <2> QED
      BY <1>2, <1>7, <1>8, <1>9, <2>1 DEF UploadTypeOK
  <1>11. LeasesKept
    BY <1>2, <1>3, <1>6 DEF LeasesKept, AtWork, Batch
  <1>12. RecordsKept
    <2> SUFFICES ASSUME NEW f \in UploadFiles
                 PROVE  /\ Consistent(upload[f].state)
                        /\ \A id \in Referenced(upload[f].state) : id[1] <= owners
      BY DEF RecordsKept
    <2>1. Consistent(upload[f].state) /\ \A id \in Referenced(upload[f].state) : id[1] = 0
      BY <1>6
    <2> HIDE DEF early
    <2> QED
      BY <1>2, <2>1
  <1>13. RequestsKept
    BY <1>3 DEF RequestsKept, RequestKept, Remembers, Receives, Received, Unnamed, Looks, Early, Late
  <1> QED
    BY <1>10, <1>11, <1>12, <1>13 DEF UploadIInv

LEMMA UploadNextIInv ==
    ASSUME UploadIInv, [UploadNext]_uploadVars
    PROVE  UploadIInv'
  <1>1. ASSUME NEW c \in UploadClients,
               \/ Call(c) \/ OpenUploadStore(c) \/ CollectBytes(c) \/ CloseStore(c)
               \/ FailUpload(c) \/ GiveUp(c)
               \/ ReserveFileUpload(c) \/ BeginReplacement(c) \/ UploadAgain(c) \/ BeginWhole(c)
               \/ BeginChunk(c) \/ Receive(c) \/ Assemble(c) \/ Publish(c) \/ CommitChunk(c)
               \/ RetireFile(c) \/ RemoveBytes(c)
               \/ ClaimBulk(c) \/ FindClaimed(c) \/ RetireBulk(c) \/ WipeBulk(c) \/ DeleteNext(c)
               \/ BeginRead(c) \/ ResolvePointer(c) \/ FetchBytes(c)
        PROVE  UploadIInv'
    <2>1. CASE Call(c) \/ GiveUp(c) \/ DeleteNext(c) \/ BeginRead(c) \/ ResolvePointer(c) \/ FetchBytes(c)
      BY <2>1, AskSteps
    <2>2. CASE OpenUploadStore(c) \/ ClaimBulk(c)
      BY <2>2, TakeSteps
    <2>3. CASE CollectBytes(c) \/ BeginWhole(c)
      BY <2>3, CollectSteps
    <2>4. CASE CloseStore(c)
      BY <2>4, CloseStep
    <2>5. CASE FailUpload(c) \/ UploadAgain(c) \/ RemoveBytes(c)
      BY <2>5, ClosingSteps
    <2>6. CASE ReserveFileUpload(c) \/ CommitChunk(c) \/ RetireFile(c)
      BY <2>6, SavingSteps
    <2>7. CASE BeginReplacement(c) \/ BeginChunk(c)
      BY <2>7, BeginSteps
    <2>8. CASE Receive(c)
      BY <2>8, ReceiveStep
    <2>9. CASE Assemble(c)
      BY <2>9, AssembleStep
    <2>10. CASE Publish(c)
      BY <2>10, PublishStep
    <2>11. CASE FindClaimed(c) \/ RetireBulk(c) \/ WipeBulk(c)
      BY <2>11, BulkSteps
    <2> QED
      BY <1>1, <2>1, <2>2, <2>3, <2>4, <2>5, <2>6, <2>7, <2>8, <2>9, <2>10, <2>11
  <1>2. ASSUME NEW f \in UploadFiles, LapseLease(f)
        PROVE  UploadIInv'
    BY <1>2, LapseStep
  <1>3. CASE UNCHANGED uploadVars
    <2> USE <1>3 DEF uploadVars
    <2>1. UploadTypeOK' /\ LeasesKept' /\ RecordsKept'
      BY DEF UploadIInv, UploadTypeOK, LeasesKept, RecordsKept
    <2>2. \A c \in UploadClients : State(c)' = State(c) /\ (Fenced(c)' <=> Fenced(c))
      BY DEF State, Fenced
    <2>3. ASSUME NEW c \in UploadClients
          PROVE  RequestKept(c)'
      <3>1. RequestKept(c)
        BY DEF UploadIInv, RequestsKept
      <3>2. Remembers(c)' /\ Receives(c)' /\ Received(c)' /\ Unnamed(c)' /\ Looks(c)'
        BY <2>2, <3>1 DEF RequestKept, Remembers, Receives, Received, Unnamed, Looks
      <3> QED
        BY <3>2 DEF RequestKept
    <2> QED
      BY <2>1, <2>3 DEF UploadIInv, RequestsKept
  <1> QED
    BY <1>1, <1>2, <1>3 DEF UploadNext

\* The records, the volume and every request are always well-formed, ...
THEOREM UploadTyping ==
    UploadSpec => []UploadTypeOK
  <1>1. UploadInit => UploadIInv
    BY UploadInitIInv
  <1>2. UploadIInv /\ [UploadNext]_uploadVars => UploadIInv'
    BY UploadNextIInv
  <1>3. UploadIInv => UploadTypeOK
    BY DEF UploadIInv
  <1> QED
    BY <1>1, <1>2, <1>3, PTL DEF UploadSpec

-----------------------------------------------------------------------------
(* The steps of the second invariant. *)

\* What a request whose lease stands is about to save, and what the record says of it.
Saved(d) == IF writer[d].at = "commit" THEN writer[d].mine.parts[1].id ELSE writer[d].id

LEMMA SavedFacts ==
    ASSUME UploadIInv, NEW d \in UploadClients, Fenced(d), writer[d].at \in {"commit", "publish"}
    PROVE  LET w == writer[d]
           IN  /\ Saved(d) \in ByteId
               /\ Saved(d) \in Referenced(State(d)) \/ Saved(d)[1] = w.owner
               /\ State(d).status = "uploading"
               /\ w.mine.offset \in Nat /\ w.mine.offset > 0
               /\ w.op = "chunk" => State(d).total = w.mine.total /\ w.mine.offset <= w.mine.total
               /\ w.op = "chunk" /\ w.at = "publish" => w.mine.offset = w.mine.total
               /\ w.op # "chunk" => State(d).parts = <<>> /\ State(d).offset = 0
               /\ w.at = "commit" => w.op = "chunk" /\ OnePart(w.mine)
  <1> DEFINE w == writer[d]
             s == w.mine
  <1>1. /\ w \in Writer /\ s \in Progress /\ s.parts \in Seq(Part) /\ w.owner # 0
        /\ Received(d) /\ Consistent(State(d)) /\ w.at \in Late /\ w.owner \in OwnerId
    BY WriterFacts DEF AtWork, Late, Writer, Progress
  <1>2. /\ State(d).status = "uploading" /\ s.offset > 0
        /\ (w.op = "chunk" => State(d).total = s.total /\ s.offset <= s.total)
        /\ (w.op = "chunk" /\ w.at = "publish" => s.offset = s.total)
        /\ (w.op # "chunk" => State(d).parts = <<>>)
        /\ PartIds(s) \subseteq PartIds(State(d)) \cup {<<w.owner, "part">>}
    BY <1>1 DEF Received
  <1>3. /\ w.at = "commit" => w.op = "chunk" /\ OnePart(s)
        /\ w.at = "publish" => w.id = <<w.owner, "blob">> \/ (OnePart(s) /\ w.id = s.parts[1].id)
    BY <1>1 DEF Received
  <1>4. s.offset \in Nat
    BY <1>1, UploadAssumption DEF Progress, Size
  <1>5. State(d).parts = <<>> => State(d).offset = 0
    BY <1>1, <1>2 DEF Consistent
  <1>6. OnePart(s) => /\ s.parts[1].id \in ByteId
                      /\ s.parts[1].id \in Referenced(State(d)) \/ s.parts[1].id[1] = w.owner
    <2> SUFFICES ASSUME OnePart(s)
                 PROVE  /\ s.parts[1].id \in ByteId
                        /\ s.parts[1].id \in Referenced(State(d)) \/ s.parts[1].id[1] = w.owner
      OBVIOUS
    <2>1. 1 \in DOMAIN s.parts
      BY <1>1, LenProperties DEF OnePart
    <2>2. s.parts[1].id \in ByteId /\ s.parts[1].id \in PartIds(s)
      BY <1>1, <2>1, ReferencedTyped DEF Part, PartIds
    <2>3. PartIds(State(d)) \subseteq Referenced(State(d)) /\ <<w.owner, "part">>[1] = w.owner
      BY DEF PartIds, Referenced
    <2> QED
      BY <1>2, <2>2, <2>3
  <1>7. <<w.owner, "blob">> \in ByteId /\ <<w.owner, "blob">>[1] = w.owner
    BY <1>1, UploadAssumption DEF OwnerId, ByteId
  <1>8. Saved(d) \in ByteId /\ (Saved(d) \in Referenced(State(d)) \/ Saved(d)[1] = w.owner)
    <2>1. CASE w.at = "commit"
      BY <1>3, <1>6, <2>1 DEF Saved
    <2>2. CASE w.at = "publish"
      BY <1>3, <1>6, <1>7, <2>2 DEF Saved
    <2> QED
      BY <2>1, <2>2
  <1> QED
    BY <1>2, <1>3, <1>4, <1>5, <1>8

\* Of two requests on one file the one whose lease stands is the newer.
LEMMA FencedIsNewer ==
    ASSUME UploadIInv, NEW c \in UploadClients, NEW d \in UploadClients, c # d,
           writer[c].at \in AtWork, writer[d].owner # 0, Fenced(d), writer[d].file = writer[c].file
    PROVE  writer[c].owner < writer[d].owner
  <1>1. /\ writer[c].owner \in Nat /\ writer[d].owner \in Nat /\ writer[c].owner # 0
        /\ writer[c].owner # writer[d].owner
    BY WriterFacts DEF UploadIInv, LeasesKept
  <1>2. upload[writer[c].file].owner = writer[d].owner
    BY DEF Fenced
  <1>3. upload[writer[c].file].owner = 0 \/ upload[writer[c].file].owner >= writer[c].owner
    BY DEF UploadIInv, LeasesKept
  <1> QED
    BY <1>1, <1>2, <1>3

\* What a request may do to bytes: to none that count, if the file is retired or nothing names them
\* and no newer owner made them; and lengthen what is being uploaded up to its total.
Respects(c, f, id) ==
    \/ Len(bytes'[f][id]) = Len(bytes[f][id])
    \/ upload[f].state.status = "retired"
    \/ /\ writer[c].at \in AtWork /\ f = writer[c].file
       /\ \/ id \notin Referenced(State(c)) /\ id[1] <= writer[c].owner
          \/ /\ Len(bytes[f][id]) <= Len(bytes'[f][id]) /\ Len(bytes'[f][id]) <= State(c).total
             /\ State(c).offset > 0

\* A step that does no more than that, and to the files from before the store.
WritesOnly(c) ==
    /\ upload' = upload
    /\ plain' \subseteq plain /\ \A f \in plain \ plain' : upload[f].state.status = "retired"
    /\ \A f \in UploadFiles, id \in ByteId : Respects(c, f, id)

LEMMA BytesTyped ==
    ASSUME UploadIInv, NEW f \in UploadFiles, NEW id \in ByteId
    PROVE  /\ bytes[f][id] \in Data /\ Len(bytes[f][id]) \in Nat
           /\ bytes[f][id] # <<>> <=> Len(bytes[f][id]) > 0
  <1>1. bytes[f][id] \in Data
    BY DEF UploadIInv, UploadTypeOK
  <1>2. bytes[f][id] \in Seq(Contents) /\ Len(bytes[f][id]) \in Nat
    BY <1>1, DataFacts
  <1> QED
    BY <1>1, <1>2, EmptySeq

LEMMA VolumePasses ==
    ASSUME VolumeIInv, UploadIInv', NEW c \in UploadClients, owners' = owners,
           \A d \in UploadClients : d # c => writer'[d] = writer[d],
           WritesOnly(c), BytesNamed', VolumeRequest(c)'
    PROVE  VolumeIInv'
  <1>1. UploadIInv /\ CommittedIsStored /\ PublishedParts /\ PlainStays
    BY DEF VolumeIInv, VolumeKept
  <1>0. /\ UNCHANGED <<upload, owners>>
        /\ plain' \subseteq plain /\ \A f \in plain \ plain' : upload[f].state.status = "retired"
        /\ \A f \in UploadFiles, id \in ByteId : Respects(c, f, id)
    BY DEF WritesOnly
  <1> USE <1>0
  <1>2. \A f \in UploadFiles : upload[f].state \in Progress /\ Consistent(upload[f].state)
    BY <1>1 DEF UploadIInv, UploadTypeOK, FileUpload, RecordsKept
  <1>3. \A f \in UploadFiles, id \in ByteId :
           Len(bytes[f][id]) \in Nat /\ (bytes[f][id] # <<>> <=> Len(bytes[f][id]) > 0)
    BY <1>1, BytesTyped
  <1>4. \A f \in UploadFiles, id \in ByteId :
           Len(bytes'[f][id]) \in Nat /\ (bytes'[f][id] # <<>> <=> Len(bytes'[f][id]) > 0)
    <2>1. bytes' \in [UploadFiles -> [ByteId -> Data]]
      BY DEF UploadIInv, UploadTypeOK
    <2>2. ASSUME NEW f \in UploadFiles, NEW id \in ByteId
          PROVE  Len(bytes'[f][id]) \in Nat /\ (bytes'[f][id] # <<>> <=> Len(bytes'[f][id]) > 0)
      <3> DEFINE x == bytes'[f][id]
      <3>1. x \in Data
        BY <2>1
      <3> HIDE DEF x
      <3>2. x \in Seq(Contents) /\ Len(x) \in Nat
        BY <3>1, DataFacts
      <3>3. x # <<>> <=> Len(x) > 0
        BY <3>2, EmptySeq
      <3> QED
        BY <3>2, <3>3 DEF x
    <2> QED
      BY <2>2
  \* Bytes that a record names.
  <1>5. ASSUME NEW f \in UploadFiles, NEW id \in ByteId, id \in Referenced(upload[f].state)
        PROVE  /\ Len(bytes'[f][id]) >= Len(bytes[f][id])
               /\ Len(bytes'[f][id]) = Len(bytes[f][id])
                  \/ (Len(bytes'[f][id]) <= upload[f].state.total)
    <2>1. Len(bytes[f][id]) \in Nat /\ Len(bytes'[f][id]) \in Nat
      BY <1>3, <1>4
    <2>2. upload[f].state.status # "retired"
      <3> SUFFICES ASSUME upload[f].state.status = "retired" PROVE FALSE
        OBVIOUS
      <3>1. upload[f].state.parts = <<>> /\ upload[f].state.published = NoId
        BY <1>2 DEF Consistent
      <3>2. DOMAIN <<>> = {}
        BY EmptySeq, LenProperties
      <3>3. id = NoId
        BY <1>5, <3>1, <3>2 DEF Referenced
      <3> QED
        BY <3>3, UploadAssumption DEF ByteId, NoId, EarlyParts
    <2>3. Respects(c, f, id)
      OBVIOUS
    <2> QED
      BY <1>5, <2>1, <2>2, <2>3 DEF Respects, State
  <1>6. CommittedIsStored'
    <2> SUFFICES ASSUME NEW f \in UploadFiles
                 PROVE  LET s == upload[f].state
                        IN  /\ \A i \in DOMAIN s.parts : Len(bytes'[f][s.parts[i].id]) >= s.parts[i].size
                            /\ s.published # NoId => bytes'[f][s.published] # <<>>
      BY DEF CommittedIsStored
    <2> DEFINE s == upload[f].state
    <2>1. s \in Progress
      BY <1>2
    <2>2. ASSUME NEW i \in DOMAIN s.parts
          PROVE  Len(bytes'[f][s.parts[i].id]) >= s.parts[i].size
      <3>1. s.parts[i].id \in ByteId /\ s.parts[i].size \in Nat /\ s.parts[i].id \in Referenced(s)
        BY <2>1, ReferencedTyped, UploadAssumption DEF Part, Size, Referenced
      <3>2. Len(bytes[f][s.parts[i].id]) >= s.parts[i].size
        BY <1>1 DEF CommittedIsStored
      <3> HIDE DEF s
      <3>3. Len(bytes'[f][s.parts[i].id]) >= Len(bytes[f][s.parts[i].id])
        BY <1>5, <3>1 DEF s
      <3> QED
        BY <1>3, <1>4, <3>1, <3>2, <3>3
    <2>3. s.published # NoId => bytes'[f][s.published] # <<>>
      <3> SUFFICES ASSUME s.published # NoId PROVE bytes'[f][s.published] # <<>>
        OBVIOUS
      <3>1. s.published \in ByteId /\ s.published \in Referenced(s)
        BY <2>1 DEF Progress, Referenced
      <3>2. bytes[f][s.published] # <<>>
        BY <1>1 DEF CommittedIsStored
      <3>3. Len(bytes'[f][s.published]) >= Len(bytes[f][s.published])
        BY <1>5, <3>1
      <3> QED
        BY <1>3, <1>4, <3>1, <3>2, <3>3
    <2> QED
      BY <2>2, <2>3
  <1>7. PublishedParts'
    <2> SUFFICES ASSUME NEW f \in UploadFiles, upload[f].state.status = "complete"
                 PROVE  Len(bytes'[f][upload[f].state.published]) = upload[f].state.total
      BY DEF PublishedParts
    <2> DEFINE s == upload[f].state
    <2>1. s.published \in ByteId /\ s.published \in Referenced(s) /\ s.total \in Nat
      BY <1>2, UploadAssumption DEF Progress, Referenced, Consistent, Size
    <2>2. Len(bytes[f][s.published]) = s.total
      BY <1>1 DEF PublishedParts
    <2> QED
      BY <1>3, <1>4, <1>5, <2>1, <2>2
  <1>8. PlainStays'
    BY <1>1 DEF PlainStays
  <1>9. ASSUME NEW d \in UploadClients, d # c
        PROVE  VolumeRequest(d)'
    <2>1. VolumeRequest(d) /\ writer'[d] = writer[d] /\ writer[d] \in Writer /\ writer[d].file \in UploadFiles
      BY <1>1, <1>9, WriterFacts DEF VolumeIInv, VolumeKept
    <2>2. State(d)' = State(d) /\ (Fenced(d)' <=> Fenced(d))
      BY <2>1 DEF State, Fenced
    <2>3. Collects(d)' /\ Removes(d)'
      BY <2>1, <2>2 DEF VolumeRequest, Collects, Removes
    <2>4. Reads(d)'
      BY <2>1, <2>2 DEF VolumeRequest, Reads, State
    <2>5. Stores(d)'
      <3> SUFFICES ASSUME Fenced(d), writer[d].at \in {"commit", "publish"}
                   PROVE  LET x == bytes'[writer[d].file][Saved(d)]
                          IN  /\ writer[d].at = "commit" => Len(x) >= writer[d].mine.offset
                              /\ writer[d].at = "publish" => Len(x) = writer[d].mine.offset
        BY <2>1, <2>2 DEF Stores, Saved
      <3> DEFINE w == writer[d]
                 f == w.file
                 x == bytes[f][Saved(d)]
                 y == bytes'[f][Saved(d)]
      <3>1. /\ w.at = "commit" => Len(x) >= w.mine.offset
            /\ w.at = "publish" => Len(x) = w.mine.offset
        BY <2>1 DEF VolumeRequest, Stores, Saved
      <3>2. /\ Saved(d) \in ByteId
            /\ Saved(d) \in Referenced(State(d)) \/ Saved(d)[1] = w.owner
            /\ State(d).status = "uploading" /\ w.mine.offset \in Nat
            /\ w.op = "chunk" => State(d).total = w.mine.total
            /\ w.op = "chunk" /\ w.at = "publish" => w.mine.offset = w.mine.total
            /\ w.op # "chunk" => State(d).offset = 0
            /\ w.at = "commit" => w.op = "chunk"
        BY <1>1, SavedFacts
      <3>3. Len(x) \in Nat /\ Len(y) \in Nat
        BY <1>3, <1>4, <2>1, <3>2
      <3>4. Respects(c, f, Saved(d))
        BY <2>1, <3>2
      <3>5. Len(y) = Len(x) \/ (Len(x) <= Len(y) /\ Len(y) <= State(d).total /\ State(d).offset > 0)
        <4> SUFFICES ASSUME writer[c].at \in AtWork, f = writer[c].file,
                            Saved(d) \notin Referenced(State(c)), Saved(d)[1] <= writer[c].owner
                     PROVE  FALSE
          BY <3>2, <3>4 DEF Respects, State
        <4>1. w.owner # 0 /\ w.owner \in Nat /\ writer[c].owner \in Nat
          BY <1>1, WriterFacts DEF AtWork
        <4>2. writer[c].owner < w.owner
          BY <1>1, <1>9, <4>1, FencedIsNewer
        <4>3. Saved(d)[1] = w.owner
          BY <3>2 DEF State
        <4> QED
          BY <4>1, <4>2, <4>3
      <3> HIDE DEF x, y
      <3>6. CASE Len(y) = Len(x)
        BY <3>1, <3>6 DEF x, y
      <3>7. CASE Len(x) <= Len(y) /\ Len(y) <= State(d).total /\ State(d).offset > 0
        <4>1. w.op = "chunk"
          BY <3>2, <3>7
        <4>2. w.at = "commit" => Len(y) >= w.mine.offset
          BY <3>1, <3>2, <3>3, <3>7
        <4>3. w.at = "publish" => Len(y) = w.mine.offset
          BY <3>1, <3>2, <3>3, <3>7, <4>1
        <4> QED
          BY <4>2, <4>3 DEF y
      <3> QED
        BY <3>5, <3>6, <3>7
    <2> QED
      BY <2>3, <2>4, <2>5 DEF VolumeRequest
  <1> QED
    BY <1>6, <1>7, <1>8, <1>9 DEF VolumeIInv, VolumeKept

\* Where a request has nothing to remember of the volume.
LEMMA RestsAside ==
    ASSUME NEW c, writer'[c].at \notin {"open", "collect", "remove", "claimed", "retiring", "wiping",
                                        "commit", "publish", "resolve", "fetch", "missing"},
           writer'[c].op # "read"
    PROVE  VolumeRequest(c)'
  BY DEF VolumeRequest, Collects, Removes, Stores, Reads

\* A request goes on and neither the records nor the volume change.
LEMMA VolumeRests ==
    ASSUME VolumeIInv, UploadIInv', NEW c \in UploadClients, UNCHANGED <<upload, bytes, plain, owners>>,
           NEW v \in Writer, writer' = [writer EXCEPT ![c] = v], VolumeRequest(c)'
    PROVE  VolumeIInv'
  <1>1. UploadIInv /\ BytesNamed
    BY DEF VolumeIInv, VolumeKept
  <1>2. \A d \in UploadClients : d # c => writer'[d] = writer[d]
    BY <1>1, BecomesFacts
  <1>3. BytesNamed'
    BY <1>1 DEF BytesNamed
  <1>4. \A f \in UploadFiles, id \in ByteId : Respects(c, f, id)
    BY DEF Respects
  <1> QED
    BY <1>2, <1>3, <1>4, VolumePasses DEF WritesOnly

LEMMA VolumeFacts ==
    ASSUME VolumeIInv, NEW c \in UploadClients
    PROVE  /\ UploadIInv /\ CommittedIsStored /\ BytesNamed /\ PublishedParts /\ PlainStays
           /\ Collects(c) /\ Removes(c) /\ Stores(c) /\ Reads(c)
           /\ writer \in [UploadClients -> Writer]
  BY DEF VolumeIInv, VolumeKept, VolumeRequest, UploadIInv, UploadTypeOK

\* Requests that ask, begin, fail or give up.
LEMMA VolumeAskSteps ==
    ASSUME VolumeIInv, UploadIInv', NEW c \in UploadClients,
           \/ Call(c) \/ GiveUp(c) \/ DeleteNext(c) \/ FailUpload(c) \/ UploadAgain(c)
           \/ BeginWhole(c) \/ FindClaimed(c)
    PROVE  VolumeIInv'
  <1> DEFINE w == writer[c]
  <1>1. /\ UploadIInv /\ w \in Writer /\ w.file \in UploadFiles
        /\ writer \in [UploadClients -> Writer]
    BY VolumeFacts, WriterFacts
  <1>2. UNCHANGED <<upload, bytes, plain, owners>>
    BY DEF Call, GiveUp, DeleteNext, FailUpload, UploadAgain, BeginWhole, FindClaimed
  <1>3. (w.op = "read" <=> w.at \in {"resolve", "fetch", "missing"}) /\ BytesNamed /\ Removes(c)
    BY VolumeFacts DEF Reads
  <1>4. ASSUME NEW v \in Writer, writer' = [writer EXCEPT ![c] = v],
               v.at \in {"idle", "next", "close", "receive"}, v.op # "read"
        PROVE  VolumeIInv'
    <2>1. writer'[c] = v
      BY <1>1, <1>4, BecomesFacts
    <2>2. VolumeRequest(c)'
      BY <1>4, <2>1, RestsAside
    <2> QED
      BY <1>2, <1>4, <2>2, VolumeRests
  <1>5. ASSUME NEW x \in Writer, NEW f \in UploadFiles, writer' = [writer EXCEPT ![c] = Opening(x, f)],
               x.op # "read"
        PROVE  VolumeIInv'
    <2> DEFINE v == Opening(x, f)
    <2>1. /\ v \in Writer /\ v.at = "open" /\ v.op = x.op /\ v.found = Stored(f)
          /\ writer' = [writer EXCEPT ![c] = v]
      BY <1>5, OpeningFacts DEF Opening, Writer
    <2> HIDE DEF v
    <2>2. writer'[c] = v
      BY <1>1, <2>1, BecomesFacts
    <2>3. \A id \in Stored(f) : id[1] <= owners
      BY <1>3 DEF Stored, BytesNamed
    <2>4. Collects(c)'
      BY <1>2, <2>1, <2>2, <2>3 DEF Collects
    <2>5. Removes(c)' /\ Stores(c)' /\ Reads(c)'
      BY <1>5, <2>1, <2>2 DEF Removes, Stores, Reads
    <2> QED
      BY <1>2, <2>1, <2>4, <2>5, VolumeRests DEF VolumeRequest
  <1>6. CASE Call(c)
    <2>1. PICK op \in UploadOps \ {"bulk", "read"}, f \in UploadFiles :
             writer' = [writer EXCEPT ![c] = Opening([NoWriter(f) EXCEPT !.op = op], f)]
      BY <1>6 DEF Call
    <2> DEFINE x == [NoWriter(f) EXCEPT !.op = op]
    <2>2. x \in Writer /\ x.op # "read"
      BY NoWriterFacts DEF Writer
    <2>3. writer' = [writer EXCEPT ![c] = Opening(x, f)]
      BY <2>1
    <2> HIDE DEF x
    <2> QED
      BY <1>5, <2>2, <2>3
  <1>7. CASE GiveUp(c)
    BY <1>1, <1>4, <1>7, NoWriterFacts DEF GiveUp
  <1>8. CASE DeleteNext(c)
    <2>1. PICK f \in w.todo :
             writer' = [writer EXCEPT ![c] = Opening([w EXCEPT !.todo = w.todo \ {f}], f)]
      BY <1>8 DEF DeleteNext
    <2> DEFINE x == [w EXCEPT !.todo = w.todo \ {f}]
    <2>2. x \in Writer /\ x.op # "read" /\ f \in UploadFiles
      BY <1>1, <1>3, <1>8 DEF Writer, DeleteNext
    <2>3. writer' = [writer EXCEPT ![c] = Opening(x, f)]
      BY <2>1
    <2> HIDE DEF x
    <2> QED
      BY <1>5, <2>2, <2>3
  <1>9. CASE FailUpload(c)
    <2> DEFINE x == [w EXCEPT !.todo = {}]
    <2>1. x \in Writer /\ x.op = w.op
      BY <1>1 DEF Writer
    <2>2. writer' = [writer EXCEPT ![c] = Closing(x)] /\ w.op # "read"
      BY <1>3, <1>9 DEF FailUpload
    <2> HIDE DEF x
    <2> QED
      BY <1>4, <2>1, <2>2, ClosingFacts
  <1>10. CASE UploadAgain(c)
    <2>1. writer' = [writer EXCEPT ![c] = Closing(w)] /\ w.op # "read"
      BY <1>10 DEF UploadAgain
    <2> QED
      BY <1>1, <1>4, <2>1, ClosingFacts
  <1>11. CASE BeginWhole(c)
    <2>1. PICK end \in Sizes : writer' = [writer EXCEPT ![c].at = "receive", ![c].end = end]
      BY <1>11 DEF BeginWhole
    <2> DEFINE v == [w EXCEPT !.at = "receive", !.end = end]
    <2>2. end \in Size
      BY UploadAssumption DEF Size
    <2>3. v \in Writer /\ v.at = "receive" /\ v.op = "whole"
      BY <1>1, <1>11, <2>2 DEF Writer, WriterPC, BeginWhole
    <2>4. writer' = [writer EXCEPT ![c] = v]
      BY <1>1, <2>1 DEF Writer
    <2> HIDE DEF v
    <2> QED
      BY <1>4, <2>3, <2>4
  <1>12. CASE FindClaimed(c)
    <2> DEFINE S == {f \in w.todo : upload[f].owner = w.owner}
               v == [w EXCEPT !.at = "retiring", !.claimed = S]
    <2>1. S \in SUBSET UploadFiles /\ \A f \in S : upload[f].owner = w.owner
      BY <1>1 DEF Writer
    <2>2. writer' = [writer EXCEPT ![c] = v] /\ w.at = "claimed"
      BY <1>1, <1>12 DEF FindClaimed, Writer
    <2> HIDE DEF S
    <2>3. v \in Writer /\ v.owner = w.owner /\ v.at = "retiring" /\ v.op = w.op /\ v.claimed = S
      BY <1>1, <2>1 DEF Writer, WriterPC
    <2> HIDE DEF v
    <2>4. writer'[c] = v
      BY <1>1, <2>2, <2>3, BecomesFacts
    <2>5. Removes(c)'
      BY <1>2, <1>3, <2>1, <2>2, <2>3, <2>4 DEF Removes
    <2>6. Collects(c)' /\ Stores(c)' /\ Reads(c)'
      BY <1>3, <2>2, <2>3, <2>4 DEF Collects, Stores, Reads
    <2> QED
      BY <1>2, <2>2, <2>3, <2>5, <2>6, VolumeRests DEF VolumeRequest
  <1> QED
    BY <1>6, <1>7, <1>8, <1>9, <1>10, <1>11, <1>12

\* Readers.
LEMMA VolumeReadSteps ==
    ASSUME VolumeIInv, UploadIInv', NEW c \in UploadClients,
           BeginRead(c) \/ ResolvePointer(c) \/ FetchBytes(c)
    PROVE  VolumeIInv'
  <1> DEFINE w == writer[c]
             f == w.file
  <1>1. /\ UploadIInv /\ w \in Writer /\ f \in UploadFiles
        /\ writer \in [UploadClients -> Writer] /\ Reads(c) /\ CommittedIsStored /\ PlainStays
    BY VolumeFacts, WriterFacts
  <1>2. UNCHANGED <<upload, bytes, plain, owners>>
    BY DEF BeginRead, ResolvePointer, FetchBytes
  <1>3. ASSUME NEW v \in Writer, writer' = [writer EXCEPT ![c] = v],
               v.at \in {"resolve", "fetch", "missing"}, v.op = "read",
               LET s == upload[v.file].state
               IN  v.had /\ s.status # "retired" /\ v.moved < 2 =>
                     /\ s.published # NoId \/ v.file \in plain
                     /\ v.at # "missing"
                     /\ v.tries <= v.moved
                     /\ v.at = "fetch" /\ v.id # s.published => v.tries < v.moved
        PROVE  VolumeIInv'
    <2>1. writer'[c] = v
      BY <1>1, <1>3, BecomesFacts
    <2>2. Reads(c)'
      BY <1>2, <1>3, <2>1 DEF Reads, State
    <2>3. Collects(c)' /\ Removes(c)' /\ Stores(c)'
      BY <1>3, <2>1 DEF Collects, Removes, Stores
    <2> QED
      BY <1>2, <1>3, <2>2, <2>3, VolumeRests DEF VolumeRequest
  <1>4. CASE BeginRead(c)
    <2>1. PICK g \in UploadFiles : writer' = [writer EXCEPT ![c] = [NoWriter(g) EXCEPT
                    !.op = "read", !.at = "resolve", !.had = Visible(g) # <<>>]]
      BY <1>4 DEF BeginRead
    <2> DEFINE v == [NoWriter(g) EXCEPT !.op = "read", !.at = "resolve", !.had = Visible(g) # <<>>]
    <2>2. \A b \in BOOLEAN : LET x == [NoWriter(g) EXCEPT !.op = "read", !.at = "resolve", !.had = b]
                            IN  /\ x \in Writer /\ x.op = "read" /\ x.at = "resolve" /\ x.tries = 0
                                /\ x.had = b /\ x.moved = 0 /\ x.file = g
      BY <1>4, NoWriterFacts DEF Writer, WriterPC, BeginRead, NoWriter
    <2>3. /\ v \in Writer /\ v.op = "read" /\ v.at = "resolve" /\ v.tries = 0
          /\ v.had = (Visible(g) # <<>>) /\ v.moved = 0 /\ v.file = g
      BY <2>2, Zenon
    <2>4. writer' = [writer EXCEPT ![c] = v]
      BY <2>1
    <2> HIDE DEF v
    <2>5. LET s == upload[g].state
          IN  Visible(g) # <<>> /\ s.status # "retired" => s.published # NoId \/ g \in plain
      BY DEF Visible
    <2>6. v.had => Visible(g) # <<>>
      BY <2>3, Zenon
    <2>7. v.tries <= v.moved /\ v.at # "missing" /\ v.at # "fetch" /\ v.file = g
          /\ v.at \in {"resolve", "fetch", "missing"}
      <3>1. \A t, m : t = 0 /\ m = 0 => t <= m
        OBVIOUS
      <3> QED
        BY <2>3, <3>1, Zenon
    <2> QED
      BY <1>3, <2>3, <2>4, <2>5, <2>6, <2>7, Zenon
  <1>5. CASE ResolvePointer(c)
    <2> DEFINE s == upload[f].state
    <2>1. w.at = "resolve" /\ w.op = "read" /\ s \in Progress
      BY <1>1, <1>5, WriterFacts DEF ResolvePointer, Reads, State
    <2>2. CASE s.status = "retired" \/ (s.mode = "public" /\ s.published = NoId)
      <3> DEFINE v == [w EXCEPT !.at = "missing"]
      <3>1. /\ v \in Writer /\ v.at = "missing" /\ v.op = "read" /\ v.had = w.had
            /\ v.moved = w.moved /\ v.tries = w.tries /\ v.file = f
        BY <1>1, <2>1 DEF Writer, WriterPC
      <3>2. writer' = [writer EXCEPT ![c] = v]
        BY <1>1, <1>5, <2>2 DEF ResolvePointer, Writer
      <3>3. ~(w.had /\ s.status # "retired" /\ w.moved < 2)
        BY <1>1, <2>1, <2>2 DEF Reads, State, PlainStays
      <3> HIDE DEF v
      <3> QED
        BY <1>3, <3>1, <3>2, <3>3
    <2>3. CASE ~(s.status = "retired" \/ (s.mode = "public" /\ s.published = NoId))
      <3> DEFINE v == [w EXCEPT !.at = "fetch", !.id = s.published]
      <3>1. /\ v \in Writer /\ v.at = "fetch" /\ v.op = "read" /\ v.had = w.had
            /\ v.moved = w.moved /\ v.tries = w.tries /\ v.file = f /\ v.id = s.published
        BY <1>1, <2>1 DEF Writer, WriterPC, Progress
      <3>2. writer' = [writer EXCEPT ![c] = v]
        BY <1>1, <1>5, <2>3 DEF ResolvePointer, Writer
      <3>3. w.had /\ s.status # "retired" /\ w.moved < 2 =>
               (s.published # NoId \/ f \in plain) /\ w.tries <= w.moved
        BY <1>1, <2>1 DEF Reads, State
      <3> HIDE DEF v
      <3> QED
        BY <1>3, <3>1, <3>2, <3>3
    <2> QED
      BY <2>2, <2>3
  <1>6. CASE FetchBytes(c)
    <2> DEFINE s == upload[f].state
               there == IF w.id = NoId THEN f \in plain ELSE bytes[f][w.id] # <<>>
               v == [w EXCEPT !.at = IF w.tries = 0 THEN "resolve" ELSE "missing", !.tries = w.tries + 1]
    <2>1. w.at = "fetch" /\ w.op = "read" /\ w.tries \in 0..1 /\ w.moved \in 0..2
      BY <1>1, <1>6, WriterFacts DEF FetchBytes, Reads, Writer, Looks
    <2>2. writer' = [writer EXCEPT ![c] = IF there THEN NoWriter(f) ELSE v]
      BY <1>6 DEF FetchBytes
    <2>3. CASE there
      <3>1. writer' = [writer EXCEPT ![c] = NoWriter(f)]
        BY <2>2, <2>3, Zenon
      <3>2. NoWriter(f) \in Writer /\ NoWriter(f).at = "idle" /\ NoWriter(f).op = "none"
        BY <1>1, NoWriterFacts
      <3>3. writer'[c] = NoWriter(f)
        BY <1>1, <3>1, <3>2, BecomesFacts
      <3>4. VolumeRequest(c)'
        BY <3>2, <3>3, RestsAside
      <3> QED
        BY <1>2, <3>1, <3>2, <3>4, VolumeRests
    <2>4. CASE ~there
      <3>1. w.had /\ s.status # "retired" /\ w.moved < 2 =>
               (s.published # NoId \/ f \in plain) /\ w.tries < w.moved
        <4> SUFFICES ASSUME w.had, s.status # "retired", w.moved < 2
                     PROVE  (s.published # NoId \/ f \in plain) /\ w.tries < w.moved
          OBVIOUS
        <4>1. /\ s.published # NoId \/ f \in plain
              /\ w.id # s.published => w.tries < w.moved
          BY <1>1, <2>1 DEF Reads, State
        <4>2. w.id # s.published
          <5>1. s.published # NoId => bytes[f][s.published] # <<>>
            BY <1>1 DEF CommittedIsStored
          <5> QED
            BY <2>4, <4>1, <5>1
        <4> QED
          BY <4>1, <4>2
      <3>2. \A a \in {"resolve", "missing"}, n \in 0..2 :
               LET x == [w EXCEPT !.at = a, !.tries = n]
               IN  /\ x \in Writer /\ x.at = a /\ x.tries = n /\ x.op = w.op /\ x.had = w.had
                   /\ x.moved = w.moved /\ x.file = f
        BY <1>1 DEF Writer, WriterPC
      <3>3. CASE w.tries = 0
        <4> DEFINE y == [w EXCEPT !.at = "resolve", !.tries = 1]
        <4>1. y = v
          BY <3>3
        <4>2. writer' = [writer EXCEPT ![c] = y]
          BY <2>2, <2>4, <4>1, Zenon
        <4>3. /\ y \in Writer /\ y.at = "resolve" /\ y.tries = 1 /\ y.op = "read" /\ y.had = w.had
              /\ y.moved = w.moved /\ y.file = f
          BY <2>1, <3>2
        <4> HIDE DEF y
        <4>4. w.had /\ s.status # "retired" /\ w.moved < 2 => y.tries <= y.moved
          BY <2>1, <3>1, <3>3, <4>3
        <4> QED
          BY <1>3, <3>1, <4>2, <4>3, <4>4
      <3>4. CASE w.tries = 1
        <4> DEFINE y == [w EXCEPT !.at = "missing", !.tries = 2]
        <4>1. y = v
          BY <3>4
        <4>2. writer' = [writer EXCEPT ![c] = y]
          BY <2>2, <2>4, <4>1, Zenon
        <4>3. /\ y \in Writer /\ y.at = "missing" /\ y.op = "read" /\ y.had = w.had
              /\ y.moved = w.moved /\ y.file = f
          BY <2>1, <3>2
        <4> HIDE DEF y
        <4>4. ~(w.had /\ s.status # "retired" /\ w.moved < 2)
          BY <2>1, <3>1, <3>4
        <4> QED
          BY <1>3, <4>2, <4>3, <4>4
      <3> QED
        BY <2>1, <3>3, <3>4
    <2> QED
      BY <2>3, <2>4
  <1> QED
    BY <1>4, <1>5, <1>6

\* Leftovers, and what a deleted file had, are removed.
LEMMA VolumeRemoveSteps ==
    ASSUME VolumeIInv, UploadIInv', NEW c \in UploadClients,
           CollectBytes(c) \/ RemoveBytes(c) \/ WipeBulk(c)
    PROVE  VolumeIInv' /\ WritesOnly(c)
  <1> DEFINE w == writer[c]
             f == w.file
  <1>1. /\ UploadIInv /\ w \in Writer /\ f \in UploadFiles
        /\ writer \in [UploadClients -> Writer] /\ Reads(c) /\ Collects(c) /\ Removes(c) /\ BytesNamed
        /\ bytes \in [UploadFiles -> [ByteId -> Data]] /\ plain \subseteq UploadFiles
    BY VolumeFacts, WriterFacts DEF UploadIInv, UploadTypeOK
  <1>2. UNCHANGED <<upload, owners>>
    BY DEF CollectBytes, RemoveBytes, WipeBulk
  <1>3. w.op # "read" /\ w.at \in {"collect", "remove", "wiping"}
    BY <1>1 DEF Reads, CollectBytes, RemoveBytes, WipeBulk
  <1>4. ASSUME NEW v \in Writer, writer' = [writer EXCEPT ![c] = v],
               v.at \in {"owned", "close", "idle", "next"}, v.op # "read",
               plain' \subseteq plain, \A g \in plain \ plain' : upload[g].state.status = "retired",
               \A g \in UploadFiles, id \in ByteId : bytes'[g][id] \in {bytes[g][id], <<>>},
               \A g \in UploadFiles, id \in ByteId : Respects(c, g, id)
        PROVE  VolumeIInv' /\ WritesOnly(c)
    <2>1. /\ writer'[c] = v
          /\ \A d \in UploadClients : d # c => writer'[d] = writer[d]
      BY <1>1, <1>4, BecomesFacts
    <2>2. VolumeRequest(c)'
      BY <1>4, <2>1, RestsAside
    <2>3. BytesNamed'
      BY <1>1, <1>2, <1>4 DEF BytesNamed
    <2>4. WritesOnly(c)
      BY <1>2, <1>4 DEF WritesOnly
    <2> QED
      BY <1>2, <2>1, <2>2, <2>3, <2>4, VolumePasses
  <1>5. CASE CollectBytes(c)
    <2> DEFINE v == [w EXCEPT !.at = "owned", !.found = {}]
               gone == w.found \ Referenced(w.mine)
    <2>1. v \in Writer /\ v.at = "owned" /\ v.op = w.op
      BY <1>1 DEF Writer, WriterPC
    <2>2. /\ writer' = [writer EXCEPT ![c] = v] /\ plain' = plain /\ w.at = "collect"
          /\ bytes' = [bytes EXCEPT ![f] = [id \in ByteId |-> IF id \in gone THEN <<>> ELSE bytes[f][id]]]
      BY <1>1, <1>5 DEF CollectBytes, Writer
    <2> HIDE DEF v, gone
    <2>3. ASSUME NEW g \in UploadFiles, NEW id \in ByteId
          PROVE  /\ bytes'[g][id] \in {bytes[g][id], <<>>}
                 /\ bytes'[g][id] = bytes[g][id] \/ (g = f /\ id \in gone)
      BY <1>1, <2>2
    <2>4. ASSUME NEW id \in ByteId, id \in gone
          PROVE  id \notin Referenced(State(c)) /\ id[1] <= w.owner
      <3>1. id[1] < w.owner
        BY <1>1, <2>2, <2>4 DEF Collects, gone
      <3>2. id \notin Referenced(State(c))
        BY <1>1, <2>2, <2>4, <3>1 DEF Collects, gone
      <3>3. id[1] \in Nat /\ w.owner \in Nat
        BY <1>1, WriterFacts, UploadAssumption DEF ByteId, EarlyParts
      <3> QED
        BY <3>1, <3>2, <3>3
    <2>5. \A g \in UploadFiles, id \in ByteId : Respects(c, g, id)
      BY <2>2, <2>3, <2>4 DEF Respects, AtWork
    <2> QED
      BY <1>3, <1>4, <2>1, <2>2, <2>3, <2>5
  <1>6. CASE RemoveBytes(c)
    <2> DEFINE v == Closing(w)
    <2>1. v \in Writer /\ v.at = "close" /\ v.op = w.op
      BY <1>1, ClosingFacts
    <2>2. /\ writer' = [writer EXCEPT ![c] = v] /\ plain' = plain \ {f} /\ w.at = "remove"
          /\ bytes' = [bytes EXCEPT ![f] = [id \in ByteId |-> IF id \in w.found THEN <<>> ELSE bytes[f][id]]]
      BY <1>6 DEF RemoveBytes
    <2> HIDE DEF v
    <2>3. upload[f].state.status = "retired"
      BY <1>1, <2>2 DEF Removes, State
    <2>4. ASSUME NEW g \in UploadFiles, NEW id \in ByteId
          PROVE  /\ bytes'[g][id] \in {bytes[g][id], <<>>}
                 /\ bytes'[g][id] = bytes[g][id] \/ g = f
      BY <1>1, <2>2
    <2>5. \A g \in UploadFiles, id \in ByteId : Respects(c, g, id)
      BY <2>3, <2>4 DEF Respects
    <2>6. plain' \subseteq plain /\ \A g \in plain \ plain' : upload[g].state.status = "retired"
      BY <2>2, <2>3
    <2> QED
      BY <1>3, <1>4, <2>1, <2>2, <2>4, <2>5, <2>6
  <1>7. CASE WipeBulk(c)
    <2> DEFINE op == IF w.todo \subseteq w.claimed THEN "none" ELSE w.op
               at == IF w.todo \subseteq w.claimed THEN "idle" ELSE "next"
               v == Waiting(f, op, at, w.todo \ w.claimed)
    <2>1. /\ op \in UploadOps \cup {"none"} /\ at \in WriterPC /\ at \in {"idle", "next"} /\ op # "read"
          /\ w.todo \ w.claimed \in SUBSET UploadFiles
      BY <1>1, <1>3 DEF Writer, WriterPC
    <2>2. /\ writer' = [writer EXCEPT ![c] = v] /\ plain' = plain \ w.claimed /\ w.at = "wiping"
          /\ bytes' = [g \in UploadFiles |->
                        IF g \in w.claimed THEN [id \in ByteId |-> <<>>] ELSE bytes[g]]
      BY <1>7 DEF WipeBulk, Waiting
    <2> HIDE DEF op, at
    <2>3. v \in Writer /\ v.at = at /\ v.op = op
      BY <1>1, <2>1, WaitingFacts
    <2> HIDE DEF v
    <2>4. \A g \in w.claimed : upload[g].state.status = "retired"
      BY <1>1, <2>2 DEF Removes
    <2>5. ASSUME NEW g \in UploadFiles, NEW id \in ByteId
          PROVE  /\ bytes'[g][id] \in {bytes[g][id], <<>>}
                 /\ bytes'[g][id] = bytes[g][id] \/ g \in w.claimed
      BY <1>1, <2>2
    <2>6. \A g \in UploadFiles, id \in ByteId : Respects(c, g, id)
      BY <2>4, <2>5 DEF Respects
    <2>7. plain' \subseteq plain /\ \A g \in plain \ plain' : upload[g].state.status = "retired"
      BY <2>2, <2>4
    <2> QED
      BY <1>4, <2>1, <2>2, <2>3, <2>5, <2>6, <2>7
  <1> QED
    BY <1>5, <1>6, <1>7

\* What arrives is written under the request's own name, or after what the record says was committed
\* and within its total.
LEMMA VolumeReceive ==
    ASSUME VolumeIInv, UploadIInv', NEW c \in UploadClients, Receive(c)
    PROVE  VolumeIInv' /\ WritesOnly(c)
  <1> DEFINE w == writer[c]
             s == w.mine
             f == w.file
             id == IF Extending(s) THEN s.parts[1].id ELSE <<w.owner, "part">>
             from == IF Extending(s) THEN s.offset ELSE 0
             old == bytes[f][id]
             parts == IF Extending(s) THEN <<[id |-> id, size |-> w.end]>>
                      ELSE Append(s.parts, [id |-> id, size |-> w.end - s.offset])
             complete == w.op # "chunk" \/ w.end = s.total
  <1>1. /\ UploadIInv /\ w \in Writer /\ f \in UploadFiles /\ w.owner # 0 /\ w.at = "receive"
        /\ bytes \in [UploadFiles -> [ByteId -> Data]] /\ w.at \in AtWork
        /\ s \in Progress /\ s.parts \in Seq(Part) /\ w.owner \in Nat
        /\ Remembers(c) /\ Receives(c) /\ Unnamed(c) /\ BytesNamed
        /\ writer \in [UploadClients -> Writer]
        /\ w.op \in {"whole", "chunk", "internal"}
    BY VolumeFacts, WriterFacts DEF Receive, AtWork, Writer, Progress, Receives, UploadIInv, UploadTypeOK
  <1>2. UNCHANGED <<upload, plain, owners>>
    BY DEF Receive
  <1>3. from <= Len(old)
    BY DEF Receive
  <1>4. PICK v \in Contents, n \in 1..w.end - s.offset :
             /\ bytes' = [bytes EXCEPT ![f][id] = Written(old, from, from + n, v)]
             /\ writer' = [writer EXCEPT ![c] =
                   IF n < w.end - s.offset THEN Closing(w)
                   ELSE [w EXCEPT !.at = IF complete THEN "assemble" ELSE "commit",
                                  !.mine = [s EXCEPT !.parts = parts, !.offset = w.end]]]
    BY DEF Receive
  <1>5. /\ id \in ByteId /\ parts \in Seq(Part)
        /\ \/ Len(parts) = 1 /\ parts[1].size = w.end
           \/ w.op = "chunk" /\ w.end = s.total
    BY <1>1, ReceivedParts
  <1>6. /\ from \in Nat /\ w.end \in Nat /\ s.offset \in Nat /\ w.end <= MAX_BYTES
        /\ s.offset < w.end /\ w.end \in Size
        /\ from + n \in Nat /\ from + n <= w.end
    BY <1>1, ReceiveSize
  <1>7. Extending(s) => /\ s.parts # <<>> /\ w.op = "chunk" /\ w.end <= s.total
                        /\ State(c).offset > 0 /\ State(c).total = s.total
    <2>1. Extending(s) => s.parts # <<>>
      BY <1>1, EmptySeq DEF Extending
    <2> QED
      BY <1>1, <2>1 DEF Receives
  <1>8. ~Extending(s) => id \notin Referenced(State(c)) /\ id[1] = w.owner
    BY <1>1 DEF Unnamed, Early
  <1>9. Extending(s) => from = s.offset
    OBVIOUS
  <1>10. w.owner <= owners
    BY <1>1 DEF UploadIInv, LeasesKept
  <1>11. \A i \in PartIds(s) : i[1] <= owners
    <2>1. \A i \in PartIds(s) : i[1] < w.owner /\ i[1] \in Nat
      BY <1>1, ReferencedTyped DEF Remembers, Early, PartIds, Referenced
    <2>2. owners \in Nat
      BY <1>1, UploadAssumption DEF UploadIInv, UploadTypeOK
    <2> QED
      BY <1>1, <1>10, <2>1, <2>2
  <1>12. id[1] <= owners
    <2>1. CASE Extending(s)
      <3>1. 1 \in DOMAIN s.parts
        BY <1>1, <2>1, LenProperties DEF Extending
      <3> QED
        BY <1>11, <2>1, <3>1 DEF PartIds
    <2>2. CASE ~Extending(s)
      BY <1>8, <1>10, <2>2
    <2> QED
      BY <2>1, <2>2
  <1> DEFINE to == from + n
             x == Written(old, from, to, v)
  <1>13. old \in Data /\ Len(old) \in Nat
    BY <1>1, <1>5, DataFacts
  <1>14. x \in Data /\ Len(x) = (IF to > Len(old) THEN to ELSE Len(old))
    <2>1. to <= MAX_BYTES /\ to \in Nat
      BY <1>6, UploadAssumption
    <2>2. v \in Contents
      BY <1>4
    <2> HIDE DEF to, id, from, old
    <2> QED
      BY <1>3, <1>6, <1>13, <2>1, <2>2, WrittenFacts
  <1>15. bytes' = [bytes EXCEPT ![f][id] = x]
    BY <1>4
  <1> HIDE DEF id, from, parts, x
  <1>16. /\ bytes'[f][id] = x
         /\ \A g \in UploadFiles, i \in ByteId : g # f \/ i # id => bytes'[g][i] = bytes[g][i]
    BY <1>1, <1>5, <1>14, <1>15, StoreTyped
  <1>17. BytesNamed'
    <2> SUFFICES ASSUME NEW g \in UploadFiles, NEW i \in ByteId, bytes'[g][i] # <<>>
                 PROVE  i[1] <= owners
      BY <1>2 DEF BytesNamed
    <2> QED
      BY <1>1, <1>12, <1>16 DEF BytesNamed
  <1>18. ASSUME NEW g \in UploadFiles, NEW i \in ByteId
         PROVE  Respects(c, g, i)
    <2>1. CASE g # f \/ i # id
      BY <1>16, <2>1 DEF Respects
    <2>2. CASE g = f /\ i = id /\ ~Extending(s)
      BY <1>1, <1>8, <2>2 DEF Respects
    <2>3. CASE g = f /\ i = id /\ Extending(s)
      <3>1. s.total \in Nat /\ State(c).total = s.total /\ w.end <= s.total /\ State(c).offset > 0
        BY <1>1, <1>7, <2>3, UploadAssumption DEF Progress, Size
      <3>2. CASE to > Len(old)
        <4>1. Len(bytes[g][i]) <= Len(bytes'[g][i]) /\ Len(bytes'[g][i]) <= State(c).total
          BY <1>6, <1>13, <1>14, <1>16, <2>3, <3>1, <3>2
        <4> QED
          BY <1>1, <2>3, <3>1, <4>1 DEF Respects
      <3>3. CASE ~(to > Len(old))
        BY <1>14, <1>16, <2>3, <3>3 DEF Respects
      <3> QED
        BY <3>2, <3>3
    <2> QED
      BY <2>1, <2>2, <2>3
  <1>19. WritesOnly(c)
    BY <1>2, <1>18 DEF WritesOnly
  <1>20. ASSUME NEW y \in Writer, writer' = [writer EXCEPT ![c] = y], VolumeRequest(c)'
         PROVE  VolumeIInv'
    <2>1. \A d \in UploadClients : d # c => writer'[d] = writer[d]
      BY <1>1, <1>20, BecomesFacts
    <2> QED
      BY <1>2, <1>17, <1>19, <1>20, <2>1, VolumePasses
  <1>21. CASE n < w.end - s.offset
    <2>1. Closing(w) \in Writer /\ Closing(w).at = "close" /\ Closing(w).op = w.op
      BY <1>1, ClosingFacts
    <2>2. writer' = [writer EXCEPT ![c] = Closing(w)]
      BY <1>4, <1>21
    <2>3. writer'[c] = Closing(w)
      BY <1>1, <2>1, <2>2, BecomesFacts
    <2>4. VolumeRequest(c)'
      BY <1>1, <2>1, <2>3, RestsAside
    <2> QED
      BY <1>19, <1>20, <2>1, <2>2, <2>4
  <1>22. CASE ~(n < w.end - s.offset)
    <2> DEFINE t == [s EXCEPT !.parts = parts, !.offset = w.end]
               at == IF complete THEN "assemble" ELSE "commit"
               y == [w EXCEPT !.at = at, !.mine = t]
    <2>1. t \in Progress /\ t.parts = parts /\ t.offset = w.end
      BY <1>1, <1>5, <1>6 DEF Progress
    <2>2. /\ at \in {"assemble", "commit"}
          /\ at = "commit" => ~(w.op = "chunk" /\ w.end = s.total)
      OBVIOUS
    <2>3. writer' = [writer EXCEPT ![c] = y]
      BY <1>4, <1>22
    <2> HIDE DEF t, at
    <2>4. y \in Writer /\ y.file = f /\ y.op = w.op /\ y.at = at /\ y.mine = t
      BY <1>1, <2>1, <2>2 DEF Writer, WriterPC
    <2> HIDE DEF y
    <2>5. writer'[c] = y
      BY <1>1, <2>3, <2>4, BecomesFacts
    <2>6. n = w.end - s.offset
      BY <1>6, <1>22
    <2>7. at = "commit" => Len(bytes'[f][parts[1].id]) >= w.end
      <3> SUFFICES ASSUME at = "commit" PROVE Len(bytes'[f][parts[1].id]) >= w.end
        OBVIOUS
      <3>1. Len(parts) = 1
        BY <1>5, <2>2
      <3>2. parts[1].id = id /\ to = w.end
        <4>1. CASE Extending(s)
          <5>1. parts = <<[id |-> id, size |-> w.end]>>
            BY <4>1 DEF parts
          <5>2. to = w.end
            BY <1>6, <1>9, <2>6, <4>1
          <5> QED
            BY <5>1, <5>2
        <4>2. CASE ~Extending(s)
          <5> DEFINE new == [id |-> id, size |-> w.end - s.offset]
          <5>1. parts = Append(s.parts, new) /\ new.id = id
            BY <4>2 DEF parts
          <5>2. new \in Part
            <6>1. w.end - s.offset \in 0..MAX_BYTES
              BY <1>6, UploadAssumption
            <6> HIDE DEF id, w, s
            <6>2. id \in ByteId
              BY <1>5
            <6> QED
              BY <6>1, <6>2 DEF Part, Size
          <5> HIDE DEF new
          <5>3. Len(parts) = Len(s.parts) + 1 /\ parts[Len(s.parts) + 1] = new /\ Len(s.parts) \in Nat
            BY <1>1, <5>1, <5>2, AppendProperties, LenProperties
          <5>4. Len(s.parts) = 0 /\ parts[1] = new
            BY <3>1, <5>3
          <5>5. s.parts = <<>>
            BY <1>1, <5>4, EmptySeq
          <5>6. s.offset = 0
            BY <1>1, <5>5 DEF Remembers, Receives, Consistent, Early
          <5>7. from = 0
            BY <4>2 DEF from
          <5> QED
            BY <1>6, <2>6, <5>1, <5>4, <5>6, <5>7
        <4> QED
          BY <4>1, <4>2
      <3> QED
        BY <1>6, <1>13, <1>14, <1>16, <3>2
    <2>8. Stores(c)'
      <3>1. y.at # "publish"
        BY <2>2, <2>4
      <3> QED
        BY <2>1, <2>4, <2>5, <2>7, <3>1 DEF Stores
    <2>9. Collects(c)' /\ Removes(c)' /\ Reads(c)'
      BY <1>1, <2>2, <2>4, <2>5 DEF Collects, Removes, Reads
    <2> QED
      BY <1>19, <1>20, <2>3, <2>4, <2>8, <2>9 DEF VolumeRequest
  <1> QED
    BY <1>21, <1>22

\* The parts are joined under the request's own name, or stay where the only one of them is.
LEMMA VolumeAssemble ==
    ASSUME VolumeIInv, UploadIInv', NEW c \in UploadClients, Assemble(c)
    PROVE  VolumeIInv' /\ WritesOnly(c)
  <1> DEFINE w == writer[c]
             s == w.mine
             f == w.file
  <1>1. /\ UploadIInv /\ w \in Writer /\ f \in UploadFiles /\ w.at = "assemble"
        /\ bytes \in [UploadFiles -> [ByteId -> Data]] /\ w.at \in AtWork
        /\ w.owner \in Nat /\ Unnamed(c) /\ Received(c) /\ BytesNamed
        /\ writer \in [UploadClients -> Writer]
    BY VolumeFacts, WriterFacts DEF Assemble, AtWork, UploadIInv, UploadTypeOK
  <1>2. UNCHANGED <<upload, plain, owners>>
    BY DEF Assemble
  <1>3. PICK id \in ByteId, x \in Data :
             /\ bytes' = [bytes EXCEPT ![f][id] = x]
             /\ writer' = [writer EXCEPT ![c].at = "publish", ![c].id = id]
             /\ Len(x) = s.offset
             /\ \/ id = <<w.owner, "blob">>
                \/ OnePart(s) /\ id = s.parts[1].id /\ x = bytes[f][id]
    BY <1>1, AssembledFacts
  <1> DEFINE y == [w EXCEPT !.at = "publish", !.id = id]
  <1>4. y \in Writer /\ y.file = f /\ y.op = w.op /\ y.at = "publish" /\ y.mine = s /\ y.id = id
    BY <1>1 DEF Writer, WriterPC
  <1>5. writer' = [writer EXCEPT ![c] = y]
    BY <1>1, <1>3 DEF Writer
  <1> HIDE DEF y
  <1>6. writer'[c] = y /\ \A d \in UploadClients : d # c => writer'[d] = writer[d]
    BY <1>1, <1>4, <1>5, BecomesFacts
  <1>7. /\ bytes'[f][id] = x
        /\ \A g \in UploadFiles, i \in ByteId : g # f \/ i # id => bytes'[g][i] = bytes[g][i]
    BY <1>1, <1>3, StoreTyped
  <1>8. id = <<w.owner, "blob">> => id \notin Referenced(State(c)) /\ id[1] = w.owner
    BY <1>1 DEF Unnamed, Late
  <1>9. w.owner <= owners
    BY <1>1 DEF UploadIInv, LeasesKept
  <1>10. BytesNamed'
    <2> SUFFICES ASSUME NEW g \in UploadFiles, NEW i \in ByteId, bytes'[g][i] # <<>>
                 PROVE  i[1] <= owners
      BY <1>2 DEF BytesNamed
    <2>1. CASE bytes'[g][i] = bytes[g][i]
      BY <1>1, <2>1 DEF BytesNamed
    <2>2. CASE bytes'[g][i] # bytes[g][i]
      <3>1. g = f /\ i = id
        BY <1>7, <2>2
      <3>2. id = <<w.owner, "blob">>
        BY <1>3, <1>7, <2>2, <3>1
      <3> QED
        BY <1>8, <1>9, <3>1, <3>2
    <2> QED
      BY <2>1, <2>2
  <1>11. ASSUME NEW g \in UploadFiles, NEW i \in ByteId
         PROVE  Respects(c, g, i)
    <2>1. CASE bytes'[g][i] = bytes[g][i]
      BY <2>1 DEF Respects
    <2>2. CASE bytes'[g][i] # bytes[g][i]
      <3>1. g = f /\ i = id
        BY <1>7, <2>2
      <3>2. id = <<w.owner, "blob">>
        BY <1>3, <1>7, <2>2, <3>1
      <3> QED
        BY <1>1, <1>8, <3>1, <3>2 DEF Respects
    <2> QED
      BY <2>1, <2>2
  <1>12. w.op # "read"
    BY <1>1 DEF Received, Late
  <1>13. Stores(c)'
    BY <1>3, <1>4, <1>6, <1>7 DEF Stores
  <1>14. Collects(c)' /\ Removes(c)' /\ Reads(c)'
    BY <1>4, <1>6, <1>12 DEF Collects, Removes, Reads
  <1>15. WritesOnly(c)
    BY <1>2, <1>11 DEF WritesOnly
  <1> QED
    BY <1>2, <1>6, <1>10, <1>13, <1>14, <1>15, VolumePasses DEF VolumeRequest

\* What a step may make of the record of a file, as to what is on the volume.
Keeps(f) ==
    LET s == upload[f].state
        t == upload'[f].state
    IN  \/ t = s
        \/ /\ \A i \in DOMAIN t.parts : Len(bytes[f][t.parts[i].id]) >= t.parts[i].size
           /\ t.published # NoId => bytes[f][t.published] # <<>>
           /\ t.status = "complete" => Len(bytes[f][t.published]) = t.total
           /\ f \in plain => t.mode # "public"
           /\ s.status = "retired" => t.status = "retired"

\* What a reader sees of it: the bytes it knows of, a deletion, or one more version.
Sees(d) ==
    \/ /\ State(d)'.published = State(d).published
       /\ writer'[d].moved = writer[d].moved
    \/ State(d)'.status = "retired"
    \/ /\ State(d)'.published # NoId
       /\ writer'[d].moved = 2 \/ writer'[d].moved = writer[d].moved + 1

\* A lease that a bulk deletion holds does not lapse.
Spare(d) ==
    writer[d].at \in {"claimed", "retiring"} =>
        \A f \in UploadFiles : upload[f].owner = writer[d].owner /\ upload[f].live => upload'[f].live

\* A request with another owner number than o does not see what one with that number does.
LEMMA VolumeOthers ==
    ASSUME VolumeIInv, NEW d \in UploadClients, NEW o \in Nat, o = 0 \/ o # writer[d].owner, Touched(o),
           upload' \in [UploadFiles -> FileUpload], owners' \in {owners, owners + 1},
           UNCHANGED <<bytes, plain>>, NEW n \in 0..2, writer'[d] = [writer[d] EXCEPT !.moved = n],
           \A f \in UploadFiles : Keeps(f), Spare(d), writer[d].op = "read" => Sees(d)
    PROVE  VolumeRequest(d)'
  <1> DEFINE w == writer[d]
             f == w.file
  <1>1. /\ UploadIInv /\ w \in Writer /\ f \in UploadFiles /\ w.owner \in Nat
        /\ w.owner # 0 <=> w.at \in AtWork \cup Batch
        /\ State(d) \in Progress
        /\ Collects(d) /\ Removes(d) /\ Stores(d) /\ Reads(d)
    BY VolumeFacts, WriterFacts
  <1>2. /\ writer'[d].at = w.at /\ writer'[d].file = f /\ writer'[d].owner = w.owner
        /\ writer'[d].mine = w.mine /\ writer'[d].op = w.op /\ writer'[d].id = w.id
        /\ writer'[d].tries = w.tries /\ writer'[d].found = w.found /\ writer'[d].claimed = w.claimed
        /\ writer'[d].had = w.had /\ writer'[d].moved = n
    BY <1>1 DEF Writer
  <1>3. /\ owners \in Nat /\ w.owner <= owners
        /\ upload \in [UploadFiles -> FileUpload]
        /\ \A g \in UploadFiles : upload[g].owner \in Nat /\ upload[g].owner <= owners
        /\ w.at \in AtWork => upload[f].owner = 0 \/ upload[f].owner >= w.owner
    BY <1>1, UploadAssumption DEF UploadIInv, UploadTypeOK, LeasesKept, FileUpload, OwnerId
  <1>4. \A g \in UploadFiles : upload[g].state.status = "retired" => upload'[g].state.status = "retired"
    BY DEF Keeps
  <1>5. ASSUME NEW g \in UploadFiles, upload'[g].owner = w.owner, w.owner # 0
        PROVE  /\ upload[g].owner = w.owner /\ upload'[g].state = upload[g].state
               /\ upload'[g].live => upload[g].live
    <2>1. CASE upload'[g] = upload[g]
      BY <1>5, <2>1
    <2>2. CASE owners' = owners + 1 /\ upload'[g].owner = owners'
      BY <1>3, <1>5, <2>2
    <2>3. CASE upload'[g] = [upload[g] EXCEPT !.live = FALSE]
      BY <1>3, <1>5, <2>3 DEF FileUpload
    <2>4. CASE o # 0 /\ upload[g].owner = o /\ upload'[g].owner \in {0, o}
      BY <1>5, <2>4
    <2> QED
      BY <2>1, <2>2, <2>3, <2>4 DEF Touched
  <1>6. ASSUME NEW g \in UploadFiles, upload[g].owner = w.owner, upload[g].live, w.owner # 0
        PROVE  upload'[g].owner = w.owner
    <2>1. upload[g] \in FileUpload
      BY <1>3
    <2>2. ~Unclaimed(g)
      BY <1>6 DEF Unclaimed
    <2>3. CASE upload'[g] = [upload[g] EXCEPT !.live = FALSE]
      BY <1>6, <2>1, <2>3 DEF FileUpload
    <2> QED
      BY <1>6, <2>2, <2>3 DEF Touched
  <1>7. Collects(d)'
    <2>1. w.at = "open" => \A id \in w.found : id[1] <= owners'
      <3>1. \A id \in ByteId : id[1] \in Nat
        BY UploadAssumption DEF ByteId, EarlyParts
      <3>2. \A id \in w.found : id \in ByteId
        BY <1>1 DEF Writer
      <3> QED
        BY <1>1, <1>3, <3>1, <3>2 DEF Collects
    <2>2. ASSUME w.at = "collect", NEW id \in ByteId, id \in Referenced(upload'[f].state), id[1] < w.owner
          PROVE  id \in Referenced(w.mine)
      <3>1. id \in Referenced(upload[f].state)
        <4>1. upload'[f].state = upload[f].state \/ (o # 0 /\ upload[f].owner = o /\ Successor(upload[f].state, upload'[f].state, o))
          BY <1>1, <1>3 DEF Touched, FileUpload
        <4>2. id # NoId
          BY UploadAssumption DEF ByteId, NoId, EarlyParts
        <4>3. o # 0 /\ upload[f].owner = o => id[1] # o
          <5>1. w.at \in AtWork
            BY <2>2 DEF AtWork
          <5>2. id[1] \in Nat
            BY UploadAssumption DEF ByteId, EarlyParts
          <5> QED
            BY <1>1, <1>3, <2>2, <5>1, <5>2
        <4> QED
          BY <2>2, <4>1, <4>2, <4>3 DEF Successor
      <3> QED
        BY <1>1, <2>2, <3>1 DEF Collects, State
    <2> QED
      BY <1>1, <1>2, <2>1, <2>2 DEF Collects, State
  <1>8. Removes(d)'
    <2>1. w.at = "remove" => upload'[f].state.status = "retired"
      BY <1>1, <1>4 DEF Removes, State
    <2>2. ASSUME w.at \in {"claimed", "retiring"}, NEW g \in UploadFiles, upload'[g].owner = w.owner
          PROVE  upload'[g].live
      <3>1. w.owner # 0
        BY <1>1, <2>2 DEF Batch
      <3>2. upload[g].owner = w.owner
        BY <1>5, <2>2, <3>1
      <3> QED
        BY <1>1, <2>2, <3>2 DEF Removes, Spare
    <2>3. ASSUME w.at = "retiring", NEW g \in w.claimed
          PROVE  upload'[g].owner = w.owner
      <3>1. w.owner # 0 /\ g \in UploadFiles
        BY <1>1, <2>3 DEF Batch, Writer
      <3>2. upload[g].owner = w.owner /\ upload[g].live
        BY <1>1, <2>3, <3>1 DEF Removes
      <3> QED
        BY <1>6, <3>1, <3>2
    <2>4. w.at = "wiping" => \A g \in w.claimed : upload'[g].state.status = "retired"
      BY <1>1, <1>4 DEF Removes, Writer
    <2> QED
      BY <1>2, <2>1, <2>2, <2>3, <2>4 DEF Removes, State
  <1>9. Stores(d)'
    <2> SUFFICES ASSUME Fenced(d)', w.at \in {"commit", "publish"} PROVE Stores(d)'
      BY <1>2 DEF Stores
    <2>1. w.owner # 0
      BY <1>1 DEF AtWork
    <2>2. upload'[f].owner = w.owner /\ upload'[f].live
      BY <1>2 DEF Fenced
    <2>3. Fenced(d)
      BY <1>1, <1>5, <2>1, <2>2 DEF Fenced
    <2> QED
      BY <1>1, <1>2, <2>3 DEF Stores
  <1>10. Reads(d)'
    <2>1. State(d)' = upload'[f].state /\ State(d) = upload[f].state
      BY <1>2 DEF State
    <2>2. w.op = "read" <=> w.at \in {"resolve", "fetch", "missing"}
      BY <1>1 DEF Reads
    <2> SUFFICES ASSUME w.op = "read", w.had, State(d)'.status # "retired", n < 2
                 PROVE  /\ State(d)'.published # NoId \/ f \in plain
                        /\ w.at # "missing"
                        /\ w.tries <= n
                        /\ w.at = "fetch" /\ w.id # State(d)'.published => w.tries < n
      BY <1>2, <2>2 DEF Reads
    <2>3. State(d).status # "retired"
      BY <1>1, <1>4, <2>1
    <2>4. w.tries \in Nat /\ w.moved \in Nat
      BY <1>1 DEF Writer
    <2>5. \/ State(d)'.published = State(d).published /\ n = w.moved
          \/ State(d)'.published # NoId /\ n = w.moved + 1
      BY <1>2 DEF Sees
    <2>6. w.moved < 2
      BY <2>4, <2>5
    <2>7. /\ State(d).published # NoId \/ f \in plain
          /\ w.at # "missing"
          /\ w.tries <= w.moved
          /\ w.at = "fetch" /\ w.id # State(d).published => w.tries < w.moved
      BY <1>1, <2>3, <2>6 DEF Reads
    <2> QED
      BY <2>4, <2>5, <2>7
  <1> QED
    BY <1>7, <1>8, <1>9, <1>10 DEF VolumeRequest

\* A step that touches the records keeps the volume invariant if it leaves in each what is stored, and
\* the other requests what they hold.
LEMMA VolumeTouches ==
    ASSUME VolumeIInv, UploadIInv', owners' \in {owners, owners + 1}, UNCHANGED <<bytes, plain>>,
           \A f \in UploadFiles : Keeps(f),
           \A d \in UploadClients : VolumeRequest(d)'
    PROVE  VolumeIInv'
  <1>1. UploadIInv /\ CommittedIsStored /\ PublishedParts /\ PlainStays /\ BytesNamed
    BY DEF VolumeIInv, VolumeKept
  <1>2. CommittedIsStored'
    BY <1>1 DEF CommittedIsStored, Keeps
  <1>3. PublishedParts'
    BY <1>1 DEF PublishedParts, Keeps
  <1>4. PlainStays'
    <2>1. plain \subseteq UploadFiles
      BY <1>1 DEF UploadIInv, UploadTypeOK
    <2> QED
      BY <1>1, <2>1 DEF PlainStays, Keeps
  <1>5. BytesNamed'
    <2>1. owners \in Nat
      BY <1>1, UploadAssumption DEF UploadIInv, UploadTypeOK
    <2>2. \A id \in ByteId : id[1] \in Nat
      BY UploadAssumption DEF ByteId, EarlyParts
    <2> QED
      BY <1>1, <2>1, <2>2 DEF BytesNamed
  <1> QED
    BY <1>2, <1>3, <1>4, <1>5 DEF VolumeIInv, VolumeKept

\* So does a step of a request that takes no lease from another.
LEMMA VolumeActs ==
    ASSUME VolumeIInv, UploadIInv', NEW c \in UploadClients, Touched(writer[c].owner), OthersKeep(c),
           owners' \in {owners, owners + 1}, UNCHANGED <<bytes, plain>>,
           \A f \in UploadFiles : Keeps(f),
           \A f \in UploadFiles : upload[f].live => upload'[f].live,
           \A d \in UploadClients : d # c /\ writer[d].op = "read" => Sees(d),
           VolumeRequest(c)'
    PROVE  VolumeIInv'
  <1>1. UploadIInv /\ upload' \in [UploadFiles -> FileUpload]
    BY DEF VolumeIInv, UploadIInv, UploadTypeOK
  <1>2. writer[c].owner \in Nat
    BY <1>1, WriterFacts
  <1>3. ASSUME NEW d \in UploadClients, d # c
        PROVE  VolumeRequest(d)'
    <2>1. writer[c].owner = 0 \/ writer[c].owner # writer[d].owner
      BY <1>1, <1>3 DEF UploadIInv, LeasesKept
    <2>2. PICK n \in 0..2 : writer'[d] = [writer[d] EXCEPT !.moved = n]
      BY <1>3 DEF OthersKeep
    <2>3. Spare(d)
      BY DEF Spare
    <2> QED
      BY <1>1, <1>2, <1>3, <2>1, <2>2, <2>3, VolumeOthers
  <1>4. \A d \in UploadClients : VolumeRequest(d)'
    BY <1>3
  <1> QED
    BY <1>4, VolumeTouches

\* A lease changes hands and the uploads stay as they are.
LEMMA VolumeLeases ==
    ASSUME VolumeIInv, UploadIInv', NEW c \in UploadClients, Touched(writer[c].owner),
           NEW v \in Writer, writer' = [writer EXCEPT ![c] = v],
           owners' \in {owners, owners + 1}, UNCHANGED <<bytes, plain>>,
           \A f \in UploadFiles : upload'[f].state = upload[f].state /\ (upload[f].live => upload'[f].live),
           VolumeRequest(c)'
    PROVE  VolumeIInv'
  <1>1. UploadIInv
    BY DEF VolumeIInv
  <1>2. OthersKeep(c) /\ \A d \in UploadClients : d # c => writer'[d] = writer[d]
    BY <1>1, BecomesFacts
  <1>3. \A f \in UploadFiles : Keeps(f)
    BY DEF Keeps
  <1>4. ASSUME NEW d \in UploadClients, d # c
        PROVE  Sees(d)
    <2>1. writer'[d] = writer[d] /\ writer[d].file \in UploadFiles
      BY <1>1, <1>2, <1>4, WriterFacts
    <2> QED
      BY <2>1 DEF Sees, State
  <1> QED
    BY <1>2, <1>3, <1>4, VolumeActs

LEMMA VolumeOpens ==
    ASSUME VolumeIInv, UploadIInv', NEW c \in UploadClients, OpenUploadStore(c)
    PROVE  VolumeIInv'
  <1> DEFINE f == writer[c].file
             v == [writer[c] EXCEPT !.at = "collect", !.owner = owners', !.mine = upload[f].state]
  <1>1. /\ UploadIInv /\ writer[c] \in Writer /\ f \in UploadFiles /\ Collects(c) /\ Reads(c)
        /\ upload \in [UploadFiles -> FileUpload] /\ writer \in [UploadClients -> Writer]
        /\ owners \in Nat /\ upload[f].state \in Progress
    BY VolumeFacts, WriterFacts, UploadAssumption DEF UploadIInv, UploadTypeOK, FileUpload
  <1>2. /\ owners' = owners + 1 /\ owners' \in OwnerId
        /\ Unclaimed(f) /\ writer[c].at = "open"
        /\ upload' = [upload EXCEPT ![f].owner = owners', ![f].live = TRUE]
        /\ writer' = [writer EXCEPT ![c].at = "collect", ![c].owner = owners', ![c].mine = upload[f].state]
        /\ UNCHANGED <<bytes, plain>>
    <2>1. owners' = owners + 1 /\ owners < MaxOwners /\ MaxOwners \in Nat
      BY UploadAssumption DEF OpenUploadStore
    <2> QED
      BY <1>1, <2>1 DEF OpenUploadStore, OwnerId
  <1>3. /\ upload'[f].owner = owners' /\ upload'[f].state = upload[f].state /\ upload'[f].live
        /\ \A g \in UploadFiles : g # f => upload'[g] = upload[g]
    BY <1>1, <1>2 DEF FileUpload
  <1>4. /\ v \in Writer /\ v.owner = owners' /\ v.at = "collect" /\ v.file = f
        /\ v.mine = upload[f].state /\ v.found = writer[c].found /\ v.op = writer[c].op
    BY <1>1, <1>2 DEF Writer, WriterPC
  <1>5. writer' = [writer EXCEPT ![c] = v]
    BY <1>1, <1>2 DEF Writer
  <1> HIDE DEF v
  <1>6. writer'[c] = v
    BY <1>1, <1>4, <1>5, BecomesFacts
  <1>7. Touched(writer[c].owner)
    BY <1>2, <1>3 DEF Touched
  <1>8. Collects(c)'
    <2>1. State(c)' = upload[f].state
      BY <1>3, <1>4, <1>6 DEF State
    <2>2. \A id \in v.found : id[1] <= owners /\ id[1] \in Nat
      <3>1. v.found \subseteq ByteId
        BY <1>4 DEF Writer
      <3>2. \A id \in ByteId : id[1] \in Nat
        BY UploadAssumption DEF ByteId, EarlyParts
      <3> QED
        BY <1>1, <1>2, <1>4, <3>1, <3>2 DEF Collects
    <2> QED
      BY <1>1, <1>2, <1>4, <1>6, <2>1, <2>2 DEF Collects
  <1>9. Removes(c)' /\ Stores(c)' /\ Reads(c)'
    BY <1>1, <1>2, <1>4, <1>6 DEF Removes, Stores, Reads
  <1> QED
    BY <1>2, <1>3, <1>4, <1>5, <1>7, <1>8, <1>9, VolumeLeases DEF VolumeRequest

LEMMA VolumeCloses ==
    ASSUME VolumeIInv, UploadIInv', NEW c \in UploadClients, CloseStore(c)
    PROVE  VolumeIInv'
  <1> DEFINE w == writer[c]
             f == w.file
             x == IF w.todo = {} THEN NoWriter(f) ELSE Waiting(f, w.op, "next", w.todo)
             o == IF upload[f].owner = w.owner THEN 0 ELSE upload[f].owner
  <1>1. /\ UploadIInv /\ w \in Writer /\ f \in UploadFiles /\ Reads(c) /\ w.at = "close"
        /\ upload \in [UploadFiles -> FileUpload] /\ writer \in [UploadClients -> Writer]
        /\ Consistent(upload[f].state) /\ w.owner # 0
    BY VolumeFacts, WriterFacts DEF CloseStore, UploadIInv, UploadTypeOK, State, AtWork
  <1>2. /\ upload' = [upload EXCEPT ![f].owner = o]
        /\ writer' = [writer EXCEPT ![c] = x]
        /\ UNCHANGED <<bytes, plain, owners, lapses>>
    BY DEF CloseStore, Waiting
  <1>3. w.op # "read" /\ w.op \in UploadOps \cup {"none"} /\ w.todo \in SUBSET UploadFiles /\ "next" \in WriterPC
    BY <1>1 DEF Reads, Writer, WriterPC
  <1>4. /\ Waiting(f, w.op, "next", w.todo) \in Writer
        /\ Waiting(f, w.op, "next", w.todo).at = "next"
        /\ Waiting(f, w.op, "next", w.todo).op = w.op
    <2> DEFINE op == w.op
               S == w.todo
    <2> HIDE DEF op, S, f
    <2> QED
      BY <1>1, <1>3, WaitingFacts DEF op, S
  <1>5. x \in Writer /\ x.at \in {"idle", "next"} /\ x.op # "read"
    BY <1>1, <1>3, <1>4, NoWriterFacts
  <1> HIDE DEF x, o
  <1>6. writer'[c] = x
    BY <1>1, <1>2, <1>5, BecomesFacts
  <1>7. /\ upload'[f].owner = o /\ upload'[f].state = upload[f].state /\ upload'[f].live = upload[f].live
        /\ \A g \in UploadFiles : g # f => upload'[g] = upload[g]
        /\ o = upload[f].owner => upload'[f] = upload[f]
    BY <1>1, <1>2 DEF FileUpload
  <1>8. Touched(w.owner)
    BY <1>1, <1>7, SameSucceeds DEF Touched, o
  <1>9. VolumeRequest(c)'
    BY <1>5, <1>6, RestsAside
  <1> QED
    BY <1>2, <1>5, <1>7, <1>8, <1>9, VolumeLeases

\* What is retired refers to nothing.
LEMMA RetiringKeeps ==
    ASSUME VolumeIInv, NEW f \in UploadFiles, upload'[f].state = RetiredState(upload[f].state)
    PROVE  Keeps(f) /\ upload'[f].state.status = "retired"
  <1> DEFINE s == upload[f].state
             t == RetiredState(s)
  <1>1. s \in Progress /\ Consistent(s) /\ (f \in plain => s.mode # "public")
    BY DEF VolumeIInv, VolumeKept, PlainStays, UploadIInv, UploadTypeOK, FileUpload, RecordsKept
  <1>2. /\ t.status = "retired" /\ t.published = NoId /\ t.parts = <<>>
        /\ t.mode = "public" <=> s.mode = "public"
    BY <1>1, RetireSucceeds
  <1> HIDE DEF s, t
  <1>3. DOMAIN t.parts = {}
    BY <1>2, EmptySeq, LenProperties
  <1>4. upload'[f].state = t /\ upload[f].state = s
    BY DEF s, t
  <1> QED
    BY <1>1, <1>2, <1>3, <1>4 DEF Keeps

\* A batch is claimed and retired.
LEMMA VolumeBatches ==
    ASSUME VolumeIInv, UploadIInv', NEW c \in UploadClients, ClaimBulk(c) \/ RetireBulk(c)
    PROVE  VolumeIInv'
  <1> DEFINE w == writer[c]
  <1>1. /\ UploadIInv /\ w \in Writer /\ Reads(c) /\ Removes(c)
        /\ upload \in [UploadFiles -> FileUpload] /\ writer \in [UploadClients -> Writer]
        /\ owners \in Nat /\ \A f \in UploadFiles : upload[f].owner \in Nat /\ upload[f].owner <= owners
    BY VolumeFacts, WriterFacts, UploadAssumption
    DEF UploadIInv, UploadTypeOK, LeasesKept, FileUpload, OwnerId
  <1>2. CASE ClaimBulk(c)
    <2>1. /\ owners' = owners + 1 /\ UNCHANGED <<bytes, plain, lapses>> /\ Touched(w.owner)
          /\ \A g \in UploadFiles :
                /\ upload'[g].state = upload[g].state
                /\ upload'[g] = upload[g] \/ (upload'[g].owner = owners' /\ upload'[g].live)
      BY <1>1, <1>2, LeaseFacts
    <2>2. PICK v \in Writer : /\ v.owner = owners' /\ v.at = "claimed" /\ v.op = "bulk"
                              /\ writer' = [writer EXCEPT ![c] = v]
      BY <1>1, <1>2, LeaseFacts
    <2>3. writer'[c] = v
      BY <1>1, <2>2, BecomesFacts
    <2>4. \A g \in UploadFiles : upload'[g].owner = owners' => upload'[g].live
      BY <1>1, <2>1
    <2>5. Removes(c)'
      BY <2>2, <2>3, <2>4 DEF Removes
    <2>6. Collects(c)' /\ Stores(c)' /\ Reads(c)'
      BY <2>2, <2>3 DEF Collects, Stores, Reads
    <2>7. \A g \in UploadFiles : upload[g].live => upload'[g].live
      BY <2>1
    <2> QED
      BY <2>1, <2>2, <2>5, <2>6, <2>7, VolumeLeases DEF VolumeRequest
  <1>3. CASE RetireBulk(c)
    <2>1. /\ UNCHANGED <<bytes, plain, owners, lapses>> /\ Touched(w.owner)
          /\ \A g \in UploadFiles :
                /\ upload'[g].live = upload[g].live
                /\ upload'[g].state \in {upload[g].state, RetiredState(upload[g].state)}
                /\ g \in w.claimed /\ upload[g].owner = w.owner => upload'[g].state.status = "retired"
      BY <1>1, <1>3, RetireBulkFacts
    <2>2. PICK v \in Writer : /\ v.owner = w.owner /\ v.at = "wiping" /\ v.op = w.op
                              /\ v.claimed = w.claimed /\ writer' = [writer EXCEPT ![c] = v]
      BY <1>1, <1>3, RetireBulkFacts
    <2>3. writer'[c] = v /\ OthersKeep(c) /\ \A d \in UploadClients : d # c => writer'[d] = writer[d]
      BY <1>1, <2>2, BecomesFacts
    <2>4. ASSUME NEW g \in UploadFiles
          PROVE  Keeps(g) /\ (upload'[g].state = upload[g].state \/ upload'[g].state.status = "retired")
      <3>1. CASE upload'[g].state = upload[g].state
        BY <3>1 DEF Keeps
      <3>2. CASE upload'[g].state = RetiredState(upload[g].state)
        BY <3>2, RetiringKeeps
      <3> QED
        BY <2>1, <3>1, <3>2
    <2>5. w.at = "retiring"
      BY <1>3 DEF RetireBulk
    <2>6. Removes(c)'
      <3>1. \A g \in w.claimed : g \in UploadFiles /\ upload[g].owner = w.owner
        BY <1>1, <2>5 DEF Removes, Writer
      <3>2. \A g \in w.claimed : upload'[g].state.status = "retired"
        BY <2>1, <3>1
      <3> QED
        BY <2>2, <2>3, <3>2 DEF Removes
    <2>7. Collects(c)' /\ Stores(c)' /\ Reads(c)'
      BY <1>1, <2>2, <2>3, <2>5 DEF Collects, Stores, Reads
    <2>8. ASSUME NEW d \in UploadClients, d # c
          PROVE  Sees(d)
      <3>1. writer'[d] = writer[d] /\ writer[d].file \in UploadFiles
        BY <1>1, <2>3, <2>8, WriterFacts
      <3>2. upload'[writer[d].file].state = upload[writer[d].file].state
            \/ upload'[writer[d].file].state.status = "retired"
        BY <2>4, <3>1
      <3> QED
        BY <3>1, <3>2 DEF Sees, State
    <2> QED
      BY <2>1, <2>3, <2>4, <2>6, <2>7, <2>8, VolumeActs DEF VolumeRequest
  <1> QED
    BY <1>2, <1>3

\* A save, fenced or not, of a state that is on the volume.
LEMMA VolumeSaves ==
    ASSUME VolumeIInv, UploadIInv', NEW c \in UploadClients, NEW s \in Progress, NEW w \in Writer,
           w.file = writer[c].file, w.owner = writer[c].owner, w.op = writer[c].op,
           writer[c].at \in AtWork,
           Save(c, s, w), Fenced(c) => Successor(State(c), s, w.owner),
           UNCHANGED <<bytes, plain, owners>>,
           Fenced(c) /\ upload'[w.file].state = s =>
              Keeps(w.file) /\ (s.published = State(c).published \/ s.status = "retired"),
           w.at \in {"close", "receive", "remove"}, w.at = "remove" => s.status = "retired"
    PROVE  VolumeIInv'
  <1>1. /\ UploadIInv /\ writer[c] \in Writer /\ w.file \in UploadFiles /\ Reads(c)
    BY VolumeFacts, WriterFacts
  <1>2. /\ Touched(writer[c].owner) /\ OthersKeep(c)
        /\ \A f \in UploadFiles : upload'[f].owner = upload[f].owner /\ upload'[f].live = upload[f].live
        /\ \A f \in UploadFiles : f # w.file => upload'[f] = upload[f]
        /\ Fenced(c) => upload'[w.file].state = s
        /\ ~Fenced(c) => upload' = upload /\ writer'[c].at = "close"
        /\ writer'[c].at \in {"close", w.at} /\ writer'[c].op = w.op /\ writer'[c].file = writer[c].file
        /\ \A d \in UploadClients : d # c => writer'[d] = writer[d]
    <2>1. SaveDone(c, s, w)
      BY <1>1, SaveFacts
    <2> QED
      BY <2>1 DEF SaveDone
  <1>3. \A f \in UploadFiles : Keeps(f)
    <2>1. ASSUME NEW f \in UploadFiles, upload'[f].state # upload[f].state
          PROVE  Keeps(f)
      <3>1. Fenced(c) /\ f = w.file
        BY <1>2, <2>1
      <3> QED
        BY <1>2, <3>1
    <2> QED
      BY <2>1 DEF Keeps
  <1>4. ASSUME NEW d \in UploadClients, d # c
        PROVE  Sees(d)
    <2>1. writer'[d] = writer[d] /\ writer[d].file \in UploadFiles
      BY <1>1, <1>2, <1>4, WriterFacts
    <2>2. CASE upload'[writer[d].file].state = upload[writer[d].file].state
      BY <2>1, <2>2 DEF Sees, State
    <2>3. CASE upload'[writer[d].file].state # upload[writer[d].file].state
      <3>1. Fenced(c) /\ writer[d].file = w.file
        BY <1>2, <2>1, <2>3
      <3>2. s.published = State(c).published \/ s.status = "retired"
        BY <1>2, <3>1
      <3> QED
        BY <1>2, <2>1, <3>1, <3>2 DEF Sees, State
    <2> QED
      BY <2>2, <2>3
  <1>5. w.op # "read"
    BY <1>1 DEF Reads, AtWork
  <1>6. Removes(c)'
    <2>1. writer'[c].at = "remove" => Fenced(c) /\ s.status = "retired"
      BY <1>2
    <2> QED
      BY <1>2, <2>1 DEF Removes, State
  <1>7. Collects(c)' /\ Stores(c)' /\ Reads(c)'
    BY <1>2, <1>5 DEF Collects, Stores, Reads
  <1> QED
    BY <1>2, <1>3, <1>4, <1>6, <1>7, VolumeActs DEF VolumeRequest

\* An upload under way that keeps its parts, or drops them, and what is published.
LEMMA UploadingKeeps ==
    ASSUME VolumeIInv, NEW f \in UploadFiles,
           upload'[f].state.parts \in {upload[f].state.parts, <<>>},
           upload'[f].state.published = upload[f].state.published,
           upload'[f].state.status = "uploading", upload[f].state.status # "retired",
           f \in plain => upload'[f].state.mode # "public"
    PROVE  Keeps(f)
  <1> DEFINE s == upload[f].state
             t == upload'[f].state
  <1>1. /\ \A i \in DOMAIN s.parts : Len(bytes[f][s.parts[i].id]) >= s.parts[i].size
        /\ s.published # NoId => bytes[f][s.published] # <<>>
    BY DEF VolumeIInv, CommittedIsStored
  <1>2. DOMAIN <<>> = {}
    BY EmptySeq, LenProperties
  <1>3. \A i \in DOMAIN t.parts : Len(bytes[f][t.parts[i].id]) >= t.parts[i].size
    BY <1>1, <1>2
  <1> QED
    BY <1>1, <1>3 DEF Keeps

\* Reservations, beginnings, chunks and deletions.
LEMMA VolumeSavingSteps ==
    ASSUME VolumeIInv, UploadIInv', NEW c \in UploadClients,
           \/ ReserveFileUpload(c) \/ BeginReplacement(c) \/ BeginChunk(c)
           \/ CommitChunk(c) \/ RetireFile(c)
    PROVE  VolumeIInv'
  <1> DEFINE w == writer[c]
             f == w.file
  <1>1. /\ UploadIInv /\ w \in Writer /\ f \in UploadFiles /\ w.mine \in Progress /\ w.at \in AtWork
        /\ upload \in [UploadFiles -> FileUpload] /\ State(c) = upload[f].state /\ State(c) \in Progress
        /\ Remembers(c) /\ Received(c) /\ Stores(c) /\ PlainStays /\ Consistent(State(c))
        /\ UNCHANGED <<bytes, plain, owners>>
    BY VolumeFacts, WriterFacts
    DEF Writer, ReserveFileUpload, CommitChunk, RetireFile, BeginReplacement, BeginChunk, AtWork, State,
        UploadIInv, UploadTypeOK
  <1>2. w.at = "owned" => Consistent(w.mine) /\ (Fenced(c) => w.mine = State(c))
    BY <1>1 DEF Remembers, Early
  <1>3. ASSUME NEW s \in Progress, Successor(w.mine, s, w.owner), w.at = "owned",
               NEW x \in Writer, x.file = f, x.owner = w.owner, x.op = w.op, x.at \in {"close", "receive"},
               Save(c, s, x), s.published = w.mine.published, s.parts \in {w.mine.parts, <<>>},
               s.status = "uploading", w.mine.status # "retired", f \in plain /\ Fenced(c) => s.mode # "public"
        PROVE  VolumeIInv'
    <2>1. Fenced(c) => Successor(State(c), s, x.owner)
      BY <1>2, <1>3
    <2>2. ASSUME Fenced(c), upload'[f].state = s
          PROVE  Keeps(f) /\ s.published = State(c).published
      BY <1>1, <1>2, <1>3, <2>2, UploadingKeeps
    <2> QED
      BY <1>1, <1>3, <2>1, <2>2, VolumeSaves
  <1>4. CASE ReserveFileUpload(c)
    <2> DEFINE s == [w.mine EXCEPT !.mode = "public"]
               x == [w EXCEPT !.at = "close"]
    <2>1. /\ w.at = "owned"
          /\ (w.mine.mode = "none" /\ f \notin plain) \/ (w.mine.mode = "public" /\ w.mine.status = "uploading")
          /\ Save(c, s, x)
      BY <1>4 DEF ReserveFileUpload
    <2>2. s \in Progress /\ Successor(w.mine, s, w.owner) /\ s.published = w.mine.published
      BY <1>1, <1>2, <2>1, ReserveSucceeds
    <2>3. s.parts = w.mine.parts /\ s.status = w.mine.status
      BY <1>1 DEF Progress
    <2>4. w.mine.status = "uploading"
      BY <1>2, <2>1 DEF Consistent, NoProgress
    <2>5. f \in plain => ~Fenced(c)
      BY <1>1, <1>2, <2>1 DEF PlainStays
    <2>6. x \in Writer /\ x.file = f /\ x.owner = w.owner /\ x.op = w.op /\ x.at = "close"
      BY <1>1 DEF Writer, WriterPC
    <2> HIDE DEF s, x
    <2> QED
      BY <1>3, <2>1, <2>2, <2>3, <2>4, <2>5, <2>6
  <1>5. CASE BeginReplacement(c)
    <2> DEFINE s == [NoProgress EXCEPT !.mode = "internal", !.published = w.mine.published]
    <2>1. w.at = "owned" /\ w.op = "internal" /\ w.mine.mode # "public" /\ w.mine.status # "retired"
      BY <1>5 DEF BeginReplacement
    <2>2. PICK end \in Sizes : Save(c, s, [w EXCEPT !.at = "receive", !.end = end])
      BY <1>5 DEF BeginReplacement
    <2> DEFINE x == [w EXCEPT !.at = "receive", !.end = end]
    <2>3. end \in Size
      BY UploadAssumption DEF Size
    <2>4. x \in Writer /\ x.file = f /\ x.owner = w.owner /\ x.op = w.op /\ x.at = "receive"
      BY <1>1, <2>3 DEF Writer, WriterPC
    <2>5. /\ s \in Progress /\ Successor(w.mine, s, w.owner) /\ s.published = w.mine.published
          /\ s.parts = <<>> /\ s.status = "uploading" /\ s.mode = "internal"
      BY <1>1, <1>2, <2>1, ReplacementSucceeds
    <2>6. Save(c, s, x)
      BY <2>2
    <2> HIDE DEF s, x
    <2> QED
      BY <1>3, <2>1, <2>4, <2>5, <2>6
  <1>6. CASE BeginChunk(c)
    <2>1. w.at = "owned" /\ w.op = "chunk" /\ w.mine.mode = "public" /\ w.mine.status = "uploading"
      BY <1>6 DEF BeginChunk
    <2>2. PICK total \in Sizes : /\ w.mine.total \in {0, total}
                                 /\ \E end \in w.mine.offset + 1..total :
                                      Save(c, [w.mine EXCEPT !.total = total],
                                           [w EXCEPT !.at = "receive", !.end = end])
      BY <1>6 DEF BeginChunk
    <2>3. PICK end \in w.mine.offset + 1..total :
             Save(c, [w.mine EXCEPT !.total = total], [w EXCEPT !.at = "receive", !.end = end])
      BY <2>2
    <2>4. w.mine.offset \in Nat /\ total \in Nat /\ total <= MAX_BYTES
      BY <1>1, UploadAssumption DEF Progress, Size
    <2>5. end \in Size /\ w.mine.offset < total
      BY <2>4, UploadAssumption DEF Size
    <2> DEFINE s == [w.mine EXCEPT !.total = total]
               x == [w EXCEPT !.at = "receive", !.end = end]
    <2>6. /\ s \in Progress /\ Successor(w.mine, s, w.owner) /\ s.published = w.mine.published
          /\ s.mode = "public" /\ s.status = "uploading" /\ s.parts = w.mine.parts
      BY <1>1, <1>2, <2>1, <2>2, <2>5, BeginChunkSucceeds
    <2>7. x \in Writer /\ x.file = f /\ x.owner = w.owner /\ x.op = w.op /\ x.at = "receive"
      BY <1>1, <2>5 DEF Writer, WriterPC
    <2>8. Save(c, s, x)
      BY <2>3
    <2>9. f \in plain => ~Fenced(c)
      BY <1>1, <1>2, <2>1 DEF PlainStays
    <2> HIDE DEF s, x
    <2> QED
      BY <1>3, <2>1, <2>6, <2>7, <2>8, <2>9
  <1>7. CASE CommitChunk(c)
    <2> DEFINE x == [w EXCEPT !.at = "close"]
               s == w.mine
    <2>1. w.at = "commit" /\ Save(c, s, x)
      BY <1>7 DEF CommitChunk
    <2>2. x \in Writer /\ x.file = f /\ x.owner = w.owner /\ x.op = w.op /\ x.at = "close"
      BY <1>1 DEF Writer, WriterPC
    <2> HIDE DEF x
    <2>3. Fenced(c) => Successor(State(c), s, x.owner)
      BY <1>1, <2>1, <2>2, CommitSucceeds
    <2>4. ASSUME Fenced(c), upload'[f].state = s
          PROVE  Keeps(f) /\ s.published = State(c).published
      <3>1. /\ s.status = "uploading" /\ OnePart(s) /\ State(c).status = "uploading"
            /\ State(c).mode = s.mode /\ State(c).published = s.published
        BY <1>1, <2>1, <2>4 DEF Received, Late
      <3>2. Len(bytes[f][s.parts[1].id]) >= s.offset
        BY <1>1, <2>1, <2>4 DEF Stores
      <3>3. DOMAIN s.parts = {1} /\ s.parts[1].size = s.offset
        <4>1. s.parts \in Seq(Part) /\ Len(s.parts) = 1
          BY <1>1, <3>1 DEF Progress, OnePart
        <4> QED
          BY <3>1, <4>1, LenProperties DEF OnePart
      <3>4. s.published # NoId => bytes[f][s.published] # <<>>
        BY <1>1, <3>1 DEF VolumeIInv, CommittedIsStored
      <3>5. f \in plain => s.mode # "public"
        BY <1>1, <3>1 DEF PlainStays
      <3> HIDE DEF s
      <3> QED
        BY <1>1, <2>4, <3>1, <3>2, <3>3, <3>4, <3>5 DEF Keeps
    <2> QED
      BY <1>1, <2>1, <2>2, <2>3, <2>4, VolumeSaves
  <1>8. CASE RetireFile(c)
    <2> DEFINE s == RetiredState(w.mine)
               S == Referenced(w.mine) \ {NoId}
               x == [w EXCEPT !.at = "remove", !.found = S]
    <2>1. w.at = "owned" /\ Save(c, s, x)
      BY <1>8 DEF RetireFile
    <2>2. s \in Progress /\ Successor(w.mine, s, w.owner) /\ s.status = "retired"
      BY <1>1, <1>2, <2>1, RetireSucceeds
    <2>3. S \in SUBSET ByteId
      BY <1>1, ReferencedTyped
    <2>4. Fenced(c) => s = RetiredState(State(c))
      BY <1>2, <2>1
    <2> HIDE DEF S
    <2>5. x \in Writer /\ x.file = f /\ x.owner = w.owner /\ x.op = w.op /\ x.at = "remove"
      BY <1>1, <2>3 DEF Writer, WriterPC
    <2> HIDE DEF s, x
    <2>6. Fenced(c) => Successor(State(c), s, x.owner)
      BY <1>2, <2>1, <2>2, <2>5
    <2>7. Fenced(c) /\ upload'[f].state = s => Keeps(f)
      BY <1>1, <2>4, RetiringKeeps
    <2> QED
      BY <1>1, <2>1, <2>2, <2>5, <2>6, <2>7, VolumeSaves
  <1> QED
    BY <1>4, <1>5, <1>6, <1>7, <1>8

\* What is published is whole, and its readers are overtaken once more.
LEMMA VolumePublish ==
    ASSUME VolumeIInv, UploadIInv', NEW c \in UploadClients, Publish(c)
    PROVE  VolumeIInv'
  <1> DEFINE w == writer[c]
             f == w.file
             t == Publishing(w)
  <1>1. /\ UploadIInv /\ w \in Writer /\ f \in UploadFiles /\ w.mine \in Progress /\ w.at = "publish"
        /\ upload \in [UploadFiles -> FileUpload] /\ State(c) = upload[f].state
        /\ Received(c) /\ Stores(c) /\ Reads(c) /\ PlainStays
    BY VolumeFacts, WriterFacts DEF Writer, Publish, State, UploadIInv, UploadTypeOK
  <1>2. UNCHANGED <<bytes, plain, owners>>
    BY DEF Publish
  <1>3. /\ Touched(w.owner)
        /\ \A g \in UploadFiles : upload'[g].owner = upload[g].owner /\ upload'[g].live = upload[g].live
        /\ \A g \in UploadFiles : g # f => upload'[g] = upload[g]
        /\ Fenced(c) => upload'[f].state = t
        /\ ~Fenced(c) => upload' = upload
    BY <1>1, PublishFacts
  <1>4. /\ OthersKeep(c) /\ writer'[c] = Closing(w)
        /\ \A d \in UploadClients \ {c} :
             ~(Fenced(c) /\ writer[d].op = "read" /\ writer[d].file = f) => writer'[d] = writer[d]
        /\ \A d \in UploadClients \ {c} :
             Fenced(c) /\ writer[d].op = "read" /\ writer[d].file = f =>
                 writer'[d].moved = 2 \/ writer'[d].moved = writer[d].moved + 1
    BY <1>1, PublishWriters
  <1>5. /\ t.parts = <<>> /\ t.published = w.id /\ t.status = "complete" /\ t.total = w.mine.offset
        /\ t.mode = w.mine.mode
    BY <1>1 DEF Publishing, Progress
  <1> HIDE DEF t
  <1>6. ASSUME Fenced(c)
        PROVE  Keeps(f) /\ t.published # NoId
    <2>1. Saved(c) = w.id /\ w.id \in ByteId /\ w.mine.offset \in Nat /\ w.mine.offset > 0
          /\ State(c).status = "uploading"
      BY <1>1, <1>6, SavedFacts DEF Saved
    <2>2. State(c).mode = w.mine.mode
      BY <1>1, <1>6 DEF Received, Late
    <2>3. Len(bytes[f][w.id]) = w.mine.offset
      BY <1>1, <1>6 DEF Stores
    <2>4. bytes[f][w.id] # <<>>
      BY <1>1, <2>1, <2>3, BytesTyped
    <2>5. DOMAIN t.parts = {}
      BY <1>5, EmptySeq, LenProperties
    <2>6. f \in plain => t.mode # "public"
      BY <1>1, <1>5, <2>2 DEF PlainStays
    <2>7. w.id # NoId
      BY <1>1, <1>6, PublishSucceeds
    <2> QED
      BY <1>1, <1>3, <1>5, <1>6, <2>1, <2>3, <2>4, <2>5, <2>6, <2>7 DEF Keeps
  <1>7. ASSUME NEW g \in UploadFiles
        PROVE  Keeps(g)
    <2>1. CASE Fenced(c) /\ g = f
      BY <1>6, <2>1
    <2>2. CASE ~(Fenced(c) /\ g = f)
      BY <1>3, <2>2 DEF Keeps
    <2> QED
      BY <2>1, <2>2
  <1>8. ASSUME NEW d \in UploadClients, d # c, writer[d].op = "read"
        PROVE  Sees(d)
    <2>1. writer[d].file \in UploadFiles /\ writer[d] \in Writer
      BY <1>1, WriterFacts
    <2>2. PICK n \in 0..2 : writer'[d] = [writer[d] EXCEPT !.moved = n]
      BY <1>4, <1>8 DEF OthersKeep
    <2>3. writer'[d].file = writer[d].file
      BY <2>1, <2>2 DEF Writer
    <2>4. CASE Fenced(c) /\ writer[d].file = f
      <3>1. writer'[d].moved = 2 \/ writer'[d].moved = writer[d].moved + 1
        BY <1>4, <1>8, <2>4
      <3>2. State(d)'.published # NoId
        BY <1>3, <1>6, <2>3, <2>4 DEF State
      <3> QED
        BY <3>1, <3>2 DEF Sees
    <2>5. CASE ~(Fenced(c) /\ writer[d].file = f)
      <3>1. writer'[d] = writer[d]
        BY <1>4, <1>8, <2>5
      <3>2. upload'[writer[d].file] = upload[writer[d].file]
        BY <1>3, <2>1, <2>5
      <3> QED
        BY <3>1, <3>2 DEF Sees, State
    <2> QED
      BY <2>4, <2>5
  <1>9. VolumeRequest(c)'
    <2>1. writer'[c].at = "close" /\ writer'[c].op = w.op
      BY <1>1, <1>4, ClosingFacts
    <2> QED
      BY <1>1, <2>1, RestsAside DEF Reads
  <1> QED
    BY <1>2, <1>3, <1>4, <1>7, <1>8, <1>9, VolumeActs

\* A lease lapses, but not under a bulk deletion.
LEMMA VolumeLapse ==
    ASSUME VolumeIInv, UploadIInv', NEW f \in UploadFiles, LapseLease(f), ~BulkStalls
    PROVE  VolumeIInv'
  <1>1. /\ UploadIInv /\ upload \in [UploadFiles -> FileUpload] /\ writer \in [UploadClients -> Writer]
        /\ upload' \in [UploadFiles -> FileUpload]
    BY DEF VolumeIInv, UploadIInv, UploadTypeOK
  <1>2. /\ upload' = [upload EXCEPT ![f].live = FALSE] /\ UNCHANGED <<bytes, plain, writer, owners>>
        /\ \A c \in UploadClients :
             writer[c].owner = upload[f].owner => writer[c].at \notin {"claimed", "retiring"}
    BY DEF LapseLease
  <1>3. /\ upload'[f] = [upload[f] EXCEPT !.live = FALSE]
        /\ \A g \in UploadFiles : g # f => upload'[g] = upload[g]
        /\ \A g \in UploadFiles : upload'[g].state = upload[g].state
    BY <1>1, <1>2 DEF FileUpload
  <1>4. Touched(0) /\ \A g \in UploadFiles : Keeps(g)
    BY <1>3 DEF Touched, Keeps
  <1>5. ASSUME NEW d \in UploadClients
        PROVE  VolumeRequest(d)'
    <2>1. writer[d] \in Writer /\ writer'[d] = writer[d]
      BY <1>1, <1>2
    <2> DEFINE n == writer[d].moved
    <2>2. n \in 0..2 /\ writer'[d] = [writer[d] EXCEPT !.moved = n]
      BY <2>1 DEF Writer
    <2>3. writer[d].file \in UploadFiles
      BY <2>1 DEF Writer
    <2>4. Sees(d)
      BY <1>3, <2>1, <2>3 DEF Sees, State
    <2>5. Spare(d)
      BY <1>2, <1>3 DEF Spare
    <2> HIDE DEF n
    <2> QED
      BY <1>1, <1>2, <1>4, <2>2, <2>4, <2>5, VolumeOthers
  <1> QED
    BY <1>2, <1>4, <1>5, VolumeTouches

-----------------------------------------------------------------------------
LEMMA VolumeInit ==
    UploadInit => VolumeIInv
  <1> SUFFICES ASSUME UploadInit PROVE VolumeIInv
    OBVIOUS
  <1>1. UploadIInv
    BY UploadInitIInv
  <1>2. ASSUME NEW c \in UploadClients
        PROVE  VolumeRequest(c)
    <2>1. (CHOOSE f \in UploadFiles : TRUE) \in UploadFiles
      BY UploadAssumption
    <2> DEFINE f == CHOOSE g \in UploadFiles : TRUE
    <2>2. writer[c] = NoWriter(f)
      BY DEF UploadInit
    <2> HIDE DEF f
    <2>3. f \in UploadFiles
      BY <2>1 DEF f
    <2>4. writer[c].at = "idle" /\ writer[c].op = "none"
      BY <2>2, <2>3, NoWriterFacts
    <2> QED
      BY <2>4 DEF VolumeRequest, Collects, Removes, Stores, Reads
  <1>3. CASE /\ upload = [f \in UploadFiles |-> [owner |-> 0, live |-> FALSE, state |-> NoProgress]]
             /\ bytes = [f \in UploadFiles |-> [id \in ByteId |-> <<>>]]
    <2>1. \A f \in UploadFiles : upload[f].state = NoProgress
      BY <1>3
    <2>2. /\ NoProgress.parts = <<>> /\ NoProgress.published = NoId /\ NoProgress.status = "uploading"
          /\ NoProgress.mode = "none"
      BY DEF NoProgress
    <2>3. DOMAIN <<>> = {}
      BY EmptySeq, LenProperties
    <2>4. CommittedIsStored
      BY <2>1, <2>2, <2>3 DEF CommittedIsStored
    <2>5. PublishedParts
      BY <2>1, <2>2 DEF PublishedParts
    <2>6. PlainStays
      <3>1. plain \subseteq UploadFiles
        BY DEF UploadInit
      <3> QED
        BY <2>1, <2>2, <3>1 DEF PlainStays
    <2>7. BytesNamed
      BY <1>3 DEF BytesNamed
    <2> QED
      BY <1>1, <1>2, <2>4, <2>5, <2>6, <2>7 DEF VolumeIInv, VolumeKept
  <1>4. CASE /\ MAX_BYTES >= 3 /\ plain = {}
             /\ upload = [f \in UploadFiles |-> [owner |-> 0, live |-> FALSE, state |->
                   [NoProgress EXCEPT !.mode = "public", !.offset = 2, !.total = 3,
                       !.parts = [i \in 1..2 |-> [id |-> EarlyParts[i], size |-> 1]]]]]
             /\ \E v \in Contents :
                   bytes = [f \in UploadFiles |-> [id \in ByteId |->
                               IF id \in {EarlyParts[1], EarlyParts[2]} THEN <<v>> ELSE <<>>]]
    <2> DEFINE s == [NoProgress EXCEPT !.mode = "public", !.offset = 2, !.total = 3,
                         !.parts = [i \in 1..2 |-> [id |-> EarlyParts[i], size |-> 1]]]
    <2>1. \A f \in UploadFiles : upload[f].state = s
      BY <1>4
    <2>2. /\ s.parts = [i \in 1..2 |-> [id |-> EarlyParts[i], size |-> 1]]
          /\ s.published = NoId /\ s.status = "uploading"
      BY DEF NoProgress
    <2> HIDE DEF s
    <2>3. PICK v \in Contents :
             bytes = [f \in UploadFiles |-> [id \in ByteId |->
                         IF id \in {EarlyParts[1], EarlyParts[2]} THEN <<v>> ELSE <<>>]]
      BY <1>4
    <2>4. Len(<<v>>) = 1
      OBVIOUS
    <2>5. CommittedIsStored
      <3> SUFFICES ASSUME NEW f \in UploadFiles, NEW i \in 1..2
                   PROVE  Len(bytes[f][s.parts[i].id]) >= s.parts[i].size
        BY <2>1, <2>2 DEF CommittedIsStored
      <3>1. s.parts[i].id = EarlyParts[i] /\ s.parts[i].size = 1
        BY <2>2
      <3>2. EarlyParts[i] \in ByteId /\ EarlyParts[i] \in {EarlyParts[1], EarlyParts[2]}
        BY DEF ByteId
      <3>3. bytes[f][EarlyParts[i]] = <<v>>
        BY <2>3, <3>2
      <3> QED
        BY <2>4, <3>1, <3>3
    <2>6. PublishedParts
      BY <2>1, <2>2 DEF PublishedParts
    <2>7. PlainStays
      BY <1>4 DEF PlainStays
    <2>8. BytesNamed
      <3>1. EarlyParts[1][1] = 0 /\ EarlyParts[2][1] = 0 /\ owners = 0
        BY DEF EarlyParts, UploadInit
      <3> QED
        BY <2>3, <3>1 DEF BytesNamed
    <2> QED
      BY <1>1, <1>2, <2>5, <2>6, <2>7, <2>8 DEF VolumeIInv, VolumeKept
  <1> QED
    BY <1>3, <1>4 DEF UploadInit

LEMMA VolumeNext ==
    ASSUME ~BulkStalls, VolumeIInv, [UploadNext]_uploadVars
    PROVE  VolumeIInv'
  <1>1. UploadIInv /\ UploadIInv'
    BY UploadNextIInv DEF VolumeIInv
  <1>2. CASE UNCHANGED uploadVars
    <2>1. UNCHANGED <<upload, bytes, plain, writer, owners>>
      BY <1>2 DEF uploadVars
    <2>2. ASSUME NEW c \in UploadClients
          PROVE  VolumeRequest(c)'
      <3>1. Collects(c) /\ Removes(c) /\ Stores(c) /\ Reads(c)
        BY VolumeFacts
      <3>2. Collects(c)' /\ Removes(c)'
        BY <2>1, <3>1 DEF Collects, Removes, State
      <3>3. Stores(c)' /\ Reads(c)'
        BY <2>1, <3>1 DEF Stores, Reads, State, Fenced
      <3> QED
        BY <3>2, <3>3 DEF VolumeRequest
    <2>3. \A f \in UploadFiles : Keeps(f)
      BY <2>1 DEF Keeps
    <2> QED
      BY <1>1, <2>1, <2>2, <2>3, VolumeTouches
  <1>3. CASE \E c \in UploadClients :
               \/ Call(c) \/ OpenUploadStore(c) \/ CollectBytes(c) \/ CloseStore(c)
               \/ FailUpload(c) \/ GiveUp(c)
               \/ ReserveFileUpload(c) \/ BeginReplacement(c) \/ UploadAgain(c) \/ BeginWhole(c)
               \/ BeginChunk(c) \/ Receive(c) \/ Assemble(c) \/ Publish(c) \/ CommitChunk(c)
               \/ RetireFile(c) \/ RemoveBytes(c)
               \/ ClaimBulk(c) \/ FindClaimed(c) \/ RetireBulk(c) \/ WipeBulk(c) \/ DeleteNext(c)
               \/ BeginRead(c) \/ ResolvePointer(c) \/ FetchBytes(c)
    BY <1>1, <1>3, VolumeAskSteps, VolumeReadSteps, VolumeRemoveSteps, VolumeReceive, VolumeAssemble,
       VolumeOpens, VolumeCloses, VolumeBatches, VolumeSavingSteps, VolumePublish
  <1>4. CASE \E f \in UploadFiles : LapseLease(f)
    BY <1>1, <1>4, VolumeLapse
  <1> QED
    BY <1>2, <1>3, <1>4 DEF UploadNext

\* If no bulk deletion outlives its claim, the chunks that MongoDB lists and the file it has published
\* are on the volume at any moment, whatever leftovers other requests collect, whoever deletes, and
\* wherever a request dies or loses its lease: a lease's update and the removal of bytes by the next
\* owner never disagree on which bytes count.
THEOREM CommittedStays ==
    ASSUME ~BulkStalls
    PROVE  UploadSpec => []CommittedIsStored
  <1>1. UploadInit => VolumeIInv
    BY VolumeInit
  <1>2. VolumeIInv /\ [UploadNext]_uploadVars => VolumeIInv'
    BY VolumeNext
  <1>3. VolumeIInv => CommittedIsStored
    BY DEF VolumeIInv
  <1> QED
    BY <1>1, <1>2, <1>3, PTL DEF UploadSpec

\* A reader that openPublished tells that its file is missing, although there was something to read
\* when it began, was overtaken by the deletion of the file or by two new versions of it: the second
\* look is enough for one.
THEOREM ReadersAreServed ==
    ASSUME ~BulkStalls
    PROVE  UploadSpec => []ReadersFind
  <1>1. UploadInit => VolumeIInv
    BY VolumeInit
  <1>2. VolumeIInv /\ [UploadNext]_uploadVars => VolumeIInv'
    BY VolumeNext
  <1>3. VolumeIInv => ReadersFind
    <2> SUFFICES ASSUME VolumeIInv, NEW c \in UploadClients, writer[c].at = "missing", writer[c].had
                 PROVE  State(c).status = "retired" \/ writer[c].moved = 2
      BY DEF ReadersFind, State
    <2>1. Reads(c) /\ writer[c] \in Writer
      BY VolumeFacts
    <2>2. writer[c].moved \in 0..2
      BY <2>1 DEF Writer
    <2> QED
      BY <2>1, <2>2 DEF Reads
  <1> QED
    BY <1>1, <1>2, <1>3, PTL DEF UploadSpec

-----------------------------------------------------------------------------
(* The files live the life FileLife describes, while clients that resume send the same bytes. *)

\* What FileLife tells of a file stays.
SameLife(f) ==
    /\ upload'[f].state.published = upload[f].state.published
    /\ upload'[f].state.status = "retired" <=> upload[f].state.status = "retired"
    /\ upload'[f].state.mode = "public" <=> upload[f].state.mode = "public"
    /\ Visible(f)' = Visible(f)

LEMMA LifeRests ==
    ASSUME \A f \in UploadFiles : SameLife(f)
    PROVE  UNCHANGED Life!lifeVars
  <1>1. [f \in UploadFiles |-> upload'[f].state.published] = [f \in UploadFiles |-> upload[f].state.published]
    BY DEF SameLife
  <1>2. [f \in UploadFiles |-> Visible(f)]' = [f \in UploadFiles |-> Visible(f)]
    BY DEF SameLife
  <1>3. {f \in UploadFiles : upload'[f].state.mode = "public"} = {f \in UploadFiles : upload[f].state.mode = "public"}
    BY DEF SameLife
  <1>4. {f \in UploadFiles : upload'[f].state.status = "retired"}
          = {f \in UploadFiles : upload[f].state.status = "retired"}
    BY DEF SameLife
  <1> QED
    BY <1>1, <1>2, <1>3, <1>4 DEF Life!lifeVars

\* Of one content there is one sequence of each length.
LEMMA SameBytes ==
    ASSUME NEW b, Contents = {b}, NEW x \in Data, NEW y \in Data, Len(x) = Len(y)
    PROVE  x = y
  <1>1. x \in Seq(Contents) /\ y \in Seq(Contents) /\ Len(x) \in Nat
    BY DataFacts
  <1>2. \A i \in 1..Len(x) : x[i] = b /\ y[i] = b
    BY <1>1, ElementOfSeq
  <1> QED
    BY <1>1, <1>2, SeqEqual

\* What is written and removed is nothing that readers see.
LEMMA WritesAreUnseen ==
    ASSUME NEW b, Contents = {b}, VolumeIInv, UploadIInv', NEW c \in UploadClients, WritesOnly(c)
    PROVE  \A f \in UploadFiles : SameLife(f)
  <1> SUFFICES ASSUME NEW f \in UploadFiles PROVE SameLife(f)
    OBVIOUS
  <1> DEFINE s == upload[f].state
             x == bytes[f][s.published]
             y == bytes'[f][s.published]
  <1>1. upload' = upload /\ plain' \subseteq plain /\ (f \in plain \ plain' => s.status = "retired")
    BY DEF WritesOnly
  <1>2. UploadIInv /\ s \in Progress /\ Consistent(s) /\ PublishedParts
    BY DEF VolumeIInv, VolumeKept, UploadIInv, UploadTypeOK, FileUpload, RecordsKept
  <1>3. ASSUME s.status # "retired", s.published # NoId
        PROVE  x = y
    <2>1. s.published \in ByteId /\ s.published \in Referenced(s)
      BY <1>2, <1>3 DEF Progress, Referenced
    <2>2. x \in Data /\ y \in Data
      BY <1>2, <2>1 DEF UploadIInv, UploadTypeOK
    <2>3. Len(x) \in Nat /\ Len(y) \in Nat /\ s.total \in Nat
      BY <1>2, <2>2, DataFacts, UploadAssumption DEF Progress, Size
    <2>4. Respects(c, f, s.published)
      BY <2>1 DEF WritesOnly
    <2>5. Len(x) = Len(y) \/ (Len(x) <= Len(y) /\ Len(y) <= s.total /\ s.offset > 0)
      BY <1>3, <2>1, <2>4 DEF Respects, State
    <2>6. s.offset > 0 => s.status = "complete"
      <3>1. s.status \in {"uploading", "complete"} /\ s.offset \in Nat
        BY <1>2, <1>3, UploadAssumption DEF Progress, Size
      <3>2. s.status = "uploading" => s.parts = <<>>
        BY <1>2, <1>3 DEF Consistent
      <3> QED
        BY <1>2, <3>1, <3>2 DEF Consistent
    <2>7. s.status = "complete" => Len(x) = s.total
      BY <1>2 DEF PublishedParts
    <2>8. Len(x) = Len(y)
      BY <2>3, <2>5, <2>6, <2>7
    <2> HIDE DEF x, y
    <2> QED
      BY <2>2, <2>8, SameBytes
  <1>4. Visible(f)' = Visible(f)
    <2>1. upload'[f] = upload[f]
      BY <1>1
    <2>2. CASE s.status = "retired"
      BY <2>1, <2>2 DEF Visible
    <2>3. CASE s.status # "retired" /\ s.published # NoId
      BY <1>3, <2>1, <2>3 DEF Visible
    <2>4. CASE s.status # "retired" /\ s.published = NoId
      BY <1>1, <2>1, <2>4 DEF Visible
    <2> QED
      BY <2>2, <2>3, <2>4
  <1> QED
    BY <1>1, <1>4 DEF SameLife

\* What readers see follows from what is published, and of which file.
LEMMA StateLives ==
    ASSUME NEW f \in UploadFiles, UNCHANGED <<bytes, plain>>,
           upload'[f].state.published = upload[f].state.published,
           upload'[f].state.status = "retired" <=> upload[f].state.status = "retired",
           upload'[f].state.mode = "public" <=> upload[f].state.mode = "public"
    PROVE  SameLife(f)
  <1>1. Visible(f)' = Visible(f)
    BY DEF Visible
  <1> QED
    BY <1>1 DEF SameLife

LEMMA LifeWaits ==
    ASSUME UNCHANGED <<bytes, plain>>, \A f \in UploadFiles : upload'[f].state = upload[f].state
    PROVE  UNCHANGED Life!lifeVars
  <1>1. \A f \in UploadFiles : SameLife(f)
    BY StateLives
  <1> QED
    BY <1>1, LifeRests

LEMMA LifeDeletes ==
    ASSUME NEW S \in SUBSET UploadFiles,
           \A f \in S : /\ upload'[f].state.published = NoId /\ upload'[f].state.status = "retired"
                        /\ upload'[f].state.mode = "public" <=> upload[f].state.mode = "public",
           \A f \in UploadFiles \ S : SameLife(f)
    PROVE  [Life!LifeNext]_(Life!lifeVars)
  <1>1. CASE S = {}
    BY <1>1, LifeRests
  <1>2. CASE S # {}
    <2>1. [f \in UploadFiles |-> upload'[f].state.published]
            = [f \in UploadFiles |->
                  IF f \in S THEN NoId ELSE [g \in UploadFiles |-> upload[g].state.published][f]]
      BY DEF SameLife
    <2>2. \A f \in S : Visible(f)' = <<>>
      BY DEF Visible
    <2>3. [f \in UploadFiles |-> Visible(f)]'
            = [f \in UploadFiles |-> IF f \in S THEN <<>> ELSE [g \in UploadFiles |-> Visible(g)][f]]
      BY <2>2 DEF SameLife
    <2>4. {f \in UploadFiles : upload'[f].state.mode = "public"}
            = {f \in UploadFiles : upload[f].state.mode = "public"}
      BY DEF SameLife
    <2>5. {f \in UploadFiles : upload'[f].state.status = "retired"}
            = {f \in UploadFiles : upload[f].state.status = "retired"} \cup S
      BY DEF SameLife
    <2>6. Life!Delete(S)
      BY <2>1, <2>3, <2>4, <2>5 DEF Life!Delete
    <2>7. S \in (SUBSET UploadFiles) \ {{}}
      BY <1>2
    <2> QED
      BY <2>6, <2>7 DEF Life!LifeNext
  <1> QED
    BY <1>1, <1>2

LEMMA LifeReserves ==
    ASSUME NEW f \in UploadFiles, UNCHANGED <<bytes, plain>>, Visible(f) = <<>>,
           upload[f].state.mode # "public", upload'[f].state.mode = "public", f \notin plain,
           upload'[f].state.published = upload[f].state.published,
           upload[f].state.status # "retired", upload'[f].state.status # "retired",
           \A g \in UploadFiles \ {f} : SameLife(g)
    PROVE  [Life!LifeNext]_(Life!lifeVars)
  <1>1. Visible(f)' = Visible(f)
    BY DEF Visible
  <1>2. [g \in UploadFiles |-> upload'[g].state.published] = [g \in UploadFiles |-> upload[g].state.published]
    BY DEF SameLife
  <1>3. [g \in UploadFiles |-> Visible(g)]' = [g \in UploadFiles |-> Visible(g)]
    BY <1>1 DEF SameLife
  <1>4. {g \in UploadFiles : upload'[g].state.mode = "public"}
          = {g \in UploadFiles : upload[g].state.mode = "public"} \cup {f}
    BY DEF SameLife
  <1>5. {g \in UploadFiles : upload'[g].state.status = "retired"}
          = {g \in UploadFiles : upload[g].state.status = "retired"}
    BY DEF SameLife
  <1>6. Life!Reserve(f)
    BY <1>2, <1>3, <1>4, <1>5 DEF Life!Reserve
  <1> QED
    BY <1>6 DEF Life!LifeNext

LEMMA LifePublishes ==
    ASSUME NEW f \in UploadFiles, NEW id \in ByteId, UNCHANGED <<bytes, plain>>,
           upload[f].state.status # "retired", upload'[f].state.status # "retired",
           upload'[f].state.mode = "public" <=> upload[f].state.mode = "public",
           upload[f].state.mode = "public" => upload[f].state.published = NoId,
           upload'[f].state.published = id, upload[f].state.published # id, id # NoId,
           bytes[f][id] # <<>>,
           \A g \in UploadFiles \ {f} : SameLife(g)
    PROVE  [Life!LifeNext]_(Life!lifeVars)
  <1>1. Visible(f)' # <<>>
    BY DEF Visible
  <1>2. [g \in UploadFiles |-> upload'[g].state.published]
          = [[g \in UploadFiles |-> upload[g].state.published] EXCEPT ![f] =
                [g \in UploadFiles |-> upload'[g].state.published][f]]
    BY DEF SameLife
  <1>3. \A g \in UploadFiles \ {f} : [h \in UploadFiles |-> Visible(h)]'[g] = [h \in UploadFiles |-> Visible(h)][g]
    BY DEF SameLife
  <1>4. [h \in UploadFiles |-> Visible(h)]'[f] # <<>>
    BY <1>1
  <1>5. {g \in UploadFiles : upload'[g].state.mode = "public"}
          = {g \in UploadFiles : upload[g].state.mode = "public"}
    BY DEF SameLife
  <1>6. {g \in UploadFiles : upload'[g].state.status = "retired"}
          = {g \in UploadFiles : upload[g].state.status = "retired"}
    BY DEF SameLife
  <1>7. Life!PublishVersion(f)
    BY <1>2, <1>3, <1>4, <1>5, <1>6 DEF Life!PublishVersion
  <1> QED
    BY <1>7 DEF Life!LifeNext

\* A save is a matter of one file, and of none if the lease is gone.
LEMMA LifeSaves ==
    ASSUME UploadIInv, NEW c \in UploadClients, NEW s \in Progress, NEW w \in Writer,
           w.file = writer[c].file, w.owner = writer[c].owner, writer[c].at \in AtWork,
           Save(c, s, w), Fenced(c) => Successor(State(c), s, w.owner),
           UNCHANGED <<bytes, plain>>,
           Fenced(c) /\ upload'[w.file].state = s /\ (\A g \in UploadFiles \ {w.file} : SameLife(g)) =>
              [Life!LifeNext]_(Life!lifeVars)
    PROVE  [Life!LifeNext]_(Life!lifeVars)
  <1>1. SaveDone(c, s, w)
    BY SaveFacts
  <1>2. /\ \A g \in UploadFiles : g # w.file => upload'[g] = upload[g]
        /\ Fenced(c) => upload'[w.file].state = s
        /\ ~Fenced(c) => upload' = upload
    BY <1>1 DEF SaveDone
  <1>3. CASE Fenced(c)
    <2>1. \A g \in UploadFiles \ {w.file} : SameLife(g)
      BY <1>2, StateLives
    <2> QED
      BY <1>2, <1>3, <2>1
  <1>4. CASE ~Fenced(c)
    BY <1>2, <1>4, LifeWaits
  <1> QED
    BY <1>3, <1>4

LEMMA SameStateLives ==
    ASSUME UNCHANGED <<bytes, plain>>, NEW f \in UploadFiles, \A g \in UploadFiles \ {f} : SameLife(g),
           upload'[f].state.published = upload[f].state.published,
           upload'[f].state.status = "retired" <=> upload[f].state.status = "retired",
           upload'[f].state.mode = "public" <=> upload[f].state.mode = "public"
    PROVE  [Life!LifeNext]_(Life!lifeVars)
  <1>1. SameLife(f)
    BY StateLives
  <1>2. \A g \in UploadFiles : SameLife(g)
    BY <1>1
  <1> QED
    BY <1>2, LifeRests

LEMMA LifeSavingSteps ==
    ASSUME UploadIInv, NEW c \in UploadClients,
           \/ ReserveFileUpload(c) \/ BeginReplacement(c) \/ BeginChunk(c)
           \/ CommitChunk(c) \/ RetireFile(c)
    PROVE  [Life!LifeNext]_(Life!lifeVars)
  <1> DEFINE w == writer[c]
             f == w.file
  <1>1. /\ w \in Writer /\ f \in UploadFiles /\ w.mine \in Progress /\ w.at \in AtWork
        /\ State(c) = upload[f].state /\ State(c) \in Progress
        /\ Remembers(c) /\ Received(c) /\ Consistent(State(c))
        /\ UNCHANGED <<bytes, plain>>
    BY WriterFacts
    DEF Writer, ReserveFileUpload, CommitChunk, RetireFile, BeginReplacement, BeginChunk, AtWork, State,
        UploadIInv, UploadTypeOK
  <1>2. w.at = "owned" => Consistent(w.mine) /\ (Fenced(c) => w.mine = upload[f].state)
    BY <1>1 DEF Remembers, Early
  <1>3. CASE ReserveFileUpload(c)
    <2> DEFINE s == [w.mine EXCEPT !.mode = "public"]
               x == [w EXCEPT !.at = "close"]
    <2>1. /\ w.at = "owned"
          /\ (w.mine.mode = "none" /\ f \notin plain) \/ (w.mine.mode = "public" /\ w.mine.status = "uploading")
          /\ Save(c, s, x)
      BY <1>3 DEF ReserveFileUpload
    <2>2. s \in Progress /\ Successor(w.mine, s, w.owner) /\ s.published = w.mine.published
      BY <1>1, <1>2, <2>1, ReserveSucceeds
    <2>3. s.status = w.mine.status /\ s.mode = "public"
      BY <1>1 DEF Progress
    <2>4. x \in Writer /\ x.file = f /\ x.owner = w.owner
      BY <1>1 DEF Writer, WriterPC
    <2> HIDE DEF s, x
    <2>5. Fenced(c) => Successor(State(c), s, x.owner)
      BY <1>1, <1>2, <2>1, <2>2, <2>4
    <2>6. ASSUME Fenced(c), upload'[f].state = s, \A g \in UploadFiles \ {f} : SameLife(g)
          PROVE  [Life!LifeNext]_(Life!lifeVars)
      <3>1. w.mine = upload[f].state
        BY <1>2, <2>1, <2>6
      <3>2. CASE w.mine.mode = "public"
        BY <1>1, <2>2, <2>3, <2>6, <3>1, <3>2, SameStateLives
      <3>3. CASE w.mine.mode = "none" /\ f \notin plain
        <4>1. w.mine.published = NoId /\ w.mine.status = "uploading"
          BY <1>2, <2>1, <3>3 DEF Consistent, NoProgress
        <4>2. Visible(f) = <<>>
          BY <3>1, <3>3, <4>1 DEF Visible
        <4> QED
          BY <1>1, <2>2, <2>3, <2>6, <3>1, <3>3, <4>1, <4>2, LifeReserves
      <3> QED
        BY <2>1, <3>2, <3>3
    <2> QED
      BY <1>1, <2>1, <2>2, <2>4, <2>5, <2>6, LifeSaves
  <1>4. CASE BeginReplacement(c)
    <2> DEFINE s == [NoProgress EXCEPT !.mode = "internal", !.published = w.mine.published]
    <2>1. w.at = "owned" /\ w.op = "internal" /\ w.mine.mode # "public" /\ w.mine.status # "retired"
      BY <1>4 DEF BeginReplacement
    <2>2. PICK end \in Sizes : Save(c, s, [w EXCEPT !.at = "receive", !.end = end])
      BY <1>4 DEF BeginReplacement
    <2> DEFINE x == [w EXCEPT !.at = "receive", !.end = end]
    <2>3. end \in Size
      BY UploadAssumption DEF Size
    <2>4. x \in Writer /\ x.file = f /\ x.owner = w.owner
      BY <1>1, <2>3 DEF Writer, WriterPC
    <2>5. /\ s \in Progress /\ Successor(w.mine, s, w.owner) /\ s.published = w.mine.published
          /\ s.status = "uploading" /\ s.mode = "internal"
      BY <1>1, <1>2, <2>1, ReplacementSucceeds
    <2>6. Save(c, s, x)
      BY <2>2
    <2> HIDE DEF s, x
    <2>7. Fenced(c) => Successor(State(c), s, x.owner)
      BY <1>1, <1>2, <2>1, <2>4, <2>5
    <2>8. ASSUME Fenced(c), upload'[f].state = s, \A g \in UploadFiles \ {f} : SameLife(g)
          PROVE  [Life!LifeNext]_(Life!lifeVars)
      <3>1. w.mine = upload[f].state
        BY <1>2, <2>1, <2>8
      <3> QED
        BY <1>1, <2>1, <2>5, <2>8, <3>1, SameStateLives
    <2> QED
      BY <1>1, <2>4, <2>5, <2>6, <2>7, <2>8, LifeSaves
  <1>5. CASE BeginChunk(c)
    <2>1. w.at = "owned" /\ w.op = "chunk" /\ w.mine.mode = "public" /\ w.mine.status = "uploading"
      BY <1>5 DEF BeginChunk
    <2>2. PICK total \in Sizes : /\ w.mine.total \in {0, total}
                                 /\ \E end \in w.mine.offset + 1..total :
                                      Save(c, [w.mine EXCEPT !.total = total],
                                           [w EXCEPT !.at = "receive", !.end = end])
      BY <1>5 DEF BeginChunk
    <2>3. PICK end \in w.mine.offset + 1..total :
             Save(c, [w.mine EXCEPT !.total = total], [w EXCEPT !.at = "receive", !.end = end])
      BY <2>2
    <2>4. w.mine.offset \in Nat /\ total \in Nat /\ total <= MAX_BYTES
      BY <1>1, UploadAssumption DEF Progress, Size
    <2>5. end \in Size /\ w.mine.offset < total
      BY <2>4, UploadAssumption DEF Size
    <2> DEFINE s == [w.mine EXCEPT !.total = total]
               x == [w EXCEPT !.at = "receive", !.end = end]
    <2>6. /\ s \in Progress /\ Successor(w.mine, s, w.owner) /\ s.published = w.mine.published
          /\ s.mode = "public" /\ s.status = "uploading"
      BY <1>1, <1>2, <2>1, <2>2, <2>5, BeginChunkSucceeds
    <2>7. x \in Writer /\ x.file = f /\ x.owner = w.owner
      BY <1>1, <2>5 DEF Writer, WriterPC
    <2>8. Save(c, s, x)
      BY <2>3
    <2> HIDE DEF s, x
    <2>9. Fenced(c) => Successor(State(c), s, x.owner)
      BY <1>1, <1>2, <2>1, <2>6, <2>7
    <2>10. ASSUME Fenced(c), upload'[f].state = s, \A g \in UploadFiles \ {f} : SameLife(g)
           PROVE  [Life!LifeNext]_(Life!lifeVars)
      <3>1. w.mine = upload[f].state
        BY <1>2, <2>1, <2>10
      <3> QED
        BY <1>1, <2>1, <2>6, <2>10, <3>1, SameStateLives
    <2> QED
      BY <1>1, <2>6, <2>7, <2>8, <2>9, <2>10, LifeSaves
  <1>6. CASE CommitChunk(c)
    <2> DEFINE x == [w EXCEPT !.at = "close"]
               s == w.mine
    <2>1. w.at = "commit" /\ Save(c, s, x)
      BY <1>6 DEF CommitChunk
    <2>2. x \in Writer /\ x.file = f /\ x.owner = w.owner
      BY <1>1 DEF Writer, WriterPC
    <2> HIDE DEF x
    <2>3. Fenced(c) => Successor(State(c), s, x.owner)
      BY <1>1, <2>1, <2>2, CommitSucceeds
    <2>4. ASSUME Fenced(c), upload'[f].state = s, \A g \in UploadFiles \ {f} : SameLife(g)
          PROVE  [Life!LifeNext]_(Life!lifeVars)
      <3>1. /\ s.status = "uploading" /\ State(c).status = "uploading"
            /\ State(c).mode = s.mode /\ State(c).published = s.published
        BY <1>1, <2>1, <2>4 DEF Received, Late
      <3> QED
        BY <1>1, <2>4, <3>1, SameStateLives
    <2> QED
      BY <1>1, <2>1, <2>2, <2>3, <2>4, LifeSaves
  <1>7. CASE RetireFile(c)
    <2> DEFINE s == RetiredState(w.mine)
               S == Referenced(w.mine) \ {NoId}
               x == [w EXCEPT !.at = "remove", !.found = S]
    <2>1. w.at = "owned" /\ Save(c, s, x)
      BY <1>7 DEF RetireFile
    <2>2. /\ s \in Progress /\ Successor(w.mine, s, w.owner) /\ s.status = "retired" /\ s.published = NoId
          /\ s.mode = "public" <=> w.mine.mode = "public"
      BY <1>1, <1>2, <2>1, RetireSucceeds
    <2>3. S \in SUBSET ByteId
      BY <1>1, ReferencedTyped
    <2> HIDE DEF S
    <2>4. x \in Writer /\ x.file = f /\ x.owner = w.owner
      BY <1>1, <2>3 DEF Writer, WriterPC
    <2> HIDE DEF s, x
    <2>5. Fenced(c) => Successor(State(c), s, x.owner)
      BY <1>1, <1>2, <2>1, <2>2, <2>4
    <2>6. ASSUME Fenced(c), upload'[f].state = s, \A g \in UploadFiles \ {f} : SameLife(g)
          PROVE  [Life!LifeNext]_(Life!lifeVars)
      <3>1. w.mine = upload[f].state
        BY <1>2, <2>1, <2>6
      <3>2. {f} \in SUBSET UploadFiles
        BY <1>1
      <3>3. \A g \in {f} : /\ upload'[g].state.published = NoId /\ upload'[g].state.status = "retired"
                           /\ upload'[g].state.mode = "public" <=> upload[g].state.mode = "public"
        BY <2>2, <2>6, <3>1
      <3> HIDE DEF f
      <3> QED
        BY <2>6, <3>2, <3>3, LifeDeletes
    <2> QED
      BY <1>1, <2>1, <2>2, <2>4, <2>5, <2>6, LifeSaves
  <1> QED
    BY <1>3, <1>4, <1>5, <1>6, <1>7

\* What a request publishes is there to read, and under a name that readers were not given before.
LEMMA LifePublish ==
    ASSUME VolumeIInv, NEW c \in UploadClients, Publish(c)
    PROVE  [Life!LifeNext]_(Life!lifeVars)
  <1> DEFINE w == writer[c]
             f == w.file
             t == Publishing(w)
             u == upload[f].state
  <1>1. /\ UploadIInv /\ w \in Writer /\ f \in UploadFiles /\ w.mine \in Progress /\ w.at = "publish"
        /\ State(c) = u /\ u \in Progress /\ Consistent(u) /\ Received(c) /\ Stores(c)
        /\ UNCHANGED <<bytes, plain>>
    BY VolumeFacts, WriterFacts DEF Writer, Publish, State, UploadIInv, UploadTypeOK
  <1>2. /\ \A g \in UploadFiles : g # f => upload'[g] = upload[g]
        /\ Fenced(c) => upload'[f].state = t
        /\ ~Fenced(c) => upload' = upload
    BY <1>1, PublishFacts
  <1>3. t.published = w.id /\ t.status = "complete" /\ t.mode = w.mine.mode
    BY <1>1 DEF Publishing, Progress
  <1> HIDE DEF t
  <1>4. CASE ~Fenced(c)
    BY <1>1, <1>2, <1>4, LifeWaits
  <1>5. CASE Fenced(c)
    <2>1. /\ w.id \in ByteId /\ w.mine.offset \in Nat /\ w.mine.offset > 0 /\ u.status = "uploading"
      BY <1>1, <1>5, SavedFacts DEF Saved
    <2>2. u.mode = w.mine.mode
      BY <1>1, <1>5 DEF Received, Late
    <2>3. Len(bytes[f][w.id]) = w.mine.offset
      BY <1>1, <1>5 DEF Stores
    <2>4. bytes[f][w.id] # <<>>
      BY <1>1, <2>1, <2>3, BytesTyped
    <2>5. w.id # NoId /\ w.id \notin Referenced(u) \ PartIds(u)
      BY <1>1, <1>5, PublishSucceeds
    <2>6. u.mode = "public" => u.published = NoId
      BY <1>1, <2>1 DEF Consistent
    <2>7. u.published # w.id
      <3>1. SUFFICES ASSUME u.published = w.id
                     PROVE  FALSE
        OBVIOUS
      <3>2. w.id \in PartIds(u)
        BY <2>5, <3>1 DEF Referenced
      <3>3. u.parts # <<>>
        BY <3>2, EmptySeq, LenProperties DEF PartIds
      <3>4. u.mode = "public"
        BY <1>1, <3>3 DEF Consistent
      <3> QED
        BY <2>5, <2>6, <3>1, <3>4
    <2>8. \A g \in UploadFiles \ {f} : SameLife(g)
      BY <1>1, <1>2, StateLives
    <2>9. upload'[f].state.published = w.id /\ upload'[f].state.status # "retired"
          /\ (upload'[f].state.mode = "public" <=> upload[f].state.mode = "public")
      BY <1>2, <1>3, <1>5, <2>2
    <2>10. upload[f].state.status # "retired" /\ upload[f].state.published # w.id
           /\ (upload[f].state.mode = "public" => upload[f].state.published = NoId)
      BY <2>1, <2>6, <2>7
    <2> QED
      BY <1>1, <2>1, <2>4, <2>5, <2>8, <2>9, <2>10, LifePublishes
  <1> QED
    BY <1>4, <1>5

\* One update deletes all the files of a batch that are still its own.
LEMMA LifeRetires ==
    ASSUME UploadIInv, NEW c \in UploadClients, RetireBulk(c)
    PROVE  [Life!LifeNext]_(Life!lifeVars)
  <1> DEFINE S == {f \in UploadFiles : upload'[f].state # upload[f].state}
  <1>1. /\ UNCHANGED <<bytes, plain>>
        /\ \A f \in UploadFiles : upload'[f].state \in {upload[f].state, RetiredState(upload[f].state)}
    BY RetireBulkFacts
  <1>2. \A f \in UploadFiles : upload[f].state \in Progress /\ Consistent(upload[f].state)
    BY DEF UploadIInv, UploadTypeOK, FileUpload, RecordsKept
  <1>3. ASSUME NEW f \in S
        PROVE  /\ upload'[f].state.published = NoId /\ upload'[f].state.status = "retired"
               /\ upload'[f].state.mode = "public" <=> upload[f].state.mode = "public"
    <2>1. f \in UploadFiles /\ upload'[f].state = RetiredState(upload[f].state)
      BY <1>1
    <2> DEFINE s == upload[f].state
    <2>2. s \in Progress /\ Consistent(s)
      BY <1>2, <2>1
    <2> HIDE DEF s
    <2>3. /\ RetiredState(s).status = "retired" /\ RetiredState(s).published = NoId
          /\ RetiredState(s).mode = "public" <=> s.mode = "public"
      BY <2>2, RetireSucceeds
    <2> QED
      BY <2>1, <2>3 DEF s
  <1>4. ASSUME NEW f \in UploadFiles \ S
        PROVE  SameLife(f)
    BY <1>1, StateLives
  <1>5. S \in SUBSET UploadFiles
    OBVIOUS
  <1> HIDE DEF S
  <1> QED
    BY <1>3, <1>4, <1>5, LifeDeletes

\* Leases come and go.
LEMMA LifeLeases ==
    ASSUME UploadIInv,
           \/ \E c \in UploadClients : OpenUploadStore(c) \/ CloseStore(c) \/ ClaimBulk(c)
           \/ \E f \in UploadFiles : LapseLease(f)
    PROVE  UNCHANGED Life!lifeVars
  <1>1. upload \in [UploadFiles -> FileUpload]
    BY DEF UploadIInv, UploadTypeOK
  <1>2. ASSUME NEW c \in UploadClients, OpenUploadStore(c)
        PROVE  \A f \in UploadFiles : upload'[f].state = upload[f].state
    BY <1>1, <1>2 DEF OpenUploadStore, FileUpload
  <1>3. ASSUME NEW c \in UploadClients, CloseStore(c)
        PROVE  \A f \in UploadFiles : upload'[f].state = upload[f].state
    <2>1. upload' = [upload EXCEPT ![writer[c].file].owner = IF @ = writer[c].owner THEN 0 ELSE @]
      BY <1>3 DEF CloseStore
    <2> QED
      BY <1>1, <2>1 DEF FileUpload
  <1>4. ASSUME NEW c \in UploadClients, ClaimBulk(c)
        PROVE  \A f \in UploadFiles : upload'[f].state = upload[f].state
    BY <1>4, LeaseFacts
  <1>5. ASSUME NEW g \in UploadFiles, LapseLease(g)
        PROVE  \A f \in UploadFiles : upload'[f].state = upload[f].state
    BY <1>1, <1>5 DEF LapseLease, FileUpload
  <1>6. UNCHANGED <<bytes, plain>>
    BY DEF OpenUploadStore, CloseStore, ClaimBulk, LapseLease
  <1> QED
    BY <1>2, <1>3, <1>4, <1>5, <1>6, LifeWaits

LEMMA LifeAsks ==
    ASSUME NEW c \in UploadClients,
           \/ Call(c) \/ FailUpload(c) \/ GiveUp(c) \/ UploadAgain(c) \/ BeginWhole(c)
           \/ FindClaimed(c) \/ DeleteNext(c) \/ BeginRead(c) \/ ResolvePointer(c) \/ FetchBytes(c)
    PROVE  UNCHANGED Life!lifeVars
  <1>1. UNCHANGED <<upload, bytes, plain>>
    BY DEF Call, FailUpload, GiveUp, UploadAgain, BeginWhole, FindClaimed, DeleteNext, BeginRead,
           ResolvePointer, FetchBytes
  <1> QED
    BY <1>1, LifeWaits

LEMMA LifeWrites ==
    ASSUME NEW b, Contents = {b}, VolumeIInv, UploadIInv', NEW c \in UploadClients,
           CollectBytes(c) \/ RemoveBytes(c) \/ WipeBulk(c) \/ Receive(c) \/ Assemble(c)
    PROVE  UNCHANGED Life!lifeVars
  <1>1. WritesOnly(c)
    BY VolumeRemoveSteps, VolumeReceive, VolumeAssemble
  <1> QED
    BY <1>1, WritesAreUnseen, LifeRests

LEMMA LifeBegins ==
    UploadInit => Life!LifeInit
  <1> SUFFICES ASSUME UploadInit PROVE Life!LifeInit
    OBVIOUS
  <1> DEFINE s == [NoProgress EXCEPT !.mode = "public", !.offset = 2, !.total = 3,
                       !.parts = [i \in 1..2 |-> [id |-> EarlyParts[i], size |-> 1]]]
  <1>1. /\ s.published = NoId /\ s.status = "uploading"
        /\ NoProgress.published = NoId /\ NoProgress.status = "uploading"
    BY DEF NoProgress
  <1>2. \/ \A f \in UploadFiles : upload[f].state = NoProgress
        \/ \A f \in UploadFiles : upload[f].state = s
    <2>1. \/ upload = [f \in UploadFiles |-> [owner |-> 0, live |-> FALSE, state |-> NoProgress]]
          \/ upload = [f \in UploadFiles |-> [owner |-> 0, live |-> FALSE, state |-> s]]
      BY Zenon DEF UploadInit
    <2> HIDE DEF s
    <2> QED
      BY <2>1
  <1> HIDE DEF s
  <1>3. \A f \in UploadFiles : upload[f].state.published = NoId /\ upload[f].state.status = "uploading"
    BY <1>1, <1>2
  <1>4. [f \in UploadFiles |-> upload[f].state.published] = [f \in UploadFiles |-> NoId]
    BY <1>3
  <1>5. {f \in UploadFiles : upload[f].state.status = "retired"} = {}
    BY <1>3
  <1> QED
    BY <1>4, <1>5 DEF Life!LifeInit

LEMMA LifeGoesOn ==
    ASSUME NEW b, Contents = {b}, VolumeIInv, UploadIInv', [UploadNext]_uploadVars
    PROVE  [Life!LifeNext]_(Life!lifeVars)
  <1>1. UploadIInv
    BY DEF VolumeIInv
  <1>2. CASE UNCHANGED uploadVars
    BY <1>2, LifeWaits DEF uploadVars
  <1>3. CASE \E f \in UploadFiles : LapseLease(f)
    BY <1>1, <1>3, LifeLeases
  <1>4. ASSUME NEW c \in UploadClients,
               \/ Call(c) \/ OpenUploadStore(c) \/ CollectBytes(c) \/ CloseStore(c)
               \/ FailUpload(c) \/ GiveUp(c)
               \/ ReserveFileUpload(c) \/ BeginReplacement(c) \/ UploadAgain(c) \/ BeginWhole(c)
               \/ BeginChunk(c) \/ Receive(c) \/ Assemble(c) \/ Publish(c) \/ CommitChunk(c)
               \/ RetireFile(c) \/ RemoveBytes(c)
               \/ ClaimBulk(c) \/ FindClaimed(c) \/ RetireBulk(c) \/ WipeBulk(c) \/ DeleteNext(c)
               \/ BeginRead(c) \/ ResolvePointer(c) \/ FetchBytes(c)
        PROVE  [Life!LifeNext]_(Life!lifeVars)
    <2>1. CASE OpenUploadStore(c) \/ CloseStore(c) \/ ClaimBulk(c)
      BY <1>1, <2>1, LifeLeases
    <2>2. CASE \/ Call(c) \/ FailUpload(c) \/ GiveUp(c) \/ UploadAgain(c) \/ BeginWhole(c)
               \/ FindClaimed(c) \/ DeleteNext(c) \/ BeginRead(c) \/ ResolvePointer(c) \/ FetchBytes(c)
      BY <2>2, LifeAsks
    <2>3. CASE CollectBytes(c) \/ RemoveBytes(c) \/ WipeBulk(c) \/ Receive(c) \/ Assemble(c)
      BY <2>3, LifeWrites
    <2>4. CASE \/ ReserveFileUpload(c) \/ BeginReplacement(c) \/ BeginChunk(c)
               \/ CommitChunk(c) \/ RetireFile(c)
      BY <1>1, <2>4, LifeSavingSteps
    <2>5. CASE Publish(c)
      BY <2>5, LifePublish
    <2>6. CASE RetireBulk(c)
      BY <1>1, <2>6, LifeRetires
    <2> QED
      BY <1>4, <2>1, <2>2, <2>3, <2>4, <2>5, <2>6
  <1> QED
    BY <1>2, <1>3, <1>4 DEF UploadNext

\* The store keeps the promise of FileLife if no bulk deletion outlives its claim and a client that
\* sends a chunk again sends the same bytes (README.md and the client of apps/backend/file-service ask
\* that of it): every step of a request either publishes a whole new version of one file, reserves an
\* id nobody has stored anything under, deletes files for good, or changes nothing that readers see.
THEOREM FilesLive ==
    ASSUME ~BulkStalls, NEW b, Contents = {b}
    PROVE  UploadSpec => FileLifeSpec
  <1>1. UploadInit => VolumeIInv /\ Life!LifeInit
    BY VolumeInit, LifeBegins
  <1>2. VolumeIInv /\ [UploadNext]_uploadVars => VolumeIInv'
    BY VolumeNext
  <1>3. VolumeIInv /\ VolumeIInv' /\ [UploadNext]_uploadVars => [Life!LifeNext]_(Life!lifeVars)
    <2>1. VolumeIInv' => UploadIInv'
      BY DEF VolumeIInv
    <2> QED
      BY <2>1, LifeGoesOn
  <1> QED
    BY <1>1, <1>2, <1>3, PTL DEF UploadSpec, FileLifeSpec, Life!LifeSpec
=============================================================================
