---------------------------- MODULE DatasetArchive ----------------------------
(***************************************************************************)
(* The zip of one dataset: reserving an upload for it, discarding one,      *)
(* adopting the uploaded bytes (services/datasetArchive.ts) and reading its *)
(* index on the worker (services/scanService.ts), with the scan half of the *)
(* recovery sweep (services/jobRecoveryService.ts).                         *)
(*                                                                          *)
(* Holds and pending imports enter as one flag: every update here asks for  *)
(* the absence of both.  A call of file-service is one step.  Every file    *)
(* and every scan has a number of its own, as random ids do not repeat.     *)
(***************************************************************************)
EXTENDS DatasetQueue, FiniteSets

CONSTANTS Ops,        \* bound: what happens in an instance
          Clients,    \* requests in flight at once
          Sweeper,    \* names the recovery sweep among those closing a scan
          MaxFiles,   \* bound: zips reserved
          MaxScans,   \* bound: scans queued
          MaxFaults   \* bound: crashes, stalls, lost jobs, failed deletions and aborted sweeps

ASSUME ArchiveAssumption ==
    /\ Ops \subseteq {"upload", "discard", "complete", "rescan", "use", "trash",
                      "scan", "sweep", "legacy"}
    /\ Sweeper \notin Workers
    /\ MaxFiles \in Nat \ {0}
    /\ MaxScans \in Nat
    /\ MaxFaults \in Nat

VARIABLES ds,        \* the dataset document, as far as its zip goes
          scanned,   \* scan ids handed out so far
          store,     \* what file-service holds under each file id
          jobs,      \* scan jobs; number 0 is the one older releases queued under a random id
          work,      \* what each worker's processor remembers
          closings,  \* calls of markScanFailed under way
          sweep,     \* the sweep's snapshot
          reqs,      \* requests in flight
          faults     \* faults so far

vars == <<ds, scanned, store, jobs, work, closings, sweep, reqs, faults>>

-----------------------------------------------------------------------------
(* Types; 0 is a file or an id that is missing. *)

Files == 1..MaxFiles
FileId == 0..MaxFiles
ScanId == 0..MaxScans

\* A file is reserved until some client is given its upload URL; a retired id is never writable
\* again.
FileState == {"none", "reserved", "uploading", "complete", "retired"}

Pending == {"queued", "running"}      \* pendingWork

\* `stale`: the heartbeat is missing or older than IMPORT_STALE_MS.
Scan == [id : ScanId, file : FileId, status : Pending \cup {"none", "done", "failed"},
         stale : BOOLEAN]
NoScan == [id |-> 0, file |-> 0, status |-> "none", stale |-> TRUE]
QueuedScan(id, file) == [id |-> id, file |-> file, status |-> "queued", stale |-> TRUE]

\* `contents` names the file they were read from.
Dataset ==
    [live : BOOLEAN, inUse : BOOLEAN, archive : FileId, pending : FileId, discarding : BOOLEAN,
     scan : Scan, contents : FileId]
NewDataset ==
    [live |-> TRUE, inUse |-> FALSE, archive |-> 0, pending |-> 0, discarding |-> FALSE,
     scan |-> NoScan, contents |-> 0]

Delivery == [id : ScanId, file : FileId]
NoDelivery == [id |-> 0, file |-> 0]
DeliveryOf(scan) == [id |-> scan.id, file |-> scan.file]

Processor ==
    [pc : {"idle", "start", "read", "finish", "settle"}, job : ScanId, delivery : Delivery,
     outcome : {"ok", "error", "fatal"}]
Idle == [pc |-> "idle", job |-> 0, delivery |-> NoDelivery, outcome |-> "ok"]

\* What a request saw, the file it reserved and the scan it is to enqueue.
Request ==
    [pc : {"idle", "size", "resume", "extend", "reserve", "pend", "dropPending", "claim",
           "dropDiscarded", "unset", "bytes", "adopt", "dropOld", "rescan", "enqueue"},
     pending : FileId, archive : FileId, file : FileId, scan : Delivery]
NoRequest == [pc |-> "idle", pending |-> 0, archive |-> 0, file |-> 0, scan |-> NoDelivery]

ClosingCall == [by : Workers \cup {Sweeper}, delivery : Delivery, onlyStale : BOOLEAN]

Cursor == [pc : {"idle", "scan", "job", "enqueue", "closing"}, scan : Scan]
NoCursor == [pc |-> "idle", scan |-> NoScan]

-----------------------------------------------------------------------------
(* Steps of a request. *)

Continue(c, r) == reqs' = [reqs EXCEPT ![c] = r]
Goto(c, pc) == Continue(c, [reqs[c] EXCEPT !.pc = pc])
Done(c) == Continue(c, NoRequest)

UnchangedByRequest == UNCHANGED <<work, closings, sweep, faults>>
OnlyRequest == UNCHANGED <<ds, scanned, store, jobs>> /\ UnchangedByRequest

\* Every request begins with a read of the live document and goes on at `pc`.
Read(c, op, pc) ==
    /\ op \in Ops
    /\ reqs[c].pc = "idle"
    /\ ds.live
    /\ Continue(c, [NoRequest EXCEPT !.pc = pc, !.pending = ds.pending, !.archive = ds.archive])
    /\ OnlyRequest

\* The filter every update of a request has: it still is what the request read.
StillPending(c) == ds.pending = reqs[c].pending
StillArchive(c) == ds.live /\ ds.archive = reqs[c].archive

\* Mutant of ArchiveMutation: an upload being discarded may still be adopted.
DiscardingMutation(c) == StillArchive(c) /\ StillPending(c) /\ ~ds.inUse

\* Mutant of ArchiveMutation: a hold or an import that came since the read is not noticed.
CredulousMutation(c) == StillArchive(c) /\ StillPending(c) /\ ~ds.discarding

\* archiveMutation.
ArchiveMutation(c) == StillArchive(c) /\ StillPending(c) /\ ~ds.discarding /\ ~ds.inUse

Retire(f) == store' = [store EXCEPT ![f] = "retired"]
Given(f, files) == [files EXCEPT ![f] = IF @ = "reserved" THEN "uploading" ELSE @]

-----------------------------------------------------------------------------
(* createArchiveUpload. *)

\* The browser chose the file of the pending upload again, or another one.
ReadUpload(c) ==
    /\ ~ds.inUse
    /\ ~ds.discarding
    /\ \/ ds.pending # 0 /\ Read(c, "upload", "size")
       \/ Read(c, "upload", "reserve")

\* When every byte of it has arrived only finishing is left.
SizeOfPending(c) ==
    /\ reqs[c].pc = "size"
    /\ IF store[reqs[c].pending] = "complete" THEN Done(c) ELSE Goto(c, "resume")
    /\ OnlyRequest

\* Its reservation is renewed; one that cannot be is started again.
ResumeReservation(c) ==
    /\ reqs[c].pc = "resume"
    /\ \/ store[reqs[c].pending] \in {"reserved", "uploading"} /\ Goto(c, "extend")
       \/ Goto(c, "reserve")
    /\ OnlyRequest

\* The document's expiry changes, and the client has the URL.
Extend(c) ==
    /\ reqs[c].pc = "extend"
    /\ ArchiveMutation(c)
    /\ store' = Given(reqs[c].pending, store)
    /\ Done(c)
    /\ UNCHANGED <<ds, scanned, jobs>> /\ UnchangedByRequest

Reserve(c) ==
    /\ reqs[c].pc = "reserve"
    /\ \E f \in Files :
        /\ store[f] = "none" /\ \A g \in 1..(f - 1) : store[g] # "none"
        /\ store' = [store EXCEPT ![f] = "reserved"]
        /\ Continue(c, [reqs[c] EXCEPT !.pc = "pend", !.file = f])
    /\ UNCHANGED <<ds, scanned, jobs>> /\ UnchangedByRequest

Pend(c) ==
    /\ reqs[c].pc = "pend"
    /\ ArchiveMutation(c)
    /\ ds' = [ds EXCEPT !.pending = reqs[c].file]
    /\ Goto(c, "dropPending")
    /\ UNCHANGED <<scanned, store, jobs>> /\ UnchangedByRequest

\* The upload it takes the place of is deleted, and the URL answered.
DropPending(c) ==
    /\ reqs[c].pc = "dropPending"
    /\ store' = Given(reqs[c].file, [f \in Files |-> IF f = reqs[c].pending THEN "retired"
                                                     ELSE store[f]])
    /\ Done(c)
    /\ UNCHANGED <<ds, scanned, jobs>> /\ UnchangedByRequest

-----------------------------------------------------------------------------
(* discardArchiveUpload. *)

ReadDiscard(c) == ds.pending # 0 /\ Read(c, "discard", "claim")

\* It is claimed before its bytes go, whatever uses the dataset.
Claim(c) ==
    /\ reqs[c].pc = "claim"
    /\ StillArchive(c) /\ StillPending(c)
    /\ ds' = [ds EXCEPT !.discarding = TRUE]
    /\ Goto(c, "dropDiscarded")
    /\ UNCHANGED <<scanned, store, jobs>> /\ UnchangedByRequest

DropDiscarded(c) ==
    /\ reqs[c].pc = "dropDiscarded"
    /\ Retire(reqs[c].pending)
    /\ Goto(c, "unset")
    /\ UNCHANGED <<ds, scanned, jobs>> /\ UnchangedByRequest

Unset(c) ==
    /\ reqs[c].pc = "unset"
    /\ StillPending(c) /\ ds.discarding
    /\ ds' = [ds EXCEPT !.pending = 0, !.discarding = FALSE]
    /\ Done(c)
    /\ UNCHANGED <<scanned, store, jobs>> /\ UnchangedByRequest

-----------------------------------------------------------------------------
(* completeArchiveUpload and rescanArchive. *)

ReadComplete(c) == ds.pending # 0 /\ ~ds.inUse /\ Read(c, "complete", "bytes")

\* Mutant of BytesOfPending: a zip is adopted without asking whether it has arrived.
TrustedBytes(c) ==
    /\ reqs[c].pc = "bytes"
    /\ Goto(c, "adopt")
    /\ OnlyRequest

BytesOfPending(c) ==
    /\ reqs[c].pc = "bytes"
    /\ IF store[reqs[c].pending] = "complete" THEN Goto(c, "adopt") ELSE Done(c)
    /\ OnlyRequest

\* A scan of `file` is recorded in a document that else is `doc`; the request goes on as `r`.
Record(c, doc, file, r) ==
    /\ scanned < MaxScans
    /\ scanned' = scanned + 1
    /\ LET scan == QueuedScan(scanned + 1, file)
       IN  ds' = [doc EXCEPT !.scan = scan] /\ Continue(c, [r EXCEPT !.scan = DeliveryOf(scan)])
    /\ UNCHANGED <<store, jobs>> /\ UnchangedByRequest

\* The zip becomes the archive, unread, with a scan to read it.
Adopt(c) ==
    /\ reqs[c].pc = "adopt"
    /\ ArchiveMutation(c)
    /\ Record(c, [ds EXCEPT !.archive = ds.pending, !.pending = 0, !.contents = 0], ds.pending,
              [NoRequest EXCEPT !.pc = "dropOld", !.archive = ds.archive])

DropArchive(c) == IF reqs[c].archive # 0 THEN Retire(reqs[c].archive) ELSE UNCHANGED store

\* Mutant of DropOld: the scan is queued first, and what a queue outage leaves undone is the
\* deletion of the replaced zip.
DropOldLast(c) ==
    /\ reqs[c].pc = "dropOld"
    /\ \/ UNCHANGED <<store, jobs>>
       \/ jobs' = [jobs EXCEPT ![reqs[c].scan.id] = Added(@, reqs[c].scan)] /\ DropArchive(c)
    /\ Done(c)
    /\ UNCHANGED <<ds, scanned>> /\ UnchangedByRequest

\* The archive it replaces is deleted before the queue is asked for anything.
DropOld(c) ==
    /\ reqs[c].pc = "dropOld"
    /\ DropArchive(c)
    /\ Continue(c, [reqs[c] EXCEPT !.pc = "enqueue", !.archive = 0])
    /\ UNCHANGED <<ds, scanned, jobs>> /\ UnchangedByRequest

ReadRescan(c) == ds.archive # 0 /\ Read(c, "rescan", "rescan")

\* Mutant of QueueScan: a rescan points the scan back at the zip it read about.
StaleQueueScan(c) ==
    /\ reqs[c].pc = "rescan"
    /\ Record(c, ds, reqs[c].archive, [NoRequest EXCEPT !.pc = "enqueue"])

\* queueScan: only while the zip it read about is still the archive.
QueueScan(c) ==
    /\ reqs[c].pc = "rescan"
    /\ StillArchive(c)
    /\ Record(c, ds, reqs[c].archive, [NoRequest EXCEPT !.pc = "enqueue"])

\* A queue that is unavailable answers 503, and the scan waits for recovery.
Enqueue(c) ==
    /\ reqs[c].pc = "enqueue"
    /\ \/ jobs' = [jobs EXCEPT ![reqs[c].scan.id] = Added(@, reqs[c].scan)]
       \/ UNCHANGED jobs
    /\ Done(c)
    /\ UNCHANGED <<ds, scanned, store>> /\ UnchangedByRequest

\* The update's filter matched nothing (409).
Conflict(c) ==
    /\ \/ reqs[c].pc \in {"extend", "pend", "adopt"} /\ ~ArchiveMutation(c)
       \/ reqs[c].pc = "claim" /\ ~(StillArchive(c) /\ StillPending(c))
       \/ reqs[c].pc = "unset" /\ ~(StillPending(c) /\ ds.discarding)
       \/ reqs[c].pc = "rescan" /\ ~StillArchive(c)
    /\ Done(c)
    /\ OnlyRequest

-----------------------------------------------------------------------------
(* The scan processor and the end of its attempt. *)

Becomes(w, processor) == work' = [work EXCEPT ![w] = processor]
Settle(w, outcome) == Becomes(w, [work[w] EXCEPT !.pc = "settle", !.outcome = outcome])

\* scanDelivery: the document still records this very delivery.
ScanDelivery(d) == ds.scan.status # "none" /\ DeliveryOf(ds.scan) = d
Runs(d) == ScanDelivery(d) /\ ds.scan.status = "running"

UnchangedByWork == UNCHANGED <<scanned, store, sweep, reqs, faults>>
OnlyScan == UNCHANGED <<jobs, closings>> /\ UnchangedByWork

Take(w) ==
    /\ "scan" \in Ops
    /\ work[w].pc = "idle"
    /\ \E j \in ScanId :
        /\ jobs[j].state = "waiting"
        /\ jobs' = [jobs EXCEPT ![j] = Taken(@, w)]
        /\ Becomes(w, [Idle EXCEPT !.pc = "start", !.job = j, !.delivery = jobs[j].data])
    /\ UNCHANGED <<ds, closings>> /\ UnchangedByWork

\* A scan that is over, or no longer the one recorded, is none of this job's business.
StartScan(w) ==
    /\ work[w].pc = "start"
    /\ IF ScanDelivery(work[w].delivery) /\ ds.scan.status \in Pending
         THEN /\ ds' = [ds EXCEPT !.scan.status = "running", !.scan.stale = FALSE]
              /\ Becomes(w, [work[w] EXCEPT !.pc = "read"])
         ELSE Settle(w, "ok") /\ UNCHANGED ds
    /\ OnlyScan

\* Every 5 s while it reads.
ScanHeartbeat(w) ==
    /\ work[w].pc \in {"read", "finish"}
    /\ Runs(work[w].delivery)
    /\ ds' = [ds EXCEPT !.scan.stale = FALSE]
    /\ UNCHANGED work
    /\ OnlyScan

\* The index is read, or the zip is missing or unreadable, or file-service is out of reach.
ReadIndex(w) ==
    /\ work[w].pc = "read"
    /\ \/ store[work[w].delivery.file] = "complete" /\ Becomes(w, [work[w] EXCEPT !.pc = "finish"])
       \/ Settle(w, "fatal")
       \/ Settle(w, "error")
    /\ UNCHANGED ds
    /\ OnlyScan

FinishScan(w) ==
    /\ work[w].pc = "finish"
    /\ ds' = IF Runs(work[w].delivery)
               THEN [ds EXCEPT !.contents = work[w].delivery.file, !.scan.status = "done"] ELSE ds
    /\ Settle(w, "ok")
    /\ OnlyScan

\* An update of its own fails: the attempt ends as it is.
ScanError(w) ==
    /\ work[w].pc \in {"start", "finish"}
    /\ Settle(w, "error")
    /\ UNCHANGED ds
    /\ OnlyScan

\* handleFailedImport: a call of markScanFailed is about to make its update.
HandleFailed(w, job) ==
    closings' = IF job.state = "failed"
                  THEN closings \cup {[by |-> w, delivery |-> job.data, onlyStale |-> FALSE]}
                  ELSE closings

EndAttempt(w) ==
    /\ work[w].pc = "settle"
    /\ LET j == work[w].job
           after == CASE work[w].outcome = "ok" -> Completed(jobs[j])
                      [] work[w].outcome = "error" -> AttemptFailed(jobs[j])
                      [] work[w].outcome = "fatal" -> Failed(jobs[j])
       IN  IF jobs[j].lock = w
             THEN jobs' = [jobs EXCEPT ![j] = after] /\ HandleFailed(w, after)
             ELSE UNCHANGED <<jobs, closings>>
    /\ Becomes(w, Idle)
    /\ UNCHANGED ds /\ UnchangedByWork

\* The stalled check; see DatasetWorker for the closing a plain error may skip.
CheckStalled(w, j) ==
    /\ jobs[j].state = "active" /\ jobs[j].lock = NoWorker
    /\ jobs' = [jobs EXCEPT ![j] = Stalled(@)]
    /\ HandleFailed(w, jobs'[j]) \/ UNCHANGED closings
    /\ UNCHANGED <<ds, work>> /\ UnchangedByWork

\* Mutant of MarkScanFailed: a scan that is over may be failed again.
LateMarkScanFailed(call) ==
    /\ ds' = IF ScanDelivery(call.delivery) THEN [ds EXCEPT !.scan.status = "failed"] ELSE ds
    /\ closings' = closings \ {call}
    /\ UNCHANGED <<jobs, work>> /\ UnchangedByWork

\* markScanFailed: only this delivery, only while pending and, for a lost job, only when stale.
MarkScanFailed(call) ==
    /\ ds' = IF /\ ScanDelivery(call.delivery) /\ ds.scan.status \in Pending
                /\ call.onlyStale => ds.scan.stale
               THEN [ds EXCEPT !.scan.status = "failed"] ELSE ds
    /\ closings' = closings \ {call}
    /\ UNCHANGED <<jobs, work>> /\ UnchangedByWork

-----------------------------------------------------------------------------
(* The sweep's scan half. *)

UnchangedBySweep == UNCHANGED <<store, work, reqs, faults>>

SweepRead ==
    /\ "sweep" \in Ops
    /\ sweep.pc = "idle"
    /\ ds.scan.status \in Pending
    /\ sweep' = [pc |-> "scan", scan |-> ds.scan]
    /\ UNCHANGED <<ds, scanned, jobs, closings>> /\ UnchangedBySweep

\* A queued scan of an older release has no id.
Anonymous(scan) == scan.id = 0 /\ scan.status = "queued"

\* Mutant of SweepIdentify: an anonymous scan is passed over.
SweepKeepsAnonymous ==
    /\ sweep.pc = "scan"
    /\ sweep' = IF Anonymous(sweep.scan) THEN NoCursor ELSE [sweep EXCEPT !.pc = "job"]
    /\ UNCHANGED <<ds, scanned, jobs, closings>> /\ UnchangedBySweep

\* It is given one first, unless its worker has started or another scan has come.
SweepIdentify ==
    /\ sweep.pc = "scan"
    /\ \/ /\ ~Anonymous(sweep.scan)
          /\ sweep' = [sweep EXCEPT !.pc = "job"]
          /\ UNCHANGED <<ds, scanned>>
       \/ /\ Anonymous(sweep.scan)
          /\ ds.scan.file = sweep.scan.file /\ Anonymous(ds.scan)
          /\ scanned < MaxScans
          /\ scanned' = scanned + 1
          /\ ds' = [ds EXCEPT !.scan.id = scanned + 1]
          /\ sweep' = [pc |-> "job", scan |-> ds'.scan]
       \/ /\ Anonymous(sweep.scan)
          /\ ~(ds.scan.file = sweep.scan.file /\ Anonymous(ds.scan))
          /\ sweep' = NoCursor
          /\ UNCHANGED <<ds, scanned>>
    /\ UNCHANGED <<jobs, closings>> /\ UnchangedBySweep

\* A scan without an id is looked for under an id no job of an older release has.
SweepJob ==
    /\ sweep.pc = "job"
    /\ LET id == sweep.scan.id
           state == IF id = 0 THEN "unknown" ELSE jobs[id].state
       IN  \/ /\ state = "unknown" /\ sweep.scan.status = "queued"
              /\ sweep' = [sweep EXCEPT !.pc = "enqueue"]
              /\ UNCHANGED closings
           \/ /\ \/ state \in {"failed", "completed"}
                 \/ state = "unknown" /\ sweep.scan.status = "running"
              /\ sweep' = [sweep EXCEPT !.pc = "closing"]
              /\ closings' = closings \cup {[by |-> Sweeper, delivery |-> DeliveryOf(sweep.scan),
                                             onlyStale |-> state = "unknown"]}
           \/ /\ state \in {"waiting", "active"}
              /\ sweep' = NoCursor
              /\ UNCHANGED closings
    /\ UNCHANGED <<ds, scanned, jobs>> /\ UnchangedBySweep

SweepEnqueue ==
    /\ sweep.pc = "enqueue"
    /\ jobs' = [jobs EXCEPT ![sweep.scan.id] = Added(@, DeliveryOf(sweep.scan))]
    /\ sweep' = NoCursor
    /\ UNCHANGED <<ds, scanned, closings>> /\ UnchangedBySweep

SweepClosed ==
    /\ sweep.pc = "closing"
    /\ \A call \in closings : call.by # Sweeper
    /\ sweep' = NoCursor
    /\ UNCHANGED <<ds, scanned, jobs, closings>> /\ UnchangedBySweep

Sweep == SweepRead \/ SweepIdentify \/ SweepJob \/ SweepEnqueue \/ SweepClosed

-----------------------------------------------------------------------------
(* The rest of the world. *)

\* A browser that was given the URL sends the last byte.
Upload(f) ==
    /\ store[f] = "uploading"
    /\ store' = [store EXCEPT ![f] = "complete"]
    /\ UNCHANGED <<ds, scanned, jobs, work, closings, sweep, reqs, faults>>

Elsewhere(op) ==
    /\ op \in Ops
    /\ UNCHANGED <<scanned, store, jobs, work, closings, sweep, reqs, faults>>

\* A label job takes a hold, or an import of the archive starts (addHold, startImport).
Use == Elsewhere("use") /\ ds.live /\ ds.archive # 0 /\ ds' = [ds EXCEPT !.inUse = TRUE]
Release == Elsewhere("use") /\ ds' = [ds EXCEPT !.inUse = FALSE]

\* trashDataset, restoreDataset.
Trash == Elsewhere("trash") /\ ds.live /\ ds' = [ds EXCEPT !.live = FALSE]
Restore == Elsewhere("trash") /\ ~ds.live /\ ds' = [ds EXCEPT !.live = TRUE]

\* Time passes: a heartbeat not renewed for IMPORT_STALE_MS is stale, which only a sweep asks.
Age ==
    /\ Elsewhere("sweep")
    /\ ds.scan.status \in Pending /\ ~ds.scan.stale
    /\ ds' = [ds EXCEPT !.scan.stale = TRUE]

Fault == faults < MaxFaults /\ faults' = faults + 1

\* file-service is out of reach, refuses a deletion because a browser is writing, or the instance
\* dies: the rest of the request never happens.
Abandon(c) ==
    /\ Fault
    /\ reqs[c].pc # "idle"
    /\ Done(c)
    /\ UNCHANGED <<ds, scanned, store, jobs, work, closings, sweep>>

\* The abandoned upload could not be deleted: that is logged, and the URL answered all the same.
DropPendingFails(c) ==
    /\ Fault
    /\ reqs[c].pc = "dropPending" /\ reqs[c].pending # 0
    /\ store' = Given(reqs[c].file, store)
    /\ Done(c)
    /\ UNCHANGED <<ds, scanned, jobs, work, closings, sweep>>

Crash(w) ==
    /\ Fault
    /\ work[w].pc # "idle" \/ \E call \in closings : call.by = w
    /\ Becomes(w, Idle)
    /\ jobs' = [j \in ScanId |-> IF jobs[j].lock = w THEN Unlocked(jobs[j]) ELSE jobs[j]]
    /\ closings' = {call \in closings : call.by # w}
    /\ UNCHANGED <<ds, scanned, store, sweep, reqs>>

LoseLock(w) ==
    /\ Fault
    /\ work[w].pc # "idle" /\ jobs[work[w].job].lock = w
    /\ jobs' = [jobs EXCEPT ![work[w].job] = Unlocked(@)]
    /\ UNCHANGED <<ds, scanned, store, work, closings, sweep, reqs>>

LoseJob(j) ==
    /\ Fault
    /\ jobs[j].state # "unknown"
    /\ jobs' = [jobs EXCEPT ![j] = NoJob(NoDelivery)]
    /\ UNCHANGED <<ds, scanned, store, work, closings, sweep, reqs>>

SweepAborts ==
    /\ Fault
    /\ sweep.pc # "idle"
    /\ sweep' = NoCursor
    /\ closings' = {call \in closings : call.by # Sweeper}
    /\ UNCHANGED <<ds, scanned, store, jobs, work, reqs>>

-----------------------------------------------------------------------------
\* A dataset just made; one with a zip stored before scans; or one whose scan an older release
\* queued, its job waiting, lost, or on a worker that is gone.
Init ==
    /\ \/ ds \in {NewDataset, [NewDataset EXCEPT !.archive = 1]}
       \/ /\ "legacy" \in Ops
          /\ \E status \in Pending :
               ds = [NewDataset EXCEPT !.archive = 1,
                                       !.scan = [QueuedScan(0, 1) EXCEPT !.status = status]]
    /\ scanned = 0
    /\ store = [f \in Files |-> IF f = ds.archive THEN "complete" ELSE "none"]
    /\ \E job \in {NoJob(NoDelivery), Fresh(DeliveryOf(ds.scan))} :
        /\ ds.scan.status = "none" => job = NoJob(NoDelivery)
        /\ jobs = [j \in ScanId |-> IF j = 0 THEN job ELSE NoJob(NoDelivery)]
    /\ work = [w \in Workers |-> Idle]
    /\ closings = {}
    /\ sweep = NoCursor
    /\ reqs = [c \in Clients |-> NoRequest]
    /\ faults = 0

Ask(c) ==
    \/ ReadUpload(c) \/ SizeOfPending(c) \/ ResumeReservation(c) \/ Extend(c)
    \/ Reserve(c) \/ Pend(c) \/ DropPending(c) \/ DropPendingFails(c)
    \/ ReadDiscard(c) \/ Claim(c) \/ DropDiscarded(c) \/ Unset(c)
    \/ ReadComplete(c) \/ BytesOfPending(c) \/ Adopt(c) \/ DropOld(c)
    \/ ReadRescan(c) \/ QueueScan(c) \/ Enqueue(c) \/ Conflict(c) \/ Abandon(c)

Progress(w) == StartScan(w) \/ ReadIndex(w) \/ FinishScan(w) \/ EndAttempt(w)

Next ==
    \/ \E c \in Clients : Ask(c)
    \/ \E w \in Workers : Take(w) \/ Progress(w) \/ ScanHeartbeat(w) \/ ScanError(w)
                          \/ Crash(w) \/ LoseLock(w) \/ \E j \in ScanId : CheckStalled(w, j)
    \/ \E j \in ScanId : LoseJob(j)
    \/ \E call \in closings : MarkScanFailed(call)
    \/ Sweep \/ SweepAborts
    \/ \E f \in Files : Upload(f)
    \/ Use \/ Release \/ Trash \/ Restore \/ Age

Spec == Init /\ [][Next]_vars

\* As in Dataset: the worker, the stalled check, the sweep, time, and calls that were made.
Fairness ==
    /\ \A w \in Workers :
        /\ WF_vars(Take(w))
        /\ WF_vars(Progress(w))
        /\ WF_vars(\E j \in ScanId : CheckStalled(w, j))
    /\ WF_vars(Sweep)
    /\ WF_vars(Age)
    /\ WF_vars(\E call \in closings : MarkScanFailed(call))

FairSpec == Spec /\ Fairness

-----------------------------------------------------------------------------
(* Properties. *)

TypeOK ==
    /\ ds \in Dataset
    /\ scanned \in ScanId
    /\ store \in [Files -> FileState]
    /\ jobs \in [ScanId -> Job(Delivery)]
    /\ work \in [Workers -> Processor]
    /\ closings \subseteq ClosingCall
    /\ sweep \in Cursor
    /\ reqs \in [Clients -> Request]
    /\ faults \in 0..MaxFaults

\* The archive's bytes are in storage, and an upload nobody asked to discard can go on: no request
\* deletes what another one adopted or relies on (createArchiveUpload, discardArchiveUpload,
\* completeArchiveUpload).
ReferencedStored ==
    /\ ds.archive # 0 => store[ds.archive] = "complete"
    /\ ds.pending # 0 /\ ~ds.discarding => store[ds.pending] \notin {"none", "retired"}

\* What a dataset says is in its zip was read from the zip it has, and a scan that is done is of
\* that zip (runScan, queueScan).
ContentsOfArchive ==
    /\ ds.contents # 0 => ds.contents = ds.archive
    /\ ds.scan.status = "done" => ds.scan.file = ds.archive /\ ds.contents = ds.archive

\* Once requests are over, bytes that arrived are the archive's or a pending upload's, queue outage or
\* not; and what fails half-way leaves one zip behind at most (createArchiveUpload,
\* completeArchiveUpload).
NothingForgotten ==
    (\A c \in Clients : reqs[c].pc = "idle") =>
        Cardinality({f \in Files : store[f] = "complete"} \ {ds.archive, ds.pending}) <= faults

\* While a label job or an import uses the dataset its zip is not replaced (archiveMutation).
UsedArchiveStays == [][ds.inUse => ds'.archive = ds.archive]_vars

\* A verdict stays until a newer scan is queued: no late worker, closing call or sweep changes it
\* (scanDelivery).
ScanVerdictStays ==
    [][ds.scan.status \in {"done", "failed"} =>
         ds'.scan = ds.scan \/ ds'.scan.id > ds.scan.id]_vars

\* Every scan asked for gets a verdict, gives way to another or, if anonymous, gets an id first,
\* whatever is lost on the way (recoverDatasetJobs).
ScansSettle ==
    \A i \in ScanId :
        (ds.scan.status \in Pending /\ ds.scan.id = i)
            ~> ~(ds.scan.status \in Pending /\ ds.scan.id = i)
-----------------------------------------------------------------------------
(* The invariant behind the proofs (DatasetArchive_proofs). *)

BudgetsKept == \A j \in ScanId : Budgeted(jobs[j])

\* Files the document refers to, and those a request saw it refer to.
Recorded == {ds.pending, ds.archive} \ {0}
Remembered(c) == {reqs[c].pending, reqs[c].archive} \ {0}

\* Such files were reserved once, so that a file reserved now is none of them.
KnownFiles ==
    \A f \in Files :
        (f \in Recorded \/ \E c \in Clients : f \in Remembered(c) \cup {reqs[c].file})
            => store[f] # "none"

\* A file reserved for an upload is known to nobody else until the document records it.
Alone(c) ==
    /\ reqs[c].file \in Files \ Recorded
    /\ store[reqs[c].file] = "reserved"
    /\ \A d \in Clients : reqs[c].file \notin Remembered(d)
    /\ \A d \in Clients \ {c} : reqs[d].file # reqs[c].file

ReservedAlone == \A c \in Clients : reqs[c].pc = "pend" => Alone(c)

\* What a request is about to delete is no longer referred to, or is being discarded; what it is
\* about to adopt is complete unless another one deleted it.
DropIsSafe(c) ==
    /\ reqs[c].pc = "dropPending" => reqs[c].pending \notin Recorded
    /\ reqs[c].pc \in {"claim", "dropDiscarded", "bytes", "adopt"} => reqs[c].pending # 0
    /\ reqs[c].pc = "dropDiscarded" =>
           /\ reqs[c].pending # ds.archive
           /\ reqs[c].pending = ds.pending => ds.discarding
    /\ reqs[c].pc = "adopt" => store[reqs[c].pending] \in {"complete", "retired"}
    /\ reqs[c].pc = "dropOld" => reqs[c].archive \notin Recorded

DropsAreSafe ==
    /\ ds.pending # 0 => ds.pending # ds.archive
    /\ \A c \in Clients : DropIsSafe(c)

Storage == KnownFiles /\ ReservedAlone /\ DropsAreSafe /\ ReferencedStored

\* The scan recorded is of the archive, and its id was handed out.
ScanOfArchive ==
    /\ ds.scan.status # "none" => ds.scan.file = ds.archive
    /\ ds.scan.id <= scanned
    /\ ContentsOfArchive

IInv == TypeOK /\ BudgetsKept /\ Storage /\ ScanOfArchive
=============================================================================
