------------------------ MODULE DatasetArchive_proofs ------------------------
(***************************************************************************)
(* Proofs about DatasetArchive, for every number of clients, workers, files, *)
(* scans, attempts, stalls and faults.                                      *)
(*                                                                          *)
(* Typing comes first, by the actor that takes the step. Away from requests *)
(* a step does little to the document, ElsewhereEffect says what; the rest  *)
(* of IInv follows from that and, for requests, action by action. KeptIInv  *)
(* adds who accounts for a file that was uploaded while a request runs.     *)
(***************************************************************************)
EXTENDS DatasetArchive, DatasetQueue_proofs, FiniteSetTheorems, TLAPS

-----------------------------------------------------------------------------
(* Types: the records an instance starts with. *)

\* What is missing is of the type of what may be there.
LEMMA NothingTyped ==
    /\ 0 \in FileId /\ 0 \in ScanId /\ Files \subseteq FileId
    /\ NoScan \in Scan /\ NewDataset \in Dataset /\ NoDelivery \in Delivery
    /\ Idle \in Processor /\ NoRequest \in Request /\ NoCursor \in Cursor
<1>1. 0 \in FileId /\ 0 \in ScanId /\ Files \subseteq FileId
  BY ArchiveAssumption DEF FileId, ScanId, Files
<1>2. NoScan \in Scan /\ NoDelivery \in Delivery
  BY <1>1 DEF NoScan, Scan, NoDelivery, Delivery
<1>3. NewDataset \in Dataset
  BY <1>1, <1>2 DEF NewDataset, Dataset
<1>4. Idle \in Processor
  BY <1>1, <1>2 DEF Idle, Processor
<1>5. NoRequest \in Request
  BY <1>1, <1>2 DEF NoRequest, Request
<1>6. NoCursor \in Cursor
  BY <1>2 DEF NoCursor, Cursor
<1>. QED BY <1>1, <1>2, <1>3, <1>4, <1>5, <1>6

\* A scan that is queued, and the delivery of any scan, are typed.
LEMMA ScanTyped ==
    ASSUME NEW scan \in Scan
    PROVE  /\ DeliveryOf(scan) \in Delivery
           /\ \A id \in ScanId, f \in FileId : QueuedScan(id, f) \in Scan
BY DEF Scan, DeliveryOf, Delivery, QueuedScan, Pending

-----------------------------------------------------------------------------
(* Types: requests. *)

\* A request that becomes another one keeps the requests typed.
LEMMA ContinueTyped ==
    ASSUME TypeOK, NEW c \in Clients, NEW r \in Request, Continue(c, r)
    PROVE  reqs' \in [Clients -> Request]
BY DEF TypeOK, Continue

\* The same for one that goes on at another place or is over.
LEMMA GoneOnTyped ==
    ASSUME TypeOK, NEW c \in Clients
    PROVE  /\ \A pc \in {"size", "resume", "extend", "reserve", "pend", "dropPending", "claim",
                         "dropDiscarded", "unset", "bytes", "adopt", "dropOld", "rescan",
                         "enqueue"} :
                 Goto(c, pc) => reqs' \in [Clients -> Request]
           /\ Done(c) => reqs' \in [Clients -> Request]
<1>1. reqs[c] \in Request
  BY DEF TypeOK
<1>. QED BY <1>1, ContinueTyped, NothingTyped DEF Goto, Done, Request

\* file-service keeps its files typed.
LEMMA StoreTyped ==
    ASSUME TypeOK, NEW f
    PROVE  /\ Retire(f) => store' \in [Files -> FileState]
           /\ Given(f, store) \in [Files -> FileState]
BY DEF TypeOK, Retire, Given, FileState

\* A queue that is handed a typed delivery stays typed and within its budgets.
LEMMA AddedTyped ==
    ASSUME TypeOK, BudgetsKept, NEW j \in ScanId, NEW d \in Delivery,
           jobs' = [jobs EXCEPT ![j] = Added(@, d)]
    PROVE  jobs' \in [ScanId -> Job(Delivery)] /\ BudgetsKept'
<1>1. jobs[j] \in Job(Delivery) /\ Budgeted(jobs[j])
  BY DEF TypeOK, BudgetsKept
<1>2. PICK w \in Workers : TRUE
  BY QueueAssumption
<1>3. Added(jobs[j], d) \in Job(Delivery) /\ Budgeted(Added(jobs[j], d))
  BY <1>1, <1>2, QueueOperators
<1>. QED BY <1>3 DEF TypeOK, BudgetsKept

\* Each step of a request keeps types and budgets.
LEMMA AskTyped ==
    ASSUME TypeOK, BudgetsKept, NEW c \in Clients, Ask(c)
    PROVE  TypeOK' /\ BudgetsKept'
<1>1. ds \in Dataset /\ reqs[c] \in Request /\ ds.scan \in Scan
  BY DEF TypeOK, Dataset
<1>2. /\ ds.pending \in FileId /\ ds.archive \in FileId
      /\ reqs[c].scan \in Delivery /\ reqs[c].archive \in FileId /\ reqs[c].file \in FileId
  BY <1>1 DEF Dataset, Request
<1>3. 0 \in FileId /\ NoRequest \in Request /\ Files \subseteq FileId
  BY NothingTyped
<1>. USE GoneOnTyped
<1>4. ASSUME NEW op, NEW pc \in {"size", "reserve", "claim", "bytes", "rescan"}, Read(c, op, pc)
      PROVE  TypeOK' /\ BudgetsKept'
  <2>1. [NoRequest EXCEPT !.pc = pc, !.pending = ds.pending, !.archive = ds.archive] \in Request
    BY <1>2, <1>3 DEF Request
  <2>2. reqs' \in [Clients -> Request]
    BY <1>4, <2>1, ContinueTyped DEF Read
  <2>. QED BY <1>4, <2>2 DEF Read, OnlyRequest, UnchangedByRequest, TypeOK, BudgetsKept
<1>5. CASE ReadUpload(c) \/ ReadDiscard(c) \/ ReadComplete(c) \/ ReadRescan(c)
  BY <1>4, <1>5 DEF ReadUpload, ReadDiscard, ReadComplete, ReadRescan
<1>6. CASE SizeOfPending(c) \/ ResumeReservation(c) \/ BytesOfPending(c) \/ Conflict(c)
  <2>1. reqs' \in [Clients -> Request]
    BY <1>6 DEF SizeOfPending, ResumeReservation, BytesOfPending, Conflict
  <2>2. OnlyRequest
    BY <1>6 DEF SizeOfPending, ResumeReservation, BytesOfPending, Conflict
  <2>. QED BY <2>1, <2>2 DEF OnlyRequest, UnchangedByRequest, TypeOK, BudgetsKept
<1>7. CASE Extend(c)
  BY <1>7, StoreTyped DEF Extend, UnchangedByRequest, TypeOK, BudgetsKept
<1>8. CASE Reserve(c)
  <2>1. PICK f \in Files : Reserve(c)!2!(f)
    BY <1>8 DEF Reserve
  <2>2. [reqs[c] EXCEPT !.pc = "pend", !.file = f] \in Request
    BY <1>1, <1>3 DEF Request
  <2>3. store' \in [Files -> FileState] /\ reqs' \in [Clients -> Request]
    BY <2>1, <2>2, ContinueTyped DEF TypeOK, FileState
  <2>. QED BY <1>8, <2>3 DEF Reserve, UnchangedByRequest, TypeOK, BudgetsKept
<1>9. CASE Pend(c)
  <2>1. [ds EXCEPT !.pending = reqs[c].file] \in Dataset
    BY <1>1, <1>2 DEF Dataset
  <2>. QED BY <1>9, <2>1 DEF Pend, UnchangedByRequest, TypeOK, BudgetsKept
<1>10. CASE DropPending(c) \/ DropPendingFails(c)
  <2>1. \A files \in [Files -> FileState] : Given(reqs[c].file, files) \in [Files -> FileState]
    BY DEF Given, FileState
  <2>2. [f \in Files |-> IF f = reqs[c].pending THEN "retired" ELSE store[f]]
          \in [Files -> FileState]
    BY DEF TypeOK, FileState
  <2>3. store' \in [Files -> FileState] /\ faults' \in 0..MaxFaults
    BY <1>10, <2>1, <2>2, ArchiveAssumption
    DEF DropPending, DropPendingFails, Fault, UnchangedByRequest, TypeOK
  <2>. QED
    BY <1>10, <2>3 DEF DropPending, DropPendingFails, UnchangedByRequest, TypeOK, BudgetsKept
<1>11. CASE Claim(c) \/ Unset(c)
  <2>1. /\ [ds EXCEPT !.discarding = TRUE] \in Dataset
        /\ [ds EXCEPT !.pending = 0, !.discarding = FALSE] \in Dataset
    BY <1>1, <1>3 DEF Dataset
  <2>. QED BY <1>11, <2>1 DEF Claim, Unset, UnchangedByRequest, TypeOK, BudgetsKept
<1>12. CASE DropDiscarded(c)
  BY <1>12, StoreTyped DEF DropDiscarded, UnchangedByRequest, TypeOK, BudgetsKept
<1>13. ASSUME NEW doc \in Dataset, NEW f \in FileId, NEW r \in Request, Record(c, doc, f, r)
       PROVE  TypeOK' /\ BudgetsKept'
  <2>1. scanned + 1 \in ScanId
    BY <1>13, ArchiveAssumption DEF Record, TypeOK, ScanId
  <2>2. QueuedScan(scanned + 1, f) \in Scan
    BY <2>1, <1>1, ScanTyped
  <2>3. DeliveryOf(QueuedScan(scanned + 1, f)) \in Delivery
    BY <2>2, ScanTyped
  <2>4. [doc EXCEPT !.scan = QueuedScan(scanned + 1, f)] \in Dataset
    BY <2>2 DEF Dataset
  <2>5. [r EXCEPT !.scan = DeliveryOf(QueuedScan(scanned + 1, f))] \in Request
    BY <2>3 DEF Request
  <2>6. ds' \in Dataset /\ reqs' \in [Clients -> Request] /\ scanned' \in ScanId
    BY <1>13, <2>1, <2>4, <2>5, ContinueTyped DEF Record
  <2>. QED BY <1>13, <2>6 DEF Record, UnchangedByRequest, TypeOK, BudgetsKept
<1>14. CASE Adopt(c)
  <2>1. [ds EXCEPT !.archive = ds.pending, !.pending = 0, !.contents = 0] \in Dataset
    BY <1>1, <1>2, <1>3 DEF Dataset
  <2>2. [NoRequest EXCEPT !.pc = "dropOld", !.archive = ds.archive] \in Request
    BY <1>2, <1>3 DEF Request
  <2>. QED BY <1>14, <2>1, <2>2, <1>2, <1>13 DEF Adopt
<1>15. CASE QueueScan(c)
  <2>1. [NoRequest EXCEPT !.pc = "enqueue"] \in Request
    BY <1>3 DEF Request
  <2>. QED BY <1>15, <2>1, <1>1, <1>2, <1>13 DEF QueueScan
<1>16. CASE DropOld(c)
  <2>1. [reqs[c] EXCEPT !.pc = "enqueue", !.archive = 0] \in Request
    BY <1>1, <1>3 DEF Request
  <2>2. reqs' \in [Clients -> Request]
    BY <1>16, <2>1, ContinueTyped DEF DropOld
  <2>3. store' \in [Files -> FileState]
    BY <1>16, StoreTyped DEF DropOld, DropArchive, TypeOK
  <2>. QED BY <1>16, <2>2, <2>3 DEF DropOld, UnchangedByRequest, TypeOK, BudgetsKept
<1>17. CASE Enqueue(c)
  <2>1. reqs[c].scan.id \in ScanId
    BY <1>2 DEF Delivery
  <2>2. jobs' \in [ScanId -> Job(Delivery)] /\ BudgetsKept'
    BY <1>17, <1>2, <2>1, AddedTyped DEF Enqueue, TypeOK, BudgetsKept
  <2>. QED BY <1>17, <2>2 DEF Enqueue, UnchangedByRequest, TypeOK
<1>18. CASE Abandon(c)
  <2>1. faults' \in 0..MaxFaults
    BY <1>18, ArchiveAssumption DEF Abandon, Fault, TypeOK
  <2>. QED BY <1>18, <2>1 DEF Abandon, TypeOK, BudgetsKept
<1>. QED
  BY <1>5, <1>6, <1>7, <1>8, <1>9, <1>10, <1>11, <1>12, <1>14, <1>15, <1>16, <1>17, <1>18
  DEF Ask

-----------------------------------------------------------------------------
(* Types: the scan's worker, its closing calls and the sweep. *)

\* A processor that goes on keeps the memory of the workers typed.
LEMMA ProcessorTyped ==
    ASSUME TypeOK, NEW w \in Workers
    PROVE  /\ \A r \in Processor : Becomes(w, r) => work' \in [Workers -> Processor]
           /\ \A outcome \in {"ok", "error", "fatal"} :
                 Settle(w, outcome) => work' \in [Workers -> Processor]
           /\ \A pc \in {"read", "finish"} : [work[w] EXCEPT !.pc = pc] \in Processor
<1>1. work[w] \in Processor
  BY DEF TypeOK
<1>2. /\ \A pc \in {"read", "finish"} : [work[w] EXCEPT !.pc = pc] \in Processor
      /\ \A outcome \in {"ok", "error", "fatal"} :
            [work[w] EXCEPT !.pc = "settle", !.outcome = outcome] \in Processor
  BY <1>1 DEF Processor
<1>3. \A r \in Processor : Becomes(w, r) => work' \in [Workers -> Processor]
  BY DEF TypeOK, Becomes
<1>. QED BY <1>2, <1>3 DEF Settle

\* A typed job in the place of another keeps the queue typed, and within its budgets.
LEMMA JobsTyped ==
    ASSUME TypeOK, BudgetsKept, NEW j, NEW job \in Job(Delivery), Budgeted(job),
           jobs' = [jobs EXCEPT ![j] = job]
    PROVE  jobs' \in [ScanId -> Job(Delivery)] /\ BudgetsKept'
BY DEF TypeOK, BudgetsKept

\* The worker's 'failed' event starts closing calls only.
LEMMA FailureTyped ==
    ASSUME TypeOK, NEW w \in Workers, NEW job \in Job(Delivery), HandleFailed(w, job)
    PROVE  closings' \subseteq ClosingCall
<1>1. job.data \in Delivery
  BY DEF Job
<1>2. [by |-> w, delivery |-> job.data, onlyStale |-> FALSE] \in ClosingCall
  BY <1>1 DEF ClosingCall
<1>. QED BY <1>2 DEF HandleFailed, TypeOK

\* The document with another scan, or what was read of the archive, is a document.
LEMMA DocumentTyped ==
    ASSUME TypeOK
    PROVE  /\ \A status \in Pending \cup {"done", "failed"} :
                 [ds EXCEPT !.scan.status = status] \in Dataset
           /\ [ds EXCEPT !.scan.status = "running", !.scan.stale = FALSE] \in Dataset
           /\ \A stale \in BOOLEAN : [ds EXCEPT !.scan.stale = stale] \in Dataset
           /\ \A id \in ScanId : [ds EXCEPT !.scan.id = id] \in Dataset
           /\ \A f \in FileId : [ds EXCEPT !.contents = f, !.scan.status = "done"] \in Dataset
           /\ \A b \in BOOLEAN : [ds EXCEPT !.inUse = b] \in Dataset
           /\ \A b \in BOOLEAN : [ds EXCEPT !.live = b] \in Dataset
<1>1. ds \in Dataset /\ ds.scan \in Scan
  BY DEF TypeOK, Dataset
<1>. QED BY <1>1 DEF Dataset, Scan, Pending

\* Each step of a worker keeps types and budgets.
LEMMA WorkerTyped ==
    ASSUME TypeOK, BudgetsKept, NEW w \in Workers,
           \/ Take(w) \/ Progress(w) \/ ScanHeartbeat(w) \/ ScanError(w)
           \/ Crash(w) \/ LoseLock(w) \/ \E j \in ScanId : CheckStalled(w, j)
    PROVE  TypeOK' /\ BudgetsKept'
<1>1. work[w] \in Processor /\ ds \in Dataset
  BY DEF TypeOK
<1>2. work[w].delivery.file \in FileId /\ work[w].job \in ScanId
  BY <1>1 DEF Processor, Delivery
<1>3. \A j \in ScanId : jobs[j] \in Job(Delivery) /\ Budgeted(jobs[j]) /\ jobs[j].data \in Delivery
  BY DEF TypeOK, BudgetsKept, Job
<1>4. Idle \in Processor /\ NoDelivery \in Delivery
  BY NothingTyped
<1>5. CASE Take(w)
  <2>1. PICK j \in ScanId : Take(w)!3!(j)
    BY <1>5 DEF Take
  <2>2. [Idle EXCEPT !.pc = "start", !.job = j, !.delivery = jobs[j].data] \in Processor
    BY <1>3, <1>4 DEF Processor
  <2>3. work' \in [Workers -> Processor]
    BY <2>1, <2>2, ProcessorTyped
  <2>4. Taken(jobs[j], w) \in Job(Delivery) /\ Budgeted(Taken(jobs[j], w))
    BY <2>1, <1>3, <1>4, QueueOperators
  <2>5. jobs' \in [ScanId -> Job(Delivery)] /\ BudgetsKept'
    BY <2>1, <2>4, JobsTyped
  <2>. QED BY <1>5, <2>3, <2>5 DEF Take, UnchangedByWork, TypeOK
<1>6. CASE StartScan(w)
  <2>1. work' \in [Workers -> Processor] /\ ds' \in Dataset
    BY <1>1, <1>6, ProcessorTyped, DocumentTyped DEF StartScan
  <2>. QED BY <1>6, <2>1 DEF StartScan, OnlyScan, UnchangedByWork, TypeOK, BudgetsKept
<1>7. CASE ScanHeartbeat(w)
  <2>1. ds' \in Dataset
    BY <1>7, DocumentTyped DEF ScanHeartbeat
  <2>. QED BY <1>7, <2>1 DEF ScanHeartbeat, OnlyScan, UnchangedByWork, TypeOK, BudgetsKept
<1>8. CASE ReadIndex(w) \/ ScanError(w)
  <2>1. work' \in [Workers -> Processor]
    BY <1>8, ProcessorTyped DEF ReadIndex, ScanError
  <2>. QED BY <1>8, <2>1 DEF ReadIndex, ScanError, OnlyScan, UnchangedByWork, TypeOK, BudgetsKept
<1>9. CASE FinishScan(w)
  <2>1. work' \in [Workers -> Processor] /\ ds' \in Dataset
    BY <1>1, <1>2, <1>9, ProcessorTyped, DocumentTyped DEF FinishScan
  <2>. QED BY <1>9, <2>1 DEF FinishScan, OnlyScan, UnchangedByWork, TypeOK, BudgetsKept
<1>10. CASE EndAttempt(w)
  <2>. DEFINE j == work[w].job
              after == CASE work[w].outcome = "ok" -> Completed(jobs[j])
                         [] work[w].outcome = "error" -> AttemptFailed(jobs[j])
                         [] work[w].outcome = "fatal" -> Failed(jobs[j])
  <2>1. work' \in [Workers -> Processor]
    BY <1>4, <1>10, ProcessorTyped DEF EndAttempt
  <2>2. CASE jobs[j].lock # w
    BY <1>10, <2>1, <2>2 DEF EndAttempt, UnchangedByWork, TypeOK, BudgetsKept
  <2>3. CASE jobs[j].lock = w
    <3>1. work[w].outcome \in {"ok", "error", "fatal"}
      BY <1>1 DEF Processor
    <3>2. after \in Job(Delivery) /\ Budgeted(after)
      BY <1>2, <1>3, <1>4, <2>3, <3>1, QueueOperators
    <3>3. jobs' = [jobs EXCEPT ![j] = after] /\ HandleFailed(w, after)
      BY <1>10, <2>3 DEF EndAttempt
    <3>. HIDE DEF after
    <3>4. jobs' \in [ScanId -> Job(Delivery)] /\ BudgetsKept' /\ closings' \subseteq ClosingCall
      BY <3>2, <3>3, JobsTyped, FailureTyped
    <3>. QED BY <1>10, <2>1, <3>4 DEF EndAttempt, UnchangedByWork, TypeOK
  <2>. QED BY <2>2, <2>3
<1>11. ASSUME NEW j \in ScanId, CheckStalled(w, j)
       PROVE  TypeOK' /\ BudgetsKept'
  <2>1. Stalled(jobs[j]) \in Job(Delivery) /\ Budgeted(Stalled(jobs[j]))
    BY <1>3, <1>4, <1>11, QueueOperators DEF CheckStalled
  <2>2. jobs' \in [ScanId -> Job(Delivery)] /\ BudgetsKept'
    BY <1>11, <2>1, JobsTyped DEF CheckStalled
  <2>3. closings' \subseteq ClosingCall
    BY <1>11, <2>2, FailureTyped DEF CheckStalled, TypeOK
  <2>. QED BY <1>11, <2>2, <2>3 DEF CheckStalled, UnchangedByWork, TypeOK
<1>12. CASE Crash(w)
  <2>1. \A j \in ScanId : Unlocked(jobs[j]) \in Job(Delivery) /\ Budgeted(Unlocked(jobs[j]))
    BY <1>3, <1>4, QueueOperators
  <2>2. jobs' \in [ScanId -> Job(Delivery)] /\ BudgetsKept'
    BY <1>3, <1>12, <2>1 DEF Crash, BudgetsKept
  <2>3. work' \in [Workers -> Processor]
    BY <1>4, <1>12, ProcessorTyped DEF Crash
  <2>4. faults' \in 0..MaxFaults
    BY <1>12, ArchiveAssumption DEF Crash, Fault, TypeOK
  <2>5. closings' \subseteq ClosingCall
    BY <1>12 DEF Crash, TypeOK
  <2>. QED BY <1>12, <2>2, <2>3, <2>4, <2>5 DEF Crash, TypeOK
<1>13. CASE LoseLock(w)
  <2>3. Unlocked(jobs[work[w].job]) \in Job(Delivery) /\ Budgeted(Unlocked(jobs[work[w].job]))
    BY <1>2, <1>3, <1>4, QueueOperators
  <2>1. jobs' \in [ScanId -> Job(Delivery)] /\ BudgetsKept'
    BY <1>13, <2>3, JobsTyped DEF LoseLock
  <2>2. faults' \in 0..MaxFaults
    BY <1>13, ArchiveAssumption DEF LoseLock, Fault, TypeOK
  <2>. QED BY <1>13, <2>1, <2>2 DEF LoseLock, TypeOK
<1>. QED
  BY <1>5, <1>6, <1>7, <1>8, <1>9, <1>10, <1>11, <1>12, <1>13 DEF Progress

\* Each step of a closing call and of the sweep keeps types and budgets.
LEMMA RecoveryTyped ==
    ASSUME TypeOK, BudgetsKept,
           (\E call \in closings : MarkScanFailed(call)) \/ Sweep \/ SweepAborts
    PROVE  TypeOK' /\ BudgetsKept'
<1>1. ds \in Dataset /\ ds.scan \in Scan /\ sweep \in Cursor
  BY DEF TypeOK, Dataset
<1>2. sweep.scan \in Scan
  BY <1>1 DEF Cursor
<1>3. DeliveryOf(sweep.scan) \in Delivery /\ sweep.scan.id \in ScanId
  BY <1>2, ScanTyped DEF Scan
<1>4. NoCursor \in Cursor
  BY NothingTyped
<1>5. ASSUME NEW call \in closings, MarkScanFailed(call)
      PROVE  TypeOK' /\ BudgetsKept'
  <2>1. ds' \in Dataset /\ closings' \subseteq ClosingCall
    BY <1>1, <1>5, DocumentTyped DEF MarkScanFailed, TypeOK
  <2>. QED BY <1>5, <2>1 DEF MarkScanFailed, UnchangedByWork, TypeOK, BudgetsKept
<1>6. CASE SweepRead
  <2>1. sweep' \in Cursor
    BY <1>1, <1>6 DEF SweepRead, Cursor
  <2>. QED BY <1>6, <2>1 DEF SweepRead, UnchangedBySweep, TypeOK, BudgetsKept
<1>7. CASE SweepIdentify
  <2>1. CASE SweepIdentify!2!2
    <3>1. scanned + 1 \in ScanId
      BY <2>1, ArchiveAssumption DEF TypeOK, ScanId
    <3>2. ds' \in Dataset
      BY <2>1, <3>1, DocumentTyped
    <3>3. sweep' \in Cursor
      BY <2>1, <3>2 DEF Dataset, Cursor
    <3>. QED BY <1>7, <2>1, <3>1, <3>2, <3>3 DEF SweepIdentify, UnchangedBySweep, TypeOK, BudgetsKept
  <2>2. CASE SweepIdentify!2!1 \/ SweepIdentify!2!3
    <3>1. [sweep EXCEPT !.pc = "job"] \in Cursor
      BY <1>1 DEF Cursor
    <3>2. sweep' \in Cursor
      BY <2>2, <3>1, <1>4
    <3>. QED BY <1>7, <2>2, <3>2 DEF SweepIdentify, UnchangedBySweep, TypeOK, BudgetsKept
  <2>. QED BY <1>7, <2>1, <2>2 DEF SweepIdentify
<1>8. CASE SweepJob
  <2>1. \A pc \in {"enqueue", "closing"} : [sweep EXCEPT !.pc = pc] \in Cursor
    BY <1>1 DEF Cursor
  <2>2. \A b \in BOOLEAN :
          [by |-> Sweeper, delivery |-> DeliveryOf(sweep.scan), onlyStale |-> b] \in ClosingCall
    BY <1>3 DEF ClosingCall
  <2>3. sweep' \in Cursor /\ closings' \subseteq ClosingCall
    BY <1>8, <2>1, <2>2, <1>4 DEF SweepJob, TypeOK
  <2>. QED BY <1>8, <2>3 DEF SweepJob, UnchangedBySweep, TypeOK, BudgetsKept
<1>9. CASE SweepEnqueue
  <2>1. jobs' \in [ScanId -> Job(Delivery)] /\ BudgetsKept'
    BY <1>3, <1>9, AddedTyped DEF SweepEnqueue
  <2>. QED BY <1>4, <1>9, <2>1 DEF SweepEnqueue, UnchangedBySweep, TypeOK
<1>10. CASE SweepClosed
  BY <1>4, <1>10 DEF SweepClosed, UnchangedBySweep, TypeOK, BudgetsKept
<1>11. CASE SweepAborts
  <2>1. faults' \in 0..MaxFaults /\ closings' \subseteq ClosingCall
    BY <1>11, ArchiveAssumption DEF SweepAborts, Fault, TypeOK
  <2>. QED BY <1>4, <1>11, <2>1 DEF SweepAborts, TypeOK, BudgetsKept
<1>. QED BY <1>5, <1>6, <1>7, <1>8, <1>9, <1>10, <1>11 DEF Sweep

-----------------------------------------------------------------------------
(* Types: the whole system. *)

\* Initially everything is typed and the queue within its budgets.
LEMMA InitTyped == Init => TypeOK /\ BudgetsKept
<1>. SUFFICES ASSUME Init PROVE TypeOK /\ BudgetsKept
  OBVIOUS
<1>1. PICK w \in Workers : TRUE
  BY QueueAssumption
<1>2. 1 \in FileId /\ 0 \in ScanId /\ 0 \in FileId
  BY NothingTyped, ArchiveAssumption DEF FileId
<1>3. \A status \in Pending : [QueuedScan(0, 1) EXCEPT !.status = status] \in Scan
  BY <1>2 DEF QueuedScan, Scan
<1>4. ds \in Dataset
  BY <1>2, <1>3, NothingTyped DEF Init, Dataset
<1>5. ds.scan \in Scan
  BY <1>4 DEF Dataset
<1>6. DeliveryOf(ds.scan) \in Delivery /\ NoDelivery \in Delivery
  BY <1>5, ScanTyped, NothingTyped
<1>7. /\ NoJob(NoDelivery) \in Job(Delivery) /\ Budgeted(NoJob(NoDelivery))
      /\ Fresh(DeliveryOf(ds.scan)) \in Job(Delivery) /\ Budgeted(Fresh(DeliveryOf(ds.scan)))
  BY <1>6, QueueAssumption DEF NoJob, Fresh, Job, Budgeted, JobState
<1>8. jobs \in [ScanId -> Job(Delivery)] /\ BudgetsKept
  <2>1. PICK job \in {NoJob(NoDelivery), Fresh(DeliveryOf(ds.scan))} :
          jobs = [j \in ScanId |-> IF j = 0 THEN job ELSE NoJob(NoDelivery)]
    BY DEF Init
  <2>. QED BY <1>7, <2>1 DEF BudgetsKept
<1>9. store \in [Files -> FileState] /\ scanned \in ScanId /\ faults \in 0..MaxFaults
  <2>1. store = [f \in Files |-> IF f = ds.archive THEN "complete" ELSE "none"]
    BY DEF Init
  <2>2. scanned = 0 /\ faults = 0
    BY DEF Init
  <2>. QED BY <2>1, <2>2, <1>2, ArchiveAssumption DEF FileState
<1>10. work \in [Workers -> Processor] /\ reqs \in [Clients -> Request] /\ sweep \in Cursor
  BY NothingTyped DEF Init
<1>11. closings \subseteq ClosingCall
  BY DEF Init
<1>. QED BY <1>4, <1>8, <1>9, <1>10, <1>11 DEF TypeOK

\* Each step of the rest of the world keeps types and budgets.
LEMMA WorldTyped ==
    ASSUME TypeOK, BudgetsKept,
           \/ \E j \in ScanId : LoseJob(j)
           \/ \E f \in Files : Upload(f)
           \/ Use \/ Release \/ Trash \/ Restore \/ Age
           \/ UNCHANGED vars
    PROVE  TypeOK' /\ BudgetsKept'
<1>1. ASSUME NEW j \in ScanId, LoseJob(j)
      PROVE  TypeOK' /\ BudgetsKept'
  <2>1. NoJob(NoDelivery) \in Job(Delivery) /\ Budgeted(NoJob(NoDelivery))
    BY NothingTyped, QueueAssumption DEF NoJob, Job, Budgeted, JobState
  <2>2. jobs' \in [ScanId -> Job(Delivery)] /\ BudgetsKept'
    BY <1>1, <2>1, JobsTyped DEF LoseJob
  <2>3. faults' \in 0..MaxFaults
    BY <1>1, ArchiveAssumption DEF LoseJob, Fault, TypeOK
  <2>. QED BY <1>1, <2>2, <2>3 DEF LoseJob, TypeOK
<1>2. ASSUME NEW f \in Files, Upload(f)
      PROVE  TypeOK' /\ BudgetsKept'
  BY <1>2 DEF Upload, TypeOK, BudgetsKept, FileState
<1>3. CASE Use \/ Release \/ Trash \/ Restore \/ Age
  <2>1. ds' \in Dataset
    BY <1>3, DocumentTyped DEF Use, Release, Trash, Restore, Age
  <2>. QED
    BY <1>3, <2>1 DEF Use, Release, Trash, Restore, Age, Elsewhere, TypeOK, BudgetsKept
<1>4. CASE UNCHANGED vars
  BY <1>4 DEF vars, TypeOK, BudgetsKept
<1>. QED BY <1>1, <1>2, <1>3, <1>4

\* Each step of the system does.
LEMMA StepTyped ==
    ASSUME TypeOK, BudgetsKept, [Next]_vars
    PROVE  TypeOK' /\ BudgetsKept'
BY AskTyped, WorkerTyped, RecoveryTyped, WorldTyped DEF Next

\* Every state of the zip's life is typed, no queue job is locked unless a worker has it, and a
\* delivery that has not failed for good has an attempt left (importQueue.ts's job options).
THEOREM ArchiveTyping == Spec => [](TypeOK /\ BudgetsKept)
<1>1. (TypeOK /\ BudgetsKept) /\ [Next]_vars => (TypeOK /\ BudgetsKept)'
  BY StepTyped
<1>. QED BY InitTyped, <1>1, PTL DEF Spec

-----------------------------------------------------------------------------
(* What is done to the document and to storage away from requests. *)

\* A step of the worker, of a closing call or of the sweep leaves the document as it is, or takes
\* the scan it records on; a scan that is over it leaves alone.
ScanGoesOn ==
    \/ ds'.scan = ds.scan /\ ds'.contents = ds.contents /\ scanned' = scanned
    \/ /\ ds.scan.status \in Pending
       /\ ds'.scan.status \in Pending \cup {"done", "failed"}
       /\ ds'.scan.file = ds.scan.file
       /\ ds'.contents = IF ds'.scan.status = "done" THEN ds.scan.file ELSE ds.contents
       /\ \/ ds'.scan.id = ds.scan.id /\ scanned' = scanned
          \/ ds'.scan.id = scanned + 1 /\ scanned' = scanned + 1

\* Such a step and those of the rest of the world touch nothing a request relies on.
LEMMA ElsewhereEffect ==
    ASSUME TypeOK, [Next]_vars, \A c \in Clients : ~Ask(c)
    PROVE  /\ ScanGoesOn
           /\ UNCHANGED <<reqs, ds.archive, ds.pending, ds.discarding>>
           /\ UNCHANGED store \/ \E f \in Files : Upload(f)
<1>1. ds \in Dataset /\ ds.scan \in Scan
  BY DEF TypeOK, Dataset
<1>2. ASSUME UNCHANGED <<ds, reqs, scanned, store>>
      PROVE  /\ ScanGoesOn
             /\ UNCHANGED <<reqs, ds.archive, ds.pending, ds.discarding>>
             /\ UNCHANGED store \/ \E f \in Files : Upload(f)
  BY <1>2 DEF ScanGoesOn
<1>3. ASSUME NEW w \in Workers,
             Take(w) \/ ReadIndex(w) \/ EndAttempt(w) \/ ScanError(w) \/ Crash(w) \/ LoseLock(w)
             \/ \E j \in ScanId : CheckStalled(w, j)
      PROVE  UNCHANGED <<ds, reqs, scanned, store>>
  BY <1>3 DEF Take, ReadIndex, EndAttempt, ScanError, Crash, LoseLock, CheckStalled, OnlyScan,
              UnchangedByWork
<1>4. ASSUME NEW w \in Workers, StartScan(w) \/ ScanHeartbeat(w)
      PROVE  ScanGoesOn /\ UNCHANGED <<reqs, store, ds.archive, ds.pending, ds.discarding>>
  <2>1. UNCHANGED <<reqs, store, scanned>>
    BY <1>4 DEF StartScan, ScanHeartbeat, OnlyScan, UnchangedByWork
  <2>2. \/ ds' = ds
        \/ /\ ds.scan.status \in Pending
           /\ \/ ds' = [ds EXCEPT !.scan.status = "running", !.scan.stale = FALSE]
              \/ ds' = [ds EXCEPT !.scan.stale = FALSE]
    BY <1>4 DEF StartScan, ScanHeartbeat, Runs, Pending
  <2>3. UNCHANGED <<ds.archive, ds.pending, ds.discarding>> /\ ds'.contents = ds.contents
    BY <1>1, <2>2 DEF Dataset
  <2>4. \/ ds'.scan = ds.scan
        \/ /\ ds.scan.status \in Pending
           /\ ds'.scan.status \in Pending
           /\ ds'.scan.file = ds.scan.file /\ ds'.scan.id = ds.scan.id
    <3>1. \/ ds'.scan = ds.scan
          \/ /\ ds.scan.status \in Pending
             /\ \/ ds'.scan = [ds.scan EXCEPT !.status = "running", !.stale = FALSE]
                \/ ds'.scan = [ds.scan EXCEPT !.stale = FALSE]
      BY <1>1, <2>2 DEF Dataset
    <3>. QED BY <1>1, <3>1 DEF Scan, Pending
  <2>5. ScanGoesOn
    BY <2>1, <2>3, <2>4 DEF ScanGoesOn, Pending
  <2>. QED BY <2>1, <2>3, <2>5
<1>5. ASSUME NEW w \in Workers, FinishScan(w)
      PROVE  ScanGoesOn /\ UNCHANGED <<reqs, store, ds.archive, ds.pending, ds.discarding>>
  BY <1>1, <1>5 DEF FinishScan, Runs, ScanDelivery, DeliveryOf, OnlyScan, UnchangedByWork,
                    ScanGoesOn, Dataset, Scan, Pending
<1>6. ASSUME NEW call \in closings, MarkScanFailed(call)
      PROVE  ScanGoesOn /\ UNCHANGED <<reqs, store, ds.archive, ds.pending, ds.discarding>>
  BY <1>1, <1>6 DEF MarkScanFailed, UnchangedByWork, ScanGoesOn, Dataset, Scan
<1>7. CASE SweepIdentify
  <2>1. ScanGoesOn /\ UNCHANGED <<ds.archive, ds.pending, ds.discarding>>
    BY <1>1, <1>7 DEF SweepIdentify, Anonymous, ScanGoesOn, Dataset, Scan, Pending
  <2>. QED BY <1>7, <2>1 DEF SweepIdentify, UnchangedBySweep
<1>8. CASE SweepRead \/ SweepJob \/ SweepEnqueue \/ SweepClosed \/ SweepAborts
  BY <1>2, <1>8 DEF SweepRead, SweepJob, SweepEnqueue, SweepClosed, SweepAborts, UnchangedBySweep
<1>9. CASE UNCHANGED vars \/ \E j \in ScanId : LoseJob(j)
  BY <1>2, <1>9 DEF vars, LoseJob
<1>10. ASSUME NEW f \in Files, Upload(f)
       PROVE  /\ ScanGoesOn
              /\ UNCHANGED <<reqs, ds.archive, ds.pending, ds.discarding>>
              /\ \E g \in Files : Upload(g)
  BY <1>10 DEF Upload, ScanGoesOn
<1>11. CASE Use \/ Release \/ Trash \/ Restore \/ Age
  <2>1. UNCHANGED <<reqs, store, scanned>>
    BY <1>11 DEF Use, Release, Trash, Restore, Age, Elsewhere
  <2>2. CASE Use \/ Release \/ Trash \/ Restore
    BY <1>1, <2>1, <2>2 DEF Use, Release, Trash, Restore, ScanGoesOn, Dataset
  <2>3. CASE Age
    BY <1>1, <2>1, <2>3 DEF Age, ScanGoesOn, Dataset, Scan, Pending
  <2>. QED BY <1>11, <2>1, <2>2, <2>3
<1>. QED
  BY <1>2, <1>3, <1>4, <1>5, <1>6, <1>7, <1>8, <1>9, <1>10, <1>11 DEF Next, Progress, Sweep

\* A request leaves the scan, what was read and the archive alone, unless it adopts a zip or asks
\* for a new scan of the archive it saw.
LEMMA AskScans ==
    ASSUME TypeOK, NEW c \in Clients, Ask(c)
    PROVE  \/ UNCHANGED <<ds.scan, ds.contents, ds.archive, scanned>>
           \/ Adopt(c)
           \/ QueueScan(c)
<1>1. ds \in Dataset
  BY DEF TypeOK
<1>2. CASE Pend(c) \/ Claim(c) \/ Unset(c)
  BY <1>1, <1>2 DEF Pend, Claim, Unset, Dataset
<1>3. CASE ReadUpload(c) \/ ReadDiscard(c) \/ ReadComplete(c) \/ ReadRescan(c)
  BY <1>3 DEF ReadUpload, ReadDiscard, ReadComplete, ReadRescan, Read, OnlyRequest
<1>4. CASE SizeOfPending(c) \/ ResumeReservation(c) \/ BytesOfPending(c) \/ Conflict(c)
  BY <1>4 DEF SizeOfPending, ResumeReservation, BytesOfPending, Conflict, OnlyRequest
<1>5. CASE Extend(c) \/ Reserve(c) \/ DropPending(c) \/ DropPendingFails(c) \/ DropDiscarded(c)
           \/ DropOld(c) \/ Enqueue(c) \/ Abandon(c)
  BY <1>5 DEF Extend, Reserve, DropPending, DropPendingFails, DropDiscarded, DropOld, Enqueue,
              Abandon
<1>. QED BY <1>2, <1>3, <1>4, <1>5 DEF Ask

\* What an adoption and a new scan record.
LEMMA Recording ==
    ASSUME TypeOK, NEW c \in Clients
    PROVE  /\ Adopt(c) =>
                /\ ds' = [ds EXCEPT !.archive = ds.pending, !.pending = 0, !.contents = 0,
                                    !.scan = QueuedScan(scanned + 1, ds.pending)]
                /\ ArchiveMutation(c)
           /\ QueueScan(c) =>
                /\ ds' = [ds EXCEPT !.scan = QueuedScan(scanned + 1, ds.archive)]
           /\ Adopt(c) \/ QueueScan(c) => scanned' = scanned + 1
<1>1. ds \in Dataset
  BY DEF TypeOK
<1>. QED BY <1>1 DEF Adopt, QueueScan, Record, StillArchive, Dataset

-----------------------------------------------------------------------------
(* The scan is of the archive. *)

\* It is initially, also where an older release queued it.
LEMMA InitScan == Init => ScanOfArchive
<1>. SUFFICES ASSUME Init PROVE ScanOfArchive
  OBVIOUS
<1>1. scanned = 0
  BY DEF Init
<1>2. CASE ds \in {NewDataset, [NewDataset EXCEPT !.archive = 1]}
  BY <1>1, <1>2 DEF NewDataset, NoScan, ScanOfArchive, ContentsOfArchive
<1>3. ASSUME NEW status \in Pending,
             ds = [NewDataset EXCEPT !.archive = 1,
                                     !.scan = [QueuedScan(0, 1) EXCEPT !.status = status]]
      PROVE  ScanOfArchive
  BY <1>1, <1>3 DEF NewDataset, QueuedScan, Pending, ScanOfArchive, ContentsOfArchive
<1>. QED BY <1>2, <1>3 DEF Init

\* Each step keeps it.
LEMMA StepScan ==
    ASSUME TypeOK, ScanOfArchive, [Next]_vars
    PROVE  ScanOfArchive'
<1>1. ds \in Dataset /\ ds.scan \in Scan /\ scanned \in Nat /\ ds.scan.id \in Nat
  BY ArchiveAssumption DEF TypeOK, Dataset, Scan, ScanId
<1>2. CASE \A c \in Clients : ~Ask(c)
  <2>1. ScanGoesOn /\ ds'.archive = ds.archive
    BY <1>2, ElsewhereEffect
  <2>. QED BY <1>1, <2>1 DEF ScanGoesOn, ScanOfArchive, ContentsOfArchive, Pending
<1>3. ASSUME NEW c \in Clients, Ask(c)
      PROVE  ScanOfArchive'
  <2>1. CASE UNCHANGED <<ds.scan, ds.contents, ds.archive, scanned>>
    BY <2>1 DEF ScanOfArchive, ContentsOfArchive
  <2>2. CASE Adopt(c) \/ QueueScan(c)
    <3>1. /\ ds'.scan = QueuedScan(scanned + 1, ds'.archive)
          /\ scanned' = scanned + 1
          /\ ds'.contents # 0 => ds'.contents = ds.contents /\ ds'.archive = ds.archive
      BY <1>1, <2>2, Recording DEF Dataset
    <3>. QED BY <1>1, <3>1 DEF QueuedScan, ScanOfArchive, ContentsOfArchive
  <2>. QED BY <1>3, <2>1, <2>2, AskScans
<1>. QED BY <1>2, <1>3

-----------------------------------------------------------------------------
(* Storage: nothing that is referred to is deleted. *)

\* A request that goes on leaves the others where they are.
LEMMA OthersStay ==
    ASSUME TypeOK, NEW c \in Clients, NEW r, Continue(c, r)
    PROVE  reqs'[c] = r /\ \A d \in Clients \ {c} : reqs'[d] = reqs[d]
BY DEF TypeOK, Continue

\* The files of a document and of requests are files, or missing.
LEMMA FilesTyped ==
    ASSUME TypeOK
    PROVE  /\ ds.pending \in {0} \cup Files /\ ds.archive \in {0} \cup Files
           /\ \A c \in Clients : /\ reqs[c].pending \in {0} \cup Files
                                 /\ reqs[c].archive \in {0} \cup Files
                                 /\ reqs[c].file \in {0} \cup Files
           /\ 0 \notin Files
<1>1. FileId = {0} \cup Files /\ 0 \notin Files
  BY ArchiveAssumption DEF FileId, Files
<1>. QED BY <1>1 DEF TypeOK, Dataset, Request

\* At the beginning there are no requests, and the archive, if any, is stored.
LEMMA InitStorage == Init => Storage
<1>. SUFFICES ASSUME Init PROVE Storage
  OBVIOUS
<1>1. ds.pending = 0 /\ ds.archive \in {0, 1}
  <2>1. \A scan : [NewDataset EXCEPT !.archive = 1, !.scan = scan].pending = 0
                 /\ [NewDataset EXCEPT !.archive = 1, !.scan = scan].archive = 1
    BY DEF NewDataset
  <2>2. CASE ds \in {NewDataset, [NewDataset EXCEPT !.archive = 1]}
    BY <2>2 DEF NewDataset
  <2>. QED BY <2>1, <2>2 DEF Init
<1>2. \A f \in Files : f \in Recorded => store[f] = "complete"
  BY <1>1 DEF Init, Recorded
<1>3. \A c \in Clients : reqs[c] = NoRequest
  BY DEF Init
<1>4. 0 \notin Files /\ 1 \in Files
  BY ArchiveAssumption DEF Files
<1>5. KnownFiles
  BY <1>2, <1>3, <1>4 DEF KnownFiles, Remembered, NoRequest
<1>6. ReservedAlone /\ DropsAreSafe
  BY <1>1, <1>3 DEF ReservedAlone, DropsAreSafe, DropIsSafe, NoRequest
<1>7. ReferencedStored
  BY <1>1, <1>2, <1>4 DEF ReferencedStored, Recorded
<1>. QED BY <1>5, <1>6, <1>7 DEF Storage

\* The steps that are not a request's keep it.
LEMMA ElsewhereStorage ==
    ASSUME TypeOK, Storage, [Next]_vars, \A c \in Clients : ~Ask(c)
    PROVE  Storage'
<1>1. UNCHANGED <<reqs, ds.archive, ds.pending, ds.discarding>>
  BY ElsewhereEffect
<1>2. \A f \in Files : \/ store'[f] = store[f]
                       \/ store[f] = "uploading" /\ store'[f] = "complete"
  BY ElsewhereEffect DEF Upload, TypeOK
<1>. USE FilesTyped
<1>3. KnownFiles'
  BY <1>1, <1>2 DEF Storage, KnownFiles, Recorded, Remembered
<1>4. ReservedAlone'
  BY <1>1, <1>2 DEF Storage, ReservedAlone, Alone, Recorded, Remembered
<1>5. DropsAreSafe'
  BY <1>1, <1>2 DEF Storage, DropsAreSafe, DropIsSafe, Recorded
<1>6. ReferencedStored'
  BY <1>1, <1>2 DEF Storage, ReferencedStored
<1>. QED BY <1>3, <1>4, <1>5, <1>6 DEF Storage

\* A request that neither changes anything nor is about to, and knows no file it did not know but
\* those it reads in the document.
LEMMA QuietStorage ==
    ASSUME TypeOK, Storage, NEW c \in Clients, NEW r \in Request, Continue(c, r),
           UNCHANGED <<store, ds.archive, ds.pending, ds.discarding>>,
           r.pc \notin {"pend", "dropPending", "dropDiscarded", "dropOld"},
           {r.pending, r.archive} \ {0} \subseteq Recorded \cup Remembered(c),
           r.file \in {0, reqs[c].file},
           r.pc \in {"claim", "bytes", "adopt"} => r.pending # 0,
           r.pc = "adopt" => store[r.pending] = "complete"
    PROVE  Storage'
<1>1. reqs'[c] = r /\ \A d \in Clients \ {c} : reqs'[d] = reqs[d]
  BY OthersStay
<1>2. Recorded' = Recorded
  BY DEF Recorded
<1>3. Remembered(c)' \subseteq Recorded \cup Remembered(c)
  BY <1>1 DEF Remembered
<1>4. \A d \in Clients \ {c} : Remembered(d)' = Remembered(d)
  BY <1>1 DEF Remembered
<1>. USE FilesTyped
<1>5. KnownFiles'
  BY <1>1, <1>2, <1>3, <1>4 DEF Storage, KnownFiles
<1>6. ReservedAlone'
  BY <1>1, <1>2, <1>3, <1>4 DEF Storage, ReservedAlone, Alone
<1>7. DropsAreSafe'
  BY <1>1, <1>2 DEF Storage, DropsAreSafe, DropIsSafe
<1>8. ReferencedStored'
  BY DEF Storage, ReferencedStored
<1>. QED BY <1>5, <1>6, <1>7, <1>8 DEF Storage

\* A request that is over or nearly, and changes files it knows: it hands out the URL of a
\* reserved one, or deletes one that is not referred to or is being discarded.
LEMMA FileStorage ==
    ASSUME TypeOK, Storage, NEW c \in Clients, NEW r \in Request, Continue(c, r),
           UNCHANGED <<ds.archive, ds.pending, ds.discarding>>,
           r.pc \in {"idle", "unset", "enqueue"},
           r.pending \in {0, reqs[c].pending}, r.archive \in {0, reqs[c].archive},
           r.file \in {0, reqs[c].file},
           \A f \in Files :
              \/ store'[f] = store[f]
              \/ /\ f \in Remembered(c) \cup {reqs[c].file}
                 /\ reqs[c].pc # "pend"
                 /\ store[f] = "reserved" /\ store'[f] = "uploading"
              \/ /\ f \in Remembered(c)
                 /\ f # ds.archive /\ (f = ds.pending => ds.discarding)
                 /\ store'[f] = "retired"
    PROVE  Storage'
<1>1. reqs'[c] = r /\ \A d \in Clients \ {c} : reqs'[d] = reqs[d]
  BY OthersStay
<1>2. Recorded' = Recorded
  BY DEF Recorded
<1>3. Remembered(c)' \subseteq Remembered(c)
  BY <1>1 DEF Remembered
<1>4. \A d \in Clients \ {c} : Remembered(d)' = Remembered(d)
  BY <1>1 DEF Remembered
<1>. USE FilesTyped
<1>5. KnownFiles'
  BY <1>1, <1>2, <1>3, <1>4 DEF Storage, KnownFiles
<1>6. ReservedAlone'
  <2>. SUFFICES ASSUME NEW d \in Clients, reqs'[d].pc = "pend"
                PROVE  Alone(d)'
    BY DEF ReservedAlone
  <2>1. d # c /\ reqs'[d] = reqs[d]
    BY <1>1
  <2>2. /\ reqs[d].file \in Files \ Recorded /\ store[reqs[d].file] = "reserved"
        /\ \A e \in Clients : reqs[d].file \notin Remembered(e)
        /\ \A e \in Clients \ {d} : reqs[e].file # reqs[d].file
    BY <2>1 DEF Storage, ReservedAlone, Alone
  <2>3. store'[reqs[d].file] = "reserved"
    BY <2>1, <2>2
  <2>. QED BY <1>1, <1>2, <1>3, <1>4, <2>1, <2>2, <2>3 DEF Alone
<1>7. DropsAreSafe'
  BY <1>1, <1>2 DEF Storage, DropsAreSafe, DropIsSafe
<1>8. ReferencedStored'
  BY DEF Storage, ReferencedStored
<1>. QED BY <1>5, <1>6, <1>7, <1>8 DEF Storage

\* A new reservation: the file is one that nothing refers to.
LEMMA ReserveStorage ==
    ASSUME TypeOK, Storage, NEW c \in Clients, Reserve(c)
    PROVE  Storage'
<1>1. PICK f \in Files : Reserve(c)!2!(f)
  BY DEF Reserve
<1>2. UNCHANGED <<ds, scanned, jobs>>
  BY DEF Reserve
<1>3. /\ reqs'[c] = [reqs[c] EXCEPT !.pc = "pend", !.file = f]
      /\ \A d \in Clients \ {c} : reqs'[d] = reqs[d]
  BY <1>1, OthersStay
<1>4. /\ reqs'[c].pc = "pend" /\ reqs'[c].file = f
      /\ reqs'[c].pending = reqs[c].pending /\ reqs'[c].archive = reqs[c].archive
  BY <1>3 DEF TypeOK, Request
<1>5. store[f] = "none" /\ store'[f] = "reserved" /\ \A g \in Files \ {f} : store'[g] = store[g]
  BY <1>1 DEF TypeOK
<1>6. /\ f \notin Recorded
      /\ \A d \in Clients : f \notin Remembered(d) /\ f # reqs[d].file
  BY <1>5 DEF Storage, KnownFiles
<1>7. Recorded' = Recorded /\ \A d \in Clients : Remembered(d)' = Remembered(d)
  BY <1>2, <1>3, <1>4 DEF Recorded, Remembered
<1>. USE FilesTyped
<1>8. KnownFiles'
  <2>1. \A d \in Clients : reqs'[d].file \in {f, reqs[d].file}
    BY <1>3, <1>4
  <2>2. \A g \in Files :
          g \in Recorded' \/ (\E d \in Clients : g \in Remembered(d)' \cup {reqs'[d].file})
            => \/ g = f
               \/ g \in Recorded \/ \E d \in Clients : g \in Remembered(d) \cup {reqs[d].file}
    BY <1>7, <2>1
  <2>. QED BY <1>5, <2>2 DEF Storage, KnownFiles
<1>9. ReservedAlone'
  <2>. SUFFICES ASSUME NEW d \in Clients, reqs'[d].pc = "pend"
                PROVE  Alone(d)'
    BY DEF ReservedAlone
  <2>1. CASE d = c
    <3>1. reqs'[d].file = f /\ f \in Files \ Recorded' /\ store'[f] = "reserved"
      BY <1>4, <1>5, <1>6, <1>7, <2>1
    <3>2. \A e \in Clients : f \notin Remembered(e)'
      BY <1>6, <1>7
    <3>3. \A e \in Clients \ {d} : reqs'[e].file # f
      BY <1>3, <1>6, <2>1
    <3>. QED BY <3>1, <3>2, <3>3 DEF Alone
  <2>2. CASE d # c
    <3>1. /\ reqs'[d] = reqs[d] /\ reqs[d].file \in Files \ Recorded
          /\ store[reqs[d].file] = "reserved"
          /\ \A e \in Clients : reqs[d].file \notin Remembered(e)
          /\ \A e \in Clients \ {d} : reqs[e].file # reqs[d].file
      BY <1>3, <2>2 DEF Storage, ReservedAlone, Alone
    <3>2. reqs[d].file # f
      BY <1>6
    <3>3. store'[reqs[d].file] = "reserved"
      BY <1>5, <3>1, <3>2
    <3>4. \A e \in Clients \ {d} : reqs'[e].file # reqs[d].file
      BY <1>3, <1>4, <3>1, <3>2
    <3>. QED BY <1>7, <3>1, <3>3, <3>4 DEF Alone
  <2>. QED BY <2>1, <2>2
<1>10. DropsAreSafe'
  <2>1. \A d \in Clients : reqs[d].pc = "adopt" => reqs[d].pending # f
    BY <1>5 DEF Storage, DropsAreSafe, DropIsSafe
  <2>2. ASSUME NEW d \in Clients
        PROVE  DropIsSafe(d)'
    <3>1. /\ DropIsSafe(d)
          /\ reqs'[d].pending = reqs[d].pending /\ reqs'[d].archive = reqs[d].archive
          /\ reqs'[d].pc \in {reqs[d].pc, "pend"}
      BY <1>3, <1>4 DEF Storage, DropsAreSafe
    <3>. QED BY <1>2, <1>5, <1>7, <2>1, <3>1 DEF DropIsSafe
  <2>. QED BY <1>2, <2>2 DEF Storage, DropsAreSafe
<1>11. ReferencedStored'
  BY <1>2, <1>5 DEF Storage, ReferencedStored
<1>. QED BY <1>8, <1>9, <1>10, <1>11 DEF Storage

\* The document records the reservation in the place of the upload the request saw, which nothing
\* refers to from then on.
LEMMA PendStorage ==
    ASSUME TypeOK, Storage, NEW c \in Clients, Pend(c)
    PROVE  Storage'
<1>1. /\ ds.pending = reqs[c].pending /\ ds.discarding = FALSE
      /\ reqs[c].pc = "pend" /\ store' = store
  BY DEF Pend, ArchiveMutation, StillPending, TypeOK, Dataset
<1>2. ds'.pending = reqs[c].file /\ ds'.archive = ds.archive /\ ds'.discarding = FALSE
  BY <1>1 DEF Pend, TypeOK, Dataset
<1>3. /\ reqs'[c] = [reqs[c] EXCEPT !.pc = "dropPending"]
      /\ \A d \in Clients \ {c} : reqs'[d] = reqs[d]
  BY OthersStay DEF Pend, Goto
<1>4. /\ reqs'[c].pc = "dropPending" /\ reqs'[c].file = reqs[c].file
      /\ reqs'[c].pending = reqs[c].pending /\ reqs'[c].archive = reqs[c].archive
  BY <1>3 DEF TypeOK, Request
<1>5. /\ reqs[c].file \in Files \ Recorded /\ store[reqs[c].file] = "reserved"
      /\ \A d \in Clients : reqs[c].file \notin Remembered(d)
      /\ \A d \in Clients \ {c} : reqs[d].file # reqs[c].file
  BY <1>1 DEF Storage, ReservedAlone, Alone
<1>6. Recorded' \subseteq Recorded \cup {reqs[c].file}
  BY <1>2 DEF Recorded
<1>7. \A d \in Clients : Remembered(d)' = Remembered(d)
  BY <1>3, <1>4 DEF Remembered
<1>. USE FilesTyped
<1>8. KnownFiles'
  <2>1. \A d \in Clients : reqs'[d].file = reqs[d].file
    BY <1>3, <1>4
  <2>2. \A f \in Files :
          f \in Recorded' \/ (\E d \in Clients : f \in Remembered(d)' \cup {reqs'[d].file})
            => f \in Recorded \/ \E d \in Clients : f \in Remembered(d) \cup {reqs[d].file}
    BY <1>6, <1>7, <2>1
  <2>. QED BY <1>1, <2>2 DEF Storage, KnownFiles
<1>9. ReservedAlone'
  <2>. SUFFICES ASSUME NEW d \in Clients, reqs'[d].pc = "pend"
                PROVE  Alone(d)'
    BY DEF ReservedAlone
  <2>1. d # c /\ reqs'[d] = reqs[d]
    BY <1>3, <1>4
  <2>2. /\ reqs[d].file \in Files \ Recorded /\ store[reqs[d].file] = "reserved"
        /\ \A e \in Clients : reqs[d].file \notin Remembered(e)
        /\ \A e \in Clients \ {d} : reqs[e].file # reqs[d].file
    BY <2>1 DEF Storage, ReservedAlone, Alone
  <2>3. reqs[c].file # reqs[d].file
    BY <1>5, <2>1
  <2>4. reqs'[d].file \in Files \ Recorded'
    BY <1>6, <2>1, <2>2, <2>3
  <2>5. \A e \in Clients \ {d} : reqs'[e].file # reqs'[d].file
    <3>1. \A e \in Clients : reqs'[e].file = reqs[e].file
      BY <1>3, <1>4
    <3>. QED BY <2>2, <3>1
  <2>. QED BY <1>1, <1>7, <2>1, <2>2, <2>4, <2>5 DEF Alone
<1>10. DropsAreSafe'
  <2>1. ds'.pending # ds'.archive
    BY <1>2, <1>5 DEF Recorded
  <2>2. reqs'[c].pending \notin Recorded'
    BY <1>1, <1>2, <1>4, <1>5 DEF Storage, DropsAreSafe, DropIsSafe, Recorded, Remembered
  <2>3. DropIsSafe(c)'
    BY <1>4, <2>2 DEF DropIsSafe
  <2>4. ASSUME NEW d \in Clients \ {c}
        PROVE  DropIsSafe(d)'
    <3>1. /\ reqs'[d] = reqs[d] /\ DropIsSafe(d)
          /\ reqs[d].pending # reqs[c].file /\ reqs[d].archive # reqs[c].file
      BY <1>3, <1>5 DEF Storage, DropsAreSafe, Remembered
    <3>. QED BY <1>1, <1>2, <1>6, <3>1 DEF DropIsSafe
  <2>. QED BY <2>1, <2>3, <2>4 DEF DropsAreSafe
<1>11. ReferencedStored'
  BY <1>1, <1>2, <1>5 DEF Storage, ReferencedStored
<1>. QED BY <1>8, <1>9, <1>10, <1>11 DEF Storage

\* The pending upload becomes the archive; the one it replaces nothing refers to from then on.
LEMMA AdoptStorage ==
    ASSUME TypeOK, Storage, NEW c \in Clients, Adopt(c)
    PROVE  Storage'
<1>1. /\ ds.pending = reqs[c].pending /\ ds.discarding = FALSE
      /\ reqs[c].pc = "adopt" /\ store' = store
  BY DEF Adopt, Record, ArchiveMutation, StillPending, TypeOK, Dataset
<1>2. ds'.pending = 0 /\ ds'.archive = ds.pending /\ ds'.discarding = FALSE
  BY <1>1, Recording DEF TypeOK, Dataset
<1>3. PICK scan : Continue(c, [[NoRequest EXCEPT !.pc = "dropOld", !.archive = ds.archive]
                                 EXCEPT !.scan = scan])
  BY DEF Adopt, Record
<1>4. /\ reqs'[c].pc = "dropOld" /\ reqs'[c].archive = ds.archive
      /\ reqs'[c].pending = 0 /\ reqs'[c].file = 0
      /\ \A d \in Clients \ {c} : reqs'[d] = reqs[d]
  <2>1. /\ reqs'[c] = [[NoRequest EXCEPT !.pc = "dropOld", !.archive = ds.archive]
                          EXCEPT !.scan = scan]
        /\ \A d \in Clients \ {c} : reqs'[d] = reqs[d]
    BY <1>3, OthersStay
  <2>. QED BY <2>1 DEF NoRequest
<1>5. ds.pending # 0 /\ ds.pending # ds.archive /\ store[ds.pending] = "complete"
  BY <1>1 DEF Storage, DropsAreSafe, DropIsSafe, ReferencedStored
<1>6. Recorded' \subseteq Recorded
  BY <1>2 DEF Recorded
<1>7. /\ Remembered(c)' \subseteq Recorded
      /\ \A d \in Clients \ {c} : Remembered(d)' = Remembered(d)
  BY <1>4 DEF Remembered, Recorded
<1>. USE FilesTyped
<1>8. KnownFiles'
  BY <1>1, <1>4, <1>6, <1>7 DEF Storage, KnownFiles
<1>9. ReservedAlone'
  BY <1>1, <1>4, <1>6, <1>7 DEF Storage, ReservedAlone, Alone
<1>10. DropsAreSafe'
  BY <1>1, <1>2, <1>4, <1>5 DEF Storage, DropsAreSafe, DropIsSafe, Recorded
<1>11. ReferencedStored'
  BY <1>1, <1>2, <1>5 DEF Storage, ReferencedStored
<1>. QED BY <1>8, <1>9, <1>10, <1>11 DEF Storage

\* An upload is claimed for discarding, or is gone: no other request is sent after it.
LEMMA DiscardStorage ==
    ASSUME TypeOK, Storage, NEW c \in Clients, Claim(c) \/ Unset(c)
    PROVE  Storage'
<1>1. /\ store' = store /\ ds'.archive = ds.archive /\ ds'.pending \in {0, ds.pending}
      /\ Claim(c) => ds'.pending = ds.pending /\ ds'.discarding = TRUE /\ reqs[c].pc = "claim"
                     /\ reqs[c].pending = ds.pending
      /\ Unset(c) => ds'.pending = 0
  BY DEF Claim, Unset, StillPending, TypeOK, Dataset
<1>2. /\ Claim(c) => Continue(c, [reqs[c] EXCEPT !.pc = "dropDiscarded"])
      /\ Unset(c) => Continue(c, NoRequest)
  BY DEF Claim, Unset, Goto, Done
<1>3. /\ Claim(c) => reqs'[c] = [reqs[c] EXCEPT !.pc = "dropDiscarded"]
      /\ Unset(c) => reqs'[c] = NoRequest
      /\ \A d \in Clients \ {c} : reqs'[d] = reqs[d]
  BY <1>2, OthersStay
<1>4. /\ reqs'[c].pending \in {0, reqs[c].pending} /\ reqs'[c].archive \in {0, reqs[c].archive}
      /\ reqs'[c].file \in {0, reqs[c].file}
      /\ Claim(c) => reqs'[c].pc = "dropDiscarded" /\ reqs'[c].pending = ds.pending
      /\ Unset(c) => reqs'[c].pc = "idle"
  BY <1>1, <1>3 DEF TypeOK, Request, NoRequest
<1>5. Recorded' \subseteq Recorded
  BY <1>1 DEF Recorded
<1>6. \A d \in Clients : Remembered(d)' \subseteq Remembered(d)
  BY <1>3, <1>4 DEF Remembered
<1>. USE FilesTyped
<1>7. KnownFiles'
  BY <1>1, <1>3, <1>4, <1>5, <1>6 DEF Storage, KnownFiles
<1>8. ReservedAlone'
  BY <1>1, <1>3, <1>4, <1>5, <1>6 DEF Storage, ReservedAlone, Alone
<1>9. DropsAreSafe'
  BY <1>1, <1>3, <1>4, <1>5 DEF Storage, DropsAreSafe, DropIsSafe
<1>10. ReferencedStored'
  BY <1>1 DEF Storage, ReferencedStored
<1>. QED BY <1>7, <1>8, <1>9, <1>10 DEF Storage

\* Each step of a request keeps it.
LEMMA AskStorage ==
    ASSUME TypeOK, Storage, NEW c \in Clients, Ask(c)
    PROVE  Storage'
<1>1. reqs[c] \in Request /\ NoRequest \in Request /\ ds \in Dataset
  BY NothingTyped DEF TypeOK
<1>2. /\ reqs[c].pending \in FileId /\ reqs[c].archive \in FileId /\ reqs[c].file \in FileId
      /\ ds.pending \in FileId /\ ds.archive \in FileId
  BY <1>1 DEF Request, Dataset
<1>3. ASSUME NEW op, NEW pc \in {"size", "reserve", "claim", "bytes", "rescan"}, Read(c, op, pc),
             pc \in {"claim", "bytes"} => ds.pending # 0
      PROVE  Storage'
  <2>. DEFINE r == [NoRequest EXCEPT !.pc = pc, !.pending = ds.pending, !.archive = ds.archive]
  <2>1. /\ r \in Request /\ r.pc = pc /\ r.pending = ds.pending /\ r.archive = ds.archive
        /\ r.file = 0
    BY <1>1, <1>2 DEF NoRequest, Request
  <2>2. Continue(c, r) /\ UNCHANGED <<store, ds>>
    BY <1>3 DEF Read, OnlyRequest
  <2>. HIDE DEF r
  <2>3. {r.pending, r.archive} \ {0} \subseteq Recorded \cup Remembered(c)
    BY <2>1 DEF Recorded
  <2>. QED BY <1>3, <2>1, <2>2, <2>3, QuietStorage
<1>4. CASE ReadUpload(c) \/ ReadDiscard(c) \/ ReadComplete(c) \/ ReadRescan(c)
  BY <1>3, <1>4 DEF ReadUpload, ReadDiscard, ReadComplete, ReadRescan
<1>5. ASSUME NEW pc \in {"resume", "extend", "reserve", "adopt"}, Goto(c, pc),
             UNCHANGED <<store, ds>>,
             pc = "adopt" => reqs[c].pc = "bytes" /\ store[reqs[c].pending] = "complete"
      PROVE  Storage'
  <2>. DEFINE r == [reqs[c] EXCEPT !.pc = pc]
  <2>1. /\ r \in Request /\ r.pc = pc /\ r.pending = reqs[c].pending
        /\ r.archive = reqs[c].archive /\ r.file = reqs[c].file
    BY <1>1 DEF Request
  <2>2. Continue(c, r)
    BY <1>5 DEF Goto
  <2>. HIDE DEF r
  <2>3. {r.pending, r.archive} \ {0} \subseteq Recorded \cup Remembered(c)
    BY <2>1 DEF Remembered
  <2>4. pc = "adopt" => reqs[c].pending # 0
    BY <1>5 DEF Storage, DropsAreSafe, DropIsSafe
  <2>. QED BY <1>5, <2>1, <2>2, <2>3, <2>4, QuietStorage
<1>6. ASSUME NEW r \in Request, Continue(c, r), r.pc \in {"idle", "enqueue"},
             r.pending = 0, r.archive = 0, r.file = 0,
             UNCHANGED <<store, ds.archive, ds.pending, ds.discarding>>
      PROVE  Storage'
  BY <1>6, QuietStorage
<1>7. ASSUME Done(c), UNCHANGED <<store, ds>>
      PROVE  Storage'
  BY <1>1, <1>6, <1>7 DEF Done, NoRequest
<1>8. CASE SizeOfPending(c) \/ ResumeReservation(c) \/ BytesOfPending(c)
  BY <1>5, <1>7, <1>8 DEF SizeOfPending, ResumeReservation, BytesOfPending, OnlyRequest
<1>9. CASE Enqueue(c) \/ Conflict(c) \/ Abandon(c)
  BY <1>7, <1>9 DEF Enqueue, Conflict, Abandon, OnlyRequest
<1>10. CASE QueueScan(c)
  <2>1. PICK scan \in Scan : Continue(c, [[NoRequest EXCEPT !.pc = "enqueue"]
                                            EXCEPT !.scan = DeliveryOf(scan)])
    <3>1. scanned + 1 \in ScanId /\ reqs[c].archive \in FileId /\ ds.scan \in Scan
      BY <1>1, <1>2, <1>10, ArchiveAssumption DEF QueueScan, Record, TypeOK, ScanId, Dataset
    <3>2. QueuedScan(scanned + 1, reqs[c].archive) \in Scan
      BY <3>1, ScanTyped
    <3>. QED BY <1>10, <3>2 DEF QueueScan, Record
  <2>. DEFINE r == [[NoRequest EXCEPT !.pc = "enqueue"] EXCEPT !.scan = DeliveryOf(scan)]
  <2>2. /\ r \in Request /\ r.pc = "enqueue"
        /\ r.pending = 0 /\ r.archive = 0 /\ r.file = 0
    BY <1>1, ScanTyped DEF NoRequest, Request
  <2>3. UNCHANGED <<store, ds.archive, ds.pending, ds.discarding>>
    BY <1>1, <1>10, Recording DEF QueueScan, Record, Dataset
  <2>. HIDE DEF r
  <2>. QED BY <1>6, <2>1, <2>2, <2>3 DEF r
<1>11. \A f : \A files \in [Files -> FileState], g \in Files :
          \/ Given(f, files)[g] = files[g]
          \/ g = f /\ files[g] = "reserved" /\ Given(f, files)[g] = "uploading"
  BY DEF Given
<1>12. CASE Extend(c)
  <2>1. Done(c) /\ reqs[c].pc # "pend" /\ store' = Given(reqs[c].pending, store)
        /\ ds' = ds
    BY <1>12 DEF Extend
  <2>2. \A f \in Files : \/ store'[f] = store[f]
                         \/ /\ f \in Remembered(c)
                            /\ store[f] = "reserved" /\ store'[f] = "uploading"
    BY <1>11, <2>1, FilesTyped DEF TypeOK, Remembered
  <2>. QED BY <1>1, <2>1, <2>2, FileStorage DEF Done, NoRequest
<1>13. CASE DropPending(c) \/ DropPendingFails(c)
  <2>. DEFINE kept == [f \in Files |-> IF f = reqs[c].pending THEN "retired" ELSE store[f]]
  <2>1. /\ Done(c) /\ reqs[c].pc = "dropPending" /\ ds' = ds
        /\ \/ store' = Given(reqs[c].file, kept)
           \/ store' = Given(reqs[c].file, store)
    BY <1>13 DEF DropPending, DropPendingFails
  <2>2. reqs[c].pending \notin Recorded
    BY <2>1 DEF Storage, DropsAreSafe, DropIsSafe
  <2>3. kept \in [Files -> FileState]
    BY DEF TypeOK, FileState
  <2>4. \A f \in Files : \/ store'[f] = store[f] \/ store'[f] = kept[f]
                         \/ /\ f = reqs[c].file
                            /\ store[f] = "reserved" /\ store'[f] = "uploading"
                         \/ f = reqs[c].file /\ kept[f] = "reserved" /\ store'[f] = "uploading"
    BY <1>11, <2>1, <2>3 DEF TypeOK
  <2>5. \A f \in Files : \/ kept[f] = store[f]
                         \/ /\ f \in Remembered(c)
                            /\ f # ds.archive /\ f # ds.pending /\ kept[f] = "retired"
    BY <2>2, FilesTyped DEF Remembered, Recorded
  <2>. HIDE DEF kept
  <2>6. \A f \in Files : \/ store'[f] = store[f]
                         \/ /\ f = reqs[c].file
                            /\ store[f] = "reserved" /\ store'[f] = "uploading"
                         \/ /\ f \in Remembered(c)
                            /\ f # ds.archive /\ f # ds.pending /\ store'[f] = "retired"
    BY <2>4, <2>5
  <2>. QED BY <1>1, <2>1, <2>6, FileStorage DEF Done, NoRequest
<1>14. CASE DropDiscarded(c)
  <2>1. /\ Goto(c, "unset") /\ reqs[c].pc = "dropDiscarded" /\ ds' = ds
        /\ Retire(reqs[c].pending)
    BY <1>14 DEF DropDiscarded
  <2>2. \A f \in Files : \/ store'[f] = store[f]
                         \/ /\ f \in Remembered(c)
                            /\ f # ds.archive /\ (f = ds.pending => ds.discarding)
                            /\ store'[f] = "retired"
    BY <2>1, FilesTyped DEF Retire, TypeOK, Storage, DropsAreSafe, DropIsSafe, Remembered
  <2>3. [reqs[c] EXCEPT !.pc = "unset"] \in Request
    BY <1>1 DEF Request
  <2>. QED BY <1>1, <2>1, <2>2, <2>3, FileStorage DEF Goto, Request
<1>15. CASE DropOld(c)
  <2>. DEFINE r == [reqs[c] EXCEPT !.pc = "enqueue", !.archive = 0]
  <2>1. Continue(c, r) /\ reqs[c].pc = "dropOld" /\ ds' = ds /\ DropArchive(c)
    BY <1>15 DEF DropOld
  <2>2. \A f \in Files : \/ store'[f] = store[f]
                         \/ /\ f \in Remembered(c)
                            /\ f # ds.archive /\ f # ds.pending
                            /\ store'[f] = "retired"
    BY <2>1, FilesTyped DEF DropArchive, Retire, TypeOK, Storage, DropsAreSafe, DropIsSafe,
                            Remembered, Recorded
  <2>3. /\ r \in Request /\ r.pc = "enqueue" /\ r.archive = 0
        /\ r.pending = reqs[c].pending /\ r.file = reqs[c].file
    BY <1>1, NothingTyped DEF Request
  <2>. HIDE DEF r
  <2>. QED BY <2>1, <2>2, <2>3, FileStorage
<1>. QED
  BY <1>4, <1>8, <1>9, <1>10, <1>12, <1>13, <1>14, <1>15,
     ReserveStorage, PendStorage, AdoptStorage, DiscardStorage DEF Ask

-----------------------------------------------------------------------------
(* Nothing is forgotten. *)

\* A request on its way to delete a file, and a file that somebody will account for: the document,
\* or such a request.
DropsNext(c, f) ==
    \/ reqs[c].pc = "dropPending" /\ reqs[c].pending = f
    \/ reqs[c].pc = "dropOld" /\ reqs[c].archive = f

Held(f) == f \in Recorded \/ \E c \in Clients : DropsNext(c, f)

\* What a discard is about to forget is deleted.
UnsetIsDeleted ==
    \A c \in Clients :
        reqs[c].pc = "unset" => reqs[c].pending \in Files /\ store[reqs[c].pending] = "retired"

\* Bytes of it arrived, or may: a browser has its URL, or is about to be given it.
Arrives(f) ==
    \/ store[f] \in {"uploading", "complete"}
    \/ store[f] = "reserved" /\ \E c \in Clients : reqs[c].pc = "dropPending" /\ reqs[c].file = f

\* Nobody will account for it any more.
Forgotten == {f \in Files : Arrives(f) /\ ~Held(f)}

\* What is forgotten is counted by the faults.
KeptIInv == UnsetIsDeleted /\ Cardinality(Forgotten) <= faults

\* There are finitely many files.
LEMMA ForgottenFinite == IsFiniteSet(Forgotten)
<1>1. IsFiniteSet(1..MaxFiles)
  BY FS_Interval, ArchiveAssumption
<1>. QED BY <1>1, FS_Subset DEF Forgotten, Files

\* A step that forgets nothing keeps the count, and a fault may forget one file.
LEMMA ForgottenCounted ==
    ASSUME TypeOK, KeptIInv, faults' \in Nat, NEW g,
           \/ faults' = faults /\ Forgotten' \subseteq Forgotten
           \/ faults' = faults + 1 /\ Forgotten' \subseteq Forgotten \cup {g}
    PROVE  Cardinality(Forgotten') <= faults'
<1>1. IsFiniteSet(Forgotten)
  BY ForgottenFinite
<1>2. /\ Cardinality(Forgotten) \in Nat
      /\ IsFiniteSet(Forgotten \cup {g})
      /\ Cardinality(Forgotten \cup {g}) <= Cardinality(Forgotten) + 1
      /\ Cardinality(Forgotten \cup {g}) \in Nat
  <2>1. /\ Cardinality(Forgotten) \in Nat
        /\ IsFiniteSet(Forgotten \cup {g})
        /\ Cardinality(Forgotten \cup {g}) =
              IF g \in Forgotten THEN Cardinality(Forgotten) ELSE Cardinality(Forgotten) + 1
    BY <1>1, FS_CardinalityType, FS_AddElement
  <2>. QED BY <2>1
<1>3. faults \in Nat /\ Cardinality(Forgotten) <= faults
  BY ArchiveAssumption DEF TypeOK, KeptIInv
<1>4. CASE faults' = faults /\ Forgotten' \subseteq Forgotten
  <2>1. Cardinality(Forgotten') \in Nat /\ Cardinality(Forgotten') <= Cardinality(Forgotten)
    <3>1. IsFiniteSet(Forgotten') /\ Cardinality(Forgotten') <= Cardinality(Forgotten)
      BY <1>1, <1>4, FS_Subset
    <3>. QED BY <3>1, FS_CardinalityType
  <2>. QED BY <1>2, <1>3, <1>4, <2>1
<1>5. CASE faults' = faults + 1 /\ Forgotten' \subseteq Forgotten \cup {g}
  <2>1. Cardinality(Forgotten') \in Nat /\ Cardinality(Forgotten') <= Cardinality(Forgotten \cup {g})
    <3>1. IsFiniteSet(Forgotten') /\ Cardinality(Forgotten') <= Cardinality(Forgotten \cup {g})
      BY <1>2, <1>5, FS_Subset
    <3>. QED BY <3>1, FS_CardinalityType
  <2>. QED BY <1>2, <1>3, <1>5, <2>1
<1>. QED BY <1>4, <1>5

\* The invariant survives a step of a request that lets go only of what it deletes, or by a fault of
\* the file g, and that gives out only URLs of files that are held or known to be given out.
LEMMA RequestKeeps ==
    ASSUME TypeOK, KeptIInv, NEW c \in Clients, NEW r, Continue(c, r), NEW g,
           faults' = faults \/ faults' = faults + 1,
           r.pc = "unset" => r.pending \in Files /\ store'[r.pending] = "retired",
           r.pc = "dropPending" => r.file \in Recorded',
           \A f \in Files :
              /\ store[f] = "retired" => store'[f] = "retired"
              /\ store'[f] = "reserved" =>
                    store[f] = "reserved" \/ \A d \in Clients : reqs[d].file # f
              /\ store'[f] \in {"uploading", "complete"} => Arrives(f) \/ Held(f)
              /\ f \in Recorded \/ DropsNext(c, f) =>
                    \/ store'[f] = "retired" \/ f \in Recorded' \/ DropsNext(c, f)'
                    \/ f = g /\ faults' = faults + 1
    PROVE  KeptIInv'
<1>1. reqs'[c] = r /\ \A d \in Clients \ {c} : reqs'[d] = reqs[d]
  BY OthersStay
<1>2. UnsetIsDeleted'
  BY <1>1 DEF KeptIInv, UnsetIsDeleted
<1>3. ASSUME NEW f \in Forgotten', Held(f)
      PROVE  f = g /\ faults' = faults + 1
  <2>1. f \in Files /\ store'[f] # "retired" /\ f \notin Recorded'
        /\ \A d \in Clients : ~DropsNext(d, f)'
    BY <1>3 DEF Forgotten, Arrives, Held
  <2>2. ASSUME NEW d \in Clients \ {c}, DropsNext(d, f)
        PROVE  DropsNext(d, f)'
    BY <1>1, <2>2 DEF DropsNext
  <2>. QED BY <1>3, <2>1, <2>2 DEF Held
<1>4. ASSUME NEW f \in Forgotten', ~Held(f)
      PROVE  Arrives(f)
  <2>1. f \in Files /\ f \notin Recorded'
    BY <1>4 DEF Forgotten, Held
  <2>2. CASE store'[f] \in {"uploading", "complete"}
    BY <1>4, <2>1, <2>2
  <2>3. CASE store'[f] \notin {"uploading", "complete"}
    <3>1. /\ store'[f] = "reserved"
          /\ \E d \in Clients : reqs'[d].pc = "dropPending" /\ reqs'[d].file = f
      BY <1>4, <2>3 DEF Forgotten, Arrives
    <3>2. PICK d \in Clients : reqs'[d].pc = "dropPending" /\ reqs'[d].file = f
      BY <3>1
    <3>3. d # c /\ reqs'[d] = reqs[d]
      BY <1>1, <2>1, <3>2
    <3>. QED BY <2>1, <3>1, <3>2, <3>3 DEF Arrives
  <2>. QED BY <2>2, <2>3
<1>5. \/ faults' = faults /\ Forgotten' \subseteq Forgotten
      \/ faults' = faults + 1 /\ Forgotten' \subseteq Forgotten \cup {g}
  <2>1. Forgotten' \subseteq Files
    BY DEF Forgotten
  <2>2. \A f \in Forgotten' : f \in Forgotten \/ (f = g /\ faults' = faults + 1)
    BY <1>3, <1>4, <2>1 DEF Forgotten
  <2>. QED BY <2>2
<1>6. Cardinality(Forgotten') <= faults'
  BY <1>5, ForgottenCounted, ArchiveAssumption DEF TypeOK
<1>7. Cardinality(Forgotten)' <= faults'
  BY <1>6
<1>. QED BY <1>2, <1>7 DEF KeptIInv

\* In particular one that changes neither document nor storage and is about to delete nothing.
LEMMA QuietKeeps ==
    ASSUME TypeOK, KeptIInv, NEW c \in Clients, NEW r, Continue(c, r),
           UNCHANGED <<store, ds.archive, ds.pending>>, faults' = faults,
           r.pc \notin {"unset", "dropPending"}, reqs[c].pc \notin {"dropPending", "dropOld"}
    PROVE  KeptIInv'
<1>1. Recorded' = Recorded
  BY DEF Recorded
<1>2. \A f : ~DropsNext(c, f)
  BY DEF DropsNext
<1>3. \A f \in Files : store'[f] \in {"uploading", "complete"} => Arrives(f)
  BY DEF Arrives
<1>. QED BY <1>1, <1>2, <1>3, RequestKeeps

\* At the beginning the archive, if any, is all there is.
LEMMA InitKept == Init => KeptIInv
<1>. SUFFICES ASSUME Init PROVE KeptIInv
  OBVIOUS
<1>1. \A c \in Clients : reqs[c].pc = "idle"
  BY DEF Init, NoRequest
<1>2. \A f \in Files : store[f] = IF f = ds.archive THEN "complete" ELSE "none"
  BY DEF Init
<1>3. 0 \notin Files
  BY ArchiveAssumption DEF Files
<1>4. \A f \in Files : Arrives(f) => f \in Recorded
  BY <1>1, <1>2, <1>3 DEF Arrives, Recorded
<1>5. Forgotten = {}
  BY <1>4 DEF Forgotten, Held
<1>6. Cardinality(Forgotten) = 0 /\ faults = 0
  BY <1>5, FS_EmptySet DEF Init
<1>. QED BY <1>1, <1>6 DEF KeptIInv, UnsetIsDeleted

\* Away from requests bytes arrive at most.
LEMMA ElsewhereKeeps ==
    ASSUME TypeOK, KeptIInv, [Next]_vars, \A c \in Clients : ~Ask(c)
    PROVE  KeptIInv'
<1>1. UNCHANGED <<reqs, ds.archive, ds.pending>>
  BY ElsewhereEffect
<1>2. \A f \in Files : \/ store'[f] = store[f]
                       \/ store[f] = "uploading" /\ store'[f] = "complete"
  BY ElsewhereEffect DEF Upload, TypeOK
<1>3. faults' \in {faults, faults + 1}
  <2>1. CASE \E w \in Workers : Take(w) \/ Progress(w) \/ ScanHeartbeat(w) \/ ScanError(w)
                                \/ Crash(w) \/ LoseLock(w) \/ \E j \in ScanId : CheckStalled(w, j)
    BY <2>1 DEF Take, Progress, StartScan, ReadIndex, FinishScan, EndAttempt, ScanHeartbeat,
                ScanError, Crash, LoseLock, CheckStalled, OnlyScan, UnchangedByWork, Fault
  <2>2. CASE \/ \E j \in ScanId : LoseJob(j)
             \/ \E call \in closings : MarkScanFailed(call)
             \/ \E f \in Files : Upload(f)
             \/ Use \/ Release \/ Trash \/ Restore \/ Age \/ UNCHANGED vars
    BY <2>2 DEF LoseJob, MarkScanFailed, UnchangedByWork, Upload, Use, Release, Trash, Restore,
                Age, Elsewhere, Fault, vars
  <2>3. CASE Sweep \/ SweepAborts
    BY <2>3 DEF Sweep, SweepRead, SweepIdentify, SweepJob, SweepEnqueue, SweepClosed,
                UnchangedBySweep, SweepAborts, Fault
  <2>. QED BY <2>1, <2>2, <2>3 DEF Next
<1>4. \A f : Held(f)' = Held(f)
  BY <1>1 DEF Held, DropsNext, Recorded
<1>5. UnsetIsDeleted'
  BY <1>1, <1>2 DEF KeptIInv, UnsetIsDeleted
<1>6. \A f \in Files : Arrives(f)' => Arrives(f)
  BY <1>1, <1>2 DEF Arrives
<1>7. Forgotten' \subseteq Forgotten
  BY <1>4, <1>6 DEF Forgotten
<1>8. Cardinality(Forgotten') <= faults'
  BY <1>3, <1>7, ForgottenCounted, ArchiveAssumption DEF TypeOK
<1>9. Cardinality(Forgotten)' <= faults'
  BY <1>8
<1>. QED BY <1>5, <1>9 DEF KeptIInv

\* Every request keeps it: the upload a new one takes the place of, and the archive a new one
\* replaces, pass to the request that did it, which deletes them.
LEMMA AskKeeps ==
    ASSUME TypeOK, Storage, KeptIInv, NEW c \in Clients, Ask(c)
    PROVE  KeptIInv'
<1>. USE FilesTyped
<1>1. /\ ds \in Dataset /\ reqs[c] \in Request /\ NoRequest.pc = "idle"
      /\ store \in [Files -> FileState] /\ faults \in Nat
  BY ArchiveAssumption DEF TypeOK, NoRequest
<1>2. CASE ReadUpload(c) \/ ReadDiscard(c) \/ ReadComplete(c) \/ ReadRescan(c)
  <2>1. PICK pc \in {"size", "reserve", "claim", "bytes", "rescan"} :
          /\ Continue(c, [NoRequest EXCEPT !.pc = pc, !.pending = ds.pending,
                                           !.archive = ds.archive])
          /\ reqs[c].pc = "idle" /\ UNCHANGED <<ds, store, faults>>
    BY <1>2 DEF ReadUpload, ReadDiscard, ReadComplete, ReadRescan, Read, OnlyRequest,
                UnchangedByRequest
  <2>2. [NoRequest EXCEPT !.pc = pc, !.pending = ds.pending, !.archive = ds.archive].pc = pc
    BY DEF NoRequest
  <2>. QED BY <2>1, <2>2, QuietKeeps
<1>3. CASE SizeOfPending(c) \/ ResumeReservation(c) \/ BytesOfPending(c)
  <2>1. /\ UNCHANGED <<ds, store, faults>> /\ reqs[c].pc \in {"size", "resume", "bytes"}
        /\ \/ Done(c)
           \/ \E pc \in {"resume", "extend", "reserve", "adopt"} : Goto(c, pc)
    BY <1>3 DEF SizeOfPending, ResumeReservation, BytesOfPending, OnlyRequest, UnchangedByRequest
  <2>2. \A pc \in {"resume", "extend", "reserve", "adopt"} : [reqs[c] EXCEPT !.pc = pc].pc = pc
    BY <1>1 DEF Request
  <2>. QED BY <1>1, <2>1, <2>2, QuietKeeps DEF Done, Goto
<1>4. CASE Conflict(c) \/ Enqueue(c)
  BY <1>1, <1>4, QuietKeeps DEF Conflict, Enqueue, OnlyRequest, UnchangedByRequest, Done
<1>5. CASE Abandon(c)
  <2>1. /\ faults' = faults + 1 /\ Continue(c, NoRequest) /\ UNCHANGED <<ds, store>>
    BY <1>5 DEF Abandon, Fault, Done
  <2>2. PICK g : \A f : DropsNext(c, f) => f = g
    BY DEF DropsNext
  <2>3. Recorded' = Recorded
    BY <2>1 DEF Recorded
  <2>4. \A f \in Files : store'[f] \in {"uploading", "complete"} => Arrives(f)
    BY <2>1 DEF Arrives
  <2>. QED BY <1>1, <2>1, <2>2, <2>3, <2>4, RequestKeeps
<1>6. CASE QueueScan(c)
  <2>1. UNCHANGED <<store, ds.archive, ds.pending, faults>> /\ reqs[c].pc = "rescan"
    BY <1>1, <1>6, Recording DEF QueueScan, Record, UnchangedByRequest, Dataset
  <2>2. PICK scan : Continue(c, [[NoRequest EXCEPT !.pc = "enqueue"] EXCEPT !.scan = scan])
    BY <1>6 DEF QueueScan, Record
  <2>3. [[NoRequest EXCEPT !.pc = "enqueue"] EXCEPT !.scan = scan].pc = "enqueue"
    BY DEF NoRequest
  <2>. QED BY <2>1, <2>2, <2>3, QuietKeeps
<1>7. CASE Claim(c)
  <2>1. /\ UNCHANGED <<store, ds.archive, ds.pending, faults>> /\ reqs[c].pc = "claim"
        /\ Continue(c, [reqs[c] EXCEPT !.pc = "dropDiscarded"])
    BY <1>1, <1>7 DEF Claim, UnchangedByRequest, Goto, Dataset
  <2>2. [reqs[c] EXCEPT !.pc = "dropDiscarded"].pc = "dropDiscarded"
    BY <1>1 DEF Request
  <2>. QED BY <2>1, <2>2, QuietKeeps
<1>8. CASE Reserve(c)
  <2>1. PICK f \in Files : Reserve(c)!2!(f)
    BY <1>8 DEF Reserve
  <2>2. UNCHANGED <<ds, faults>> /\ reqs[c].pc = "reserve"
    BY <1>8 DEF Reserve, UnchangedByRequest
  <2>3. [reqs[c] EXCEPT !.pc = "pend", !.file = f].pc = "pend"
    BY <1>1 DEF Request
  <2>4. store[f] = "none" /\ store'[f] = "reserved" /\ \A g \in Files \ {f} : store'[g] = store[g]
    BY <1>1, <2>1
  <2>5. Recorded' = Recorded /\ \A g : ~DropsNext(c, g)
    BY <2>2 DEF Recorded, DropsNext
  <2>6. \A g \in Files : /\ store[g] = "retired" => store'[g] = "retired"
                         /\ store'[g] \in {"uploading", "complete"} => store'[g] = store[g]
    BY <2>4
  <2>7. \A d \in Clients : reqs[d].file # f
    BY <2>4 DEF Storage, KnownFiles, Remembered
  <2>8. \A g \in Files :
          /\ store[g] = "retired" => store'[g] = "retired"
          /\ store'[g] = "reserved" => store[g] = "reserved" \/ \A d \in Clients : reqs[d].file # g
          /\ store'[g] \in {"uploading", "complete"} => Arrives(g)
    BY <2>4, <2>6, <2>7 DEF Arrives
  <2>. QED BY <2>1, <2>2, <2>3, <2>5, <2>8, RequestKeeps
<1>9. CASE Pend(c)
  <2>1. /\ ds.pending = reqs[c].pending /\ reqs[c].pc = "pend" /\ UNCHANGED <<store, faults>>
        /\ ds'.pending = reqs[c].file /\ ds'.archive = ds.archive
        /\ Continue(c, [reqs[c] EXCEPT !.pc = "dropPending"])
    BY <1>1, <1>9 DEF Pend, ArchiveMutation, StillPending, UnchangedByRequest, Goto, Dataset
  <2>2. /\ [reqs[c] EXCEPT !.pc = "dropPending"].pc = "dropPending"
        /\ [reqs[c] EXCEPT !.pc = "dropPending"].file = reqs[c].file
        /\ [reqs[c] EXCEPT !.pc = "dropPending"].pending = reqs[c].pending
    BY <1>1 DEF Request
  <2>3. reqs[c].file \in Files
    BY <2>1 DEF Storage, ReservedAlone, Alone
  <2>4. reqs[c].file \in Recorded'
    BY <2>1, <2>3 DEF Recorded
  <2>5. \A f \in Files : f \in Recorded => f = reqs[c].pending \/ f \in Recorded'
    BY <2>1 DEF Recorded
  <2>6. \A f : ~DropsNext(c, f)
    BY <2>1 DEF DropsNext
  <2>7. \A f \in Files : f = reqs[c].pending => DropsNext(c, f)'
    BY <2>1, <2>2, OthersStay DEF DropsNext
  <2>8. \A f \in Files : store'[f] \in {"uploading", "complete"} => Arrives(f)
    BY <2>1 DEF Arrives
  <2>. QED BY <2>1, <2>2, <2>3, <2>4, <2>5, <2>6, <2>7, <2>8, RequestKeeps
<1>10. CASE Adopt(c)
  <2>1. /\ ds.pending = reqs[c].pending /\ reqs[c].pc = "adopt" /\ UNCHANGED <<store, faults>>
        /\ ds'.pending = 0 /\ ds'.archive = ds.pending
    BY <1>1, <1>10, Recording
    DEF Adopt, Record, ArchiveMutation, StillPending, UnchangedByRequest, Dataset
  <2>2. PICK scan : Continue(c, [[NoRequest EXCEPT !.pc = "dropOld", !.archive = ds.archive]
                                   EXCEPT !.scan = scan])
    BY <1>10 DEF Adopt, Record
  <2>. DEFINE r == [[NoRequest EXCEPT !.pc = "dropOld", !.archive = ds.archive]
                      EXCEPT !.scan = scan]
  <2>3. r.pc = "dropOld" /\ r.archive = ds.archive
    BY DEF NoRequest
  <2>4. reqs'[c] = r
    BY <2>2, OthersStay
  <2>. HIDE DEF r
  <2>5. \A f \in Files : f = ds.archive => DropsNext(c, f)'
    BY <2>1, <2>3, <2>4 DEF DropsNext
  <2>6. \A f \in Files : f \in Recorded => f = ds.archive \/ f \in Recorded'
    BY <2>1 DEF Recorded
  <2>7. \A f : ~DropsNext(c, f)
    BY <2>1 DEF DropsNext
  <2>8. \A f \in Files : store'[f] \in {"uploading", "complete"} => Arrives(f)
    BY <2>1 DEF Arrives
  <2>. QED BY <2>1, <2>2, <2>3, <2>5, <2>6, <2>7, <2>8, RequestKeeps DEF r
<1>11. CASE Unset(c)
  <2>1. /\ ds.pending = reqs[c].pending /\ reqs[c].pc = "unset" /\ UNCHANGED <<store, faults>>
        /\ ds'.archive = ds.archive /\ Continue(c, NoRequest)
    BY <1>1, <1>11 DEF Unset, StillPending, UnchangedByRequest, Done, Dataset
  <2>2. store[ds.pending] = "retired"
    BY <2>1 DEF KeptIInv, UnsetIsDeleted
  <2>3. \A f \in Files : f \in Recorded => store[f] = "retired" \/ f \in Recorded'
    BY <2>1, <2>2 DEF Recorded
  <2>4. \A f : ~DropsNext(c, f)
    BY <2>1 DEF DropsNext
  <2>5. \A f \in Files : store'[f] \in {"uploading", "complete"} => Arrives(f)
    BY <2>1 DEF Arrives
  <2>. QED BY <1>1, <2>1, <2>3, <2>4, <2>5, RequestKeeps
<1>12. ASSUME NEW f, NEW files \in [Files -> FileState]
       PROVE  \A g \in Files : \/ Given(f, files)[g] = files[g]
                               \/ g = f /\ files[g] = "reserved" /\ Given(f, files)[g] = "uploading"
  BY DEF Given
<1>13. CASE Extend(c)
  <2>1. /\ ds.pending = reqs[c].pending /\ reqs[c].pc = "extend" /\ UNCHANGED <<ds, faults>>
        /\ Continue(c, NoRequest) /\ store' = Given(ds.pending, store)
    BY <1>13 DEF Extend, ArchiveMutation, StillPending, UnchangedByRequest, Done
  <2>2. Recorded' = Recorded /\ \A f : ~DropsNext(c, f)
    BY <2>1 DEF Recorded, DropsNext
  <2>3. ds.pending \in Files => Held(ds.pending)
    BY DEF Held, Recorded
  <2>4. \A f \in Files : \/ store'[f] = store[f]
                         \/ f = ds.pending /\ store[f] = "reserved" /\ store'[f] = "uploading"
    BY <1>1, <1>12, <2>1
  <2>5. \A f \in Files :
          /\ store[f] = "retired" => store'[f] = "retired"
          /\ store'[f] = "reserved" => store[f] = "reserved"
          /\ store'[f] \in {"uploading", "complete"} => Arrives(f) \/ Held(f)
    BY <2>3, <2>4 DEF Arrives
  <2>. QED BY <1>1, <2>1, <2>2, <2>5, RequestKeeps
<1>14. CASE DropPending(c)
  <2>. DEFINE kept == [f \in Files |-> IF f = reqs[c].pending THEN "retired" ELSE store[f]]
  <2>1. /\ reqs[c].pc = "dropPending" /\ UNCHANGED <<ds, faults>> /\ Continue(c, NoRequest)
        /\ store' = Given(reqs[c].file, kept)
    BY <1>14 DEF DropPending, UnchangedByRequest, Done
  <2>2. kept \in [Files -> FileState]
    BY <1>1 DEF FileState
  <2>3. \A f \in Files : \/ store'[f] = kept[f]
                         \/ f = reqs[c].file /\ kept[f] = "reserved" /\ store'[f] = "uploading"
    BY <1>12, <2>1, <2>2
  <2>4. \A f \in Files : kept[f] = IF f = reqs[c].pending THEN "retired" ELSE store[f]
    OBVIOUS
  <2>. HIDE DEF kept
  <2>5. \A f \in Files : /\ f = reqs[c].pending \/ store[f] = "retired" => store'[f] = "retired"
                         /\ \/ store'[f] \in {store[f], "retired"}
                            \/ f = reqs[c].file /\ store[f] = "reserved"
    BY <2>3, <2>4
  <2>6. Recorded' = Recorded /\ \A f : DropsNext(c, f) => f = reqs[c].pending
    BY <2>1 DEF Recorded, DropsNext
  <2>7. \A f \in Files : f = reqs[c].file /\ store[f] = "reserved" => Arrives(f)
    BY <2>1 DEF Arrives
  <2>8. \A f \in Files : /\ store'[f] = "reserved" => store[f] = "reserved"
                         /\ store'[f] \in {"uploading", "complete"} => Arrives(f)
    BY <2>3, <2>4, <2>7 DEF Arrives
  <2>. QED BY <1>1, <2>1, <2>5, <2>6, <2>8, RequestKeeps
<1>15. CASE DropPendingFails(c)
  <2>1. /\ reqs[c].pc = "dropPending" /\ ds' = ds /\ faults' = faults + 1
        /\ Continue(c, NoRequest) /\ store' = Given(reqs[c].file, store)
    BY <1>15 DEF DropPendingFails, Fault, Done
  <2>2. Recorded' = Recorded /\ \A f : DropsNext(c, f) => f = reqs[c].pending
    BY <2>1 DEF Recorded, DropsNext
  <2>3. \A f \in Files : f = reqs[c].file /\ store[f] = "reserved" => Arrives(f)
    BY <2>1 DEF Arrives
  <2>4. \A f \in Files : /\ store[f] = "retired" => store'[f] = "retired"
                         /\ store'[f] = "reserved" => store[f] = "reserved"
                         /\ store'[f] \in {"uploading", "complete"} => Arrives(f)
    BY <1>1, <1>12, <2>1, <2>3 DEF Arrives
  <2>. QED BY <1>1, <2>1, <2>2, <2>4, RequestKeeps
<1>16. CASE DropDiscarded(c)
  <2>1. /\ reqs[c].pc = "dropDiscarded" /\ UNCHANGED <<ds, faults>>
        /\ Continue(c, [reqs[c] EXCEPT !.pc = "unset"])
        /\ store' = [store EXCEPT ![reqs[c].pending] = "retired"]
    BY <1>16 DEF DropDiscarded, UnchangedByRequest, Goto, Retire
  <2>2. /\ [reqs[c] EXCEPT !.pc = "unset"].pc = "unset"
        /\ [reqs[c] EXCEPT !.pc = "unset"].pending = reqs[c].pending
    BY <1>1 DEF Request
  <2>3. reqs[c].pending \in Files
    BY <2>1 DEF Storage, DropsAreSafe, DropIsSafe
  <2>4. /\ store'[reqs[c].pending] = "retired"
        /\ \A f \in Files : store'[f] \in {store[f], "retired"}
    BY <1>1, <2>1, <2>3
  <2>5. Recorded' = Recorded /\ \A f : ~DropsNext(c, f)
    BY <2>1 DEF Recorded, DropsNext
  <2>6. \A f \in Files : store'[f] \in {"uploading", "complete"} => Arrives(f)
    BY <2>4 DEF Arrives
  <2>. QED BY <2>1, <2>2, <2>3, <2>4, <2>5, <2>6, RequestKeeps
<1>17. CASE DropOld(c)
  <2>1. /\ reqs[c].pc = "dropOld" /\ UNCHANGED <<ds, faults>> /\ DropArchive(c)
        /\ Continue(c, [reqs[c] EXCEPT !.pc = "enqueue", !.archive = 0])
    BY <1>17 DEF DropOld, UnchangedByRequest
  <2>2. [reqs[c] EXCEPT !.pc = "enqueue", !.archive = 0].pc = "enqueue"
    BY <1>1 DEF Request
  <2>3. \A f \in Files : /\ store'[f] \in {store[f], "retired"}
                         /\ f = reqs[c].archive => store'[f] = "retired"
    BY <1>1, <2>1 DEF DropArchive, Retire
  <2>4. Recorded' = Recorded /\ \A f : DropsNext(c, f) => f = reqs[c].archive
    BY <2>1 DEF Recorded, DropsNext
  <2>5. \A f \in Files : store'[f] \in {"uploading", "complete"} => Arrives(f)
    BY <2>3 DEF Arrives
  <2>. QED BY <2>1, <2>2, <2>3, <2>4, <2>5, RequestKeeps
<1>. QED
  BY <1>2, <1>3, <1>4, <1>5, <1>6, <1>7, <1>8, <1>9, <1>10, <1>11, <1>13, <1>14, <1>15, <1>16,
     <1>17 DEF Ask

-----------------------------------------------------------------------------
(* The theorems. *)

\* Every step keeps the whole invariant.
LEMMA StepInvariant ==
    ASSUME IInv, [Next]_vars
    PROVE  IInv'
<1>1. TypeOK' /\ BudgetsKept'
  BY StepTyped DEF IInv
<1>2. Storage'
  BY AskStorage, ElsewhereStorage DEF IInv
<1>3. ScanOfArchive'
  BY StepScan DEF IInv
<1>. QED BY <1>1, <1>2, <1>3 DEF IInv

\* Whatever requests, workers and the sweep do at once, each file on its way to deletion is one the
\* dataset no longer refers to, and the scan recorded is of the dataset's zip.
THEOREM ArchiveInvariance == Spec => []IInv
<1>1. Init => IInv
  BY InitTyped, InitStorage, InitScan DEF IInv
<1>2. IInv /\ [Next]_vars => IInv'
  BY StepInvariant
<1>. QED BY <1>1, <1>2, PTL DEF Spec

\* So no request deletes a zip that another one adopted, or an upload another one may still go on
\* with (createArchiveUpload, discardArchiveUpload, completeArchiveUpload).
THEOREM NothingReferencedIsDeleted == Spec => []ReferencedStored
<1>1. IInv => ReferencedStored
  BY DEF IInv, Storage
<1>. QED BY <1>1, ArchiveInvariance, PTL

\* And what a dataset says is in its zip was read from that zip (runScan, queueScan).
THEOREM ContentsAreOfTheArchive == Spec => []ContentsOfArchive
<1>1. IInv => ContentsOfArchive
  BY DEF IInv, ScanOfArchive
<1>. QED BY <1>1, ArchiveInvariance, PTL

\* Once requests are over, bytes that arrived are the archive's or a pending upload's, queue outage
\* or not, but for one zip at most per deletion or instance that failed on the way
\* (createArchiveUpload, completeArchiveUpload).
THEOREM NothingIsForgotten == Spec => []NothingForgotten
<1>1. Init => KeptIInv
  BY InitKept
<1>2. IInv /\ KeptIInv /\ [Next]_vars => KeptIInv'
  BY AskKeeps, ElsewhereKeeps DEF IInv
<1>3. TypeOK /\ KeptIInv => NothingForgotten
  <2>. DEFINE Left == {f \in Files : store[f] = "complete"} \ {ds.archive, ds.pending}
  <2>. SUFFICES ASSUME TypeOK, KeptIInv, \A c \in Clients : reqs[c].pc = "idle"
                PROVE  Cardinality(Left) <= faults
    BY DEF NothingForgotten
  <2>1. Left \subseteq Forgotten
    <3>1. \A f \in Left : f \in Files /\ Arrives(f) /\ f \notin Recorded
      BY DEF Arrives, Recorded
    <3>2. \A f : \A c \in Clients : ~DropsNext(c, f)
      BY DEF DropsNext
    <3>. QED BY <3>1, <3>2 DEF Forgotten, Held
  <2>. HIDE DEF Left
  <2>2. IsFiniteSet(Left) /\ Cardinality(Left) <= Cardinality(Forgotten)
    BY <2>1, ForgottenFinite, FS_Subset
  <2>3. Cardinality(Left) \in Nat /\ Cardinality(Forgotten) \in Nat
    BY <2>2, ForgottenFinite, FS_CardinalityType
  <2>4. faults \in Nat /\ Cardinality(Forgotten) <= faults
    BY ArchiveAssumption DEF TypeOK, KeptIInv
  <2>. QED BY <2>2, <2>3, <2>4
<1>4. IInv => TypeOK
  BY DEF IInv
<1>. QED BY <1>1, <1>2, <1>3, <1>4, ArchiveInvariance, PTL DEF Spec

\* A zip in use by a label job or an import is not replaced, by however old a request
\* (archiveMutation).
THEOREM UseProtects == Spec => UsedArchiveStays
<1>1. IInv /\ [Next]_vars => [ds.inUse => ds'.archive = ds.archive]_vars
  <2>. SUFFICES ASSUME IInv, [Next]_vars, ds.inUse
                PROVE  ds'.archive = ds.archive
    OBVIOUS
  <2>1. TypeOK
    BY DEF IInv
  <2>2. CASE \A c \in Clients : ~Ask(c)
    BY <2>1, <2>2, ElsewhereEffect
  <2>3. ASSUME NEW c \in Clients, Ask(c)
        PROVE  ds'.archive = ds.archive
    <3>1. ~Adopt(c)
      BY <2>1, Recording DEF ArchiveMutation
    <3>2. QueueScan(c) => ds'.archive = ds.archive
      BY <2>1, Recording DEF TypeOK, Dataset
    <3>. QED BY <2>1, <2>3, <3>1, <3>2, AskScans
  <2>. QED BY <2>2, <2>3
<1>. QED BY <1>1, ArchiveInvariance, PTL DEF Spec, UsedArchiveStays

\* The verdict on a scan stays until a newer scan is queued, by however late a worker, closing
\* call or sweep (scanDelivery).
THEOREM VerdictsStay == Spec => ScanVerdictStays
<1>1. IInv /\ [Next]_vars =>
        [ds.scan.status \in {"done", "failed"} =>
           ds'.scan = ds.scan \/ ds'.scan.id > ds.scan.id]_vars
  <2>. SUFFICES ASSUME IInv, [Next]_vars, ds.scan.status \in {"done", "failed"}
                PROVE  ds'.scan = ds.scan \/ ds'.scan.id > ds.scan.id
    OBVIOUS
  <2>1. TypeOK /\ ds.scan.id <= scanned
    BY DEF IInv, ScanOfArchive
  <2>2. ds \in Dataset /\ scanned \in Nat /\ ds.scan.id \in Nat
    BY <2>1, ArchiveAssumption DEF TypeOK, Dataset, Scan, ScanId
  <2>3. CASE \A c \in Clients : ~Ask(c)
    BY <2>1, <2>3, ElsewhereEffect DEF ScanGoesOn, Pending
  <2>4. ASSUME NEW c \in Clients, Ask(c)
        PROVE  ds'.scan = ds.scan \/ ds'.scan.id > ds.scan.id
    <3>1. Adopt(c) \/ QueueScan(c) => ds'.scan.id = scanned + 1
      <4>1. Adopt(c) => ds'.scan = QueuedScan(scanned + 1, ds.pending)
        BY <2>1, <2>2, Recording DEF Dataset
      <4>2. QueueScan(c) => ds'.scan = QueuedScan(scanned + 1, ds.archive)
        BY <2>1, <2>2, Recording DEF Dataset
      <4>. QED BY <4>1, <4>2 DEF QueuedScan
    <3>. QED BY <2>1, <2>2, <2>4, <3>1, AskScans
  <2>. QED BY <2>3, <2>4
<1>. QED BY <1>1, ArchiveInvariance, PTL DEF Spec, ScanVerdictStays

=============================================================================
