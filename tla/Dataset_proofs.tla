--------------------------- MODULE Dataset_proofs ---------------------------
(***************************************************************************)
(* Proofs about Dataset, for every number of workers, clients, groups,      *)
(* entries, ids, attempts, stalls and faults.                               *)
(*                                                                          *)
(* Typing comes first: a lemma per group of actions, because the queue is   *)
(* only well typed together with BudgetsKept (AttemptFailed counts up from  *)
(* a job that has an attempt left). Then every step is summarised by what   *)
(* it does to the document, Effect, a disjunction of eight kinds of change. *)
(* From Effect follow the rest of the inductive invariant IInv              *)
(* (HeldInPeace, RequestsRemember, Numbered, DeletionMarked) and, in one    *)
(* more lemma, that every step is a step of the abstract lifecycle          *)
(* (ImportLifecycle) or leaves it alone. The promises about rows and files  *)
(* hold for one worker: ContentIInv adds what its processor has in mind, and*)
(* Elsewhere sums up what the others may do to the document meanwhile.      *)
(* Liveness is left to TLC.                                                 *)
(***************************************************************************)
EXTENDS Dataset, DatasetQueue_proofs, TLAPS

-----------------------------------------------------------------------------
(* Types: what a step does to the memory of a processor. *)

\* The records an instance starts with, and the one it ends with, are datasets.
LEMMA NewDatasetTyped ==
    NoImport \in Import /\ NewDataset \in Dataset /\ NoDataset \in Dataset
<1>1. NoImport \in Import
  BY RecordAssumption DEF NoImport, Import, Status
<1>2. NewDataset \in Dataset
  BY <1>1 DEF NewDataset, Dataset
<1>3. NoDataset \in Dataset
  BY <1>2 DEF NoDataset, Dataset
<1>. QED BY <1>1, <1>2, <1>3

\* The delivery of a dataset without an import is one.
LEMMA NoDeliveryTyped == NoDelivery \in Delivery
BY RecordAssumption DEF NoDelivery, Delivery

\* A processor that becomes another one keeps the memory of the workers typed.
LEMMA BecomesTyped ==
    ASSUME TypeOK, NEW w \in Workers, NEW r \in Processor, Becomes(w, r)
    PROVE  work' \in [Workers -> Processor]
BY DEF TypeOK, Becomes

\* The same for one that goes on at another place, ...
LEMMA GotoTyped ==
    ASSUME TypeOK, NEW w \in Workers, NEW pc \in ProcessorPC, Goto(w, pc)
    PROVE  work' \in [Workers -> Processor]
<1>1. work[w] \in Processor
  BY DEF TypeOK
<1>2. [work[w] EXCEPT !.pc = pc] \in Processor
  BY <1>1 DEF Processor
<1>. QED BY <1>2, BecomesTyped DEF Goto

\* ... or ends its attempt.
LEMMA SettleTyped ==
    ASSUME TypeOK, NEW w \in Workers, NEW outcome \in Outcome, Settle(w, outcome)
    PROVE  work' \in [Workers -> Processor]
<1>1. work[w] \in Processor
  BY DEF TypeOK
<1>2. [work[w] EXCEPT !.pc = "settle", !.outcome = outcome] \in Processor
  BY <1>1 DEF Processor, ProcessorPC
<1>. QED BY <1>2, BecomesTyped DEF Settle

-----------------------------------------------------------------------------
(* Types: the queue. *)

\* The queue stays typed and within its budgets when one job is replaced by such a job.
LEMMA JobTyped ==
    ASSUME TypeOK, BudgetsKept, NEW j, NEW job \in Job(Delivery), Budgeted(job),
           jobs' = [jobs EXCEPT ![j] = job]
    PROVE  jobs' \in [JobIds -> Job(Delivery)] /\ BudgetsKept'
BY DEF TypeOK, BudgetsKept

-----------------------------------------------------------------------------
(* Types: the processors, one step per action. *)

\* The worker's 'failed' event starts closing calls only.
LEMMA HandleFailedTyped ==
    ASSUME TypeOK, NEW w \in Workers, NEW job \in Job(Delivery), NEW j, HandleFailed(w, job, j)
    PROVE  closings' \subseteq ClosingCall
<1>1. job.data \in Delivery
  BY DEF Job
<1>2. Closing(w, job.data, FALSE) \in ClosingCall
  BY <1>1 DEF Closing, ClosingCall
<1>. QED BY <1>2 DEF HandleFailed, TypeOK

\* Each action of a worker keeps types and budgets.
LEMMA WorkTyped ==
    ASSUME TypeOK, BudgetsKept, NEW w \in Workers, Work(w)
    PROVE  TypeOK' /\ BudgetsKept'
<1>1. ds \in Dataset /\ work[w] \in Processor
  BY DEF TypeOK
<1>2. /\ work[w].delivery \in Delivery /\ work[w].mapping \in SUBSET Groups
      /\ work[w].todo \in SUBSET Paths /\ work[w].inFlight \in SUBSET Paths
      /\ work[w].errors \in SUBSET Paths /\ work[w].summary \in SUBSET Paths
      /\ work[w].stored \in BOOLEAN /\ work[w].outcome \in Outcome
      /\ work[w].job \in JobIds \cup {0}
  BY <1>1 DEF Processor
<1>3. Stored \in SUBSET Paths
  BY DEF Stored
<1>4. /\ \A pc \in ImportPC \cup RemovalPC \cup DeletePC :
           Goto(w, pc) => work' \in [Workers -> Processor]
      /\ \A outcome \in Outcome : Settle(w, outcome) => work' \in [Workers -> Processor]
      /\ \A r \in Processor : Becomes(w, r) => work' \in [Workers -> Processor]
  BY GotoTyped, SettleTyped, BecomesTyped DEF ProcessorPC
<1>5. "ok" \in Outcome /\ "error" \in Outcome /\ "fatal" \in Outcome
  BY DEF Outcome
<1>6. ds.import \in Import
  BY <1>1 DEF Dataset
<1>7. Idle \in Processor
  BY NoDeliveryTyped DEF Idle, Processor, ProcessorPC, Outcome
<1>8. NoDelivery \in Delivery
  BY NoDeliveryTyped
<1>11. CASE FindImport(w)
  <2>1. [work[w] EXCEPT !.pc = "start", !.mapping = ds.import.mapping] \in Processor
    BY <1>1, <1>3, <1>6 DEF Processor, ProcessorPC, ImportPC, Tried, Import
  <2>2. work' \in [Workers -> Processor]
    BY <1>11, <2>1, <1>4, <1>5 DEF FindImport, ImportPC, Tried, RemovalPC, DeletePC
  <2>. QED BY <1>11, <2>1, <2>2 DEF FindImport, TypeOK, BudgetsKept
<1>12. CASE StartImport(w)
  <2>1. [ds EXCEPT !.import.status = "running", !.import.stale = FALSE] \in Dataset
    BY <1>1, <1>2 DEF Dataset, Import, Status, FinishStatus
  <2>2. work' \in [Workers -> Processor]
    BY <1>12, <2>1, <1>4, <1>5 DEF StartImport, ImportPC, Tried, RemovalPC, DeletePC
  <2>3. ds' \in Dataset
    BY <1>12, <2>1, <2>2, <1>1 DEF StartImport
  <2>. QED BY <1>12, <2>1, <2>2, <2>3 DEF StartImport, TypeOK, BudgetsKept
<1>13. CASE ListStale(w) \/ ClearFolder(w)
  <2>1. \A batch \in SUBSET ((0..MaxIds) \X Paths) :
          /\ [work[w] EXCEPT !.pc = "clear", !.batch = batch] \in Processor
          /\ [work[w] EXCEPT !.batch = batch] \in Processor
    <3>1. "clear" \in ProcessorPC
      BY DEF ProcessorPC, ImportPC, Tried
    <3>. QED BY <1>1, <3>1 DEF Processor
  <2>2. CASE ListStale(w)
    <3>1. RowsOf({p \in Stored : rows[p] # work[w].delivery.id})
            \in SUBSET ((0..MaxIds) \X Paths)
      BY <1>3 DEF TypeOK, RowsOf
    <3>2. work' \in [Workers -> Processor]
      BY <2>1, <2>2, <3>1, <1>4 DEF ListStale
    <3>. QED BY <2>2, <3>2 DEF ListStale, TypeOK, BudgetsKept
  <2>3. CASE ClearFolder(w)
    <3>1. PICK stale \in work[w].batch : ClearFolder(w)!2!(stale)
      BY <2>3 DEF ClearFolder
    <3>2. {row \in work[w].batch : row[1] # stale[1]} \in SUBSET ((0..MaxIds) \X Paths)
      BY <1>1 DEF Processor
    <3>3. work' \in [Workers -> Processor]
      BY <2>1, <3>1, <3>2, <1>4
    <3>. QED BY <2>3, <3>1, <3>3 DEF ClearFolder, TypeOK, BudgetsKept
  <2>. QED BY <1>13, <2>2, <2>3
<1>14. CASE ClearRows(w)
  <2>1. work' \in [Workers -> Processor]
    BY <1>14, <1>4, <1>5 DEF ClearRows, ImportPC, Tried
  <2>2. rows' \in [Paths -> 0..MaxIds]
    BY <1>14, RecordAssumption DEF TypeOK, ClearRows
  <2>. QED BY <1>14, <2>1, <2>2 DEF ClearRows, TypeOK, BudgetsKept
<1>15. CASE ListStored(w)
  <2>1. \A todo \in SUBSET Paths : [work[w] EXCEPT !.pc = "store", !.todo = todo] \in Processor
    BY <1>1, <1>3, <1>6 DEF Processor, ProcessorPC, ImportPC, Tried, Import
  <2>2. work' \in [Workers -> Processor]
    BY <1>15, <2>1, <1>4, <1>5 DEF ListStored, ImportPC, Tried, RemovalPC, DeletePC
  <2>. QED BY <1>15, <2>1, <2>2 DEF ListStored, TypeOK, BudgetsKept
<1>16. ASSUME NEW p \in Paths, RejectEntry(w, p)
      PROVE  TypeOK' /\ BudgetsKept'
  <2>1. [work[w] EXCEPT !.todo = @ \ {p}, !.errors = @ \cup {p}] \in Processor
    BY <1>1, <1>3, <1>6 DEF Processor, ProcessorPC, ImportPC, Tried, Import
  <2>2. work' \in [Workers -> Processor]
    BY <1>16, <2>1, <1>4, <1>5 DEF RejectEntry, ImportPC, Tried, RemovalPC, DeletePC
  <2>. QED BY <1>16, <2>1, <2>2 DEF RejectEntry, TypeOK, BudgetsKept
<1>17. ASSUME NEW p \in Paths, PutEntry(w, p)
      PROVE  TypeOK' /\ BudgetsKept'
  <2>1. [work[w] EXCEPT !.todo = @ \ {p}, !.inFlight = @ \cup {p}] \in Processor
    BY <1>1, <1>3, <1>6 DEF Processor, ProcessorPC, ImportPC, Tried, Import
  <2>2. work' \in [Workers -> Processor]
    BY <1>17, <2>1, <1>4, <1>5 DEF PutEntry, ImportPC, Tried, RemovalPC, DeletePC
  <2>3. files' \subseteq (0..MaxIds) \X Paths
    BY <1>17, <1>2 DEF TypeOK, PutEntry, Delivery
  <2>. QED BY <1>17, <2>1, <2>2, <2>3 DEF PutEntry, TypeOK, BudgetsKept
<1>18. ASSUME NEW p \in Paths, CreateRow(w, p)
      PROVE  TypeOK' /\ BudgetsKept'
  <2>1. [work[w] EXCEPT !.inFlight = @ \ {p}, !.stored = @ \/ rows[p] = 0] \in Processor
    <3>1. (work[w].stored \/ rows[p] = 0) \in BOOLEAN
      OBVIOUS
    <3>2. work[w].inFlight \ {p} \in SUBSET Paths
      BY <1>1 DEF Processor
    <3>. QED BY <1>1, <3>1, <3>2 DEF Processor
  <2>2. work' \in [Workers -> Processor]
    BY <1>18, <2>1, <1>4, <1>5 DEF CreateRow, ImportPC, Tried, RemovalPC, DeletePC
  <2>3. rows' \in [Paths -> 0..MaxIds]
    BY <1>18, <1>2 DEF TypeOK, CreateRow, Delivery
  <2>. QED BY <1>18, <2>1, <2>2, <2>3 DEF CreateRow, TypeOK, BudgetsKept
<1>19. CASE Heartbeat(w)
  <2>1. [ds EXCEPT !.import.stale = FALSE] \in Dataset
    BY <1>1, <1>2 DEF Dataset, Import, Status, FinishStatus
  <2>2. work' \in [Workers -> Processor]
    BY <1>19, <1>4 DEF Heartbeat, ImportPC, Tried, TypeOK
  <2>3. ds' \in Dataset
    BY <1>19, <2>1, <2>2, <1>1 DEF Heartbeat
  <2>. QED BY <1>19, <2>1, <2>2, <2>3 DEF Heartbeat, TypeOK, BudgetsKept
<1>20. CASE LastHeartbeat(w)
  <2>1. [ds EXCEPT !.import.stale = FALSE] \in Dataset
    BY <1>1, <1>2 DEF Dataset, Import, Status, FinishStatus
  <2>2. work' \in [Workers -> Processor]
    BY <1>20, <2>1, <1>4, <1>5 DEF LastHeartbeat, ImportPC, Tried, RemovalPC, DeletePC
  <2>3. ds' \in Dataset
    BY <1>20, <2>1, <2>2, <1>1 DEF LastHeartbeat
  <2>. QED BY <1>20, <2>1, <2>2, <2>3 DEF LastHeartbeat, TypeOK, BudgetsKept
<1>21. CASE Summarize(w)
  <2>1. [work[w] EXCEPT !.pc = "finish", !.summary = Stored] \in Processor
    BY <1>1, <1>3, <1>6 DEF Processor, ProcessorPC, ImportPC, Tried, Import
  <2>2. work' \in [Workers -> Processor]
    BY <1>21, <2>1, <1>4, <1>5 DEF Summarize, ImportPC, Tried, RemovalPC, DeletePC
  <2>. QED BY <1>21, <2>1, <2>2 DEF Summarize, TypeOK, BudgetsKept
<1>22. CASE FinishImport(w)
  <2>1. [ds EXCEPT !.import.status = FinishStatus(w), !.import.errors = work[w].errors,
             !.shown = work[w].summary] \in Dataset
    BY <1>1, <1>2 DEF Dataset, Import, Status, FinishStatus
  <2>2. work' \in [Workers -> Processor]
    BY <1>22, <2>1, <1>4, <1>5 DEF FinishImport, ImportPC, Tried, RemovalPC, DeletePC
  <2>3. ds' \in Dataset
    BY <1>22, <2>1, <2>2, <1>1 DEF FinishImport
  <2>. QED BY <1>22, <2>1, <2>2, <2>3 DEF FinishImport, TypeOK, BudgetsKept
<1>23. CASE StopImport(w)
  <2>1. [ds EXCEPT !.import.errors = work[w].errors] \in Dataset
    BY <1>1, <1>2 DEF Dataset, Import, Status, FinishStatus
  <2>2. work' \in [Workers -> Processor]
    BY <1>23, <2>1, <1>4, <1>5 DEF StopImport, ImportPC, Tried, RemovalPC, DeletePC
  <2>3. ds' \in Dataset
    BY <1>23, <2>1, <2>2, <1>1 DEF StopImport
  <2>. QED BY <1>23, <2>1, <2>2, <2>3 DEF StopImport, TypeOK, BudgetsKept
<1>24. CASE ShowRead(w)
  <2>1. [work[w] EXCEPT !.pc = "showWrite", !.summary = Stored] \in Processor
    BY <1>1, <1>3, <1>6 DEF Processor, ProcessorPC, ImportPC, Tried, Import
  <2>2. work' \in [Workers -> Processor]
    BY <1>24, <2>1, <1>4, <1>5 DEF ShowRead, ImportPC, Tried, RemovalPC, DeletePC
  <2>. QED BY <1>24, <2>1, <2>2 DEF ShowRead, TypeOK, BudgetsKept
<1>25. CASE ShowWrite(w)
  <2>1. [ds EXCEPT !.shown = work[w].summary] \in Dataset
    BY <1>1, <1>2 DEF Dataset, Import, Status, FinishStatus
  <2>2. work' \in [Workers -> Processor]
    BY <1>25, <2>1, <1>4, <1>5 DEF ShowWrite, ImportPC, Tried, RemovalPC, DeletePC
  <2>3. ds' \in Dataset
    BY <1>25, <2>1, <1>1 DEF ShowWrite, Show
  <2>. QED BY <1>25, <2>1, <2>2, <2>3 DEF ShowWrite, TypeOK, BudgetsKept
<1>26. CASE FailAttempt(w)
  <2>1. [ds EXCEPT !.import.errors = work[w].errors] \in Dataset
    BY <1>1, <1>2 DEF Dataset, Import, Status, FinishStatus
  <2>2. work' \in [Workers -> Processor]
    BY <1>26, <1>2, <1>4 DEF FailAttempt
  <2>3. ds' \in Dataset
    BY <1>26, <2>1, <2>2, <1>1 DEF FailAttempt
  <2>. QED BY <1>26, <2>1, <2>2, <2>3 DEF FailAttempt, TypeOK, BudgetsKept
<1>27. CASE GroupFind(w)
  <2>1. work' \in [Workers -> Processor]
    BY <1>27, <1>4, <1>5 DEF GroupFind, ImportPC, Tried, RemovalPC, DeletePC
  <2>. QED BY <1>27, <2>1 DEF GroupFind, TypeOK, BudgetsKept
<1>28. CASE GroupBatch(w) \/ GroupFiles(w)
  <2>1. \A batch \in SUBSET ((0..MaxIds) \X Paths), pc \in RemovalPC :
        [work[w] EXCEPT !.batch = batch, !.pc = pc] \in Processor
    BY <1>1 DEF Processor, ProcessorPC
  <2>2. RowsOf({p \in Stored : GroupOf[p] = work[w].job}) \in SUBSET ((0..MaxIds) \X Paths)
    BY <1>3 DEF TypeOK, RowsOf
  <2>3. CASE GroupBatch(w)
    <3>1. work' \in [Workers -> Processor]
      BY <2>1, <2>2, <2>3, <1>4 DEF GroupBatch, RemovalPC
    <3>. QED BY <2>3, <3>1 DEF GroupBatch, TypeOK, BudgetsKept
  <2>4. CASE GroupFiles(w)
    <3>1. work' \in [Workers -> Processor]
      BY <2>4, <1>4 DEF GroupFiles, RemovalPC
    <3>. QED BY <2>4, <3>1 DEF GroupFiles, TypeOK, BudgetsKept
  <2>. QED BY <1>28, <2>3, <2>4
<1>29. CASE GroupRows(w)
  <2>1. [work[w] EXCEPT !.batch = {}, !.pc = "groupBatch"] \in Processor
    BY <1>1, <1>3, <1>6 DEF Processor, ProcessorPC, RemovalPC, Import
  <2>2. work' \in [Workers -> Processor]
    BY <1>29, <2>1, <1>4, <1>5 DEF GroupRows, ImportPC, Tried, RemovalPC, DeletePC
  <2>3. rows' \in [Paths -> 0..MaxIds]
    BY <1>29, RecordAssumption DEF TypeOK, GroupRows
  <2>. QED BY <1>29, <2>1, <2>2, <2>3 DEF GroupRows, TypeOK, BudgetsKept
<1>30. CASE GroupSummarize(w)
  <2>1. [work[w] EXCEPT !.pc = "groupWrite", !.summary = Stored] \in Processor
    BY <1>1, <1>3, <1>6 DEF Processor, ProcessorPC, RemovalPC, Import
  <2>2. work' \in [Workers -> Processor]
    BY <1>30, <2>1, <1>4, <1>5 DEF GroupSummarize, ImportPC, Tried, RemovalPC, DeletePC
  <2>. QED BY <1>30, <2>1, <2>2 DEF GroupSummarize, TypeOK, BudgetsKept
<1>31. CASE GroupWrite(w)
  <2>1. [ds EXCEPT !.shown = work[w].summary, !.removing = @ \ {work[w].job},
             !.import.mapping = @ \ {work[w].job}] \in Dataset
    BY <1>1, <1>2 DEF Dataset, Import, Status, FinishStatus
  <2>2. work' \in [Workers -> Processor]
    BY <1>31, <2>1, <1>4, <1>5 DEF GroupWrite, ImportPC, Tried, RemovalPC, DeletePC
  <2>3. ds' \in Dataset
    BY <1>31, <2>1, <2>2, <1>1 DEF GroupWrite
  <2>. QED BY <1>31, <2>1, <2>2, <2>3 DEF GroupWrite, TypeOK, BudgetsKept
<1>32. CASE DeleteFind(w)
  <2>1. work' \in [Workers -> Processor]
    BY <1>32, <1>4, <1>5 DEF DeleteFind, ImportPC, Tried, RemovalPC, DeletePC
  <2>. QED BY <1>32, <2>1 DEF DeleteFind, TypeOK, BudgetsKept
<1>33. CASE DeleteFiles(w)
  <2>1. work' \in [Workers -> Processor]
    BY <1>33, <1>4, <1>5 DEF DeleteFiles, ImportPC, Tried, RemovalPC, DeletePC
  <2>. QED BY <1>33, <2>1 DEF DeleteFiles, TypeOK, BudgetsKept
<1>34. CASE DeleteRows(w)
  <2>1. work' \in [Workers -> Processor]
    BY <1>34, <1>4, <1>5 DEF DeleteRows, ImportPC, Tried, RemovalPC, DeletePC
  <2>2. rows' \in [Paths -> 0..MaxIds]
    BY <1>34, RecordAssumption DEF TypeOK, DeleteRows
  <2>. QED BY <1>34, <2>1, <2>2 DEF DeleteRows, TypeOK, BudgetsKept
<1>35. CASE DeleteRecord(w)
  <2>1. work' \in [Workers -> Processor]
    BY <1>35, <1>4, <1>5 DEF DeleteRecord, ImportPC, Tried, RemovalPC, DeletePC
  <2>2. ds' \in Dataset
    BY <1>35, NewDatasetTyped DEF DeleteRecord
  <2>. QED BY <1>35, <2>1, <2>2 DEF DeleteRecord, TypeOK, BudgetsKept
<1>36. CASE Take(w)
  <2>1. PICK j \in JobIds : Take(w)!2!(j)
    BY <1>36 DEF Take
  <2>2. \A d \in Delivery, pc \in ProcessorPC :
        [Idle EXCEPT !.job = j, !.delivery = d, !.pc = pc] \in Processor
    BY <1>7 DEF Processor
  <2>3. jobs[j] \in Job(Delivery) /\ jobs[j].data \in Delivery /\ Budgeted(jobs[j])
    BY DEF TypeOK, BudgetsKept, Job
  <2>4. work' \in [Workers -> Processor]
    BY <2>1, <2>2, <2>3, <1>4 DEF ProcessorPC, ImportPC, Tried, RemovalPC, DeletePC
  <2>5. jobs' \in [JobIds -> Job(Delivery)] /\ BudgetsKept'
    BY <2>1, <2>3, JobTyped, QueueOperators
  <2>. QED BY <1>36, <2>1, <2>2, <2>3, <2>4, <2>5 DEF Take, TypeOK, BudgetsKept
<1>37. CASE AttemptError(w)
  <2>1. \A outcome \in Outcome :
        [work[w] EXCEPT !.pc = "failing", !.outcome = outcome] \in Processor
    BY <1>1 DEF Processor, ProcessorPC, ImportPC
  <2>2. work' \in [Workers -> Processor]
    BY <1>37, <2>1, <1>4, <1>5 DEF AttemptError
  <2>. QED BY <1>37, <2>1, <2>2 DEF AttemptError, TypeOK, BudgetsKept
<1>42. ASSUME NEW p \in Paths, EntryError(w, p)
      PROVE  TypeOK' /\ BudgetsKept'
  <2>1. /\ [work[w] EXCEPT !.inFlight = @ \ {p}, !.pc = "failing", !.outcome = "error"]
               \in Processor
        /\ [work[w] EXCEPT !.inFlight = @ \ {p}] \in Processor
    BY <1>1, <1>2, <1>5 DEF Processor, ProcessorPC, ImportPC
  <2>2. work' \in [Workers -> Processor]
    BY <1>42, <2>1, <1>4 DEF EntryError
  <2>. QED BY <1>42, <2>2 DEF EntryError, TypeOK, BudgetsKept
<1>38. CASE EndAttempt(w)
  <2>1. work' \in [Workers -> Processor]
    BY <1>38, <1>4, <1>7 DEF EndAttempt
  <2>2. CASE jobs[work[w].job].lock # w
    BY <1>38, <2>1, <2>2 DEF EndAttempt, TypeOK, BudgetsKept
  <2>3. CASE jobs[work[w].job].lock = w /\ work[w].job \in JobIds
    <3>. DEFINE j == work[w].job
                after == CASE work[w].outcome = "ok" -> Completed(jobs[j])
                           [] work[w].outcome = "error" -> AttemptFailed(jobs[j])
                           [] work[w].outcome = "fatal" -> Failed(jobs[j])
    <3>1. jobs[j] \in Job(Delivery) /\ Budgeted(jobs[j])
      BY <2>3 DEF TypeOK, BudgetsKept
    <3>2. after \in Job(Delivery) /\ Budgeted(after)
      BY <3>1, <2>3, <1>2, <1>8, QueueOperators DEF Outcome
    <3>3. jobs' = [jobs EXCEPT ![j] = after] /\ HandleFailed(w, after, j)
      BY <1>38, <2>3 DEF EndAttempt
    <3>. HIDE DEF after
    <3>4. jobs' \in [JobIds -> Job(Delivery)] /\ BudgetsKept'
      BY <3>2, <3>3, JobTyped
    <3>5. closings' \subseteq ClosingCall
      BY <3>2, <3>3, HandleFailedTyped
    <3>. QED BY <1>38, <2>1, <3>4, <3>5 DEF EndAttempt, TypeOK
  <2>4. CASE jobs[work[w].job].lock = w /\ work[w].job \notin JobIds
    <3>1. jobs' = jobs /\ closings' = closings
      <4>1. PICK job : /\ jobs' = [jobs EXCEPT ![work[w].job] = job]
                       /\ HandleFailed(w, job, work[w].job)
        BY <1>38, <2>4 DEF EndAttempt
      <4>2. jobs' = jobs
        BY <2>4, <4>1 DEF TypeOK
      <4>. QED BY <2>4, <4>1, <4>2 DEF HandleFailed, JobIds
    <3>. QED BY <1>38, <2>1, <3>1 DEF EndAttempt, TypeOK, BudgetsKept
  <2>. QED BY <2>2, <2>3, <2>4
<1>39. CASE Crash(w)
  <2>1. work' \in [Workers -> Processor]
    BY <1>39, <1>4, <1>7 DEF Crash
  <2>2. \A j \in JobIds : jobs[j] \in Job(Delivery) /\ Budgeted(jobs[j])
    BY DEF TypeOK, BudgetsKept
  <2>3. \A j \in JobIds : Unlocked(jobs[j]) \in Job(Delivery) /\ Budgeted(Unlocked(jobs[j]))
    BY <2>2, <1>8, QueueOperators
  <2>4. jobs' \in [JobIds -> Job(Delivery)] /\ BudgetsKept'
    BY <1>39, <2>2, <2>3 DEF Crash, BudgetsKept
  <2>5. faults' \in 0..MaxFaults
    BY <1>39, RecordAssumption DEF Crash, Fault, TypeOK
  <2>6. closings' \subseteq ClosingCall
    BY <1>39 DEF Crash, TypeOK
  <2>. QED BY <1>39, <2>1, <2>2, <2>3, <2>4, <2>5, <2>6 DEF Crash, TypeOK, BudgetsKept
<1>40. CASE LoseLock(w)
  <2>1. work[w].job \in JobIds
    BY <1>40, <1>2 DEF LoseLock
  <2>2. jobs' \in [JobIds -> Job(Delivery)] /\ BudgetsKept'
    BY <1>40, <2>1, <1>8, JobTyped, QueueOperators DEF LoseLock, TypeOK, BudgetsKept
  <2>3. faults' \in 0..MaxFaults
    BY <1>40, RecordAssumption DEF LoseLock, Fault, TypeOK
  <2>. QED BY <1>40, <2>1, <2>2, <2>3 DEF LoseLock, TypeOK, BudgetsKept
<1>41. ASSUME NEW j \in JobIds, CheckStalled(w, j)
      PROVE  TypeOK' /\ BudgetsKept'
  <2>1. jobs[j] \in Job(Delivery) /\ Budgeted(jobs[j])
    BY DEF TypeOK, BudgetsKept
  <2>2. Stalled(jobs[j]) \in Job(Delivery) /\ Budgeted(Stalled(jobs[j]))
    BY <1>41, <1>8, <2>1, QueueOperators DEF CheckStalled
  <2>3. jobs' \in [JobIds -> Job(Delivery)] /\ BudgetsKept'
    BY <1>41, <2>2, JobTyped DEF CheckStalled
  <2>4. jobs'[j] \in Job(Delivery)
    BY <2>3
  <2>5. closings' \subseteq ClosingCall
    <3>1. CASE HandleFailed(w, jobs'[j], j)
      BY <2>4, <3>1, HandleFailedTyped
    <3>2. CASE UNCHANGED closings
      BY <3>2 DEF TypeOK
    <3>. QED BY <1>41, <3>1, <3>2 DEF CheckStalled
  <2>. QED BY <1>41, <2>3, <2>5 DEF CheckStalled, TypeOK
<1>. QED
  BY <1>11, <1>12, <1>13, <1>14, <1>15, <1>16, <1>17, <1>18, <1>19, <1>20, <1>21, <1>22, <1>23,
     <1>24, <1>25, <1>26, <1>27, <1>28, <1>29, <1>30, <1>31, <1>32, <1>33, <1>34, <1>35, <1>36,
     <1>37, <1>38, <1>39, <1>40, <1>41, <1>42 DEF Work, Progress

\* A job that Redis forgets keeps types and budgets.
LEMMA LoseJobTyped ==
    ASSUME TypeOK, BudgetsKept, NEW j \in JobIds, LoseJob(j)
    PROVE  TypeOK' /\ BudgetsKept'
<1>1. jobs[j] \in Job(Delivery) /\ Budgeted(jobs[j])
  BY DEF TypeOK, BudgetsKept
<1>2. PICK w \in Workers : TRUE
  BY QueueAssumption
<1>3. NoJob(NoDelivery) \in Job(Delivery) /\ Budgeted(NoJob(NoDelivery))
  BY <1>1, <1>2, NoDeliveryTyped, QueueOperators
<1>4. jobs' \in [JobIds -> Job(Delivery)] /\ BudgetsKept'
  BY <1>3, JobTyped DEF LoseJob
<1>5. faults' \in 0..MaxFaults
  BY RecordAssumption DEF LoseJob, Fault, TypeOK
<1>. QED BY <1>4, <1>5 DEF LoseJob, TypeOK

-----------------------------------------------------------------------------
(* Types: the requests. *)

\* The delivery of an import and its job id are within bounds.
LEMMA DeliveryTyped ==
    /\ \A import \in Import : DeliveryOf(import) \in Delivery
    /\ \A d \in Delivery : ImportJobId(d) \in 0..MaxIds
BY DEF Import, Delivery, DeliveryOf, ImportJobId

\* An idle client is a client.
LEMMA NoRequestTyped == NoRequest \in Request
BY NewDatasetTyped, RecordAssumption DEF NoRequest, Request, RequestPC

\* The requests stay typed when one goes on as a request.
LEMMA RequestTyped ==
    ASSUME TypeOK, NEW c \in Clients
    PROVE  /\ \A r \in Request : Continue(c, r) => reqs' \in [Clients -> Request]
           /\ Done(c) => reqs' \in [Clients -> Request]
           /\ reqs[c] \in Request /\ ds \in Dataset /\ ds.import \in Import
<1>1. \A r \in Request : Continue(c, r) => reqs' \in [Clients -> Request]
  BY DEF TypeOK, Continue
<1>2. Done(c) => reqs' \in [Clients -> Request]
  BY <1>1, NoRequestTyped DEF Done
<1>3. ds \in Dataset /\ ds.import \in Import
  BY DEF TypeOK, Dataset
<1>. QED BY <1>1, <1>2, <1>3 DEF TypeOK

\* A read keeps types and budgets, whatever kind of request reads.
LEMMA ReadTyped ==
    ASSUME TypeOK, BudgetsKept, NEW c \in Clients, NEW op \in RequestPC, NEW r \in Request,
           Read(c, op, r)
    PROVE  TypeOK' /\ BudgetsKept'
<1>1. [r EXCEPT !.pc = op] \in Request
  BY DEF Request
<1>2. reqs' \in [Clients -> Request]
  BY <1>1, RequestTyped DEF Read
<1>. QED BY <1>2 DEF Read, UnchangedByRequests, TypeOK, BudgetsKept

\* So does a call to the queue that replaces a job by one within its budget.
LEMMA EnqueueTyped ==
    ASSUME TypeOK, BudgetsKept, NEW c \in Clients, NEW pc, NEW j, NEW job \in Job(Delivery),
           Budgeted(job), Enqueue(c, pc, j, job)
    PROVE  TypeOK' /\ BudgetsKept'
<1>1. jobs' \in [JobIds -> Job(Delivery)] /\ BudgetsKept'
  BY JobTyped DEF Enqueue
<1>2. reqs' \in [Clients -> Request]
  BY RequestTyped DEF Enqueue
<1>. QED BY <1>1, <1>2 DEF Enqueue, UnchangedByRequests, TypeOK

\* The six kinds of read, each with what it remembers.
LEMMA ReadsTyped ==
    ASSUME TypeOK, BudgetsKept, NEW c \in Clients,
           \/ ReadStart(c) \/ ReadResume(c) \/ ReadCancel(c) \/ ReadRemoveGroup(c)
           \/ ReadRestore(c) \/ ReadPurge(c)
    PROVE  TypeOK' /\ BudgetsKept'
<1>1. [NoRequest EXCEPT !.import = ds.import] \in Request
  BY RequestTyped, NoRequestTyped DEF Request
<1>2. \A p \in ds.shown : [NoRequest EXCEPT !.group = {GroupOf[p]}] \in Request
  BY RequestTyped, NoRequestTyped, RecordAssumption DEF Request, Dataset
<1>3. {"start", "resume", "cancel", "removeGroup", "restore", "purge"} \subseteq RequestPC
  BY DEF RequestPC
<1>4. CASE ReadStart(c)
  BY <1>1, <1>3, <1>4, ReadTyped DEF ReadStart
<1>5. CASE ReadResume(c)
  BY <1>1, <1>3, <1>5, ReadTyped DEF ReadResume
<1>6. CASE ReadCancel(c)
  BY <1>1, <1>3, <1>6, ReadTyped DEF ReadCancel
<1>7. CASE ReadRemoveGroup(c)
  BY <1>2, <1>3, <1>7, ReadTyped DEF ReadRemoveGroup
<1>8. CASE ReadRestore(c)
  BY NoRequestTyped, <1>3, <1>8, ReadTyped DEF ReadRestore
<1>9. CASE ReadPurge(c)
  BY <1>1, <1>3, <1>9, ReadTyped DEF ReadPurge
<1>. QED BY <1>4, <1>5, <1>6, <1>7, <1>8, <1>9

\* The calls to the queue, and a request that ends before them.
LEMMA EnqueuesTyped ==
    ASSUME TypeOK, BudgetsKept, NEW c \in Clients,
           EnqueueImport(c) \/ EnqueueGroup(c) \/ EnqueueDelete(c) \/ Drop(c) \/ Abandon(c)
    PROVE  TypeOK' /\ BudgetsKept'
<1>1. /\ reqs[c] \in Request /\ reqs[c].import \in Import /\ reqs[c].then \in RequestPC
      /\ DeliveryOf(reqs[c].import) \in Delivery /\ reqs[c].group \subseteq Groups
  BY RequestTyped, DeliveryTyped DEF Request, RequestPC
<1>2. \A j \in JobIds : jobs[j] \in Job(Delivery) /\ Budgeted(jobs[j])
  BY DEF TypeOK, BudgetsKept
<1>3. PICK w \in Workers : TRUE
  BY QueueAssumption
<1>4. \A j \in JobIds, d \in Delivery :
        /\ Added(jobs[j], d) \in Job(Delivery) /\ Budgeted(Added(jobs[j], d))
        /\ Requested(jobs[j], d) \in Job(Delivery) /\ Budgeted(Requested(jobs[j], d))
        /\ Removed(jobs[j]) \in Job(Delivery) /\ Budgeted(Removed(jobs[j]))
  BY <1>2, <1>3, QueueOperators
<1>5. CASE EnqueueImport(c)
  <2>. DEFINE d == DeliveryOf(reqs[c].import)
              j == ImportJobId(d)
  <2>1. CASE j \in JobIds
    BY <1>1, <1>4, <1>5, <2>1, EnqueueTyped DEF EnqueueImport
  <2>2. CASE j \notin JobIds
    <3>1. jobs' = jobs
      BY <1>5, <2>2 DEF EnqueueImport, Enqueue, TypeOK
    <3>2. reqs' \in [Clients -> Request]
      BY <1>5, RequestTyped DEF EnqueueImport, Enqueue
    <3>. QED BY <1>5, <3>1, <3>2
             DEF EnqueueImport, Enqueue, UnchangedByRequests, TypeOK, BudgetsKept
  <2>. QED BY <2>1, <2>2
<1>6. CASE EnqueueGroup(c)
  <2>1. PICK g \in reqs[c].group :
               Enqueue(c, "enqueueGroup", g, Requested(jobs[g], NoDelivery))
    BY <1>6 DEF EnqueueGroup
  <2>2. g \in JobIds
    BY <1>1 DEF JobIds
  <2>. QED BY <1>4, <2>1, <2>2, NoDeliveryTyped, EnqueueTyped
<1>7. CASE EnqueueDelete(c)
  <2>1. DeleteJob \in JobIds
    BY DEF JobIds
  <2>. QED BY <1>4, <1>7, <2>1, NoDeliveryTyped, EnqueueTyped DEF EnqueueDelete
<1>8. CASE Drop(c)
  <2>1. jobs' \in [JobIds -> Job(Delivery)] /\ BudgetsKept'
    <3>1. CASE reqs[c].drop \in JobIds
      BY <1>4, <1>8, <3>1, NoDeliveryTyped, JobTyped DEF Drop, TypeOK
    <3>2. CASE reqs[c].drop \notin JobIds
      BY <1>8, <3>2 DEF Drop, TypeOK, BudgetsKept
    <3>. QED BY <3>1, <3>2
  <2>2. [reqs[c] EXCEPT !.pc = reqs[c].then, !.then = "idle", !.drop = 0] \in Request
    <3>1. 0 \in 0..MaxIds /\ "idle" \in RequestPC
      BY RecordAssumption DEF RequestPC
    <3>. QED BY <1>1, <3>1 DEF Request
  <2>3. reqs' \in [Clients -> Request]
    BY <1>8, <2>2, RequestTyped, NoRequestTyped DEF Drop
  <2>. QED BY <1>8, <2>1, <2>3 DEF Drop, UnchangedByRequests, TypeOK
<1>9. CASE Abandon(c)
  <2>1. reqs' \in [Clients -> Request]
    BY <1>9, RequestTyped DEF Abandon
  <2>. QED BY <1>9, <2>1 DEF Abandon, UnchangedByRequests, TypeOK, BudgetsKept
<1>. QED BY <1>5, <1>6, <1>7, <1>8, <1>9

\* The updates, each with its 409 and its success.
LEMMA UpdatesTyped ==
    ASSUME TypeOK, BudgetsKept, NEW c \in Clients,
           Start(c) \/ Resume(c) \/ Cancel(c) \/ RemoveGroup(c) \/ Restore(c) \/ Purge(c)
    PROVE  TypeOK' /\ BudgetsKept'
<1>1. /\ reqs[c] \in Request /\ reqs[c].import \in Import /\ reqs[c].group \subseteq Groups
      /\ DeliveryOf(reqs[c].import) \in Delivery
      /\ ImportJobId(DeliveryOf(reqs[c].import)) \in 0..MaxIds
      /\ ds \in Dataset /\ ds.import \in Import /\ issued \in 0..MaxIds
  BY RequestTyped, DeliveryTyped DEF Request, TypeOK
<1>2. /\ \A r \in Request : Continue(c, r) => reqs' \in [Clients -> Request]
      /\ Conflict(c) => reqs' \in [Clients -> Request] /\ UNCHANGED <<ds, issued>>
  BY RequestTyped DEF Conflict
<1>3. \A import \in Import : [ds EXCEPT !.import = import] \in Dataset
  BY <1>1 DEF Dataset
<1>4. CASE Start(c)
  <2>1. CASE Conflict(c)
    BY <1>2, <1>4, <2>1 DEF Start, UnchangedByRequests, TypeOK, BudgetsKept
  <2>2. CASE ~Conflict(c)
    <3>. DEFINE new(mapping) == [NoImport EXCEPT !.id = issued + 1, !.status = "queued",
                                                 !.mapping = mapping]
    <3>1. PICK mapping \in Mappings :
             /\ issued < MaxIds /\ issued' = issued + 1
             /\ ds' = [ds EXCEPT !.import = new(mapping)]
             /\ Continue(c, [NoRequest EXCEPT !.pc = "enqueueImport", !.import = new(mapping)])
      BY <1>4, <2>2 DEF Start
    <3>2. issued + 1 \in 0..MaxIds
      BY <1>1, <3>1, RecordAssumption
    <3>3. new(mapping) \in Import
      BY <3>2, NewDatasetTyped, RecordAssumption DEF Import, Status
    <3>. HIDE DEF new
    <3>4. [NoRequest EXCEPT !.pc = "enqueueImport", !.import = new(mapping)] \in Request
      BY <3>3, NoRequestTyped DEF Request, RequestPC
    <3>5. ds' \in Dataset /\ issued' \in 0..MaxIds /\ reqs' \in [Clients -> Request]
      BY <1>2, <1>3, <3>1, <3>2, <3>3, <3>4
    <3>. QED BY <1>4, <3>5 DEF Start, UnchangedByRequests, TypeOK, BudgetsKept
  <2>. QED BY <2>1, <2>2
<1>5. CASE Resume(c)
  <2>1. CASE Conflict(c)
    BY <1>2, <1>5, <2>1 DEF Resume, UnchangedByRequests, TypeOK, BudgetsKept
  <2>2. CASE ~Conflict(c)
    <3>. DEFINE new == [ds.import EXCEPT !.status = "queued", !.errors = {}, !.stale = TRUE,
                                         !.delivery = issued + 1]
                drop == ImportJobId(DeliveryOf(reqs[c].import))
    <3>1. /\ issued < MaxIds /\ issued' = issued + 1
          /\ ds' = [ds EXCEPT !.import = new]
          /\ Continue(c, [NoRequest EXCEPT !.pc = "drop", !.then = "enqueueImport",
                                           !.drop = drop, !.import = new])
      BY <1>5, <2>2 DEF Resume
    <3>2. issued + 1 \in 0..MaxIds
      BY <1>1, <3>1, RecordAssumption
    <3>3. new \in Import
      BY <1>1, <3>2 DEF Import, Status
    <3>. HIDE DEF new, drop
    <3>4. drop \in 0..MaxIds
      BY <1>1 DEF drop
    <3>5. [NoRequest EXCEPT !.pc = "drop", !.then = "enqueueImport", !.drop = drop,
                            !.import = new] \in Request
      BY <3>3, <3>4, NoRequestTyped DEF Request, RequestPC
    <3>6. ds' \in Dataset /\ issued' \in 0..MaxIds /\ reqs' \in [Clients -> Request]
      BY <1>2, <1>3, <3>1, <3>2, <3>3, <3>5
    <3>. QED BY <1>5, <3>6 DEF Resume, UnchangedByRequests, TypeOK, BudgetsKept
  <2>. QED BY <2>1, <2>2
<1>6. CASE Cancel(c)
  <2>. DEFINE drop == ImportJobId(DeliveryOf(reqs[c].import))
  <2>1. [ds EXCEPT !.import.status = "cancelled"] \in Dataset
    BY <1>1 DEF Dataset, Import, Status
  <2>. HIDE DEF drop
  <2>2. drop \in 0..MaxIds
    BY <1>1 DEF drop
  <2>3. [NoRequest EXCEPT !.pc = "drop", !.drop = drop] \in Request
    BY <2>2, NoRequestTyped DEF Request, RequestPC
  <2>4. /\ ds' \in Dataset /\ reqs' \in [Clients -> Request] /\ issued' = issued
    BY <1>1, <1>2, <1>6, <2>1, <2>3 DEF Cancel, drop
  <2>. QED BY <1>6, <2>4 DEF Cancel, UnchangedByRequests, TypeOK, BudgetsKept
<1>7. CASE RemoveGroup(c)
  <2>1. [ds EXCEPT !.removing = @ \cup reqs[c].group] \in Dataset
    BY <1>1 DEF Dataset
  <2>2. [reqs[c] EXCEPT !.pc = "enqueueGroup"] \in Request
    BY <1>1 DEF Request, RequestPC
  <2>3. /\ ds' \in Dataset /\ reqs' \in [Clients -> Request] /\ issued' = issued
    BY <1>1, <1>2, <1>7, <2>1, <2>2 DEF RemoveGroup
  <2>. QED BY <1>7, <2>3 DEF RemoveGroup, UnchangedByRequests, TypeOK, BudgetsKept
<1>8. CASE Restore(c)
  <2>1. [ds EXCEPT !.trashed = FALSE] \in Dataset
    BY <1>1 DEF Dataset
  <2>2. ds' \in Dataset /\ reqs' \in [Clients -> Request]
    BY <1>1, <1>8, <2>1, RequestTyped DEF Restore
  <2>. QED BY <1>8, <2>2 DEF Restore, UnchangedByRequests, TypeOK, BudgetsKept
<1>9. CASE Purge(c)
  <2>. DEFINE drop == ImportJobId(DeliveryOf(reqs[c].import))
  <2>1. \A status \in Status :
          [ds EXCEPT !.deleting = TRUE, !.import.status = status] \in Dataset
    BY <1>1 DEF Dataset, Import
  <2>2. ds.import.status \in Status /\ "cancelled" \in Status
    BY <1>1 DEF Import, Status
  <2>. HIDE DEF drop
  <2>3. drop \in 0..MaxIds
    BY <1>1 DEF drop
  <2>4. /\ [NoRequest EXCEPT !.pc = "drop", !.then = "enqueueDelete", !.drop = drop] \in Request
        /\ [NoRequest EXCEPT !.pc = "enqueueDelete"] \in Request
    BY <2>3, NoRequestTyped DEF Request, RequestPC
  <2>5. CASE Conflict(c)
    BY <1>2, <1>9, <2>5 DEF Purge, UnchangedByRequests, TypeOK, BudgetsKept
  <2>6. CASE ~Conflict(c)
    <3>1. /\ ds' = [ds EXCEPT !.deleting = TRUE,
                              !.import.status = IF IsImportActive(reqs[c].import)
                                                  THEN "cancelled" ELSE @]
          /\ Continue(c, IF IsImportActive(reqs[c].import)
                           THEN [NoRequest EXCEPT !.pc = "drop", !.then = "enqueueDelete",
                                                  !.drop = drop]
                           ELSE [NoRequest EXCEPT !.pc = "enqueueDelete"])
          /\ issued' = issued
      BY <1>9, <2>6 DEF Purge, drop
    <3>2. ds' \in Dataset
      BY <2>1, <2>2, <3>1
    <3>3. reqs' \in [Clients -> Request]
      BY <1>2, <2>4, <3>1
    <3>. QED BY <1>9, <3>1, <3>2, <3>3 DEF Purge, UnchangedByRequests, TypeOK, BudgetsKept
  <2>. QED BY <2>5, <2>6
<1>. QED BY <1>4, <1>5, <1>6, <1>7, <1>8, <1>9

\* Holds and the trash, updates without a read.
LEMMA HoldsTyped ==
    ASSUME TypeOK, BudgetsKept, Trash \/ \E r \in Refs : AddHold(r) \/ RemoveHold(r)
    PROVE  TypeOK' /\ BudgetsKept'
<1>1. ds \in Dataset
  BY DEF TypeOK
<1>2. CASE Trash
  <2>1. [ds EXCEPT !.trashed = TRUE] \in Dataset
    BY <1>1 DEF Dataset
  <2>. QED BY <1>2, <2>1 DEF Trash, UnchangedByRequests, TypeOK, BudgetsKept
<1>3. ASSUME NEW r \in Refs, AddHold(r)
      PROVE  TypeOK' /\ BudgetsKept'
  <2>1. [ds EXCEPT !.holds = @ \cup {r}] \in Dataset
    BY <1>1 DEF Dataset
  <2>. QED BY <1>3, <2>1 DEF AddHold, UnchangedByRequests, TypeOK, BudgetsKept
<1>4. ASSUME NEW r \in Refs, RemoveHold(r)
      PROVE  TypeOK' /\ BudgetsKept'
  <2>1. [ds EXCEPT !.holds = @ \ {r}] \in Dataset
    BY <1>1 DEF Dataset
  <2>. QED BY <1>4, <2>1 DEF RemoveHold, UnchangedByRequests, TypeOK, BudgetsKept
<1>. QED BY <1>2, <1>3, <1>4

-----------------------------------------------------------------------------
(* Types: the sweep and the calls of markImportFailed. *)

\* The three steps of markImportFailed.
LEMMA ClosingsTyped ==
    ASSUME TypeOK, BudgetsKept, NEW c \in closings, Close(c)
    PROVE  TypeOK' /\ BudgetsKept'
<1>1. c \in ClosingCall /\ ds \in Dataset
  BY DEF TypeOK
<1>2. \A next \in SUBSET ClosingCall : Replace(c, next) => closings' \subseteq ClosingCall
  BY DEF TypeOK, Replace
<1>3. CASE Mark(c)
  <2>1. [ds EXCEPT !.import.status = "failed", !.import.errors = @ \cup {Zip}] \in Dataset
    BY <1>1 DEF Dataset, Import, Status
  <2>2. [c EXCEPT !.pc = "summarize"] \in ClosingCall
    BY <1>1 DEF ClosingCall
  <2>3. ds' \in Dataset /\ closings' \subseteq ClosingCall
    BY <1>1, <1>2, <1>3, <2>1, <2>2 DEF Mark
  <2>. QED BY <1>3, <2>3 DEF Mark, TypeOK, BudgetsKept
<1>4. CASE CloseSummarize(c)
  <2>1. Stored \in SUBSET Paths
    BY DEF Stored
  <2>2. [c EXCEPT !.pc = "write", !.summary = Stored] \in ClosingCall
    BY <1>1, <2>1 DEF ClosingCall
  <2>3. closings' \subseteq ClosingCall
    BY <1>2, <1>4, <2>2 DEF CloseSummarize
  <2>. QED BY <1>4, <2>3 DEF CloseSummarize, TypeOK, BudgetsKept
<1>5. CASE CloseWrite(c)
  <2>1. [ds EXCEPT !.shown = c.summary] \in Dataset
    BY <1>1 DEF Dataset, ClosingCall
  <2>2. ds' \in Dataset /\ closings' \subseteq ClosingCall
    BY <1>1, <1>2, <1>5, <2>1 DEF CloseWrite, Show
  <2>. QED BY <1>5, <2>2 DEF CloseWrite, TypeOK, BudgetsKept
<1>. QED BY <1>3, <1>4, <1>5 DEF Close

\* A sweep between two runs is one.
LEMMA NoCursorTyped == NoCursor \in Cursor
BY NewDatasetTyped DEF NoCursor, Cursor

\* The steps of the recovery sweep, its end with a fault, and the passing of time.
LEMMA SweepTyped ==
    ASSUME TypeOK, BudgetsKept, Sweep \/ SweepAborts \/ Age
    PROVE  TypeOK' /\ BudgetsKept'
<1>1. /\ sweep \in Cursor /\ sweep.import \in Import /\ sweep.groups \subseteq Groups
      /\ ds \in Dataset /\ ds.import \in Import /\ ds.removing \subseteq Groups
      /\ NoCursor \in Cursor
  BY NoCursorTyped DEF TypeOK, Cursor, Dataset
<1>2. DeliveryOf(sweep.import) \in Delivery /\ NoDelivery \in Delivery
  BY <1>1, DeliveryTyped, NoDeliveryTyped
<1>3. PICK w \in Workers : TRUE
  BY QueueAssumption
<1>4. \A j \in JobIds, d \in Delivery :
        /\ Added(jobs[j], d) \in Job(Delivery) /\ Budgeted(Added(jobs[j], d))
        /\ Requested(jobs[j], d) \in Job(Delivery) /\ Budgeted(Requested(jobs[j], d))
  BY <1>3, QueueOperators DEF TypeOK, BudgetsKept
<1>5. CASE SweepRead
  <2>1. \A pc \in {"delete", "groups"}, import \in Import, groups \in SUBSET Groups :
          [pc |-> pc, import |-> import, groups |-> groups] \in Cursor
    BY DEF Cursor
  <2>2. sweep' \in Cursor
    BY <1>1, <1>5, <2>1, NewDatasetTyped DEF SweepRead
  <2>. QED BY <1>5, <2>2 DEF SweepRead, TypeOK, BudgetsKept
<1>6. CASE SweepDelete
  <2>1. jobs' \in [JobIds -> Job(Delivery)] /\ BudgetsKept'
    BY <1>2, <1>4, <1>6, JobTyped DEF SweepDelete, JobIds
  <2>. QED BY <1>1, <1>6, <2>1 DEF SweepDelete, TypeOK
<1>7. CASE SweepGroup
  <2>1. PICK g \in sweep.groups :
             /\ jobs' = [jobs EXCEPT ![g] = Requested(@, NoDelivery)]
             /\ sweep' = [sweep EXCEPT !.groups = @ \ {g}]
    BY <1>7 DEF SweepGroup
  <2>2. g \in JobIds
    BY <1>1 DEF JobIds
  <2>3. jobs' \in [JobIds -> Job(Delivery)] /\ BudgetsKept'
    BY <1>2, <1>4, <2>1, <2>2, JobTyped DEF TypeOK
  <2>4. sweep' \in Cursor
    BY <1>1, <2>1 DEF Cursor
  <2>. QED BY <1>7, <2>3, <2>4 DEF SweepGroup, TypeOK
<1>8. CASE SweepGroupsDone
  <2>1. [sweep EXCEPT !.pc = "job"] \in Cursor
    BY <1>1 DEF Cursor
  <2>. QED BY <1>1, <1>8, <2>1 DEF SweepGroupsDone, TypeOK, BudgetsKept
<1>9. CASE SweepJob
  <2>1. \A pc \in {"enqueue", "closing"} : [sweep EXCEPT !.pc = pc] \in Cursor
    BY <1>1 DEF Cursor
  <2>2. sweep' \in Cursor
    BY <1>1, <1>9, <2>1 DEF SweepJob, SweepGoes
  <2>3. \A stale \in BOOLEAN :
          Closing(Sweeper, DeliveryOf(sweep.import), stale) \in ClosingCall
    BY <1>2 DEF Closing, ClosingCall
  <2>4. closings' \subseteq ClosingCall
    BY <1>9, <2>3 DEF SweepJob, TypeOK
  <2>. QED BY <1>9, <2>2, <2>4 DEF SweepJob, TypeOK, BudgetsKept
<1>10. CASE SweepEnqueue
  <2>. DEFINE d == DeliveryOf(sweep.import)
  <2>1. CASE ImportJobId(d) \in JobIds
    <3>1. jobs' \in [JobIds -> Job(Delivery)] /\ BudgetsKept'
      BY <1>2, <1>4, <1>10, <2>1, JobTyped DEF SweepEnqueue, TypeOK
    <3>. QED BY <1>1, <1>10, <3>1 DEF SweepEnqueue, TypeOK
  <2>2. CASE ImportJobId(d) \notin JobIds
    <3>1. jobs' = jobs
      BY <1>10, <2>2 DEF SweepEnqueue, TypeOK
    <3>. QED BY <1>1, <1>10, <3>1 DEF SweepEnqueue, TypeOK, BudgetsKept
  <2>. QED BY <2>1, <2>2
<1>11. CASE SweepClosed
  BY <1>1, <1>11 DEF SweepClosed, TypeOK, BudgetsKept
<1>12. CASE SweepAborts
  <2>1. faults' \in 0..MaxFaults
    BY <1>12, RecordAssumption DEF SweepAborts, Fault, TypeOK
  <2>. QED BY <1>1, <1>12, <2>1 DEF SweepAborts, TypeOK, BudgetsKept
<1>13. CASE Age
  <2>1. [ds EXCEPT !.import.stale = TRUE] \in Dataset
    BY <1>1 DEF Dataset, Import
  <2>. QED BY <1>13, <2>1 DEF Age, TypeOK, BudgetsKept
<1>. QED
  BY <1>5, <1>6, <1>7, <1>8, <1>9, <1>10, <1>11, <1>12, <1>13 DEF Sweep

-----------------------------------------------------------------------------
(* Types: every step. *)

\* A new dataset is typed and nothing of its budgets is spent.
LEMMA InitTyped == Init => TypeOK /\ BudgetsKept
<1>. SUFFICES ASSUME Init PROVE TypeOK /\ BudgetsKept
  OBVIOUS
<1>1. NoJob(NoDelivery) \in Job(Delivery) /\ Budgeted(NoJob(NoDelivery))
  BY NoDeliveryTyped, QueueAssumption DEF NoJob, Job, JobState, Budgeted
<1>2. Idle \in Processor
  BY NoDeliveryTyped DEF Idle, Processor, ProcessorPC, Outcome
<1>3. jobs \in [JobIds -> Job(Delivery)] /\ BudgetsKept
  BY <1>1 DEF Init, BudgetsKept
<1>4. /\ ds \in Dataset /\ sweep \in Cursor /\ reqs \in [Clients -> Request]
      /\ work \in [Workers -> Processor] /\ closings \subseteq ClosingCall
  BY <1>2, NewDatasetTyped, NoCursorTyped, NoRequestTyped DEF Init
<1>5. /\ issued \in 0..MaxIds /\ rows \in [Paths -> 0..MaxIds] /\ faults \in 0..MaxFaults
      /\ files \subseteq (0..MaxIds) \X Paths
  BY RecordAssumption DEF Init
<1>. QED BY <1>3, <1>4, <1>5 DEF TypeOK

\* Types and budgets are kept by every step.
LEMMA StepTyped == TypeOK /\ BudgetsKept /\ [Next]_vars => TypeOK' /\ BudgetsKept'
<1>. SUFFICES ASSUME TypeOK, BudgetsKept, [Next]_vars
              PROVE  TypeOK' /\ BudgetsKept'
  OBVIOUS
<1>1. CASE Requests
  <2>1. ASSUME NEW c \in Clients, Ask(c)
        PROVE  TypeOK' /\ BudgetsKept'
    BY <2>1, ReadsTyped, UpdatesTyped, EnqueuesTyped DEF Ask
  <2>. QED BY <1>1, <2>1, HoldsTyped DEF Requests
<1>2. ASSUME NEW w \in Workers, Work(w)
      PROVE  TypeOK' /\ BudgetsKept'
  BY <1>2, WorkTyped
<1>3. CASE \E j \in JobIds : LoseJob(j)
  BY <1>3, LoseJobTyped
<1>4. CASE Recovery
  BY <1>4, SweepTyped, ClosingsTyped DEF Recovery
<1>5. CASE UNCHANGED vars
  BY <1>5 DEF vars, TypeOK, BudgetsKept
<1>. QED BY <1>1, <1>2, <1>3, <1>4, <1>5 DEF Next

(***************************************************************************)
(* Every variable keeps its type, and no job exceeds the budgets BullMQ is   *)
(* given for it, whatever the numbers of workers, clients, entries and       *)
(* groups: lost locks, stalled checks, retries and removals of jobs may      *)
(* interleave at will.                                                       *)
(***************************************************************************)
THEOREM Typing == Spec => [](TypeOK /\ BudgetsKept)
<1>1. Init => TypeOK /\ BudgetsKept
  BY InitTyped
<1>2. TypeOK /\ BudgetsKept /\ [Next]_vars => (TypeOK /\ BudgetsKept)'
  BY StepTyped
<1>. QED BY <1>1, <1>2, PTL DEF Spec

-----------------------------------------------------------------------------
(* What a step does to the document, as far as the rest of the invariant   *)
(* and the abstract lifecycle can tell.                                     *)

SameFate == ds'.exists = ds.exists /\ ds'.deleting = ds.deleting

SameDelivery ==
    ds'.import.id = ds.import.id /\ ds'.import.delivery = ds.import.delivery /\ issued' = issued

\* Nothing but what is shown, the errors, the heartbeat, the trash; a removal may be over.
Quiet ==
    /\ SameFate /\ SameDelivery
    /\ ds'.holds = ds.holds /\ ds'.removing \subseteq ds.removing
    /\ ds'.import.status = ds.import.status

StatusMoves ==
    /\ SameFate /\ SameDelivery
    /\ ds'.holds = ds.holds /\ ds'.removing = ds.removing
    /\ ds.import.status \in {"queued", "running"}
    /\ \/ ds'.import.status = "running"
       \/ /\ ds'.import.status \in {"done", "failed", "cancelled"}
          /\ ds'.import.status = "done" => ds.import.status = "running"

DeliveryBegins ==
    /\ SameFate /\ ds.exists /\ ~ds.deleting
    /\ ds.holds = {} /\ ds'.holds = {}
    /\ ds.import.status \notin {"queued", "running"} /\ ds'.import.status = "queued"
    /\ issued' = issued + 1
    /\ ds'.import.id <= issued' /\ ds'.import.delivery <= issued'
    /\ ImportJobId(DeliveryOf(ds'.import)) = issued'

HoldTaken ==
    /\ SameFate /\ SameDelivery /\ ds.exists /\ ~ds.deleting
    /\ ds'.holds # {} /\ ds.removing = {} /\ ds'.removing = {}
    /\ ds.import.status \notin {"queued", "running"} /\ ds'.import.status = ds.import.status

HoldReleased ==
    /\ SameFate /\ SameDelivery
    /\ ds'.holds \subseteq ds.holds /\ ds'.removing = ds.removing
    /\ ds'.import.status = ds.import.status

GroupMarked ==
    /\ SameFate /\ SameDelivery
    /\ ds.holds = {} /\ ds'.holds = {}
    /\ ds'.import.status = ds.import.status

DeletionBegins ==
    /\ SameDelivery
    /\ ds.exists /\ ds'.exists /\ ~ds.deleting /\ ds'.deleting
    /\ ds.holds = {} /\ ds'.holds = {}
    /\ ds'.import.status \in {ds.import.status, "cancelled"}

RecordDeleted ==
    /\ ds.deleting \/ ~ds.exists
    /\ ds' = NoDataset /\ issued' = issued

Effect ==
    \/ Quiet \/ StatusMoves \/ DeliveryBegins \/ HoldTaken \/ HoldReleased \/ GroupMarked
    \/ DeletionBegins \/ RecordDeleted

\* A step that leaves document and counter alone has a quiet effect.
LEMMA UnchangedIsQuiet ==
    ASSUME UNCHANGED <<ds, issued>>
    PROVE  Effect
BY DEF Effect, Quiet, SameFate, SameDelivery

\* What the updates of requests do to the document: only they begin a delivery or a deletion.
LEMMA UpdateEffect ==
    ASSUME IInv, NEW c \in Clients,
           Start(c) \/ Resume(c) \/ Cancel(c) \/ RemoveGroup(c) \/ Restore(c) \/ Purge(c)
    PROVE  Effect
<1>1. ds \in Dataset /\ ds.import \in Import /\ issued \in Nat /\ Numbered /\ RequestsRemember
  BY DEF IInv, TypeOK, Dataset
<1>2. ds.import.id \in Nat /\ ds.import.delivery \in Nat
  BY <1>1 DEF Import
<1>3. CASE Conflict(c)
  BY <1>3, UnchangedIsQuiet DEF Conflict
<1>4. CASE Start(c) /\ ~Conflict(c)
  <2>1. PICK mapping \in Mappings :
           ds' = [ds EXCEPT !.import = [NoImport EXCEPT !.id = issued + 1, !.status = "queued",
                                                        !.mapping = mapping]]
    BY <1>4 DEF Start
  <2>2. /\ ds.exists /\ ~ds.deleting /\ ds.holds = {} /\ issued' = issued + 1
        /\ ds.import.status \notin {"queued", "running"}
    BY <1>1, <1>4 DEF Start, Asks, LIVE, RequestsRemember, IsImportActive, Pending
  <2>3. /\ ds'.exists = ds.exists /\ ds'.deleting = ds.deleting /\ ds'.holds = ds.holds
        /\ ds'.import.status = "queued" /\ ds'.import.id = issued + 1
        /\ ds'.import.delivery = 0
    BY <1>1, <2>1 DEF Dataset, NoImport
  <2>. QED
    BY <1>1, <2>2, <2>3 DEF Effect, DeliveryBegins, SameFate, ImportJobId, DeliveryOf
<1>5. CASE Resume(c) /\ ~Conflict(c)
  <2>1. ds' = [ds EXCEPT !.import = [ds.import EXCEPT !.status = "queued", !.errors = {},
                                                      !.stale = TRUE, !.delivery = issued + 1]]
    BY <1>5 DEF Resume
  <2>2. /\ ds.exists /\ ~ds.deleting /\ ds.holds = {} /\ issued' = issued + 1
        /\ ds.import.status \notin {"queued", "running"}
    BY <1>1, <1>5 DEF Resume, Asks, LIVE, RequestsRemember
  <2>3. /\ ds'.exists = ds.exists /\ ds'.deleting = ds.deleting /\ ds'.holds = ds.holds
        /\ ds'.import.status = "queued" /\ ds'.import.id = ds.import.id
        /\ ds'.import.delivery = issued + 1
    BY <1>1, <2>1 DEF Dataset, Import
  <2>. QED
    BY <1>1, <1>2, <2>2, <2>3
    DEF Numbered, Effect, DeliveryBegins, SameFate, ImportJobId, DeliveryOf
<1>6. CASE Cancel(c) /\ ~Conflict(c)
  <2>1. /\ ds' = [ds EXCEPT !.import.status = "cancelled"] /\ issued' = issued
        /\ ds.import.status \in {"queued", "running"}
    BY <1>6 DEF Cancel, IsImportActive, Pending
  <2>. QED
    BY <1>1, <2>1 DEF Effect, StatusMoves, SameFate, SameDelivery, Dataset, Import
<1>7. CASE RemoveGroup(c) /\ ~Conflict(c)
  <2>1. /\ ds' = [ds EXCEPT !.removing = @ \cup reqs[c].group] /\ issued' = issued
        /\ ds.holds = {}
    BY <1>7 DEF RemoveGroup
  <2>. QED
    BY <1>1, <2>1 DEF Effect, GroupMarked, SameFate, SameDelivery, Dataset
<1>8. CASE Restore(c)
  <2>1. issued' = issued /\ (ds' = ds \/ ds' = [ds EXCEPT !.trashed = FALSE])
    BY <1>8 DEF Restore
  <2>. QED
    BY <1>1, <2>1 DEF Effect, Quiet, SameFate, SameDelivery, Dataset
<1>9. CASE Purge(c) /\ ~Conflict(c)
  <2>1. /\ \E status \in {ds.import.status, "cancelled"} :
             ds' = [ds EXCEPT !.deleting = TRUE, !.import.status = status]
        /\ ds.exists /\ ds.holds = {} /\ ~ds.deleting /\ issued' = issued
    BY <1>9 DEF Purge
  <2>. QED
    BY <1>1, <2>1 DEF Effect, DeletionBegins, SameDelivery, Dataset, Import
<1>. QED BY <1>3, <1>4, <1>5, <1>6, <1>7, <1>8, <1>9

\* What any request does to it, holds and the trash included.
LEMMA RequestEffect ==
    ASSUME IInv, Requests
    PROVE  Effect
<1>1. ds \in Dataset /\ ds.import \in Import
  BY DEF IInv, TypeOK, Dataset
<1>2. ASSUME NEW c \in Clients, Ask(c)
      PROVE  Effect
  <2>1. CASE \/ ReadStart(c) \/ ReadResume(c) \/ ReadCancel(c) \/ ReadRemoveGroup(c)
             \/ ReadRestore(c) \/ ReadPurge(c)
    BY <2>1, UnchangedIsQuiet
    DEF ReadStart, ReadResume, ReadCancel, ReadRemoveGroup, ReadRestore, ReadPurge, Read
  <2>2. CASE \/ EnqueueImport(c) \/ EnqueueGroup(c) \/ EnqueueDelete(c) \/ Drop(c)
             \/ Abandon(c)
    BY <2>2, UnchangedIsQuiet
    DEF EnqueueImport, EnqueueGroup, EnqueueDelete, Enqueue, Drop, Abandon
  <2>. QED BY <1>2, <2>1, <2>2, UpdateEffect DEF Ask
<1>3. CASE Trash
  BY <1>1, <1>3 DEF Trash, Effect, Quiet, SameFate, SameDelivery, Dataset
<1>4. ASSUME NEW r \in Refs, AddHold(r)
      PROVE  Effect
  <2>1. /\ ds' = [ds EXCEPT !.holds = @ \cup {r}] /\ issued' = issued
        /\ ds.exists /\ ~ds.deleting /\ ds.removing = {}
        /\ ds.import.status \notin {"queued", "running"}
    BY <1>4 DEF AddHold, LIVE, IsImportActive, Pending
  <2>. QED
    BY <1>1, <2>1 DEF Effect, HoldTaken, SameFate, SameDelivery, Dataset
<1>5. ASSUME NEW r \in Refs, RemoveHold(r)
      PROVE  Effect
  <2>1. ds' = [ds EXCEPT !.holds = @ \ {r}] /\ issued' = issued
    BY <1>5 DEF RemoveHold
  <2>. QED
    BY <1>1, <2>1 DEF Effect, HoldReleased, SameFate, SameDelivery, Dataset
<1>. QED BY <1>2, <1>3, <1>4, <1>5 DEF Requests

\* What workers do to it: they move the status of a pending delivery, end a removal, or remove
\* the record, and only of a dataset marked for deletion.
LEMMA WorkEffect ==
    ASSUME IInv, NEW w \in Workers, Work(w)
    PROVE  Effect
<1>1. ds \in Dataset /\ ds.import \in Import /\ DeletionMarked
  BY DEF IInv, TypeOK, Dataset
<1>2. CASE UNCHANGED <<ds, issued>>
  BY <1>2, UnchangedIsQuiet
<1>3. CASE StartImport(w) /\ ds' # ds
  <2>1. /\ ds' = [ds EXCEPT !.import.status = "running", !.import.stale = FALSE]
        /\ issued' = issued /\ ds.import.status \in {"queued", "running"}
    BY <1>3 DEF StartImport, IsImportActive, Pending
  <2>. QED
    BY <1>1, <2>1 DEF Effect, StatusMoves, SameFate, SameDelivery, Dataset, Import
<1>4. CASE Heartbeat(w) \/ LastHeartbeat(w)
  <2>1. /\ ds' = ds \/ ds' = [ds EXCEPT !.import.stale = FALSE]
        /\ issued' = issued
    BY <1>4 DEF Heartbeat, LastHeartbeat
  <2>. QED
    BY <1>1, <2>1 DEF Effect, Quiet, SameFate, SameDelivery, Dataset, Import
<1>5. CASE FinishImport(w) /\ ds' # ds
  <2>1. PICK status \in {"failed", "done"} :
             /\ ds' = [ds EXCEPT !.import.status = status, !.import.errors = work[w].errors,
                                 !.shown = work[w].summary]
             /\ issued' = issued /\ ds.import.status = "running"
    BY <1>5 DEF FinishImport, FinishStatus, Runs
  <2>2. /\ ds'.exists = ds.exists /\ ds'.deleting = ds.deleting /\ ds'.holds = ds.holds
        /\ ds'.removing = ds.removing
    BY <1>1, <2>1 DEF Dataset
  <2>3. /\ ds'.import.status = status /\ ds'.import.id = ds.import.id
        /\ ds'.import.delivery = ds.import.delivery
    BY <1>1, <2>1 DEF Dataset, Import
  <2>. QED
    BY <2>1, <2>2, <2>3 DEF Effect, StatusMoves, SameFate, SameDelivery
<1>6. CASE StopImport(w) \/ FailAttempt(w)
  <2>1. /\ ds' = ds \/ ds' = [ds EXCEPT !.import.errors = work[w].errors]
        /\ issued' = issued
    BY <1>6 DEF StopImport, FailAttempt
  <2>2. CASE ds' = [ds EXCEPT !.import.errors = work[w].errors]
    <3>1. /\ ds'.exists = ds.exists /\ ds'.deleting = ds.deleting /\ ds'.holds = ds.holds
          /\ ds'.removing = ds.removing /\ ds'.import.status = ds.import.status
          /\ ds'.import.id = ds.import.id /\ ds'.import.delivery = ds.import.delivery
      BY <1>1, <2>2 DEF Dataset, Import
    <3>. QED BY <2>1, <3>1 DEF Effect, Quiet, SameFate, SameDelivery
  <2>. QED BY <1>2, <2>1, <2>2
<1>7. CASE ShowWrite(w)
  <2>1. /\ ds' = ds \/ ds' = [ds EXCEPT !.shown = work[w].summary]
        /\ issued' = issued
    BY <1>7 DEF ShowWrite, Show
  <2>. QED
    BY <1>1, <2>1 DEF Effect, Quiet, SameFate, SameDelivery, Dataset
<1>8. CASE GroupWrite(w)
  <2>1. /\ \/ ds' = ds
           \/ ds' = [ds EXCEPT !.shown = work[w].summary, !.removing = @ \ {work[w].job},
                               !.import.mapping = @ \ {work[w].job}]
        /\ issued' = issued
    BY <1>8 DEF GroupWrite
  <2>2. CASE ds' # ds
    <3>1. /\ ds'.exists = ds.exists /\ ds'.deleting = ds.deleting /\ ds'.holds = ds.holds
          /\ ds'.removing \subseteq ds.removing
      BY <1>1, <2>1, <2>2 DEF Dataset
    <3>. DEFINE mapping == ds.import.mapping \ {work[w].job}
    <3>2. ds'.import = [ds.import EXCEPT !.mapping = mapping]
      BY <1>1, <2>1, <2>2 DEF Dataset
    <3>. HIDE DEF mapping
    <3>3. /\ ds'.import.status = ds.import.status
          /\ ds'.import.id = ds.import.id /\ ds'.import.delivery = ds.import.delivery
      BY <1>1, <3>2 DEF Import
    <3>. QED BY <2>1, <3>1, <3>3 DEF Effect, Quiet, SameFate, SameDelivery
  <2>. QED BY <1>2, <2>1, <2>2
<1>9. CASE DeleteRecord(w)
  <2>1. ds.deleting \/ ~ds.exists
    BY <1>1, <1>9 DEF DeleteRecord, At, DeletionMarked, DeletePC
  <2>. QED BY <1>9, <2>1 DEF DeleteRecord, Effect, RecordDeleted
<1>10. CASE \/ FindImport(w) \/ ListStale(w) \/ ClearFolder(w) \/ ClearRows(w) \/ ListStored(w)
            \/ \E p \in Paths : RejectEntry(w, p) \/ PutEntry(w, p) \/ CreateRow(w, p)
            \/ Summarize(w) \/ ShowRead(w)
  BY <1>2, <1>10
  DEF FindImport, ListStale, ClearFolder, ClearRows, ListStored, RejectEntry, PutEntry,
      CreateRow, Summarize, ShowRead
<1>11. CASE \/ GroupFind(w) \/ GroupBatch(w) \/ GroupFiles(w) \/ GroupRows(w)
            \/ GroupSummarize(w) \/ DeleteFind(w) \/ DeleteFiles(w) \/ DeleteRows(w)
  BY <1>2, <1>11
  DEF GroupFind, GroupBatch, GroupFiles, GroupRows, GroupSummarize, DeleteFind, DeleteFiles,
      DeleteRows
<1>12. CASE \/ Take(w) \/ AttemptError(w) \/ (\E p \in Paths : EntryError(w, p))
            \/ EndAttempt(w) \/ Crash(w) \/ LoseLock(w) \/ \E j \in JobIds : CheckStalled(w, j)
  BY <1>2, <1>12 DEF Take, AttemptError, EntryError, EndAttempt, Crash, LoseLock, CheckStalled
<1>13. CASE (StartImport(w) \/ FinishImport(w)) /\ ds' = ds
  BY <1>2, <1>13 DEF StartImport, FinishImport
<1>. QED
  BY <1>3, <1>4, <1>5, <1>6, <1>7, <1>8, <1>9, <1>10, <1>11, <1>12, <1>13 DEF Work, Progress

\* What the recovery sweep and closing calls do to it: they fail a pending delivery.
LEMMA RecoveryEffect ==
    ASSUME IInv, Recovery
    PROVE  Effect
<1>1. ds \in Dataset /\ ds.import \in Import
  BY DEF IInv, TypeOK, Dataset
<1>2. ASSUME NEW c \in closings, Mark(c)
      PROVE  Effect
  <2>1. /\ \/ ds' = ds
           \/ /\ ds' = [ds EXCEPT !.import.status = "failed",
                                  !.import.errors = @ \cup {Zip}]
              /\ ds.import.status \in {"queued", "running"}
        /\ issued' = issued
    BY <1>2 DEF Mark, IsImportActive, Pending
  <2>2. CASE ds' = ds
    BY <2>1, <2>2, UnchangedIsQuiet
  <2>3. CASE ds' # ds
    <3>. DEFINE errors == ds.import.errors \cup {Zip}
    <3>. HIDE DEF errors
    <3>1. ds' = [ds EXCEPT !.import.status = "failed", !.import.errors = errors]
      BY <2>1, <2>3 DEF errors
    <3>2. /\ ds'.exists = ds.exists /\ ds'.deleting = ds.deleting /\ ds'.holds = ds.holds
          /\ ds'.removing = ds.removing
      BY <1>1, <3>1 DEF Dataset
    <3>3. /\ ds'.import.status = "failed"
          /\ ds'.import.id = ds.import.id /\ ds'.import.delivery = ds.import.delivery
      BY <1>1, <3>1 DEF Dataset, Import
    <3>. QED BY <2>1, <2>3, <3>2, <3>3 DEF Effect, StatusMoves, SameFate, SameDelivery
  <2>. QED BY <2>2, <2>3
<1>3. ASSUME NEW c \in closings, CloseSummarize(c) \/ CloseWrite(c)
      PROVE  Effect
  <2>1. issued' = issued /\ (ds' = ds \/ ds' = [ds EXCEPT !.shown = c.summary])
    BY <1>3 DEF CloseSummarize, CloseWrite, Show
  <2>. QED
    BY <1>1, <2>1 DEF Effect, Quiet, SameFate, SameDelivery, Dataset
<1>4. CASE Sweep \/ SweepAborts
  BY <1>4, UnchangedIsQuiet
  DEF Sweep, SweepRead, SweepDelete, SweepGroup, SweepGroupsDone, SweepJob, SweepEnqueue,
      SweepClosed, SweepAborts
<1>5. CASE Age
  BY <1>1, <1>5 DEF Age, Effect, Quiet, SameFate, SameDelivery, Dataset, Import
<1>. QED BY <1>2, <1>3, <1>4, <1>5 DEF Recovery, Close

\* Every step has one of the effects.
LEMMA StepEffect ==
    ASSUME IInv, [Next]_vars
    PROVE  Effect
<1>1. CASE Requests
  BY <1>1, RequestEffect
<1>2. CASE \E w \in Workers : Work(w)
  BY <1>2, WorkEffect
<1>3. CASE \E j \in JobIds : LoseJob(j)
  BY <1>3, UnchangedIsQuiet DEF LoseJob
<1>4. CASE Recovery
  BY <1>4, RecoveryEffect
<1>5. CASE UNCHANGED vars
  BY <1>5, UnchangedIsQuiet DEF vars
<1>. QED BY <1>1, <1>2, <1>3, <1>4, <1>5 DEF Next

-----------------------------------------------------------------------------
(* The inductive invariant. *)

\* No effect disturbs a held dataset, nor makes a held one of a disturbed one.
LEMMA HeldInPeaceKept ==
    ASSUME IInv, Effect
    PROVE  HeldInPeace' /\ Numbered'
<1>1. HeldInPeace /\ Numbered /\ issued \in Nat
  BY DEF IInv, TypeOK
<1>. USE DEF HeldInPeace, Numbered, IsImportActive, Pending, SameFate, SameDelivery
<1>2. CASE Quiet
  BY <1>1, <1>2 DEF Quiet
<1>3. CASE StatusMoves
  BY <1>1, <1>3 DEF StatusMoves
<1>4. CASE DeliveryBegins
  BY <1>1, <1>4 DEF DeliveryBegins
<1>5. CASE HoldTaken
  BY <1>1, <1>5 DEF HoldTaken
<1>6. CASE HoldReleased
  BY <1>1, <1>6 DEF HoldReleased
<1>7. CASE GroupMarked
  BY <1>1, <1>7 DEF GroupMarked
<1>8. CASE DeletionBegins
  BY <1>1, <1>8 DEF DeletionBegins
<1>9. CASE RecordDeleted
  <2>1. ds'.holds = {} /\ ds'.import.id = 0 /\ ds'.import.delivery = 0
    BY <1>9 DEF RecordDeleted, NoDataset, NewDataset, NoImport
  <2>. QED BY <1>1, <1>9, <2>1 DEF RecordDeleted
<1>. QED BY <1>2, <1>3, <1>4, <1>5, <1>6, <1>7, <1>8, <1>9 DEF Effect

\* Only a request changes what it remembers.
LEMMA RequestsRememberKept ==
    ASSUME IInv, [Next]_vars
    PROVE  RequestsRemember'
<1>1. RequestsRemember /\ reqs \in [Clients -> Request]
  BY DEF IInv, TypeOK
<1>2. CASE UNCHANGED reqs
  BY <1>1, <1>2 DEF RequestsRemember
<1>3. \A c \in Clients : \A r :
        Continue(c, r) /\ r.pc \notin {"start", "resume"} => RequestsRemember'
  BY <1>1 DEF Continue, RequestsRemember
<1>4. ASSUME NEW c \in Clients, Ask(c)
      PROVE  RequestsRemember'
  <2>1. NoRequest \in Request /\ NoRequest.pc = "idle" /\ reqs[c] \in Request
    BY <1>1, NoRequestTyped DEF NoRequest
  <2>2. ASSUME Done(c)
        PROVE  RequestsRemember'
    BY <1>3, <2>1, <2>2 DEF Done
  <2>3. CASE ReadStart(c)
    <3>1. reqs' = [reqs EXCEPT ![c] = [NoRequest EXCEPT !.import = ds.import, !.pc = "start"]]
      BY <2>3 DEF ReadStart, Read, Continue
    <3>2. ~IsImportActive(ds.import)
      BY <2>3 DEF ReadStart
    <3>. QED BY <1>1, <3>1, <3>2 DEF RequestsRemember, NoRequest
  <2>4. CASE ReadResume(c)
    <3>1. reqs' = [reqs EXCEPT ![c] = [NoRequest EXCEPT !.import = ds.import, !.pc = "resume"]]
      BY <2>4 DEF ReadResume, Read, Continue
    <3>2. ds.import.status \in {"cancelled", "failed"}
      BY <2>4 DEF ReadResume
    <3>. QED BY <1>1, <3>1, <3>2 DEF RequestsRemember, NoRequest
  <2>5. CASE ReadCancel(c) \/ ReadRemoveGroup(c) \/ ReadRestore(c) \/ ReadPurge(c)
    <3>1. PICK pc \in {"cancel", "removeGroup", "restore", "purge"} : \E r \in Request :
             Continue(c, [r EXCEPT !.pc = pc])
      <4>1. \A d \in Import : [NoRequest EXCEPT !.import = d] \in Request
        BY <2>1 DEF Request
      <4>2. ds.import \in Import
        BY DEF IInv, TypeOK, Dataset
      <4>3. \A g \in Groups : [NoRequest EXCEPT !.group = {g}] \in Request
        BY <2>1 DEF Request
      <4>4. \A p \in Paths : GroupOf[p] \in Groups
        BY RecordAssumption
      <4>5. ds.shown \subseteq Paths
        BY DEF IInv, TypeOK, Dataset
      <4>. QED BY <2>1, <2>5, <4>1, <4>2, <4>3, <4>4, <4>5
                DEF ReadCancel, ReadRemoveGroup, ReadRestore, ReadPurge, Read
    <3>2. PICK r \in Request : Continue(c, [r EXCEPT !.pc = pc])
      BY <3>1
    <3>3. [r EXCEPT !.pc = pc].pc = pc
      BY <3>2 DEF Request
    <3>. QED BY <1>3, <3>1, <3>2, <3>3
  <2>6. CASE Start(c)
    <3>1. CASE Conflict(c)
      BY <2>2, <3>1 DEF Conflict
    <3>2. CASE ~Conflict(c)
      <4>1. PICK import :
               Continue(c, [NoRequest EXCEPT !.pc = "enqueueImport", !.import = import])
        BY <2>6, <3>2 DEF Start
      <4>. QED BY <1>3, <4>1 DEF NoRequest
    <3>. QED BY <3>1, <3>2
  <2>7. CASE Resume(c)
    <3>1. CASE Conflict(c)
      BY <2>2, <3>1 DEF Conflict
    <3>2. CASE ~Conflict(c)
      <4>1. PICK import, drop :
               Continue(c, [NoRequest EXCEPT !.pc = "drop", !.then = "enqueueImport",
                                             !.drop = drop, !.import = import])
        BY <2>7, <3>2 DEF Resume
      <4>. QED BY <1>3, <4>1 DEF NoRequest
    <3>. QED BY <3>1, <3>2
  <2>8. CASE Cancel(c)
    <3>1. Done(c) \/ \E drop : Continue(c, [NoRequest EXCEPT !.pc = "drop", !.drop = drop])
      BY <2>8 DEF Cancel, Conflict
    <3>. QED BY <1>3, <2>2, <3>1 DEF NoRequest
  <2>9. CASE RemoveGroup(c)
    <3>1. Done(c) \/ Continue(c, [reqs[c] EXCEPT !.pc = "enqueueGroup"])
      BY <2>9 DEF RemoveGroup, Conflict
    <3>2. [reqs[c] EXCEPT !.pc = "enqueueGroup"].pc = "enqueueGroup"
      BY <2>1 DEF Request
    <3>. QED BY <1>3, <2>2, <3>1, <3>2
  <2>10. CASE Purge(c)
    <3>1. \/ Done(c) \/ Continue(c, [NoRequest EXCEPT !.pc = "enqueueDelete"])
          \/ \E drop : Continue(c, [NoRequest EXCEPT !.pc = "drop", !.then = "enqueueDelete",
                                                     !.drop = drop])
      BY <2>10 DEF Purge, Conflict
    <3>. QED BY <1>3, <2>2, <3>1 DEF NoRequest
  <2>11. CASE Drop(c)
    <3>1. \/ Done(c)
          \/ Continue(c, [reqs[c] EXCEPT !.pc = reqs[c].then, !.then = "idle", !.drop = 0])
      BY <2>11 DEF Drop, Done
    <3>2. [reqs[c] EXCEPT !.pc = reqs[c].then, !.then = "idle", !.drop = 0].pc
             \in {"idle", "enqueueImport", "enqueueDelete"}
      BY <2>1 DEF Request
    <3>. QED BY <1>3, <2>2, <3>1, <3>2
  <2>12. CASE Restore(c) \/ EnqueueImport(c) \/ EnqueueGroup(c) \/ EnqueueDelete(c) \/ Abandon(c)
    BY <2>2, <2>12 DEF Restore, EnqueueImport, EnqueueGroup, EnqueueDelete, Enqueue, Abandon
  <2>. QED
    BY <1>4, <2>3, <2>4, <2>5, <2>6, <2>7, <2>8, <2>9, <2>10, <2>11, <2>12 DEF Ask
<1>5. CASE Trash \/ \E r \in Refs : AddHold(r) \/ RemoveHold(r)
  BY <1>2, <1>5 DEF Trash, AddHold, RemoveHold
<1>6. ASSUME NEW w \in Workers, Work(w)
      PROVE  RequestsRemember'
  BY <1>2, <1>6
  DEF Work, Progress, Take, Heartbeat, AttemptError, EntryError, Crash, LoseLock, CheckStalled,
      FindImport, StartImport, ListStale, ClearFolder, ClearRows, ListStored, RejectEntry,
      PutEntry, CreateRow,
      LastHeartbeat, Summarize, FinishImport, StopImport, ShowRead, ShowWrite, FailAttempt,
      GroupFind, GroupBatch, GroupFiles, GroupRows, GroupSummarize, GroupWrite, DeleteFind,
      DeleteFiles, DeleteRows, DeleteRecord, EndAttempt
<1>7. CASE (\E j \in JobIds : LoseJob(j)) \/ Recovery \/ UNCHANGED vars
  BY <1>2, <1>7
  DEF LoseJob, Recovery, Sweep, SweepRead, SweepDelete, SweepGroup, SweepGroupsDone, SweepJob,
      SweepEnqueue, SweepClosed, SweepAborts, Age, Close, Mark, CloseSummarize, CloseWrite, vars
<1>. QED BY <1>4, <1>5, <1>6, <1>7 DEF Next, Requests

\* A processor that deletes found the mark, and no effect takes the mark back.
LEMMA DeletionMarkedKept ==
    ASSUME IInv, [Next]_vars, Effect
    PROVE  DeletionMarked'
<1>1. DeletionMarked /\ work \in [Workers -> Processor]
  BY DEF IInv, TypeOK
<1>2. ds.deleting \/ ~ds.exists => ds'.deleting \/ ~ds'.exists
  <2>1. CASE RecordDeleted
    BY <2>1 DEF RecordDeleted, NoDataset, NewDataset
  <2>. QED
    BY <2>1 DEF Effect, Quiet, StatusMoves, DeliveryBegins, HoldTaken, HoldReleased, GroupMarked,
                DeletionBegins, SameFate
<1>3. CASE UNCHANGED work
  BY <1>1, <1>2, <1>3 DEF DeletionMarked
<1>4. \A w \in Workers : \A r :
        Becomes(w, r) /\ r.pc \notin DeletePC \ {"deleteFind"} => DeletionMarked'
  BY <1>1, <1>2 DEF Becomes, DeletionMarked
<1>5. ASSUME NEW w \in Workers, Work(w)
      PROVE  DeletionMarked'
  <2>1. work[w] \in Processor
    BY <1>1
  <2>2. /\ \A pc \in ImportPC \cup RemovalPC : Goto(w, pc) => DeletionMarked'
        /\ \A outcome : Settle(w, outcome) => DeletionMarked'
        /\ Becomes(w, Idle) => DeletionMarked'
    <3>1. \A pc : [work[w] EXCEPT !.pc = pc].pc = pc
      BY <2>1 DEF Processor
    <3>2. \A outcome : [work[w] EXCEPT !.pc = "settle", !.outcome = outcome].pc = "settle"
      BY <2>1 DEF Processor
    <3>. QED
      BY <1>4, <3>1, <3>2 DEF Goto, Settle, Idle, ImportPC, Tried, RemovalPC, DeletePC
  <2>3. CASE DeleteFind(w)
    <3>1. CASE ds.exists /\ ds.deleting
      BY <1>1, <1>2, <2>3, <3>1 DEF DeleteFind, Goto, Becomes, DeletionMarked
    <3>2. CASE ~(ds.exists /\ ds.deleting)
      BY <2>2, <2>3, <3>2 DEF DeleteFind
    <3>. QED BY <3>1, <3>2
  <2>4. CASE DeleteFiles(w) \/ DeleteRows(w)
    <3>1. ds.deleting \/ ~ds.exists
      BY <1>1, <2>4 DEF DeleteFiles, DeleteRows, At, DeletionMarked, DeletePC
    <3>2. PICK r : Becomes(w, r)
      BY <2>4 DEF DeleteFiles, DeleteRows, Goto
    <3>. QED BY <1>1, <1>2, <3>1, <3>2 DEF Becomes, DeletionMarked
  <2>5. CASE FindImport(w) \/ StartImport(w) \/ ClearRows(w) \/ GroupFiles(w)
    <3>1. CASE \E pc \in ImportPC \cup RemovalPC : Goto(w, pc)
      BY <2>2, <3>1
    <3>2. CASE \E outcome : Settle(w, outcome)
      BY <2>2, <3>2
    <3>3. CASE Becomes(w, [work[w] EXCEPT !.pc = "start", !.mapping = ds.import.mapping])
      BY <1>4, <2>1, <3>3 DEF Processor, DeletePC
    <3>. QED
      BY <2>5, <3>1, <3>2, <3>3
      DEF FindImport, StartImport, ClearRows, GroupFiles, ImportPC, Tried, RemovalPC
  <2>6. CASE ListStored(w) \/ Summarize(w) \/ ShowRead(w) \/ GroupSummarize(w) \/ GroupRows(w)
    <3>1. CASE \E todo : Becomes(w, [work[w] EXCEPT !.pc = "store", !.todo = todo])
      BY <1>4, <2>1, <3>1 DEF Processor, DeletePC
    <3>2. CASE Becomes(w, [work[w] EXCEPT !.batch = {}, !.pc = "groupBatch"])
      BY <1>4, <2>1, <3>2 DEF Processor, DeletePC
    <3>3. CASE \E pc \in {"finish", "showWrite", "groupWrite"} :
                 Becomes(w, [work[w] EXCEPT !.pc = pc, !.summary = Stored])
      <4>1. PICK pc \in {"finish", "showWrite", "groupWrite"} :
                 Becomes(w, [work[w] EXCEPT !.pc = pc, !.summary = Stored])
        BY <3>3
      <4>2. [work[w] EXCEPT !.pc = pc, !.summary = Stored].pc = pc
        BY <2>1 DEF Processor
      <4>. QED BY <1>4, <4>1, <4>2 DEF DeletePC
    <3>. QED
      BY <2>6, <3>1, <3>2, <3>3 DEF ListStored, Summarize, ShowRead, GroupSummarize, GroupRows
  <2>7. ASSUME NEW p \in Paths, RejectEntry(w, p) \/ PutEntry(w, p) \/ CreateRow(w, p)
        PROVE  DeletionMarked'
    <3>1. /\ [work[w] EXCEPT !.todo = @ \ {p}, !.errors = @ \cup {p}].pc = work[w].pc
          /\ [work[w] EXCEPT !.todo = @ \ {p}, !.inFlight = @ \cup {p}].pc = work[w].pc
          /\ [work[w] EXCEPT !.inFlight = @ \ {p}, !.stored = @ \/ rows[p] = 0].pc = work[w].pc
      BY <2>1 DEF Processor
    <3>. QED
      BY <1>4, <2>7, <3>1 DEF RejectEntry, PutEntry, CreateRow, At, DeletePC
  <2>8. CASE \/ Heartbeat(w) \/ LastHeartbeat(w) \/ FinishImport(w) \/ StopImport(w)
             \/ ShowWrite(w) \/ FailAttempt(w) \/ GroupFind(w) \/ GroupWrite(w) \/ DeleteRecord(w)
    BY <1>3, <2>2, <2>8
    DEF Heartbeat, LastHeartbeat, FinishImport, StopImport, ShowWrite, FailAttempt, GroupFind,
        GroupWrite, DeleteRecord, ImportPC, Tried, RemovalPC
  <2>9. CASE GroupBatch(w)
    <3>. DEFINE next(batch) ==
                  [work[w] EXCEPT !.batch = batch,
                                  !.pc = IF batch = {} THEN "groupSummarize" ELSE "groupFiles"]
    <3>1. PICK batch : Becomes(w, next(batch))
      BY <2>9 DEF GroupBatch
    <3>2. next(batch).pc \in {"groupSummarize", "groupFiles"}
      BY <2>1 DEF Processor
    <3>. HIDE DEF next
    <3>. QED BY <1>4, <3>1, <3>2 DEF DeletePC
  <2>10. CASE Take(w)
    <3>. DEFINE next(j) ==
                  [Idle EXCEPT !.job = j, !.delivery = jobs[j].data,
                               !.pc = IF j \in Ids THEN "find"
                                      ELSE IF j \in Groups THEN "groupFind" ELSE "deleteFind"]
    <3>1. PICK j \in JobIds : Becomes(w, next(j))
      BY <2>10 DEF Take
    <3>2. next(j).pc \in {"find", "groupFind", "deleteFind"}
      BY DEF Idle
    <3>. HIDE DEF next
    <3>. QED BY <1>4, <3>1, <3>2 DEF DeletePC
  <2>11. CASE AttemptError(w)
    <3>1. \A outcome : [work[w] EXCEPT !.pc = "failing", !.outcome = outcome].pc = "failing"
      BY <2>1 DEF Processor
    <3>. QED BY <1>4, <2>2, <2>11, <3>1 DEF AttemptError, DeletePC
  <2>13. ASSUME NEW p \in Paths, EntryError(w, p)
         PROVE  DeletionMarked'
    <3>1. /\ [work[w] EXCEPT !.inFlight = @ \ {p}, !.pc = "failing", !.outcome = "error"].pc
               = "failing"
          /\ [work[w] EXCEPT !.inFlight = @ \ {p}].pc = work[w].pc
      BY <2>1 DEF Processor
    <3>. QED BY <1>4, <2>13, <3>1 DEF EntryError, At, DeletePC
  <2>14. CASE ListStale(w) \/ ClearFolder(w)
    <3>1. \A batch : /\ [work[w] EXCEPT !.pc = "clear", !.batch = batch].pc = "clear"
                     /\ [work[w] EXCEPT !.batch = batch].pc = work[w].pc
      BY <2>1 DEF Processor
    <3>. QED BY <1>4, <2>14, <3>1 DEF ListStale, ClearFolder, At, DeletePC
  <2>12. CASE EndAttempt(w) \/ Crash(w) \/ LoseLock(w) \/ \E j \in JobIds : CheckStalled(w, j)
    BY <1>3, <2>2, <2>12 DEF EndAttempt, Crash, LoseLock, CheckStalled
  <2>. QED
    BY <1>5, <2>3, <2>4, <2>5, <2>6, <2>7, <2>8, <2>9, <2>10, <2>11, <2>12, <2>13, <2>14
    DEF Work, Progress
<1>6. CASE Requests \/ (\E j \in JobIds : LoseJob(j)) \/ Recovery \/ UNCHANGED vars
  <2>1. CASE Requests
    BY <1>3, <2>1
    DEF Requests, Ask, ReadStart, ReadResume, ReadCancel, ReadRemoveGroup, ReadRestore, ReadPurge,
        Read, Start, Resume, Cancel, RemoveGroup, Restore, Purge, EnqueueImport, EnqueueGroup,
        EnqueueDelete, Enqueue, Drop, Abandon, Trash, AddHold, RemoveHold, UnchangedByRequests
  <2>2. CASE (\E j \in JobIds : LoseJob(j)) \/ Recovery \/ UNCHANGED vars
    BY <1>3, <2>2
    DEF LoseJob, Recovery, Sweep, SweepRead, SweepDelete, SweepGroup, SweepGroupsDone, SweepJob,
        SweepEnqueue, SweepClosed, SweepAborts, Age, Close, Mark, CloseSummarize, CloseWrite, vars
  <2>. QED BY <1>6, <2>1, <2>2
<1>. QED BY <1>5, <1>6 DEF Next

\* The invariant holds at first.
LEMMA InitIInv == Init => IInv
<1>. SUFFICES ASSUME Init PROVE IInv
  OBVIOUS
<1>1. TypeOK /\ BudgetsKept
  BY InitTyped
<1>2. HeldInPeace /\ Numbered
  BY RecordAssumption DEF Init, NewDataset, NoImport, HeldInPeace, Numbered
<1>3. RequestsRemember /\ DeletionMarked
  BY DEF Init, NoRequest, Idle, RequestsRemember, DeletionMarked, DeletePC
<1>. QED BY <1>1, <1>2, <1>3 DEF IInv

(***************************************************************************)
(* The strengthened invariant, and with it the promise label-service relies *)
(* on: while any of its jobs holds the dataset, no import is pending, no     *)
(* group is being removed and no deletion has begun, although each of these  *)
(* is asked for on a read that may be out of date by the time of the update. *)
(***************************************************************************)
THEOREM Invariance == Spec => []IInv
<1>1. Init => IInv
  BY InitIInv
<1>2. IInv /\ [Next]_vars => IInv'
  <2>. SUFFICES ASSUME IInv, [Next]_vars PROVE IInv'
    OBVIOUS
  <2>1. Effect
    BY StepEffect
  <2>2. TypeOK' /\ BudgetsKept'
    BY StepTyped DEF IInv
  <2>3. HeldInPeace' /\ Numbered' /\ RequestsRemember' /\ DeletionMarked'
    BY <2>1, HeldInPeaceKept, RequestsRememberKept, DeletionMarkedKept
  <2>. QED BY <2>2, <2>3 DEF IInv
<1>. QED BY <1>1, <1>2, PTL DEF Spec

\* A held dataset is left in peace (HeldInPeace), in every state of every instance.
THEOREM Peace == Spec => []HeldInPeace
BY Invariance, PTL DEF IInv

-----------------------------------------------------------------------------
(* The abstract lifecycle. *)

\* Each effect is a step of the abstract lifecycle, or leaves it alone.
LEMMA EffectIsLifecycleStep ==
    ASSUME IInv, IInv', Effect
    PROVE  [Lifecycle!Next]_(Lifecycle!vars)
<1>. DEFINE current == ImportJobId(DeliveryOf(ds.import))
<1>1. ds.import.id \in Nat /\ ds.import.delivery \in Nat
  <2>1. ds \in Dataset
    BY DEF IInv, TypeOK
  <2>2. ds.import \in Import
    BY <2>1 DEF Dataset
  <2>. QED BY <2>2 DEF Import
<1>2. issued \in Nat /\ issued' \in Nat /\ Numbered /\ HeldInPeace
  BY DEF IInv, TypeOK
<1>3. current \in Nat /\ current <= issued
  BY <1>1, <1>2 DEF Numbered, ImportJobId, DeliveryOf
<1>4. SameDelivery => current' = current
  BY DEF SameDelivery, ImportJobId, DeliveryOf
<1>. HIDE DEF current
<1>. USE DEF SameFate
<1>5. CASE Quiet \/ HoldReleased \/ GroupMarked
  <2>1. CASE ds'.holds = {} /\ ds.holds # {}
    BY <1>4, <1>5, <2>1
    DEF Quiet, HoldReleased, GroupMarked, Lifecycle!Next, Lifecycle!Release, current
  <2>2. CASE ~(ds'.holds = {} /\ ds.holds # {})
    BY <1>4, <1>5, <2>2 DEF Quiet, HoldReleased, GroupMarked, Lifecycle!vars, current
  <2>. QED BY <2>1, <2>2
<1>6. CASE StatusMoves
  BY <1>4, <1>6
  DEF StatusMoves, Lifecycle!Next, Lifecycle!Run, Lifecycle!Settle, Lifecycle!Pending,
      Lifecycle!Settled, current
<1>7. CASE DeliveryBegins
  <2>1. current' \in Nat /\ current' > current
    BY <1>2, <1>3, <1>7 DEF DeliveryBegins, current
  <2>. QED
    BY <1>7, <2>1 DEF DeliveryBegins, Lifecycle!Next, Lifecycle!Begin, Lifecycle!Pending, current
<1>8. CASE HoldTaken
  BY <1>4, <1>8 DEF HoldTaken, Lifecycle!Next, Lifecycle!Hold, Lifecycle!Pending, current
<1>9. CASE DeletionBegins
  BY <1>4, <1>9 DEF DeletionBegins, Lifecycle!Next, Lifecycle!Condemn, current
<1>10. CASE RecordDeleted
  <2>1. /\ ds'.holds = {} /\ ds'.import.status = "none" /\ ~ds'.exists /\ current' = 0
    BY <1>10
    DEF RecordDeleted, NoDataset, NewDataset, NoImport, ImportJobId, DeliveryOf, current
  <2>2. ds.holds = {}
    BY <1>2, <1>10 DEF RecordDeleted, HeldInPeace
  <2>. QED
    BY <1>10, <2>1, <2>2 DEF RecordDeleted, Lifecycle!Next, Lifecycle!Vanish, current
<1>. QED BY <1>5, <1>6, <1>7, <1>8, <1>9, <1>10 DEF Effect

(***************************************************************************)
(* Whatever requests, workers, sweeps, crashes and lost jobs do, the import  *)
(* of a dataset goes through the abstract lifecycle: a delivery is settled   *)
(* at most once, only a newer one replaces it, and none begins while the     *)
(* dataset is held or on its way out.                                        *)
(***************************************************************************)
THEOREM Implementation == Spec => LifecycleSpec
<1>1. Init => Lifecycle!Init
  BY DEF Init, NewDataset, NoImport, ImportJobId, DeliveryOf, Lifecycle!Init
<1>2. IInv /\ IInv' /\ [Next]_vars => [Lifecycle!Next]_(Lifecycle!vars)
  BY StepEffect, EffectIsLifecycleStep
<1>. QED BY <1>1, <1>2, Invariance, PTL DEF Spec, LifecycleSpec, Lifecycle!Spec

-----------------------------------------------------------------------------
(* Rows and files.  One processor at a time (IMPORT_WORKERS = 1 in one      *)
(* instance) stores, clears and deletes; requests, sweeps and closing calls *)
(* change the document under it.  What it may rely on, and what of its own  *)
(* doing makes the result right, is the rest of the invariant.              *)

\* Rows bear numbers of imports that were begun: a new import owns none of them.
RowsIssued == \A p \in Paths : rows[p] <= issued

\* The import a processor found is no older than the rows of the recorded one; while it works on it
\* nobody else reports an import done, and its copy of the mapping is the recorded one's.
ImportInMind(P) ==
    P.pc \in ImportPC \ {"find"} =>
        /\ ds.exists
        /\ ds.import.status # "done"
        /\ P.delivery.id <= issued /\ P.delivery.delivery <= issued
        /\ DeliveryOf(ds.import) = P.delivery => ds.import.mapping = P.mapping
        /\ \A p \in Paths : rows[p] # 0 /\ rows[p] = ds.import.id => rows[p] = P.delivery.id

\* Folders about to be cleared are never those of the recorded import, even of one begun since.
ClearsOthers(P) ==
    P.pc = "clear" =>
        \A row \in P.batch : row[1] # ds.import.id /\ row[1] <= issued

\* An entry in flight has its file already, and none is in flight elsewhere.
EntriesPut(P) ==
    /\ P.inFlight # {} => P.pc \in {"store", "stopping", "failing"}
    /\ \A p \in P.inFlight : <<P.delivery.id, p>> \in files

\* Past the clearing only this import's rows are left, and every entry its mapping takes is stored,
\* still to come, in flight or reported.
Accounted(P) ==
    /\ P.pc \in {"list", "store", "summarize", "finish"} =>
           \A p \in Paths : rows[p] \in {0, P.delivery.id}
    /\ P.pc \in {"store", "summarize", "finish"} =>
           \A p \in Paths : GroupOf[p] \in P.mapping =>
               \/ rows[p] = P.delivery.id
               \/ p \in P.todo \cup P.inFlight \cup P.errors
    /\ P.pc \in {"summarize", "finish"} => P.todo = {}

\* A removal takes rows of a marked group only, and lifts the mark when none is left.
GroupInMind(P) ==
    /\ P.pc \in RemovalPC \ {"groupFind"} => P.job \in ds.removing
    /\ P.pc \in {"groupFiles", "groupRows"} =>
           \A row \in P.batch : GroupOf[row[2]] = P.job
    /\ P.pc \in {"groupSummarize", "groupWrite"} =>
           \A p \in Paths : rows[p] # 0 => GroupOf[p] # P.job

\* A deletion under way found the mark, and removes the record last.
RecordLast(P) ==
    /\ P.pc \in {"deleteFiles", "deleteRows", "deleteRecord"} => ds.exists /\ ds.deleting
    /\ P.pc \in {"deleteRows", "deleteRecord"} => files = {}
    /\ P.pc = "deleteRecord" => \A p \in Paths : rows[p] = 0

InMind(P) ==
    /\ ImportInMind(P) /\ ClearsOthers(P) /\ EntriesPut(P) /\ Accounted(P)
    /\ GroupInMind(P) /\ RecordLast(P)

\* Inductive where there is one worker.
ContentIInv ==
    /\ IInv
    /\ RowsIssued /\ DoneIsComplete /\ RowsHaveFiles /\ NoOrphans
    /\ \A w \in Workers : InMind(work[w])

-----------------------------------------------------------------------------
(* What everybody but a processor does to the document it works under.      *)

\* The recorded import stays, and nobody reports it done.
SameImport ==
    /\ DeliveryOf(ds'.import) = DeliveryOf(ds.import)
    /\ ds'.import.mapping = ds.import.mapping
    /\ ds'.import.status = "done" =>
           ds.import.status = "done" /\ ds'.import.errors = ds.import.errors

\* An import or a delivery of a number never used replaces it.
NewerImport ==
    /\ issued' = issued + 1
    /\ ds'.import.status = "queued"
    /\ \/ ds'.import.id = issued'
       \/ ds'.import.id = ds.import.id /\ ds'.import.delivery = issued'

Elsewhere ==
    /\ UNCHANGED <<rows, files>>
    /\ issued <= issued'
    /\ ds'.exists = ds.exists /\ (ds.deleting => ds'.deleting)
    /\ ds.removing \subseteq ds'.removing
    /\ SameImport \/ NewerImport

\* A step that leaves the document, the counter and storage alone is one.
LEMMA UnchangedIsElsewhere ==
    ASSUME IInv, UNCHANGED <<ds, issued, rows, files>>
    PROVE  Elsewhere
BY DEF Elsewhere, SameImport, IInv, TypeOK

\* Updates of requests: only a new delivery disturbs the import.
LEMMA UpdateElsewhere ==
    ASSUME IInv, NEW c \in Clients,
           Start(c) \/ Resume(c) \/ Cancel(c) \/ RemoveGroup(c) \/ Restore(c) \/ Purge(c)
    PROVE  Elsewhere
<1>1. ds \in Dataset /\ ds.import \in Import /\ issued \in Nat
  BY DEF IInv, TypeOK, Dataset
<1>2. UNCHANGED <<rows, files>>
  BY DEF Start, Resume, Cancel, RemoveGroup, Restore, Purge, UnchangedByRequests
<1>3. CASE Conflict(c)
  BY <1>2, <1>3, UnchangedIsElsewhere DEF Conflict
<1>4. CASE Start(c) /\ ~Conflict(c)
  <2>1. PICK mapping \in Mappings :
           ds' = [ds EXCEPT !.import = [NoImport EXCEPT !.id = issued + 1, !.status = "queued",
                                                        !.mapping = mapping]]
    BY <1>4 DEF Start
  <2>2. issued' = issued + 1
    BY <1>4 DEF Start
  <2>3. /\ ds'.exists = ds.exists /\ ds'.deleting = ds.deleting /\ ds'.removing = ds.removing
        /\ ds'.import.status = "queued" /\ ds'.import.id = issued + 1
    BY <1>1, <2>1 DEF Dataset, NoImport
  <2>. QED BY <1>1, <1>2, <2>2, <2>3 DEF Elsewhere, NewerImport
<1>5. CASE Resume(c) /\ ~Conflict(c)
  <2>1. ds' = [ds EXCEPT !.import = [ds.import EXCEPT !.status = "queued", !.errors = {},
                                                      !.stale = TRUE, !.delivery = issued + 1]]
    BY <1>5 DEF Resume
  <2>2. issued' = issued + 1
    BY <1>5 DEF Resume
  <2>3. /\ ds'.exists = ds.exists /\ ds'.deleting = ds.deleting /\ ds'.removing = ds.removing
        /\ ds'.import.status = "queued" /\ ds'.import.id = ds.import.id
        /\ ds'.import.delivery = issued + 1
    BY <1>1, <2>1 DEF Dataset, Import
  <2>. QED BY <1>1, <1>2, <2>2, <2>3 DEF Elsewhere, NewerImport
<1>6. CASE Cancel(c) /\ ~Conflict(c)
  <2>1. ds' = [ds EXCEPT !.import.status = "cancelled"] /\ issued' = issued
    BY <1>6 DEF Cancel
  <2>. QED BY <1>1, <1>2, <2>1 DEF Elsewhere, SameImport, DeliveryOf, Dataset, Import
<1>7. CASE RemoveGroup(c) /\ ~Conflict(c)
  <2>1. ds' = [ds EXCEPT !.removing = @ \cup reqs[c].group] /\ issued' = issued
    BY <1>7 DEF RemoveGroup
  <2>. QED BY <1>1, <1>2, <2>1 DEF Elsewhere, SameImport, Dataset
<1>8. CASE Restore(c)
  <2>1. issued' = issued /\ (ds' = ds \/ ds' = [ds EXCEPT !.trashed = FALSE])
    BY <1>8 DEF Restore
  <2>. QED BY <1>1, <1>2, <2>1 DEF Elsewhere, SameImport, Dataset
<1>9. CASE Purge(c) /\ ~Conflict(c)
  <2>1. PICK status \in {ds.import.status, "cancelled"} :
           ds' = [ds EXCEPT !.deleting = TRUE, !.import.status = status]
    BY <1>9 DEF Purge
  <2>2. issued' = issued
    BY <1>9 DEF Purge
  <2>3. /\ ds'.exists = ds.exists /\ ds'.deleting /\ ds'.removing = ds.removing
        /\ ds'.import = [ds.import EXCEPT !.status = status]
    BY <1>1, <2>1 DEF Dataset
  <2>. QED BY <1>1, <1>2, <2>2, <2>3 DEF Elsewhere, SameImport, DeliveryOf, Import
<1>. QED BY <1>3, <1>4, <1>5, <1>6, <1>7, <1>8, <1>9

\* Requests, a lost job, the sweep and closing calls: no other step of theirs disturbs the import,
\* and none touches rows, files or a processor.
LEMMA OthersElsewhere ==
    ASSUME IInv, Requests \/ (\E j \in JobIds : LoseJob(j)) \/ Recovery \/ UNCHANGED vars
    PROVE  Elsewhere /\ UNCHANGED work
<1>1. ds \in Dataset /\ ds.import \in Import /\ issued \in Nat
  BY DEF IInv, TypeOK, Dataset
<1>2. ASSUME NEW c \in Clients, Ask(c)
      PROVE  Elsewhere /\ UNCHANGED work
  <2>1. CASE \/ ReadStart(c) \/ ReadResume(c) \/ ReadCancel(c) \/ ReadRemoveGroup(c)
             \/ ReadRestore(c) \/ ReadPurge(c)
    BY <2>1, UnchangedIsElsewhere
    DEF ReadStart, ReadResume, ReadCancel, ReadRemoveGroup, ReadRestore, ReadPurge, Read,
        UnchangedByRequests
  <2>2. CASE \/ EnqueueImport(c) \/ EnqueueGroup(c) \/ EnqueueDelete(c) \/ Drop(c)
             \/ Abandon(c)
    BY <2>2, UnchangedIsElsewhere
    DEF EnqueueImport, EnqueueGroup, EnqueueDelete, Enqueue, Drop, Abandon, UnchangedByRequests
  <2>3. CASE Start(c) \/ Resume(c) \/ Cancel(c) \/ RemoveGroup(c) \/ Restore(c) \/ Purge(c)
    <3>1. UNCHANGED work
      BY <2>3 DEF Start, Resume, Cancel, RemoveGroup, Restore, Purge, UnchangedByRequests
    <3>. QED BY <2>3, <3>1, UpdateElsewhere
  <2>. QED BY <1>2, <2>1, <2>2, <2>3 DEF Ask
<1>3. CASE Trash
  BY <1>1, <1>3 DEF Trash, Elsewhere, SameImport, Dataset, UnchangedByRequests
<1>4. ASSUME NEW r \in Refs, AddHold(r) \/ RemoveHold(r)
      PROVE  Elsewhere /\ UNCHANGED work
  <2>1. /\ \E holds : ds' = [ds EXCEPT !.holds = holds]
        /\ UNCHANGED <<issued, rows, files, work>>
    BY <1>4 DEF AddHold, RemoveHold, UnchangedByRequests
  <2>. QED BY <1>1, <2>1 DEF Elsewhere, SameImport, Dataset
<1>5. CASE (\E j \in JobIds : LoseJob(j)) \/ Sweep \/ SweepAborts \/ UNCHANGED vars
  BY <1>5, UnchangedIsElsewhere
  DEF LoseJob, Sweep, SweepRead, SweepDelete, SweepGroup, SweepGroupsDone, SweepJob, SweepEnqueue,
      SweepClosed, SweepAborts, vars
<1>6. CASE Age
  <2>1. ds' = [ds EXCEPT !.import.stale = TRUE] /\ UNCHANGED <<issued, rows, files, work>>
    BY <1>6 DEF Age
  <2>2. /\ ds'.exists = ds.exists /\ ds'.deleting = ds.deleting /\ ds'.removing = ds.removing
        /\ ds'.import = [ds.import EXCEPT !.stale = TRUE]
    BY <1>1, <2>1 DEF Dataset
  <2>. QED BY <1>1, <2>1, <2>2 DEF Elsewhere, SameImport, DeliveryOf, Import
<1>7. ASSUME NEW c \in closings, Close(c)
      PROVE  Elsewhere /\ UNCHANGED work
  <2>1. UNCHANGED <<issued, rows, files, work>>
    BY <1>7 DEF Close, Mark, CloseSummarize, CloseWrite
  <2>2. \/ ds' = ds \/ ds' = [ds EXCEPT !.shown = c.summary]
        \/ ds' = [ds EXCEPT !.import.status = "failed", !.import.errors = @ \cup {Zip}]
    BY <1>7 DEF Close, Mark, CloseSummarize, CloseWrite, Show
  <2>3. CASE ds' = [ds EXCEPT !.import.status = "failed", !.import.errors = @ \cup {Zip}]
    <3>. DEFINE errors == ds.import.errors \cup {Zip}
    <3>. HIDE DEF errors
    <3>1. ds' = [ds EXCEPT !.import.status = "failed", !.import.errors = errors]
      BY <2>3 DEF errors
    <3>2. /\ ds'.exists = ds.exists /\ ds'.deleting = ds.deleting /\ ds'.removing = ds.removing
          /\ ds'.import = [ds.import EXCEPT !.status = "failed", !.errors = errors]
      BY <1>1, <3>1 DEF Dataset
    <3>. QED BY <1>1, <2>1, <3>2 DEF Elsewhere, SameImport, DeliveryOf, Import
  <2>4. CASE ds' = [ds EXCEPT !.shown = c.summary]
    BY <1>1, <2>1, <2>4 DEF Elsewhere, SameImport, Dataset
  <2>. QED BY <2>1, <2>2, <2>3, <2>4, UnchangedIsElsewhere
<1>. QED BY <1>2, <1>3, <1>4, <1>5, <1>6, <1>7 DEF Requests, Recovery

\* What a processor remembers stays right under such a step.
LEMMA ElsewhereKeeps ==
    ASSUME ContentIInv, IInv', Elsewhere, NEW P \in Processor, InMind(P)
    PROVE  InMind(P)'
<1>1. /\ ds \in Dataset /\ ds.import \in Import /\ issued \in Nat /\ issued' \in Nat
      /\ rows \in [Paths -> 0..MaxIds] /\ RowsIssued
      /\ ds' \in Dataset /\ ds'.import \in Import
  BY DEF ContentIInv, IInv, TypeOK, Dataset
<1>2. P.delivery \in Delivery /\ P.delivery.id \in Nat
      /\ P.delivery.delivery \in Nat /\ ds.import.id \in Nat /\ ds.import.delivery \in Nat
  BY <1>1 DEF Processor, Delivery, Import
<1>3. \A p \in Paths : rows[p] \in Nat /\ rows[p] <= issued
  BY <1>1 DEF RowsIssued
<1>4. ImportInMind(P)'
  <2>. SUFFICES ASSUME P.pc \in ImportPC \ {"find"}
                PROVE  ImportInMind(P)'
    BY DEF ImportInMind
  <2>1. ImportInMind(P)
    BY <1>1 DEF InMind
  <2>2. ds'.exists /\ ds'.import.status # "done"
    BY <2>1 DEF ImportInMind, Elsewhere, SameImport, NewerImport
  <2>3. P.delivery.id <= issued' /\ P.delivery.delivery <= issued'
    BY <1>1, <1>2, <2>1 DEF ImportInMind, Elsewhere
  <2>4. DeliveryOf(ds'.import) = P.delivery => ds'.import.mapping = P.mapping
    <3>1. CASE SameImport
      BY <2>1, <3>1 DEF ImportInMind, SameImport
    <3>2. CASE NewerImport
      BY <1>1, <1>2, <2>1, <3>2 DEF ImportInMind, NewerImport, DeliveryOf
    <3>. QED BY <3>1, <3>2 DEF Elsewhere
  <2>5. ASSUME NEW p \in Paths, rows[p] # 0, rows[p] = ds'.import.id
        PROVE  rows[p] = P.delivery.id
    BY <1>1, <1>2, <1>3, <2>1, <2>5 DEF ImportInMind, Elsewhere, SameImport, NewerImport, DeliveryOf
  <2>. QED BY <2>2, <2>3, <2>4, <2>5 DEF ImportInMind, Elsewhere
<1>5. ClearsOthers(P)'
  <2>. SUFFICES ASSUME P.pc = "clear", NEW row \in P.batch
                PROVE  row[1] # ds'.import.id /\ row[1] <= issued'
    BY DEF ClearsOthers
  <2>1. row[1] # ds.import.id /\ row[1] <= issued /\ row[1] \in Nat
    BY <1>1 DEF InMind, ClearsOthers, Processor
  <2>. QED BY <1>1, <1>2, <2>1 DEF Elsewhere, SameImport, NewerImport, DeliveryOf
<1>6. EntriesPut(P)' /\ Accounted(P)' /\ RecordLast(P)'
  BY <1>1 DEF InMind, EntriesPut, Accounted, RecordLast, Elsewhere
<1>7. GroupInMind(P)'
  BY <1>1 DEF InMind, GroupInMind, Elsewhere
<1>. QED BY <1>4, <1>5, <1>6, <1>7 DEF InMind

\* Nor does it falsify what is promised of rows and files.
LEMMA ElsewherePromises ==
    ASSUME ContentIInv, IInv', Elsewhere
    PROVE  RowsIssued' /\ DoneIsComplete' /\ RowsHaveFiles' /\ NoOrphans'
<1>1. /\ ds \in Dataset /\ ds.import \in Import /\ issued \in Nat /\ issued' \in Nat
      /\ rows \in [Paths -> 0..MaxIds] /\ RowsIssued
  BY DEF ContentIInv, IInv, TypeOK, Dataset
<1>2. \A p \in Paths : rows[p] \in Nat /\ rows[p] <= issued
  BY <1>1 DEF RowsIssued
<1>3. RowsIssued'
  BY <1>1, <1>2 DEF RowsIssued, Elsewhere
<1>4. DoneIsComplete'
  BY DEF ContentIInv, DoneIsComplete, Elsewhere, SameImport, NewerImport, DeliveryOf
<1>5. RowsHaveFiles'
  <2>. SUFFICES ASSUME ~ds'.deleting, NEW p \in Paths, rows[p] = ds'.import.id, rows[p] # 0,
                       GroupOf[p] \notin ds'.removing
                PROVE  <<rows[p], p>> \in files
    BY DEF RowsHaveFiles, Elsewhere
  <2>1. ds'.import.id = ds.import.id
    BY <1>1, <1>2 DEF Elsewhere, SameImport, NewerImport, DeliveryOf
  <2>. QED BY <2>1 DEF ContentIInv, RowsHaveFiles, Elsewhere
<1>6. NoOrphans'
  BY DEF ContentIInv, NoOrphans, Elsewhere
<1>. QED BY <1>3, <1>4, <1>5, <1>6

-----------------------------------------------------------------------------
(* The processor's own steps, where there is one worker.                     *)

\* Between two attempts, or before it looked, a processor has nothing in mind.
LEMMA RestsInMind ==
    ASSUME NEW P, P.pc \in {"idle", "settle", "find", "groupFind", "deleteFind"}, P.inFlight = {}
    PROVE  InMind(P)
BY DEF InMind, ImportInMind, ClearsOthers, EntriesPut, Accounted, GroupInMind, RecordLast, ImportPC,
       Tried, RemovalPC

\* A processor that leaves rows and files alone, and does to the document what others may do too, goes
\* on with what is right already.
LEMMA ProcessorGoesOn ==
    ASSUME ContentIInv, IInv', NEW w \in Workers, Workers = {w},
           NEW P, Becomes(w, P), Elsewhere, InMind(P)
    PROVE  ContentIInv'
<1>1. work \in [Workers -> Processor] /\ work' \in [Workers -> Processor]
  BY DEF ContentIInv, IInv, TypeOK
<1>2. work'[w] = P /\ P \in Processor
  BY <1>1 DEF Becomes
<1>3. InMind(P)'
  BY <1>2, ElsewhereKeeps
<1>4. InMind(work[w])'
  BY <1>2, <1>3
<1>. QED BY <1>4, ElsewherePromises DEF ContentIInv

\* The same where it goes on to a place where it has nothing in mind.
LEMMA ProcessorRests ==
    ASSUME ContentIInv, IInv', NEW w \in Workers, Workers = {w}, Elsewhere,
           NEW P, Becomes(w, P), P.inFlight = {},
           P.pc \in {"idle", "settle", "find", "groupFind", "deleteFind"}
    PROVE  ContentIInv'
BY RestsInMind, ProcessorGoesOn

\* An attempt ends with nothing in flight.
LEMMA ProcessorSettles ==
    ASSUME ContentIInv, IInv', NEW w \in Workers, Workers = {w}, Elsewhere,
           NEW outcome, Settle(w, outcome), work[w].inFlight = {}
    PROVE  ContentIInv'
<1>. DEFINE P == [work[w] EXCEPT !.pc = "settle", !.outcome = outcome]
<1>1. work[w] \in Processor
  BY DEF ContentIInv, IInv, TypeOK
<1>2. P.pc = "settle" /\ P.inFlight = {}
  BY <1>1 DEF Processor
<1>3. Becomes(w, P)
  BY DEF Settle
<1>. HIDE DEF P
<1>. QED BY <1>2, <1>3, ProcessorRests

\* Types of what the steps read.
LEMMA ContentTyped ==
    ASSUME ContentIInv, NEW w \in Workers
    PROVE  /\ ds \in Dataset /\ ds.import \in Import /\ issued \in Nat
           /\ ds.import.id \in Nat /\ ds.import.delivery \in Nat
           /\ ds.import.id <= issued /\ ds.import.delivery <= issued
           /\ rows \in [Paths -> 0..MaxIds] /\ \A p \in Paths : rows[p] \in Nat /\ rows[p] <= issued
           /\ work \in [Workers -> Processor] /\ work[w] \in Processor
           /\ work[w].delivery \in Delivery
           /\ work[w].delivery.id \in Nat /\ work[w].delivery.delivery \in Nat
           /\ InMind(work[w])
           /\ work[w].pc \notin {"store", "stopping", "failing"} => work[w].inFlight = {}
<1>1. /\ ds \in Dataset /\ ds.import \in Import /\ issued \in Nat /\ work \in [Workers -> Processor]
      /\ rows \in [Paths -> 0..MaxIds] /\ RowsIssued /\ Numbered /\ InMind(work[w])
      /\ work[w] \in Processor
  BY DEF ContentIInv, IInv, TypeOK, Dataset
<1>2. work[w].delivery \in Delivery /\ work[w].delivery.id \in Nat
      /\ work[w].delivery.delivery \in Nat /\ ds.import.id \in Nat /\ ds.import.delivery \in Nat
  BY <1>1 DEF Processor, Delivery, Import
<1>3. \A p \in Paths : rows[p] \in Nat /\ rows[p] <= issued
  BY <1>1 DEF RowsIssued
<1>4. work[w].pc \notin {"store", "stopping", "failing"} => work[w].inFlight = {}
  BY <1>1 DEF InMind, EntriesPut
<1>. QED BY <1>1, <1>2, <1>3, <1>4 DEF Numbered

\* The import is found: what is recorded now is what the processor has in mind.
LEMMA FindImportKeeps ==
    ASSUME ContentIInv, IInv', NEW w \in Workers, Workers = {w}, FindImport(w)
    PROVE  ContentIInv'
<1>1. /\ ds.import.id <= issued /\ ds.import.delivery <= issued
      /\ work[w] \in Processor /\ work[w].inFlight = {}
  BY ContentTyped DEF FindImport, At
<1>2. Elsewhere
  BY UnchangedIsElsewhere DEF ContentIInv, FindImport
<1>3. CASE \E outcome : Settle(w, outcome)
  BY <1>1, <1>2, <1>3, ProcessorSettles
<1>4. CASE /\ ImportDelivery(work[w].delivery) /\ IsImportActive(ds.import)
           /\ Becomes(w, [work[w] EXCEPT !.pc = "start", !.mapping = ds.import.mapping])
  <2>. DEFINE P == [work[w] EXCEPT !.pc = "start", !.mapping = ds.import.mapping]
  <2>1. /\ P.pc = "start" /\ P.mapping = ds.import.mapping /\ P.delivery = work[w].delivery
        /\ P.inFlight = {}
    BY <1>1 DEF Processor
  <2>. HIDE DEF P
  <2>2. ds.exists /\ DeliveryOf(ds.import) = P.delivery /\ ds.import.status # "done"
    BY <1>4, <2>1 DEF ImportDelivery, IsImportActive, Pending
  <2>3. ImportInMind(P)
    BY <1>1, <2>1, <2>2 DEF ImportInMind, DeliveryOf
  <2>4. InMind(P)
    BY <2>1, <2>3
    DEF InMind, ClearsOthers, EntriesPut, Accounted, GroupInMind, RecordLast, RemovalPC
  <2>. QED BY <1>2, <1>4, <2>4, ProcessorGoesOn DEF P
<1>. QED BY <1>3, <1>4 DEF FindImport

\* The import starts: it stays the recorded one, and running.
LEMMA StartImportKeeps ==
    ASSUME ContentIInv, IInv', NEW w \in Workers, Workers = {w}, StartImport(w)
    PROVE  ContentIInv'
<1>1. /\ ds \in Dataset /\ ds.import \in Import /\ issued \in Nat
      /\ work[w] \in Processor /\ work[w].inFlight = {} /\ InMind(work[w])
  BY ContentTyped DEF StartImport, At
<1>2. CASE ds' = ds /\ Settle(w, "ok")
  <2>1. Elsewhere
    BY <1>2, UnchangedIsElsewhere DEF ContentIInv, StartImport
  <2>. QED BY <1>1, <1>2, <2>1, ProcessorSettles
<1>3. CASE /\ ds' = [ds EXCEPT !.import.status = "running", !.import.stale = FALSE]
           /\ Goto(w, "listStale")
  <2>1. /\ ds'.exists = ds.exists /\ ds'.deleting = ds.deleting /\ ds'.removing = ds.removing
        /\ ds'.import = [ds.import EXCEPT !.status = "running", !.stale = FALSE]
    BY <1>1, <1>3 DEF Dataset
  <2>2. Elsewhere
    BY <1>1, <2>1 DEF StartImport, Elsewhere, SameImport, DeliveryOf, Import
  <2>. DEFINE P == [work[w] EXCEPT !.pc = "listStale"]
  <2>3. /\ P.pc = "listStale" /\ P.mapping = work[w].mapping /\ P.delivery = work[w].delivery
        /\ P.inFlight = {}
    BY <1>1 DEF Processor
  <2>4. Becomes(w, P)
    BY <1>3 DEF Goto
  <2>. HIDE DEF P
  <2>5. ImportInMind(P)
    BY <1>1, <2>3 DEF StartImport, At, InMind, ImportInMind, ImportPC
  <2>6. InMind(P)
    BY <2>3, <2>5
    DEF InMind, ClearsOthers, EntriesPut, Accounted, GroupInMind, RecordLast, RemovalPC
  <2>. QED BY <2>2, <2>4, <2>6, ProcessorGoesOn
<1>. QED BY <1>2, <1>3 DEF StartImport

\* What is listed for clearing was stored by other imports than the recorded one.
LEMMA ListStaleKeeps ==
    ASSUME ContentIInv, IInv', NEW w \in Workers, Workers = {w}, ListStale(w)
    PROVE  ContentIInv'
<1>1. /\ work[w] \in Processor /\ work[w].inFlight = {} /\ work[w].pc = "listStale"
      /\ InMind(work[w]) /\ \A p \in Paths : rows[p] <= issued
  BY ContentTyped DEF ListStale, At
<1>2. Elsewhere
  BY UnchangedIsElsewhere DEF ContentIInv, ListStale
<1>. DEFINE stale == RowsOf({p \in Stored : rows[p] # work[w].delivery.id})
            P == [work[w] EXCEPT !.pc = "clear", !.batch = stale]
<1>3. \A row \in stale : row[1] # ds.import.id /\ row[1] <= issued
  <2>. SUFFICES ASSUME NEW p \in Paths, rows[p] # 0, rows[p] # work[w].delivery.id
                PROVE  rows[p] # ds.import.id /\ rows[p] <= issued
    BY DEF RowsOf, Stored
  <2>. QED BY <1>1 DEF InMind, ImportInMind, ImportPC, Tried
<1>. HIDE DEF stale
<1>4. /\ P.pc = "clear" /\ P.mapping = work[w].mapping /\ P.delivery = work[w].delivery
      /\ P.inFlight = {} /\ P.batch = stale
  BY <1>1 DEF Processor
<1>5. Becomes(w, P)
  BY DEF ListStale, stale
<1>. HIDE DEF P
<1>6. ImportInMind(P)
  BY <1>1, <1>4 DEF InMind, ImportInMind, ImportPC, Tried
<1>7. InMind(P)
  BY <1>3, <1>4, <1>6
  DEF InMind, ClearsOthers, EntriesPut, Accounted, GroupInMind, RecordLast, RemovalPC
<1>. QED BY <1>2, <1>5, <1>7, ProcessorGoesOn

\* Whatever the mapping takes and this import has not stored is still to come.
LEMMA ListStoredKeeps ==
    ASSUME ContentIInv, IInv', NEW w \in Workers, Workers = {w}, ListStored(w)
    PROVE  ContentIInv'
<1>1. /\ work[w] \in Processor /\ work[w].inFlight = {} /\ work[w].pc = "list"
      /\ InMind(work[w])
  BY ContentTyped DEF ListStored, At
<1>2. Elsewhere
  BY UnchangedIsElsewhere DEF ContentIInv, ListStored
<1>. DEFINE todo == {p \in Paths : /\ GroupOf[p] \in work[w].mapping
                                   /\ rows[p] # work[w].delivery.id}
            P == [work[w] EXCEPT !.pc = "store", !.todo = todo]
<1>4. /\ P.pc = "store" /\ P.mapping = work[w].mapping /\ P.delivery = work[w].delivery
      /\ P.inFlight = {} /\ P.todo = todo
  BY <1>1 DEF Processor
<1>5. Becomes(w, P)
  BY DEF ListStored
<1>. HIDE DEF P
<1>6. ImportInMind(P)
  BY <1>1, <1>4 DEF InMind, ImportInMind, ImportPC, Tried
<1>7. Accounted(P)
  BY <1>1, <1>4 DEF InMind, Accounted
<1>8. InMind(P)
  BY <1>4, <1>6, <1>7 DEF InMind, ClearsOthers, EntriesPut, GroupInMind, RecordLast, RemovalPC
<1>. QED BY <1>2, <1>5, <1>8, ProcessorGoesOn

\* An entry reported is accounted for.
LEMMA RejectEntryKeeps ==
    ASSUME ContentIInv, IInv', NEW w \in Workers, Workers = {w}, NEW p \in Paths, RejectEntry(w, p)
    PROVE  ContentIInv'
<1>1. work[w] \in Processor /\ work[w].pc = "store" /\ InMind(work[w])
  BY ContentTyped DEF RejectEntry, At
<1>2. Elsewhere
  BY UnchangedIsElsewhere DEF ContentIInv, RejectEntry
<1>. DEFINE P == [work[w] EXCEPT !.todo = @ \ {p}, !.errors = @ \cup {p}]
<1>4. /\ P.pc = "store" /\ P.mapping = work[w].mapping /\ P.delivery = work[w].delivery
      /\ P.inFlight = work[w].inFlight /\ P.todo = work[w].todo \ {p}
      /\ P.errors = work[w].errors \cup {p}
  BY <1>1 DEF Processor
<1>5. Becomes(w, P)
  BY DEF RejectEntry
<1>. HIDE DEF P
<1>6. ImportInMind(P)
  BY <1>1, <1>4 DEF InMind, ImportInMind
<1>7. Accounted(P)
  BY <1>1, <1>4 DEF InMind, Accounted
<1>8. EntriesPut(P)
  BY <1>1, <1>4 DEF InMind, EntriesPut
<1>9. InMind(P)
  BY <1>4, <1>6, <1>7, <1>8 DEF InMind, ClearsOthers, GroupInMind, RecordLast, RemovalPC
<1>. QED BY <1>2, <1>5, <1>9, ProcessorGoesOn

\* A processor that goes on within its import to a place of no promises of its own keeps what it has
\* in mind of the import and of entries in flight.
LEMMA ImportGoesOn ==
    ASSUME ContentIInv, IInv', NEW w \in Workers, Workers = {w}, Elsewhere,
           NEW P, Becomes(w, P), work[w].pc \in ImportPC \ {"find"},
           P.pc \in {"stopping", "failing", "show", "showWrite"},
           P.delivery = work[w].delivery, P.mapping = work[w].mapping,
           P.inFlight \subseteq work[w].inFlight,
           P.inFlight # {} => P.pc \in {"stopping", "failing"}
    PROVE  ContentIInv'
<1>1. InMind(work[w])
  BY ContentTyped
<1>2. ImportInMind(P)
  BY <1>1 DEF InMind, ImportInMind
<1>3. EntriesPut(P)
  BY <1>1 DEF InMind, EntriesPut
<1>4. InMind(P)
  BY <1>2, <1>3 DEF InMind, ClearsOthers, Accounted, GroupInMind, RecordLast, RemovalPC
<1>. QED BY <1>4, ProcessorGoesOn

\* Heartbeats touch the document only as far as others do; the last one finds every entry stored or
\* reported.
LEMMA HeartbeatKeeps ==
    ASSUME ContentIInv, IInv', NEW w \in Workers, Workers = {w},
           Heartbeat(w) \/ LastHeartbeat(w)
    PROVE  ContentIInv'
<1>1. /\ work[w] \in Processor /\ work[w].pc = "store" /\ InMind(work[w])
      /\ ds \in Dataset /\ ds.import \in Import /\ issued \in Nat
  BY ContentTyped DEF Heartbeat, LastHeartbeat, At
<1>2. /\ ds' = ds \/ ds' = [ds EXCEPT !.import.stale = FALSE]
      /\ UNCHANGED <<issued, rows, files>>
  BY DEF Heartbeat, LastHeartbeat
<1>3. Elsewhere
  <2>1. CASE ds' = ds
    BY <1>2, <2>1, UnchangedIsElsewhere DEF ContentIInv
  <2>2. CASE ds' = [ds EXCEPT !.import.stale = FALSE]
    <3>1. /\ ds'.exists = ds.exists /\ ds'.deleting = ds.deleting /\ ds'.removing = ds.removing
          /\ ds'.import = [ds.import EXCEPT !.stale = FALSE]
      BY <1>1, <2>2 DEF Dataset
    <3>. QED BY <1>1, <1>2, <3>1 DEF Elsewhere, SameImport, DeliveryOf, Import
  <2>. QED BY <1>2, <2>1, <2>2
<1>4. CASE UNCHANGED work
  <2>1. Becomes(w, work[w])
    BY <1>1, <1>4, ContentTyped DEF Becomes
  <2>. QED BY <1>1, <1>3, <2>1, ProcessorGoesOn
<1>5. CASE Goto(w, "stopping")
  <2>. DEFINE P == [work[w] EXCEPT !.pc = "stopping"]
  <2>1. /\ P.pc = "stopping" /\ P.mapping = work[w].mapping /\ P.delivery = work[w].delivery
        /\ P.inFlight = work[w].inFlight
    BY <1>1 DEF Processor
  <2>2. Becomes(w, P)
    BY <1>5 DEF Goto
  <2>. HIDE DEF P
  <2>. QED BY <1>1, <1>3, <2>1, <2>2, ImportGoesOn DEF ImportPC, Tried
<1>6. CASE Goto(w, "summarize") /\ LastHeartbeat(w)
  <2>. DEFINE P == [work[w] EXCEPT !.pc = "summarize"]
  <2>1. /\ P.pc = "summarize" /\ P.mapping = work[w].mapping /\ P.delivery = work[w].delivery
        /\ P.inFlight = {} /\ P.todo = {} /\ P.errors = work[w].errors
    BY <1>1, <1>6 DEF Processor, LastHeartbeat
  <2>2. Becomes(w, P)
    BY <1>6 DEF Goto
  <2>. HIDE DEF P
  <2>3. ImportInMind(P)
    BY <1>1, <2>1 DEF InMind, ImportInMind, ImportPC, Tried
  <2>4. work[w].todo = {} /\ work[w].inFlight = {}
    BY <1>6 DEF LastHeartbeat
  <2>5. Accounted(P)
    BY <1>1, <2>1, <2>4 DEF InMind, Accounted
  <2>6. InMind(P)
    BY <2>1, <2>3, <2>5 DEF InMind, ClearsOthers, EntriesPut, GroupInMind, RecordLast, RemovalPC
  <2>. QED BY <1>3, <2>2, <2>6, ProcessorGoesOn
<1>. QED BY <1>4, <1>5, <1>6 DEF Heartbeat, LastHeartbeat

\* A summary is read.
LEMMA SummarizeKeeps ==
    ASSUME ContentIInv, IInv', NEW w \in Workers, Workers = {w}, Summarize(w)
    PROVE  ContentIInv'
<1>1. /\ work[w] \in Processor /\ work[w].inFlight = {} /\ work[w].pc = "summarize"
      /\ InMind(work[w])
  BY ContentTyped DEF Summarize, At
<1>2. Elsewhere
  BY UnchangedIsElsewhere DEF ContentIInv, Summarize
<1>. DEFINE P == [work[w] EXCEPT !.pc = "finish", !.summary = Stored]
<1>3. /\ P.pc = "finish" /\ P.mapping = work[w].mapping /\ P.delivery = work[w].delivery
      /\ P.inFlight = work[w].inFlight /\ P.todo = work[w].todo /\ P.errors = work[w].errors
  BY <1>1 DEF Processor
<1>4. Becomes(w, P)
  BY DEF Summarize
<1>. HIDE DEF P
<1>5. ImportInMind(P)
  BY <1>1, <1>3 DEF InMind, ImportInMind, ImportPC, Tried
<1>6. Accounted(P)
  BY <1>1, <1>3 DEF InMind, Accounted
<1>7. InMind(P)
  BY <1>1, <1>3, <1>5, <1>6
  DEF InMind, ClearsOthers, EntriesPut, GroupInMind, RecordLast, RemovalPC
<1>. QED BY <1>2, <1>4, <1>7, ProcessorGoesOn

\* The import ends, done or failed, or finds it is no longer running: done means that everything its
\* mapping takes was accounted for, and its mapping is the recorded one's.
LEMMA FinishImportKeeps ==
    ASSUME ContentIInv, IInv', NEW w \in Workers, Workers = {w}, FinishImport(w)
    PROVE  ContentIInv'
<1>1. /\ work[w] \in Processor /\ work[w].inFlight = {} /\ work[w].pc = "finish"
      /\ InMind(work[w]) /\ ds \in Dataset /\ ds.import \in Import /\ issued \in Nat
      /\ work \in [Workers -> Processor]
  BY ContentTyped DEF FinishImport, At
<1>2. CASE Goto(w, "stopping") /\ UNCHANGED ds
  <2>. DEFINE P == [work[w] EXCEPT !.pc = "stopping"]
  <2>1. /\ P.pc = "stopping" /\ P.mapping = work[w].mapping /\ P.delivery = work[w].delivery
        /\ P.inFlight = work[w].inFlight
    BY <1>1 DEF Processor
  <2>2. Becomes(w, P)
    BY <1>2 DEF Goto
  <2>3. Elsewhere
    BY <1>2, UnchangedIsElsewhere DEF ContentIInv, FinishImport
  <2>. HIDE DEF P
  <2>. QED BY <1>1, <2>1, <2>2, <2>3, ImportGoesOn DEF ImportPC, Tried
<1>3. CASE /\ Runs(w) /\ Settle(w, "ok")
           /\ ds' = [ds EXCEPT !.import.status = FinishStatus(w),
                               !.import.errors = work[w].errors, !.shown = work[w].summary]
  <2>1. /\ ds'.exists = ds.exists /\ ds'.deleting = ds.deleting /\ ds'.removing = ds.removing
        /\ ds'.import = [ds.import EXCEPT !.status = FinishStatus(w), !.errors = work[w].errors]
    BY <1>1, <1>3 DEF Dataset
  <2>2. /\ ds'.import.id = ds.import.id /\ ds'.import.mapping = ds.import.mapping
        /\ ds'.import.errors = work[w].errors
    BY <1>1, <2>1 DEF Import
  <2>3. UNCHANGED <<issued, rows, files>>
    BY DEF FinishImport
  <2>. DEFINE P == [work[w] EXCEPT !.pc = "settle", !.outcome = "ok"]
  <2>4. P.pc = "settle" /\ P.inFlight = {} /\ work'[w] = P
    BY <1>1, <1>3 DEF Processor, Settle, Becomes
  <2>5. InMind(work[w])'
    <3>. HIDE DEF P
    <3>1. work'[w].pc = "settle" /\ work'[w].inFlight = {}
      BY <2>4
    <3>. QED
      BY <3>1
      DEF InMind, ImportInMind, ClearsOthers, EntriesPut, Accounted, GroupInMind, RecordLast,
          ImportPC, Tried, RemovalPC
  <2>6. ds.import.mapping = work[w].mapping /\ ds.import.id = work[w].delivery.id
    BY <1>1, <1>3
    DEF InMind, ImportInMind, ImportPC, Tried, Runs, ImportDelivery, DeliveryOf
  <2>7. DoneIsComplete'
    <3>1. \A p \in Paths : GroupOf[p] \in work[w].mapping =>
             rows[p] = work[w].delivery.id \/ p \in work[w].errors
      BY <1>1 DEF InMind, Accounted
    <3>. QED BY <2>1, <2>2, <2>3, <2>6, <3>1 DEF DoneIsComplete
  <2>8. RowsHaveFiles'
    BY <2>1, <2>2, <2>3 DEF ContentIInv, RowsHaveFiles
  <2>9. RowsIssued' /\ NoOrphans'
    BY <2>1, <2>3 DEF ContentIInv, RowsIssued, NoOrphans
  <2>. QED BY <2>5, <2>7, <2>8, <2>9 DEF ContentIInv
<1>. QED BY <1>2, <1>3 DEF FinishImport

\* A stopped or failed attempt saves its errors, never those of an import reported done.
LEMMA EndOfImportKeeps ==
    ASSUME ContentIInv, IInv', NEW w \in Workers, Workers = {w},
           StopImport(w) \/ FailAttempt(w) \/ ShowRead(w) \/ ShowWrite(w)
    PROVE  ContentIInv'
<1>1. /\ work[w] \in Processor /\ work[w].inFlight = {}
      /\ work[w].pc \in {"stopping", "failing", "show", "showWrite"}
      /\ ds \in Dataset /\ ds.import \in Import /\ issued \in Nat
  BY ContentTyped DEF StopImport, FailAttempt, ShowRead, ShowWrite, At
<1>2. UNCHANGED <<issued, rows, files>>
  BY DEF StopImport, FailAttempt, ShowRead, ShowWrite
<1>3. \/ ds' = ds \/ ds' = [ds EXCEPT !.shown = work[w].summary]
      \/ /\ ds' = [ds EXCEPT !.import.errors = work[w].errors]
         /\ ds.import.status \in {"running", "cancelled"}
  BY DEF StopImport, FailAttempt, ShowRead, ShowWrite, Show, Runs
<1>4. Elsewhere
  <2>1. CASE ds' = ds
    BY <1>2, <2>1, UnchangedIsElsewhere DEF ContentIInv
  <2>2. CASE ds' = [ds EXCEPT !.shown = work[w].summary]
    BY <1>1, <1>2, <2>2 DEF Elsewhere, SameImport, Dataset
  <2>3. CASE /\ ds' = [ds EXCEPT !.import.errors = work[w].errors]
             /\ ds.import.status \in {"running", "cancelled"}
    <3>1. /\ ds'.exists = ds.exists /\ ds'.deleting = ds.deleting /\ ds'.removing = ds.removing
          /\ ds'.import = [ds.import EXCEPT !.errors = work[w].errors]
      BY <1>1, <2>3 DEF Dataset
    <3>2. /\ ds'.import.status = ds.import.status /\ DeliveryOf(ds'.import) = DeliveryOf(ds.import)
          /\ ds'.import.mapping = ds.import.mapping
      BY <1>1, <3>1 DEF DeliveryOf, Import
    <3>. QED BY <1>1, <1>2, <2>3, <3>1, <3>2 DEF Elsewhere, SameImport
  <2>. QED BY <1>3, <2>1, <2>2, <2>3
<1>5. CASE \E outcome : Settle(w, outcome)
  BY <1>1, <1>4, <1>5, ProcessorSettles
<1>6. CASE Goto(w, "show")
  <2>. DEFINE P == [work[w] EXCEPT !.pc = "show"]
  <2>1. /\ P.pc = "show" /\ P.mapping = work[w].mapping /\ P.delivery = work[w].delivery
        /\ P.inFlight = work[w].inFlight
    BY <1>1 DEF Processor
  <2>2. Becomes(w, P)
    BY <1>6 DEF Goto
  <2>. HIDE DEF P
  <2>. QED BY <1>1, <1>4, <2>1, <2>2, ImportGoesOn DEF ImportPC, Tried
<1>7. CASE ShowRead(w)
  <2>. DEFINE P == [work[w] EXCEPT !.pc = "showWrite", !.summary = Stored]
  <2>1. /\ P.pc = "showWrite" /\ P.mapping = work[w].mapping /\ P.delivery = work[w].delivery
        /\ P.inFlight = work[w].inFlight
    BY <1>1 DEF Processor
  <2>2. Becomes(w, P)
    BY <1>7 DEF ShowRead
  <2>. HIDE DEF P
  <2>. QED BY <1>1, <1>4, <2>1, <2>2, ImportGoesOn DEF ImportPC, Tried
<1>. QED BY <1>5, <1>6, <1>7 DEF StopImport, FailAttempt, ShowWrite

\* Errors send an attempt to its catch block or end it.
LEMMA ErrorsKeep ==
    ASSUME ContentIInv, IInv', NEW w \in Workers, Workers = {w},
           AttemptError(w) \/ \E p \in Paths : EntryError(w, p)
    PROVE  ContentIInv'
<1>1. /\ work[w] \in Processor /\ InMind(work[w])
      /\ work[w].pc \notin {"store", "stopping", "failing"} => work[w].inFlight = {}
  BY ContentTyped
<1>2. Elsewhere
  BY UnchangedIsElsewhere DEF ContentIInv, AttemptError, EntryError
<1>3. CASE work[w].inFlight = {} /\ Settle(w, "error")
  BY <1>2, <1>3, ProcessorSettles
<1>4. ASSUME NEW outcome, work[w].pc \in Tried,
             Becomes(w, [work[w] EXCEPT !.pc = "failing", !.outcome = outcome])
      PROVE  ContentIInv'
  <2>. DEFINE P == [work[w] EXCEPT !.pc = "failing", !.outcome = outcome]
  <2>1. /\ P.pc = "failing" /\ P.mapping = work[w].mapping /\ P.delivery = work[w].delivery
        /\ P.inFlight = work[w].inFlight
    BY <1>1 DEF Processor
  <2>. HIDE DEF P
  <2>2. work[w].pc \in ImportPC \ {"find"}
    BY <1>4 DEF ImportPC, Tried
  <2>. QED BY <1>2, <1>4, <2>1, <2>2, ImportGoesOn DEF P
<1>5. ASSUME NEW p \in Paths, EntryError(w, p)
      PROVE  ContentIInv'
  <2>1. CASE Becomes(w, [work[w] EXCEPT !.inFlight = @ \ {p}, !.pc = "failing",
                                        !.outcome = "error"]) /\ work[w].pc = "store"
    <3>. DEFINE P == [work[w] EXCEPT !.inFlight = @ \ {p}, !.pc = "failing", !.outcome = "error"]
    <3>1. /\ P.pc = "failing" /\ P.mapping = work[w].mapping /\ P.delivery = work[w].delivery
          /\ P.inFlight \subseteq work[w].inFlight
      BY <1>1 DEF Processor
    <3>. HIDE DEF P
    <3>2. work[w].pc \in ImportPC \ {"find"}
      BY <2>1 DEF ImportPC, Tried
    <3>. QED BY <1>2, <2>1, <3>1, <3>2, ImportGoesOn DEF P
  <2>2. CASE /\ Becomes(w, [work[w] EXCEPT !.inFlight = @ \ {p}])
             /\ work[w].pc \in {"stopping", "failing"}
    <3>. DEFINE P == [work[w] EXCEPT !.inFlight = @ \ {p}]
    <3>1. /\ P.pc = work[w].pc /\ P.mapping = work[w].mapping /\ P.delivery = work[w].delivery
          /\ P.inFlight \subseteq work[w].inFlight
      BY <1>1 DEF Processor
    <3>. HIDE DEF P
    <3>2. work[w].pc \in ImportPC \ {"find"}
      BY <2>2 DEF ImportPC, Tried
    <3>. QED BY <1>2, <2>2, <3>1, <3>2, ImportGoesOn DEF P
  <2>. QED BY <1>5, <2>1, <2>2 DEF EntryError, At
<1>. QED BY <1>3, <1>4, <1>5 DEF AttemptError

\* A processor takes a job, ends its attempt or is killed: it has nothing in mind then.
LEMMA AttemptsKeep ==
    ASSUME ContentIInv, IInv', NEW w \in Workers, Workers = {w},
           Take(w) \/ EndAttempt(w) \/ Crash(w) \/ LoseLock(w) \/ \E j \in JobIds : CheckStalled(w, j)
    PROVE  ContentIInv'
<1>1. Elsewhere
  BY UnchangedIsElsewhere DEF ContentIInv, Take, EndAttempt, Crash, LoseLock, CheckStalled
<1>2. CASE UNCHANGED work
  <2>1. work \in [Workers -> Processor] /\ InMind(work[w])
    BY ContentTyped
  <2>2. Becomes(w, work[w])
    BY <1>2, <2>1 DEF Becomes
  <2>. QED BY <1>1, <2>1, <2>2, ProcessorGoesOn
<1>3. CASE Becomes(w, Idle)
  <2>1. Idle.pc = "idle" /\ Idle.inFlight = {}
    BY DEF Idle
  <2>. QED BY <1>1, <1>3, <2>1, ProcessorRests
<1>4. CASE Take(w)
  <2>. DEFINE P(j) == [Idle EXCEPT !.job = j, !.delivery = jobs[j].data,
                                   !.pc = IF j \in Ids THEN "find"
                                          ELSE IF j \in Groups THEN "groupFind" ELSE "deleteFind"]
  <2>1. PICK j \in JobIds : Becomes(w, P(j))
    BY <1>4 DEF Take
  <2>2. P(j).pc \in {"find", "groupFind", "deleteFind"} /\ P(j).inFlight = {}
    BY DEF Idle
  <2>. HIDE DEF P
  <2>. QED BY <1>1, <2>1, <2>2, ProcessorRests
<1>. QED BY <1>2, <1>3, <1>4 DEF EndAttempt, Crash, LoseLock, CheckStalled

-----------------------------------------------------------------------------
(* Steps that touch storage.                                                 *)

\* The whole invariant from its parts, where the document stays as it is.
LEMMA StorageKeeps ==
    ASSUME ContentIInv, IInv', NEW w \in Workers, Workers = {w}, UNCHANGED <<ds, issued>>,
           RowsIssued', DoneIsComplete', RowsHaveFiles', NoOrphans',
           NEW P, Becomes(w, P), work'[w] = P => InMind(work[w])'
    PROVE  ContentIInv'
<1>1. work'[w] = P
  BY ContentTyped DEF Becomes
<1>. QED BY <1>1 DEF ContentIInv

\* A folder is cleared: not the recorded import's.
LEMMA ClearFolderKeeps ==
    ASSUME ContentIInv, IInv', NEW w \in Workers, Workers = {w}, ClearFolder(w)
    PROVE  ContentIInv'
<1>1. /\ work[w] \in Processor /\ work[w].inFlight = {} /\ work[w].pc = "clear"
      /\ InMind(work[w]) /\ work \in [Workers -> Processor]
      /\ \A p \in Paths : rows[p] \in Nat
  BY ContentTyped DEF ClearFolder, At
<1>2. PICK stale \in work[w].batch :
         /\ files' = {f \in files : f[1] # stale[1]}
         /\ Becomes(w, [work[w] EXCEPT !.batch = {row \in @ : row[1] # stale[1]}])
  BY DEF ClearFolder
<1>. DEFINE batch == {row \in work[w].batch : row[1] # stale[1]}
            P == [work[w] EXCEPT !.batch = batch]
<1>3. batch \subseteq work[w].batch
  OBVIOUS
<1>4. /\ P.pc = "clear" /\ P.mapping = work[w].mapping /\ P.delivery = work[w].delivery
      /\ P.inFlight = {} /\ P.batch = batch
  BY <1>1 DEF Processor
<1>5. Becomes(w, P) /\ UNCHANGED <<ds, issued, rows>>
  BY <1>2 DEF ClearFolder
<1>. HIDE DEF P, batch
<1>6. ds.exists /\ ds.import.status # "done" /\ stale[1] # ds.import.id
  BY <1>1 DEF InMind, ImportInMind, ClearsOthers, ImportPC, Tried
<1>7. RowsHaveFiles'
  BY <1>1, <1>2, <1>5, <1>6 DEF ContentIInv, RowsHaveFiles
<1>8. RowsIssued' /\ DoneIsComplete' /\ NoOrphans'
  BY <1>5, <1>6 DEF ContentIInv, RowsIssued, DoneIsComplete, NoOrphans
<1>9. ASSUME work'[w] = P PROVE InMind(work[w])'
  <2>1. ImportInMind(work[w])'
    BY <1>1, <1>4, <1>5, <1>9 DEF InMind, ImportInMind
  <2>2. ClearsOthers(work[w])'
    BY <1>1, <1>3, <1>4, <1>5, <1>9 DEF InMind, ClearsOthers
  <2>. QED
    BY <1>4, <1>9, <2>1, <2>2 DEF InMind, EntriesPut, Accounted, GroupInMind, RecordLast, RemovalPC
<1>. QED BY <1>5, <1>7, <1>8, <1>9, StorageKeeps

\* The rows of every other import go.
LEMMA ClearRowsKeeps ==
    ASSUME ContentIInv, IInv', NEW w \in Workers, Workers = {w}, ClearRows(w)
    PROVE  ContentIInv'
<1>1. /\ work[w] \in Processor /\ work[w].inFlight = {} /\ work[w].pc = "clear"
      /\ InMind(work[w]) /\ work \in [Workers -> Processor] /\ issued \in Nat
      /\ \A p \in Paths : rows[p] \in Nat /\ rows[p] <= issued
  BY ContentTyped DEF ClearRows, At
<1>. DEFINE P == [work[w] EXCEPT !.pc = "list"]
<1>4. /\ P.pc = "list" /\ P.mapping = work[w].mapping /\ P.delivery = work[w].delivery
      /\ P.inFlight = {}
  BY <1>1 DEF Processor
<1>5. Becomes(w, P) /\ UNCHANGED <<ds, issued, files>>
  BY DEF ClearRows, Goto
<1>. HIDE DEF P
<1>6. ds.exists /\ ds.import.status # "done"
  BY <1>1 DEF InMind, ImportInMind, ImportPC, Tried
<1>7. \A p \in Paths : rows'[p] \in {0, work[w].delivery.id} /\ rows'[p] \in {0, rows[p]}
  BY DEF ClearRows
<1>8. RowsHaveFiles'
  BY <1>5, <1>7 DEF ContentIInv, RowsHaveFiles
<1>9. RowsIssued' /\ DoneIsComplete' /\ NoOrphans'
  BY <1>1, <1>5, <1>6, <1>7 DEF RowsIssued, DoneIsComplete, NoOrphans
<1>10. ASSUME work'[w] = P PROVE InMind(work[w])'
  <2>1. ImportInMind(work[w])'
    BY <1>1, <1>4, <1>5, <1>7, <1>10 DEF InMind, ImportInMind, ImportPC, Tried
  <2>2. Accounted(work[w])'
    BY <1>4, <1>7, <1>10 DEF Accounted
  <2>. QED
    BY <1>4, <1>10, <2>1, <2>2
    DEF InMind, ClearsOthers, EntriesPut, GroupInMind, RecordLast, RemovalPC
<1>. QED BY <1>5, <1>8, <1>9, <1>10, StorageKeeps

\* The file of an entry is put; the entry is in flight.
LEMMA PutEntryKeeps ==
    ASSUME ContentIInv, IInv', NEW w \in Workers, Workers = {w}, NEW p \in Paths, PutEntry(w, p)
    PROVE  ContentIInv'
<1>1. /\ work[w] \in Processor /\ work[w].pc = "store" /\ InMind(work[w])
  BY ContentTyped DEF PutEntry, At
<1>. DEFINE P == [work[w] EXCEPT !.todo = @ \ {p}, !.inFlight = @ \cup {p}]
<1>4. /\ P.pc = "store" /\ P.mapping = work[w].mapping /\ P.delivery = work[w].delivery
      /\ P.inFlight = work[w].inFlight \cup {p} /\ P.todo = work[w].todo \ {p}
      /\ P.errors = work[w].errors
  BY <1>1 DEF Processor
<1>5. /\ Becomes(w, P) /\ UNCHANGED <<ds, issued, rows>>
      /\ files' = files \cup {<<work[w].delivery.id, p>>}
  BY DEF PutEntry
<1>. HIDE DEF P
<1>6. ds.exists
  BY <1>1 DEF InMind, ImportInMind, ImportPC, Tried
<1>7. RowsIssued' /\ DoneIsComplete' /\ RowsHaveFiles' /\ NoOrphans'
  BY <1>5, <1>6 DEF ContentIInv, RowsIssued, DoneIsComplete, RowsHaveFiles, NoOrphans
<1>8. ASSUME work'[w] = P PROVE InMind(work[w])'
  <2>1. ImportInMind(work[w])'
    BY <1>1, <1>4, <1>5, <1>8 DEF InMind, ImportInMind
  <2>2. Accounted(work[w])'
    BY <1>1, <1>4, <1>5, <1>8 DEF InMind, Accounted
  <2>3. EntriesPut(work[w])'
    BY <1>1, <1>4, <1>5, <1>8 DEF InMind, EntriesPut
  <2>. QED
    BY <1>4, <1>8, <2>1, <2>2, <2>3 DEF InMind, ClearsOthers, GroupInMind, RecordLast, RemovalPC
<1>. QED BY <1>5, <1>7, <1>8, StorageKeeps

\* The row of an entry in flight is created, unless there is one.
LEMMA CreateRowKeeps ==
    ASSUME ContentIInv, IInv', NEW w \in Workers, Workers = {w}, NEW p \in Paths, CreateRow(w, p)
    PROVE  ContentIInv'
<1>1. /\ work[w] \in Processor /\ work[w].pc \in {"store", "stopping", "failing"}
      /\ InMind(work[w]) /\ issued \in Nat /\ work[w].delivery.id \in Nat
      /\ rows \in [Paths -> 0..MaxIds] /\ \A q \in Paths : rows[q] \in Nat /\ rows[q] <= issued
  BY ContentTyped DEF CreateRow
<1>. DEFINE P == [work[w] EXCEPT !.inFlight = @ \ {p}, !.stored = @ \/ rows[p] = 0]
<1>4. /\ P.pc = work[w].pc /\ P.mapping = work[w].mapping /\ P.delivery = work[w].delivery
      /\ P.inFlight = work[w].inFlight \ {p} /\ P.todo = work[w].todo
      /\ P.errors = work[w].errors
  BY <1>1 DEF Processor
<1>5. /\ Becomes(w, P) /\ UNCHANGED <<ds, issued, files>> /\ p \in work[w].inFlight
  BY DEF CreateRow
<1>. HIDE DEF P
<1>6. ds.exists /\ ds.import.status # "done" /\ work[w].delivery.id <= issued
  BY <1>1 DEF InMind, ImportInMind, ImportPC, Tried
<1>7. /\ \A q \in Paths : q # p => rows'[q] = rows[q]
      /\ rows[p] # 0 => rows'[p] = rows[p]
      /\ rows[p] = 0 => rows'[p] = work[w].delivery.id
  BY <1>1 DEF CreateRow
<1>8. <<work[w].delivery.id, p>> \in files
  BY <1>1, <1>5 DEF InMind, EntriesPut
<1>9. RowsIssued' /\ DoneIsComplete' /\ NoOrphans'
  BY <1>1, <1>5, <1>6, <1>7 DEF RowsIssued, DoneIsComplete, NoOrphans
<1>10. RowsHaveFiles'
  BY <1>5, <1>7, <1>8 DEF ContentIInv, RowsHaveFiles
<1>11. ASSUME work'[w] = P PROVE InMind(work[w])'
  <2>1. ImportInMind(work[w])'
    BY <1>1, <1>4, <1>5, <1>7, <1>11 DEF InMind, ImportInMind
  <2>2. Accounted(work[w])'
    BY <1>1, <1>4, <1>5, <1>7, <1>11 DEF InMind, Accounted
  <2>3. EntriesPut(work[w])'
    BY <1>1, <1>4, <1>5, <1>11 DEF InMind, EntriesPut
  <2>. QED
    BY <1>1, <1>4, <1>11, <2>1, <2>2, <2>3
    DEF InMind, ClearsOthers, GroupInMind, RecordLast, RemovalPC
<1>. QED BY <1>5, <1>9, <1>10, <1>11, StorageKeeps

-----------------------------------------------------------------------------
(* Removals of groups, and the deletion.                                     *)

\* A removal looks for its mark, reads what is left and summarises; it has the rows of one marked
\* group in mind.
LEMMA GroupReadsKeep ==
    ASSUME ContentIInv, IInv', NEW w \in Workers, Workers = {w},
           GroupFind(w) \/ GroupBatch(w) \/ GroupSummarize(w)
    PROVE  ContentIInv'
<1>1. /\ work[w] \in Processor /\ work[w].inFlight = {} /\ InMind(work[w])
      /\ work[w].pc \in {"groupFind", "groupBatch", "groupSummarize"}
  BY ContentTyped DEF GroupFind, GroupBatch, GroupSummarize, At
<1>2. Elsewhere
  BY UnchangedIsElsewhere DEF ContentIInv, GroupFind, GroupBatch, GroupSummarize
<1>. DEFINE outside(P) == ImportInMind(P) /\ ClearsOthers(P) /\ EntriesPut(P) /\ Accounted(P)
                          /\ RecordLast(P)
<1>3. \A P : P.pc \in RemovalPC /\ P.inFlight = {} => outside(P)
  BY DEF ImportInMind, ClearsOthers, EntriesPut, Accounted, RecordLast, ImportPC, Tried, RemovalPC
<1>. HIDE DEF outside
<1>4. CASE Settle(w, "ok")
  BY <1>1, <1>2, <1>4, ProcessorSettles
<1>5. CASE GroupFind(w) /\ Goto(w, "groupBatch") /\ work[w].job \in ds.removing
  <2>. DEFINE P == [work[w] EXCEPT !.pc = "groupBatch"]
  <2>1. P.pc = "groupBatch" /\ P.job = work[w].job /\ P.inFlight = {}
    BY <1>1 DEF Processor
  <2>2. Becomes(w, P)
    BY <1>5 DEF Goto
  <2>. HIDE DEF P
  <2>3. GroupInMind(P)
    BY <1>5, <2>1 DEF GroupInMind
  <2>4. InMind(P)
    BY <1>3, <2>1, <2>3 DEF InMind, RemovalPC, outside
  <2>. QED BY <1>2, <2>2, <2>4, ProcessorGoesOn
<1>6. CASE GroupBatch(w)
  <2>. DEFINE batch == RowsOf({p \in Stored : GroupOf[p] = work[w].job})
              P == [work[w] EXCEPT !.batch = batch,
                                   !.pc = IF batch = {} THEN "groupSummarize" ELSE "groupFiles"]
  <2>1. Becomes(w, P)
    BY <1>6 DEF GroupBatch
  <2>2. \A row \in batch : GroupOf[row[2]] = work[w].job
    BY DEF RowsOf
  <2>3. batch = {} => \A p \in Paths : rows[p] # 0 => GroupOf[p] # work[w].job
    BY DEF RowsOf, Stored
  <2>. HIDE DEF batch
  <2>4. /\ P.pc = (IF batch = {} THEN "groupSummarize" ELSE "groupFiles")
        /\ P.job = work[w].job /\ P.inFlight = {} /\ P.batch = batch
    BY <1>1 DEF Processor
  <2>. HIDE DEF P
  <2>5. work[w].job \in ds.removing
    BY <1>1, <1>6 DEF GroupBatch, At, InMind, GroupInMind, RemovalPC
  <2>6. GroupInMind(P)
    BY <2>2, <2>3, <2>4, <2>5 DEF GroupInMind
  <2>7. InMind(P)
    BY <1>3, <2>4, <2>6 DEF InMind, RemovalPC, outside
  <2>. QED BY <1>2, <2>1, <2>7, ProcessorGoesOn
<1>7. CASE GroupSummarize(w)
  <2>. DEFINE P == [work[w] EXCEPT !.pc = "groupWrite", !.summary = Stored]
  <2>1. P.pc = "groupWrite" /\ P.job = work[w].job /\ P.inFlight = {}
    BY <1>1 DEF Processor
  <2>2. Becomes(w, P)
    BY <1>7 DEF GroupSummarize
  <2>. HIDE DEF P
  <2>3. GroupInMind(P)
    BY <1>1, <1>7, <2>1 DEF GroupSummarize, At, InMind, GroupInMind, RemovalPC
  <2>4. InMind(P)
    BY <1>3, <2>1, <2>3 DEF InMind, RemovalPC, outside
  <2>. QED BY <1>2, <2>2, <2>4, ProcessorGoesOn
<1>. QED BY <1>4, <1>5, <1>6, <1>7 DEF GroupFind

\* Files and rows of a marked group go: nothing is promised of them.
LEMMA GroupStorageKeeps ==
    ASSUME ContentIInv, IInv', NEW w \in Workers, Workers = {w}, GroupFiles(w) \/ GroupRows(w)
    PROVE  ContentIInv'
<1>1. /\ work[w] \in Processor /\ work[w].inFlight = {} /\ InMind(work[w])
      /\ work[w].pc \in {"groupFiles", "groupRows"} /\ issued \in Nat
      /\ \A p \in Paths : rows[p] \in Nat /\ rows[p] <= issued
  BY ContentTyped DEF GroupFiles, GroupRows, At
<1>2. /\ work[w].job \in ds.removing
      /\ \A row \in work[w].batch : GroupOf[row[2]] = work[w].job
  BY <1>1 DEF InMind, GroupInMind, RemovalPC
<1>3. UNCHANGED <<ds, issued>>
  BY DEF GroupFiles, GroupRows
<1>4. CASE GroupFiles(w)
  <2>. DEFINE P == [work[w] EXCEPT !.pc = "groupRows"]
  <2>1. /\ P.pc = "groupRows" /\ P.job = work[w].job /\ P.inFlight = {}
        /\ P.batch = work[w].batch
    BY <1>1 DEF Processor
  <2>2. Becomes(w, P) /\ files' = files \ work[w].batch /\ UNCHANGED rows
    BY <1>4 DEF GroupFiles, Goto
  <2>. HIDE DEF P
  <2>3. RowsHaveFiles'
    <3>. SUFFICES ASSUME ~ds.deleting, NEW p \in Paths, rows[p] = ds.import.id, rows[p] # 0,
                         GroupOf[p] \notin ds.removing
                  PROVE  <<rows[p], p>> \in files'
      BY <1>3, <2>2 DEF RowsHaveFiles
    <3>1. <<rows[p], p>> \in files
      BY DEF ContentIInv, RowsHaveFiles
    <3>2. <<rows[p], p>> \notin work[w].batch
      BY <1>2
    <3>. QED BY <2>2, <3>1, <3>2
  <2>4. RowsIssued' /\ DoneIsComplete' /\ NoOrphans'
    BY <1>3, <2>2 DEF ContentIInv, RowsIssued, DoneIsComplete, NoOrphans
  <2>5. ASSUME work'[w] = P PROVE InMind(work[w])'
    BY <1>2, <1>3, <2>1, <2>5
    DEF InMind, ImportInMind, ClearsOthers, EntriesPut, Accounted, GroupInMind, RecordLast, ImportPC,
        Tried
  <2>. QED BY <1>3, <2>2, <2>3, <2>4, <2>5, StorageKeeps
<1>5. CASE GroupRows(w)
  <2>. DEFINE P == [work[w] EXCEPT !.batch = {}, !.pc = "groupBatch"]
  <2>1. P.pc = "groupBatch" /\ P.job = work[w].job /\ P.inFlight = {}
    BY <1>1 DEF Processor
  <2>2. Becomes(w, P) /\ UNCHANGED files
    BY <1>5 DEF GroupRows
  <2>3. \A p \in Paths : rows'[p] = IF <<rows[p], p>> \in work[w].batch THEN 0 ELSE rows[p]
    BY <1>5 DEF GroupRows
  <2>. HIDE DEF P
  <2>4. \A p \in Paths : /\ rows'[p] \in {0, rows[p]}
                         /\ rows'[p] # rows[p] => GroupOf[p] \in ds.removing
    <3>. SUFFICES ASSUME NEW p \in Paths, <<rows[p], p>> \in work[w].batch
                  PROVE  GroupOf[p] \in ds.removing
      BY <2>3
    <3>1. GroupOf[<<rows[p], p>>[2]] = work[w].job
      BY <1>2
    <3>. QED BY <1>2, <3>1
  <2>5. RowsIssued' /\ NoOrphans'
    BY <1>1, <1>3, <2>2, <2>4 DEF ContentIInv, RowsIssued, NoOrphans
  <2>6. DoneIsComplete'
    BY <1>3, <2>4 DEF ContentIInv, DoneIsComplete
  <2>7. RowsHaveFiles'
    BY <1>3, <2>2, <2>4 DEF ContentIInv, RowsHaveFiles
  <2>8. ASSUME work'[w] = P PROVE InMind(work[w])'
    BY <1>2, <1>3, <2>1, <2>8
    DEF InMind, ImportInMind, ClearsOthers, EntriesPut, Accounted, GroupInMind, RecordLast, ImportPC,
        Tried
  <2>. QED BY <1>3, <2>2, <2>5, <2>6, <2>7, <2>8, StorageKeeps
<1>. QED BY <1>4, <1>5

\* A step that ends an attempt and changes the document, but neither rows nor files.
LEMMA DocumentKeeps ==
    ASSUME ContentIInv, IInv', NEW w \in Workers, Workers = {w}, Settle(w, "ok"),
           work[w].inFlight = {}, UNCHANGED <<issued, rows, files>>,
           DoneIsComplete', RowsHaveFiles', NoOrphans'
    PROVE  ContentIInv'
<1>1. work \in [Workers -> Processor] /\ work[w] \in Processor
  BY ContentTyped
<1>2. work'[w].pc = "settle" /\ work'[w].inFlight = {}
  BY <1>1 DEF Settle, Becomes, Processor
<1>3. InMind(work[w])'
  BY <1>2
  DEF InMind, ImportInMind, ClearsOthers, EntriesPut, Accounted, GroupInMind, RecordLast,
      ImportPC, Tried, RemovalPC
<1>. QED BY <1>3 DEF ContentIInv, RowsIssued

\* The mark is lifted, and the group leaves the mapping with it, when no row of it is left.
LEMMA GroupWriteKeeps ==
    ASSUME ContentIInv, IInv', NEW w \in Workers, Workers = {w}, GroupWrite(w)
    PROVE  ContentIInv'
<1>1. /\ work[w] \in Processor /\ work[w].inFlight = {} /\ InMind(work[w])
      /\ work[w].pc = "groupWrite" /\ ds \in Dataset /\ ds.import \in Import
  BY ContentTyped DEF GroupWrite, At
<1>2. Settle(w, "ok") /\ UNCHANGED <<issued, rows, files>>
  BY DEF GroupWrite
<1>3. CASE ds' = ds
  <2>1. Elsewhere
    BY <1>2, <1>3, UnchangedIsElsewhere DEF ContentIInv
  <2>. QED BY <1>1, <1>2, <2>1, ProcessorSettles
<1>4. CASE ds' # ds
  <2>1. ds' = [ds EXCEPT !.shown = work[w].summary, !.removing = @ \ {work[w].job},
                         !.import.mapping = @ \ {work[w].job}]
    BY <1>4 DEF GroupWrite
  <2>. DEFINE mapping == ds.import.mapping \ {work[w].job}
  <2>2. /\ ds'.exists = ds.exists /\ ds'.deleting = ds.deleting
        /\ ds'.removing = ds.removing \ {work[w].job}
        /\ ds'.import = [ds.import EXCEPT !.mapping = mapping]
    BY <1>1, <2>1 DEF Dataset
  <2>. HIDE DEF mapping
  <2>3. /\ ds'.import.id = ds.import.id /\ ds'.import.status = ds.import.status
        /\ ds'.import.errors = ds.import.errors /\ ds'.import.mapping = mapping
    BY <1>1, <2>2 DEF Import
  <2>4. \A p \in Paths : rows[p] # 0 => GroupOf[p] # work[w].job
    BY <1>1 DEF InMind, GroupInMind
  <2>5. DoneIsComplete'
    BY <1>2, <2>2, <2>3 DEF ContentIInv, DoneIsComplete, mapping
  <2>6. RowsHaveFiles'
    BY <1>2, <2>2, <2>3, <2>4 DEF ContentIInv, RowsHaveFiles
  <2>7. NoOrphans'
    BY <1>2, <2>2 DEF ContentIInv, NoOrphans
  <2>. QED BY <1>1, <1>2, <2>5, <2>6, <2>7, DocumentKeeps
<1>. QED BY <1>3, <1>4

\* The deletion finds its mark, takes the files, then the rows.
LEMMA DeletionKeeps ==
    ASSUME ContentIInv, IInv', NEW w \in Workers, Workers = {w},
           DeleteFind(w) \/ DeleteFiles(w) \/ DeleteRows(w)
    PROVE  ContentIInv'
<1>1. /\ work[w] \in Processor /\ work[w].inFlight = {} /\ InMind(work[w])
      /\ work[w].pc \in {"deleteFind", "deleteFiles", "deleteRows"} /\ issued \in Nat
  BY ContentTyped DEF DeleteFind, DeleteFiles, DeleteRows, At
<1>. DEFINE P(pc) == [work[w] EXCEPT !.pc = pc]
<1>2. \A pc : P(pc).pc = pc /\ P(pc).inFlight = {}
  BY <1>1 DEF Processor
<1>3. \A pc : Goto(w, pc) => Becomes(w, P(pc))
  BY DEF Goto
<1>. HIDE DEF P
<1>4. CASE Settle(w, "ok") /\ DeleteFind(w)
  <2>1. Elsewhere
    BY <1>4, UnchangedIsElsewhere DEF ContentIInv, DeleteFind
  <2>. QED BY <1>1, <1>4, <2>1, ProcessorSettles
<1>5. CASE Goto(w, "deleteFiles") /\ DeleteFind(w) /\ ds.exists /\ ds.deleting
  <2>1. Elsewhere
    BY <1>5, UnchangedIsElsewhere DEF ContentIInv, DeleteFind
  <2>2. P("deleteFiles").pc = "deleteFiles" /\ P("deleteFiles").inFlight = {}
    BY <1>2
  <2>3. InMind(P("deleteFiles"))
    BY <1>5, <2>2
    DEF InMind, ImportInMind, ClearsOthers, EntriesPut, Accounted, GroupInMind, RecordLast, ImportPC,
        Tried, RemovalPC
  <2>. QED BY <1>3, <1>5, <2>1, <2>3, ProcessorGoesOn
<1>6. CASE DeleteFiles(w)
  <2>1. /\ Becomes(w, P("deleteRows")) /\ files' = {} /\ UNCHANGED <<ds, issued, rows>>
    BY <1>3, <1>6 DEF DeleteFiles
  <2>2. P("deleteRows").pc = "deleteRows" /\ P("deleteRows").inFlight = {}
    BY <1>2
  <2>3. ds.exists /\ ds.deleting
    BY <1>1, <1>6 DEF DeleteFiles, At, InMind, RecordLast
  <2>4. RowsIssued' /\ DoneIsComplete' /\ RowsHaveFiles' /\ NoOrphans'
    BY <2>1, <2>3 DEF ContentIInv, RowsIssued, DoneIsComplete, RowsHaveFiles, NoOrphans
  <2>5. ASSUME work'[w] = P("deleteRows") PROVE InMind(work[w])'
    BY <2>1, <2>2, <2>3, <2>5
    DEF InMind, ImportInMind, ClearsOthers, EntriesPut, Accounted, GroupInMind, RecordLast, ImportPC,
        Tried, RemovalPC
  <2>. QED BY <2>1, <2>4, <2>5, StorageKeeps
<1>7. CASE DeleteRows(w)
  <2>1. /\ Becomes(w, P("deleteRecord")) /\ UNCHANGED <<ds, issued, files>>
        /\ rows' = [p \in Paths |-> 0]
    BY <1>3, <1>7 DEF DeleteRows
  <2>2. P("deleteRecord").pc = "deleteRecord" /\ P("deleteRecord").inFlight = {}
    BY <1>2
  <2>3. ds.exists /\ ds.deleting /\ files = {}
    BY <1>1, <1>7 DEF DeleteRows, At, InMind, RecordLast
  <2>4. RowsIssued' /\ DoneIsComplete' /\ RowsHaveFiles' /\ NoOrphans'
    BY <1>1, <2>1, <2>3 DEF RowsIssued, DoneIsComplete, RowsHaveFiles, NoOrphans
  <2>5. ASSUME work'[w] = P("deleteRecord") PROVE InMind(work[w])'
    BY <2>1, <2>2, <2>3, <2>5
    DEF InMind, ImportInMind, ClearsOthers, EntriesPut, Accounted, GroupInMind, RecordLast, ImportPC,
        Tried, RemovalPC
  <2>. QED BY <2>1, <2>4, <2>5, StorageKeeps
<1>. QED BY <1>4, <1>5, <1>6, <1>7 DEF DeleteFind

\* The record goes last.
LEMMA DeleteRecordKeeps ==
    ASSUME ContentIInv, IInv', NEW w \in Workers, Workers = {w}, DeleteRecord(w)
    PROVE  ContentIInv'
<1>1. work[w].inFlight = {} /\ work[w].pc = "deleteRecord" /\ InMind(work[w])
  BY ContentTyped DEF DeleteRecord, At
<1>2. files = {} /\ \A p \in Paths : rows[p] = 0
  BY <1>1 DEF InMind, RecordLast
<1>3. Settle(w, "ok") /\ UNCHANGED <<issued, rows, files>> /\ ds' = NoDataset
  BY DEF DeleteRecord
<1>4. ds'.import.status = "none" /\ ds'.import.id = 0
  BY <1>3 DEF NoDataset, NewDataset, NoImport
<1>5. DoneIsComplete' /\ RowsHaveFiles' /\ NoOrphans'
  BY <1>2, <1>3, <1>4 DEF DoneIsComplete, RowsHaveFiles, NoOrphans
<1>. QED BY <1>1, <1>3, <1>5, DocumentKeeps

(***************************************************************************)
(* With one worker, whatever requests, sweeps, crashes, stalls and lost jobs *)
(* do in between, for any number of requests, groups, entries, ids, attempts *)
(* and faults: what its processor has in mind stays right, and so do the     *)
(* promises about rows and files.                                            *)
(***************************************************************************)
THEOREM ContentInvariance ==
    ASSUME NEW w \in Workers, Workers = {w}
    PROVE  Spec => []ContentIInv
<1>1. Init => ContentIInv
  <2>. SUFFICES ASSUME Init PROVE ContentIInv
    OBVIOUS
  <2>1. IInv
    BY InitIInv
  <2>2. work[w].pc = "idle" /\ work[w].inFlight = {}
    BY DEF Init, Idle
  <2>3. InMind(work[w])
    BY <2>2, RestsInMind
  <2>4. ds.exists /\ ds.import.id = 0 /\ ds.import.status = "none" /\ issued = 0
    BY DEF Init, NewDataset, NoImport
  <2>5. RowsIssued /\ DoneIsComplete /\ RowsHaveFiles /\ NoOrphans
    BY <2>4 DEF Init, RowsIssued, DoneIsComplete, RowsHaveFiles, NoOrphans
  <2>. QED BY <2>1, <2>3, <2>5 DEF ContentIInv
<1>2. ContentIInv /\ IInv' /\ [Next]_vars => ContentIInv'
  <2>. SUFFICES ASSUME ContentIInv, IInv', [Next]_vars PROVE ContentIInv'
    OBVIOUS
  <2>1. CASE Requests \/ (\E j \in JobIds : LoseJob(j)) \/ Recovery \/ UNCHANGED vars
    <3>1. Elsewhere /\ UNCHANGED work
      BY <2>1, OthersElsewhere DEF ContentIInv
    <3>2. work \in [Workers -> Processor] /\ InMind(work[w])
      BY ContentTyped
    <3>3. Becomes(w, work[w])
      BY <3>1, <3>2 DEF Becomes
    <3>. QED BY <3>1, <3>2, <3>3, ProcessorGoesOn
  <2>2. CASE Work(w)
    <3>1. CASE \/ FindImport(w) \/ StartImport(w) \/ ListStale(w) \/ ClearFolder(w) \/ ClearRows(w)
               \/ ListStored(w)
      BY <3>1, FindImportKeeps, StartImportKeeps, ListStaleKeeps, ClearFolderKeeps, ClearRowsKeeps,
         ListStoredKeeps
    <3>2. ASSUME NEW p \in Paths, RejectEntry(w, p) \/ PutEntry(w, p) \/ CreateRow(w, p)
          PROVE  ContentIInv'
      BY <3>2, RejectEntryKeeps, PutEntryKeeps, CreateRowKeeps
    <3>3. CASE \/ Heartbeat(w) \/ LastHeartbeat(w) \/ Summarize(w) \/ FinishImport(w)
               \/ StopImport(w) \/ FailAttempt(w) \/ ShowRead(w) \/ ShowWrite(w)
      BY <3>3, HeartbeatKeeps, SummarizeKeeps, FinishImportKeeps, EndOfImportKeeps
    <3>4. CASE \/ GroupFind(w) \/ GroupBatch(w) \/ GroupFiles(w) \/ GroupRows(w)
               \/ GroupSummarize(w) \/ GroupWrite(w)
      BY <3>4, GroupReadsKeep, GroupStorageKeeps, GroupWriteKeeps
    <3>5. CASE DeleteFind(w) \/ DeleteFiles(w) \/ DeleteRows(w) \/ DeleteRecord(w)
      BY <3>5, DeletionKeeps, DeleteRecordKeeps
    <3>6. CASE AttemptError(w) \/ (\E p \in Paths : EntryError(w, p))
      BY <3>6, ErrorsKeep
    <3>7. CASE \/ Take(w) \/ EndAttempt(w) \/ Crash(w) \/ LoseLock(w)
               \/ \E j \in JobIds : CheckStalled(w, j)
      BY <3>7, AttemptsKeep
    <3>. QED BY <2>2, <3>1, <3>2, <3>3, <3>4, <3>5, <3>6, <3>7 DEF Work, Progress
  <2>. QED BY <2>1, <2>2 DEF Next
<1>. QED BY <1>1, <1>2, Invariance, PTL DEF Spec

\* With one worker a done import has every readable entry its mapping takes (DoneIsComplete).
THEOREM DoneImportsAreComplete ==
    ASSUME NEW w \in Workers, Workers = {w}
    PROVE  Spec => []DoneIsComplete
BY ContentInvariance, PTL DEF ContentIInv

\* With one worker every row a client is shown has its bytes (RowsHaveFiles).
THEOREM RowsAreBacked ==
    ASSUME NEW w \in Workers, Workers = {w}
    PROVE  Spec => []RowsHaveFiles
BY ContentInvariance, PTL DEF ContentIInv

\* With one worker nothing is left of a deleted dataset, and nothing comes back (NoOrphans).
THEOREM DeletionIsFinal ==
    ASSUME NEW w \in Workers, Workers = {w}
    PROVE  Spec => []NoOrphans
BY ContentInvariance, PTL DEF ContentIInv

=============================================================================
