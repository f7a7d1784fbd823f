---------------------------- MODULE DatasetWorker ----------------------------
(***************************************************************************)
(* The processor of dataset jobs: runImport (services/importService.ts),    *)
(* runRemoveGroup and runDelete (services/deleteService.ts), and what       *)
(* BullMQ does around them.  One action per await that reads or writes      *)
(* shared state; everything between two awaits is one step.                 *)
(***************************************************************************)
EXTENDS DatasetRecord

Tried == {"listStale", "clear", "list", "store", "summarize", "finish"}   \* its try block
ImportPC == {"find", "start", "stopping", "show", "showWrite", "failing"} \cup Tried
RemovalPC == {"groupFind", "groupBatch", "groupFiles", "groupRows", "groupSummarize", "groupWrite"}
DeletePC == {"deleteFind", "deleteFiles", "deleteRows", "deleteRecord"}
ProcessorPC == {"idle", "settle"} \cup ImportPC \cup RemovalPC \cup DeletePC
Outcome == {"ok", "error", "fatal"}

\* `stored`: this attempt stored an entry (processed > 0).  `batch`: item rows it read and is about
\* to remove.
Processor ==
    [pc : ProcessorPC, job : JobIds \cup {0}, delivery : Delivery, mapping : SUBSET Groups,
     todo : SUBSET Paths, inFlight : SUBSET Paths, stored : BOOLEAN, errors : SUBSET Paths,
     batch : SUBSET ((0..MaxIds) \X Paths), summary : SUBSET Paths, outcome : Outcome]

Idle ==
    [pc |-> "idle", job |-> 0, delivery |-> NoDelivery, mapping |-> {}, todo |-> {},
     inFlight |-> {}, stored |-> FALSE, errors |-> {}, batch |-> {}, summary |-> {},
     outcome |-> "ok"]

At(w, pc) == work[w].pc = pc
Becomes(w, processor) == work' = [work EXCEPT ![w] = processor]
Goto(w, pc) == Becomes(w, [work[w] EXCEPT !.pc = pc])
Settle(w, outcome) == Becomes(w, [work[w] EXCEPT !.pc = "settle", !.outcome = outcome])

\* The filter { ...work, 'import.status': 'running' }.
Runs(w) == ImportDelivery(work[w].delivery) /\ ds.import.status = "running"

-----------------------------------------------------------------------------
(* Taking a job, and the end of an attempt. *)

Take(w) ==
    /\ At(w, "idle")
    /\ \E j \in JobIds :
        /\ jobs[j].state = "waiting"
        /\ jobs' = [jobs EXCEPT ![j] = Taken(@, w)]
        /\ Becomes(w, [Idle EXCEPT !.job = j, !.delivery = jobs[j].data,
                                   !.pc = IF j \in Ids THEN "find"
                                          ELSE IF j \in Groups THEN "groupFind" ELSE "deleteFind"])
    /\ UNCHANGED <<ds, issued, rows, files, closings, sweep, reqs, faults>>

\* A call of markImportFailed about to make its update.
Closing(by, delivery, onlyStale) ==
    [by |-> by, pc |-> "mark", delivery |-> delivery, onlyStale |-> onlyStale, summary |-> {}]

\* The worker's 'failed' event: an import out of attempts is closed; removals keep their marks.
HandleFailed(w, job, j) ==
    closings' = IF job.state = "failed" /\ j \in Ids
                  THEN closings \cup {Closing(w, job.data, FALSE)} ELSE closings

\* BullMQ records the attempt's outcome, if the worker still owns the job.
EndAttempt(w) ==
    /\ At(w, "settle")
    /\ LET j == work[w].job
           after == CASE work[w].outcome = "ok" -> Completed(jobs[j])
                      [] work[w].outcome = "error" -> AttemptFailed(jobs[j])
                      [] work[w].outcome = "fatal" -> Failed(jobs[j])
       IN  IF jobs[j].lock = w
             THEN jobs' = [jobs EXCEPT ![j] = after] /\ HandleFailed(w, after, j)
             ELSE UNCHANGED <<jobs, closings>>
    /\ Becomes(w, Idle)
    /\ UNCHANGED <<ds, issued, rows, files, sweep, reqs, faults>>

-----------------------------------------------------------------------------
(* runImport. *)

FindImport(w) ==
    /\ At(w, "find")
    /\ IF ~ImportDelivery(work[w].delivery) THEN Settle(w, "fatal")
       ELSE IF ~IsImportActive(ds.import) THEN Settle(w, "ok")
       ELSE Becomes(w, [work[w] EXCEPT !.pc = "start", !.mapping = ds.import.mapping])
    /\ UNCHANGED <<ds, issued, rows, files, jobs, closings, sweep, reqs, faults>>

StartImport(w) ==
    /\ At(w, "start")
    /\ IF ImportDelivery(work[w].delivery) /\ IsImportActive(ds.import)
         THEN /\ ds' = [ds EXCEPT !.import.status = "running", !.import.stale = FALSE]
              /\ Goto(w, "listStale")
         ELSE Settle(w, "ok") /\ UNCHANGED ds
    /\ UNCHANGED <<issued, rows, files, jobs, closings, sweep, reqs, faults>>

RowsOf(set) == {<<rows[p], p>> : p \in set}

\* Mutant of ListStale: the folder this very import is resuming goes too.
ListEverything(w) ==
    /\ At(w, "listStale")
    /\ Becomes(w, [work[w] EXCEPT !.pc = "clear", !.batch = RowsOf(Stored)])
    /\ UNCHANGED <<ds, issued, rows, files, jobs, closings, sweep, reqs, faults>>

\* clearPreviousImports: the rows of every other import name the folders to delete, ...
ListStale(w) ==
    /\ At(w, "listStale")
    /\ Becomes(w, [work[w] EXCEPT !.pc = "clear",
                                  !.batch = RowsOf({p \in Stored : rows[p] # work[w].delivery.id})])
    /\ UNCHANGED <<ds, issued, rows, files, jobs, closings, sweep, reqs, faults>>

\* ... which go one by one, ...
ClearFolder(w) ==
    /\ At(w, "clear")
    /\ \E stale \in work[w].batch :
        /\ files' = {f \in files : f[1] # stale[1]}
        /\ Becomes(w, [work[w] EXCEPT !.batch = {row \in @ : row[1] # stale[1]}])
    /\ UNCHANGED <<ds, issued, rows, jobs, closings, sweep, reqs, faults>>

\* ... and then every row of another import.
ClearRows(w) ==
    /\ At(w, "clear")
    /\ work[w].batch = {}
    /\ rows' = [p \in Paths |-> IF rows[p] = work[w].delivery.id THEN rows[p] ELSE 0]
    /\ Goto(w, "list")
    /\ UNCHANGED <<ds, issued, files, jobs, closings, sweep, reqs, faults>>

\* What the mapping takes and this import has not stored yet is read from the zip.
ListStored(w) ==
    /\ At(w, "list")
    /\ Becomes(w, [work[w] EXCEPT !.pc = "store",
                               !.todo = {p \in Paths : /\ GroupOf[p] \in work[w].mapping
                                                          /\ rows[p] # work[w].delivery.id}])
    /\ UNCHANGED <<ds, issued, rows, files, jobs, closings, sweep, reqs, faults>>

\* An unreadable entry is reported and nothing of it is stored.
RejectEntry(w, p) ==
    /\ At(w, "store")
    /\ p \in work[w].todo \cap BadPaths
    /\ Becomes(w, [work[w] EXCEPT !.todo = @ \ {p}, !.errors = @ \cup {p}])
    /\ UNCHANGED <<ds, issued, rows, files, jobs, closings, sweep, reqs, faults>>

PutEntry(w, p) ==
    /\ At(w, "store")
    /\ p \in work[w].todo \ BadPaths
    /\ Cardinality(work[w].inFlight) < CONCURRENCY
    /\ files' = files \cup {<<work[w].delivery.id, p>>}
    /\ Becomes(w, [work[w] EXCEPT !.todo = @ \ {p}, !.inFlight = @ \cup {p}])
    /\ UNCHANGED <<ds, issued, rows, jobs, closings, sweep, reqs, faults>>

\* The row comes second; one already there (duplicate key) counts as skipped.  An entry in flight
\* lands even while the attempt is stopping or failing.
CreateRow(w, p) ==
    /\ work[w].pc \in {"store", "stopping", "failing"}
    /\ p \in work[w].inFlight
    /\ rows' = IF rows[p] = 0 THEN [rows EXCEPT ![p] = work[w].delivery.id] ELSE rows
    /\ Becomes(w, [work[w] EXCEPT !.inFlight = @ \ {p}, !.stored = @ \/ rows[p] = 0])
    /\ UNCHANGED <<ds, issued, files, jobs, closings, sweep, reqs, faults>>

\* flush: the heartbeat, taken now and then between entries; one that matches nothing stops the
\* import.
Heartbeat(w) ==
    /\ At(w, "store")
    /\ IF Runs(w) THEN ds' = [ds EXCEPT !.import.stale = FALSE] /\ UNCHANGED work
                  ELSE Goto(w, "stopping") /\ UNCHANGED ds
    /\ UNCHANGED <<issued, rows, files, jobs, closings, sweep, reqs, faults>>

\* Mutant of LastHeartbeat: entries in flight are not waited for.
HurriedLastHeartbeat(w) ==
    /\ At(w, "store")
    /\ work[w].todo = {}
    /\ IF Runs(w) THEN ds' = [ds EXCEPT !.import.stale = FALSE] /\ Goto(w, "summarize")
                  ELSE Goto(w, "stopping") /\ UNCHANGED ds
    /\ UNCHANGED <<issued, rows, files, jobs, closings, sweep, reqs, faults>>

\* The forced flush once every entry is stored.
LastHeartbeat(w) ==
    /\ At(w, "store")
    /\ work[w].todo = {} /\ work[w].inFlight = {}
    /\ IF Runs(w) THEN ds' = [ds EXCEPT !.import.stale = FALSE] /\ Goto(w, "summarize")
                  ELSE Goto(w, "stopping") /\ UNCHANGED ds
    /\ UNCHANGED <<issued, rows, files, jobs, closings, sweep, reqs, faults>>

Summarize(w) ==
    /\ At(w, "summarize")
    /\ Becomes(w, [work[w] EXCEPT !.pc = "finish", !.summary = Stored])
    /\ UNCHANGED <<ds, issued, rows, files, jobs, closings, sweep, reqs, faults>>

FinishStatus(w) == IF ~work[w].stored /\ work[w].errors # {} THEN "failed" ELSE "done"

\* Mutant of FinishImport: the final update does not ask whether the delivery still runs.
UnfencedFinishImport(w) ==
    /\ At(w, "finish")
    /\ ds' = [ds EXCEPT !.import.status = FinishStatus(w), !.import.errors = work[w].errors,
                        !.shown = work[w].summary]
    /\ Settle(w, "ok")
    /\ UNCHANGED <<issued, rows, files, jobs, closings, sweep, reqs, faults>>

FinishImport(w) ==
    /\ At(w, "finish")
    /\ IF Runs(w)
         THEN /\ ds' = [ds EXCEPT !.import.status = FinishStatus(w),
                                  !.import.errors = work[w].errors,
                                  !.shown = work[w].summary]
              /\ Settle(w, "ok")
         ELSE Goto(w, "stopping") /\ UNCHANGED ds
    /\ UNCHANGED <<issued, rows, files, jobs, closings, sweep, reqs, faults>>

\* ImportStopped: what landed is kept, and shown if the import was cancelled.
StopImport(w) ==
    /\ At(w, "stopping")
    /\ work[w].inFlight = {}
    /\ IF ImportDelivery(work[w].delivery) /\ ds.import.status = "cancelled"
         THEN ds' = [ds EXCEPT !.import.errors = work[w].errors] /\ Goto(w, "show")
         ELSE Settle(w, "ok") /\ UNCHANGED ds
    /\ UNCHANGED <<issued, rows, files, jobs, closings, sweep, reqs, faults>>

\* showStoredItems: a summary is read, then written without a fence.
ShowRead(w) ==
    /\ At(w, "show")
    /\ Becomes(w, [work[w] EXCEPT !.pc = "showWrite", !.summary = Stored])
    /\ UNCHANGED <<ds, issued, rows, files, jobs, closings, sweep, reqs, faults>>

\* Dataset.updateOne({ _id }, { $set: { groups, imageCount } }).
Show(summary) == ds' = IF ds.exists THEN [ds EXCEPT !.shown = summary] ELSE ds

ShowWrite(w) ==
    /\ At(w, "showWrite")
    /\ Show(work[w].summary)
    /\ Settle(w, "ok")
    /\ UNCHANGED <<issued, rows, files, jobs, closings, sweep, reqs, faults>>

\* A transient error at any await, or a bad archive (NonRetryableImportError) while the zip is read.
\* Inside runImport's try block it is caught; anywhere else it ends the attempt as it is.
AttemptError(w) ==
    /\ \/ /\ work[w].pc \in Tried
          /\ \E outcome \in IF At(w, "store") THEN {"error", "fatal"} ELSE {"error"} :
               Becomes(w, [work[w] EXCEPT !.pc = "failing", !.outcome = outcome])
       \/ /\ work[w].pc \in (ImportPC \ Tried) \cup RemovalPC \cup DeletePC
          /\ work[w].inFlight = {}
          /\ Settle(w, "error")
    /\ UNCHANGED <<ds, issued, rows, files, jobs, closings, sweep, reqs, faults>>

\* An entry in flight has its file put, but its row cannot be created: that fails the attempt,
\* unless it is on its way out already.
EntryError(w, p) ==
    /\ p \in work[w].inFlight
    /\ \/ /\ At(w, "store")
          /\ Becomes(w, [work[w] EXCEPT !.inFlight = @ \ {p}, !.pc = "failing",
                                        !.outcome = "error"])
       \/ /\ work[w].pc \in {"stopping", "failing"}
          /\ Becomes(w, [work[w] EXCEPT !.inFlight = @ \ {p}])
    /\ UNCHANGED <<ds, issued, rows, files, jobs, closings, sweep, reqs, faults>>

\* The catch block: entries in flight land, partial progress is saved, the status is left alone.
FailAttempt(w) ==
    /\ At(w, "failing")
    /\ work[w].inFlight = {}
    /\ ds' = IF Runs(w) THEN [ds EXCEPT !.import.errors = work[w].errors] ELSE ds
    /\ Settle(w, work[w].outcome)
    /\ UNCHANGED <<issued, rows, files, jobs, closings, sweep, reqs, faults>>

-----------------------------------------------------------------------------
(* runRemoveGroup. *)

GroupFind(w) ==
    /\ At(w, "groupFind")
    /\ IF ds.exists /\ work[w].job \in ds.removing THEN Goto(w, "groupBatch") ELSE Settle(w, "ok")
    /\ UNCHANGED <<ds, issued, rows, files, jobs, closings, sweep, reqs, faults>>

\* A batch of the group's rows is read; no row left ends the loop.
GroupBatch(w) ==
    /\ At(w, "groupBatch")
    /\ LET batch == RowsOf({p \in Stored : GroupOf[p] = work[w].job})
       IN  Becomes(w, [work[w] EXCEPT !.batch = batch,
                                     !.pc = IF batch = {} THEN "groupSummarize" ELSE "groupFiles"])
    /\ UNCHANGED <<ds, issued, rows, files, jobs, closings, sweep, reqs, faults>>

\* Its files first, ...
GroupFiles(w) ==
    /\ At(w, "groupFiles")
    /\ files' = files \ work[w].batch
    /\ Goto(w, "groupRows")
    /\ UNCHANGED <<ds, issued, rows, jobs, closings, sweep, reqs, faults>>

\* ... then its rows.
GroupRows(w) ==
    /\ At(w, "groupRows")
    /\ rows' = [p \in Paths |-> IF <<rows[p], p>> \in work[w].batch THEN 0 ELSE rows[p]]
    /\ Becomes(w, [work[w] EXCEPT !.batch = {}, !.pc = "groupBatch"])
    /\ UNCHANGED <<ds, issued, files, jobs, closings, sweep, reqs, faults>>

GroupSummarize(w) ==
    /\ At(w, "groupSummarize")
    /\ Becomes(w, [work[w] EXCEPT !.pc = "groupWrite", !.summary = Stored])
    /\ UNCHANGED <<ds, issued, rows, files, jobs, closings, sweep, reqs, faults>>

\* Mutant of GroupWrite: the mapping keeps the group that is gone.
ForgetfulGroupWrite(w) ==
    /\ At(w, "groupWrite")
    /\ ds' = IF ds.exists
               THEN [ds EXCEPT !.shown = work[w].summary, !.removing = @ \ {work[w].job}]
               ELSE ds
    /\ Settle(w, "ok")
    /\ UNCHANGED <<issued, rows, files, jobs, closings, sweep, reqs, faults>>

\* The counts, the recorded mapping and, with them, the mark.
GroupWrite(w) ==
    /\ At(w, "groupWrite")
    /\ ds' = IF ds.exists
               THEN [ds EXCEPT !.shown = work[w].summary,
                               !.removing = @ \ {work[w].job},
                               !.import.mapping = @ \ {work[w].job}]
               ELSE ds
    /\ Settle(w, "ok")
    /\ UNCHANGED <<issued, rows, files, jobs, closings, sweep, reqs, faults>>

-----------------------------------------------------------------------------
(* runDelete: files, then rows, then the record. *)

DeleteFind(w) ==
    /\ At(w, "deleteFind")
    /\ IF ds.exists /\ ds.deleting THEN Goto(w, "deleteFiles") ELSE Settle(w, "ok")
    /\ UNCHANGED <<ds, issued, rows, files, jobs, closings, sweep, reqs, faults>>

\* Mutant of DeleteFiles: only the files rows speak of.
DeleteListedFiles(w) ==
    /\ At(w, "deleteFiles")
    /\ files' = {f \in files : rows[f[2]] # f[1]}
    /\ Goto(w, "deleteRows")
    /\ UNCHANGED <<ds, issued, rows, jobs, closings, sweep, reqs, faults>>

DeleteFiles(w) ==
    /\ At(w, "deleteFiles")
    /\ files' = {}
    /\ Goto(w, "deleteRows")
    /\ UNCHANGED <<ds, issued, rows, jobs, closings, sweep, reqs, faults>>

DeleteRows(w) ==
    /\ At(w, "deleteRows")
    /\ rows' = [p \in Paths |-> 0]
    /\ Goto(w, "deleteRecord")
    /\ UNCHANGED <<ds, issued, files, jobs, closings, sweep, reqs, faults>>

DeleteRecord(w) ==
    /\ At(w, "deleteRecord")
    /\ ds' = NoDataset
    /\ Settle(w, "ok")
    /\ UNCHANGED <<issued, rows, files, jobs, closings, sweep, reqs, faults>>

-----------------------------------------------------------------------------
(* Faults, and what BullMQ makes of them. *)

Fault == faults < MaxFaults /\ faults' = faults + 1

\* The instance is killed: its processor and its closing calls are gone, its lock expires.
Crash(w) ==
    /\ Fault
    /\ ~At(w, "idle") \/ \E c \in closings : c.by = w
    /\ Becomes(w, Idle)
    /\ jobs' = [j \in JobIds |-> IF jobs[j].lock = w THEN Unlocked(jobs[j]) ELSE jobs[j]]
    /\ closings' = {c \in closings : c.by # w}
    /\ UNCHANGED <<ds, issued, rows, files, sweep, reqs>>

\* A live processor fails to renew its lock in time, and keeps going.
LoseLock(w) ==
    /\ Fault
    /\ work[w].job # 0 /\ jobs[work[w].job].lock = w
    /\ jobs' = [jobs EXCEPT ![work[w].job] = Unlocked(@)]
    /\ UNCHANGED <<ds, issued, rows, files, work, closings, sweep, reqs>>

\* Redis forgets a job, whatever its state.
LoseJob(j) ==
    /\ Fault
    /\ jobs[j].state # "unknown"
    /\ jobs' = [jobs EXCEPT ![j] = NoJob(NoDelivery)]
    /\ UNCHANGED <<ds, issued, rows, files, work, closings, sweep, reqs>>

\* The stalled check, run by any live instance.  For a job out of stalls with attempts left, the
\* error BullMQ reports decides whether the 'failed' event takes it for a retry (willRetry) and
\* closes nothing.
CheckStalled(w, j) ==
    /\ jobs[j].state = "active" /\ jobs[j].lock = NoWorker
    /\ jobs' = [jobs EXCEPT ![j] = Stalled(@)]
    /\ HandleFailed(w, jobs'[j], j) \/ UNCHANGED closings
    /\ UNCHANGED <<ds, issued, rows, files, work, sweep, reqs, faults>>

-----------------------------------------------------------------------------
\* What a live processor does next of its own accord.
Progress(w) ==
    \/ FindImport(w) \/ StartImport(w) \/ ListStale(w) \/ ClearFolder(w) \/ ClearRows(w)
    \/ ListStored(w)
    \/ \E p \in Paths : RejectEntry(w, p) \/ PutEntry(w, p) \/ CreateRow(w, p)
    \/ LastHeartbeat(w) \/ Summarize(w) \/ FinishImport(w)
    \/ StopImport(w) \/ ShowRead(w) \/ ShowWrite(w) \/ FailAttempt(w)
    \/ GroupFind(w) \/ GroupBatch(w) \/ GroupFiles(w) \/ GroupRows(w)
    \/ GroupSummarize(w) \/ GroupWrite(w)
    \/ DeleteFind(w) \/ DeleteFiles(w) \/ DeleteRows(w) \/ DeleteRecord(w)
    \/ EndAttempt(w)

Work(w) ==
    \/ Take(w) \/ Progress(w) \/ Heartbeat(w)
    \/ AttemptError(w) \/ (\E p \in Paths : EntryError(w, p))
    \/ Crash(w) \/ LoseLock(w)
    \/ \E j \in JobIds : CheckStalled(w, j)
=============================================================================
