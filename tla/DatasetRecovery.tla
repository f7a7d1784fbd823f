--------------------------- MODULE DatasetRecovery ---------------------------
(***************************************************************************)
(* What closes work nobody finishes: the sweep of recoverDatasetJobs        *)
(* (services/jobRecoveryService.ts) and markImportFailed                    *)
(* (services/importService.ts), which the worker's 'failed' event calls     *)
(* too.  The sweep reads a snapshot of the document, then acts on it.       *)
(***************************************************************************)
EXTENDS DatasetRequests

ClosingCall ==
    [by : Workers \cup {Sweeper}, pc : {"mark", "summarize", "write"}, delivery : Delivery,
     onlyStale : BOOLEAN, summary : SUBSET Paths]

Cursor ==
    [pc : {"idle", "delete", "groups", "job", "enqueue", "closing"},
     import : Import, groups : SUBSET Groups]

NoCursor == [pc |-> "idle", import |-> NoImport, groups |-> {}]

-----------------------------------------------------------------------------
(* markImportFailed, one call at a time. *)

Replace(c, next) == closings' = (closings \ {c}) \cup next

\* Only this delivery, only while it is pending and, for a lost job, only with a stale heartbeat.
Mark(c) ==
    /\ c.pc = "mark"
    /\ IF /\ ImportDelivery(c.delivery) /\ IsImportActive(ds.import)
          /\ c.onlyStale => ds.import.stale
         THEN /\ ds' = [ds EXCEPT !.import.status = "failed", !.import.errors = @ \cup {Zip}]
              /\ Replace(c, {[c EXCEPT !.pc = "summarize"]})
         ELSE UNCHANGED ds /\ Replace(c, {})
    /\ UNCHANGED <<issued, rows, files, jobs, work, sweep, reqs, faults>>

CloseSummarize(c) ==
    /\ c.pc = "summarize"
    /\ Replace(c, {[c EXCEPT !.pc = "write", !.summary = Stored]})
    /\ UNCHANGED <<ds, issued, rows, files, jobs, work, sweep, reqs, faults>>

CloseWrite(c) ==
    /\ c.pc = "write"
    /\ Show(c.summary)
    /\ Replace(c, {})
    /\ UNCHANGED <<issued, rows, files, jobs, work, sweep, reqs, faults>>

Close(c) == Mark(c) \/ CloseSummarize(c) \/ CloseWrite(c)

-----------------------------------------------------------------------------
(* The sweep. *)

SweepGoes(pc) == sweep' = [sweep EXCEPT !.pc = pc]

\* The cursor's snapshot: any mark, or a pending import.
SweepRead ==
    /\ "sweep" \in Ops
    /\ sweep.pc = "idle"
    /\ ds.exists
    /\ ds.deleting \/ ds.removing # {} \/ IsImportActive(ds.import)
    /\ sweep' = [pc |-> IF ds.deleting THEN "delete" ELSE "groups",
                 import |-> IF ds.deleting THEN NoImport ELSE ds.import,
                 groups |-> IF ds.deleting THEN {} ELSE ds.removing]
    /\ UNCHANGED <<ds, issued, rows, files, jobs, work, closings, reqs, faults>>

\* Mutant of SweepDelete: a delete job that failed for good is not asked for again.
SweepDeleteOnce ==
    /\ sweep.pc = "delete"
    /\ jobs' = [jobs EXCEPT ![DeleteJob] = Added(@, NoDelivery)]
    /\ sweep' = NoCursor
    /\ UNCHANGED <<ds, issued, rows, files, work, closings, reqs, faults>>

SweepDelete ==
    /\ sweep.pc = "delete"
    /\ jobs' = [jobs EXCEPT ![DeleteJob] = Requested(@, NoDelivery)]
    /\ sweep' = NoCursor
    /\ UNCHANGED <<ds, issued, rows, files, work, closings, reqs, faults>>

SweepGroup ==
    /\ sweep.pc = "groups"
    /\ \E g \in sweep.groups :
        /\ jobs' = [jobs EXCEPT ![g] = Requested(@, NoDelivery)]
        /\ sweep' = [sweep EXCEPT !.groups = @ \ {g}]
    /\ UNCHANGED <<ds, issued, rows, files, work, closings, reqs, faults>>

SweepGroupsDone ==
    /\ sweep.pc = "groups"
    /\ sweep.groups = {}
    /\ sweep' = IF IsImportActive(sweep.import) THEN [sweep EXCEPT !.pc = "job"] ELSE NoCursor
    /\ UNCHANGED <<ds, issued, rows, files, jobs, work, closings, reqs, faults>>

\* Mutant of SweepJob: a queued import whose job is missing is left alone.
SweepJobLeavesQueued ==
    /\ sweep.pc = "job"
    /\ LET d == DeliveryOf(sweep.import)
           state == jobs[ImportJobId(d)].state
       IN  IF state \in {"failed", "completed"}
             THEN SweepGoes("closing") /\ closings' = closings \cup {Closing(Sweeper, d, FALSE)}
             ELSE sweep' = NoCursor /\ UNCHANGED closings
    /\ UNCHANGED <<ds, issued, rows, files, jobs, work, reqs, faults>>

\* The job of the delivery that was read decides: missing and queued, enqueue it; finished or
\* missing, close the import; waiting or active, leave it alone.
SweepJob ==
    /\ sweep.pc = "job"
    /\ LET d == DeliveryOf(sweep.import)
           state == jobs[ImportJobId(d)].state
       IN  \/ /\ state = "unknown" /\ sweep.import.status = "queued"
              /\ SweepGoes("enqueue")
              /\ UNCHANGED closings
           \/ /\ \/ state \in {"failed", "completed"}
                 \/ state = "unknown" /\ sweep.import.status = "running"
              /\ SweepGoes("closing")
              /\ closings' = closings \cup {Closing(Sweeper, d, state = "unknown")}
           \/ /\ state \in {"waiting", "active"}
              /\ sweep' = NoCursor
              /\ UNCHANGED closings
    /\ UNCHANGED <<ds, issued, rows, files, jobs, work, reqs, faults>>

SweepEnqueue ==
    /\ sweep.pc = "enqueue"
    /\ LET d == DeliveryOf(sweep.import)
       IN  jobs' = [jobs EXCEPT ![ImportJobId(d)] = Added(@, d)]
    /\ sweep' = NoCursor
    /\ UNCHANGED <<ds, issued, rows, files, work, closings, reqs, faults>>

\* It awaits the closing call it made.
SweepClosed ==
    /\ sweep.pc = "closing"
    /\ \A c \in closings : c.by # Sweeper
    /\ sweep' = NoCursor
    /\ UNCHANGED <<ds, issued, rows, files, jobs, work, closings, reqs, faults>>

\* A run of the sweep dies with its instance or on an unavailable queue.
SweepAborts ==
    /\ Fault
    /\ sweep.pc # "idle"
    /\ sweep' = NoCursor
    /\ closings' = {c \in closings : c.by # Sweeper}
    /\ UNCHANGED <<ds, issued, rows, files, jobs, work, reqs>>

Sweep ==
    \/ SweepRead \/ SweepDelete \/ SweepGroup \/ SweepGroupsDone
    \/ SweepJob \/ SweepEnqueue \/ SweepClosed

-----------------------------------------------------------------------------
\* Time passes: a heartbeat not renewed for IMPORT_STALE_MS is stale.
Age ==
    /\ "sweep" \in Ops
    /\ IsImportActive(ds.import) /\ ~ds.import.stale
    /\ ds' = [ds EXCEPT !.import.stale = TRUE]
    /\ UNCHANGED <<issued, rows, files, jobs, work, closings, sweep, reqs, faults>>

Recovery == Sweep \/ SweepAborts \/ Age \/ (\E c \in closings : Close(c))
=============================================================================
