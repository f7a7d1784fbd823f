--------------------------- MODULE DatasetRequests ---------------------------
(***************************************************************************)
(* What users and other services ask of the dataset: import, resume, cancel *)
(* (services/datasetImport.ts), remove a group (services/datasetService.ts),*)
(* the trash (services/datasetTrash.ts) and holds                           *)
(* (services/internalService.ts).  A request reads the document, checks it, *)
(* and only then updates it; in between any other step may happen.  Then    *)
(* come its calls to the queue, each of which may fail (503) and end it.    *)
(***************************************************************************)
EXTENDS DatasetWorker

RequestPC == {"idle", "start", "resume", "cancel", "removeGroup", "restore", "purge",
              "drop", "enqueueImport", "enqueueGroup", "enqueueDelete"}

\* `import`: the import it read, then the one to enqueue.  `drop`: the old job to remove.
Request ==
    [pc : RequestPC, then : {"idle", "enqueueImport", "enqueueDelete"}, import : Import,
     drop : 0..MaxIds, group : SUBSET Groups]

NoRequest ==
    [pc |-> "idle", then |-> "idle", import |-> NoImport, drop |-> 0, group |-> {}]

Asks(c, op, pc) == op \in Ops /\ reqs[c].pc = pc

\* The request goes on as r, or is over.
Continue(c, r) == reqs' = [reqs EXCEPT ![c] = r]
Done(c) == Continue(c, NoRequest)

UnchangedByRequests == UNCHANGED <<rows, files, work, closings, sweep, faults>>

\* An update whose filter matched nothing answers 409.
Conflict(c) == Done(c) /\ UNCHANGED <<ds, issued>>

-----------------------------------------------------------------------------
(* Reads: each kind of request with the checks it makes on what it read. *)

Read(c, op, r) ==
    /\ Asks(c, op, "idle")
    /\ Continue(c, [r EXCEPT !.pc = op])
    /\ UNCHANGED <<ds, issued, jobs>> /\ UnchangedByRequests

ReadStart(c) ==
    /\ LIVE /\ ds.holds = {} /\ ds.removing = {}
    /\ ~IsImportActive(ds.import)
    /\ Read(c, "start", [NoRequest EXCEPT !.import = ds.import])

ReadResume(c) ==
    /\ LIVE /\ ds.holds = {} /\ ds.removing = {}
    /\ ds.import.status \in {"cancelled", "failed"}
    /\ Read(c, "resume", [NoRequest EXCEPT !.import = ds.import])

ReadCancel(c) ==
    /\ LIVE
    /\ IsImportActive(ds.import)
    /\ Read(c, "cancel", [NoRequest EXCEPT !.import = ds.import])

\* The group must be one the dataset shows.
ReadRemoveGroup(c) ==
    /\ LIVE /\ ds.holds = {}
    /\ ~IsImportActive(ds.import)
    /\ \E p \in ds.shown : Read(c, "removeGroup", [NoRequest EXCEPT !.group = {GroupOf[p]}])

ReadRestore(c) ==
    /\ ds.exists /\ ds.trashed /\ ~ds.deleting
    /\ Read(c, "restore", NoRequest)

\* deletePermanently and purgeExpiredTrash (the trash sweeper) read alike.
ReadPurge(c) ==
    /\ ds.exists /\ ds.trashed /\ ~ds.deleting /\ ds.holds = {}
    /\ Read(c, "purge", [NoRequest EXCEPT !.import = ds.import])

-----------------------------------------------------------------------------
(* Updates. *)

\* Mutant of Start: the update trusts the read about holds.
CredulousStart(c) ==
    /\ Asks(c, "start", "start")
    /\ LET seen == reqs[c].import
           new == [NoImport EXCEPT !.id = issued + 1, !.status = "queued", !.mapping = Groups]
       IN  IF /\ LIVE /\ ds.removing = {}
              /\ DeliveryOf(ds.import) = DeliveryOf(seen)
              /\ ds.import.status = seen.status
             THEN /\ issued < MaxIds
                  /\ issued' = issued + 1
                  /\ ds' = [ds EXCEPT !.import = new]
                  /\ Continue(c, [NoRequest EXCEPT !.pc = "enqueueImport", !.import = new])
             ELSE Conflict(c)
    /\ UNCHANGED jobs /\ UnchangedByRequests

\* startImport: a new import takes the place of the one that was read.
Start(c) ==
    /\ Asks(c, "start", "start")
    /\ LET seen == reqs[c].import
       IN  IF /\ LIVE /\ ds.holds = {} /\ ds.removing = {}
              /\ DeliveryOf(ds.import) = DeliveryOf(seen)
              /\ ds.import.status = seen.status
             THEN \E mapping \in Mappings :
                    LET new == [NoImport EXCEPT !.id = issued + 1, !.status = "queued",
                                                !.mapping = mapping]
                    IN  /\ issued < MaxIds
                        /\ issued' = issued + 1
                        /\ ds' = [ds EXCEPT !.import = new]
                        /\ Continue(c, [NoRequest EXCEPT !.pc = "enqueueImport", !.import = new])
             ELSE Conflict(c)
    /\ UNCHANGED jobs /\ UnchangedByRequests

\* resumeImport: the same import under a new delivery id.
Resume(c) ==
    /\ Asks(c, "resume", "resume")
    /\ LET seen == reqs[c].import
           new == [ds.import EXCEPT !.status = "queued", !.errors = {}, !.stale = TRUE,
                                    !.delivery = issued + 1]
       IN  IF /\ LIVE /\ ds.holds = {} /\ ds.removing = {}
              /\ DeliveryOf(ds.import) = DeliveryOf(seen)
              /\ ds.import.status = seen.status
             THEN /\ issued < MaxIds
                  /\ issued' = issued + 1
                  /\ ds' = [ds EXCEPT !.import = new]
                  /\ Continue(c, [NoRequest EXCEPT !.pc = "drop", !.then = "enqueueImport",
                                                   !.drop = ImportJobId(DeliveryOf(seen)),
                                                   !.import = new])
             ELSE Conflict(c)
    /\ UNCHANGED jobs /\ UnchangedByRequests

Cancel(c) ==
    /\ Asks(c, "cancel", "cancel")
    /\ LET seen == DeliveryOf(reqs[c].import)
       IN  IF ImportDelivery(seen) /\ IsImportActive(ds.import)
             THEN /\ ds' = [ds EXCEPT !.import.status = "cancelled"]
                  /\ Continue(c, [NoRequest EXCEPT !.pc = "drop", !.drop = ImportJobId(seen)])
                  /\ UNCHANGED issued
             ELSE Conflict(c)
    /\ UNCHANGED jobs /\ UnchangedByRequests

\* removeGroup: the update asks again about holds, not about imports or the trash.
RemoveGroup(c) ==
    /\ Asks(c, "removeGroup", "removeGroup")
    /\ IF ds.exists /\ ds.holds = {} /\ reqs[c].group \cap ds.removing = {}
         THEN /\ ds' = [ds EXCEPT !.removing = @ \cup reqs[c].group]
              /\ Continue(c, [reqs[c] EXCEPT !.pc = "enqueueGroup"])
              /\ UNCHANGED issued
         ELSE Conflict(c)
    /\ UNCHANGED jobs /\ UnchangedByRequests

\* trashDataset: the read adds nothing to the update's own filter.
Trash ==
    /\ "trash" \in Ops
    /\ LIVE
    /\ ds' = [ds EXCEPT !.trashed = TRUE]
    /\ UNCHANGED <<issued, jobs, reqs>> /\ UnchangedByRequests

\* restoreDataset: save() of the document that was read, whatever it is by now.
Restore(c) ==
    /\ Asks(c, "restore", "restore")
    /\ ds' = IF ds.exists THEN [ds EXCEPT !.trashed = FALSE] ELSE ds
    /\ Done(c)
    /\ UNCHANGED <<issued, jobs>> /\ UnchangedByRequests

\* Mutant of Purge: a hold taken since the read is not noticed.
CredulousPurge(c) ==
    /\ Asks(c, "purge", "purge")
    /\ LET cancels == IsImportActive(reqs[c].import)
       IN  IF ds.exists /\ ~ds.deleting
             THEN /\ ds' = [ds EXCEPT !.deleting = TRUE,
                                      !.import.status = IF cancels THEN "cancelled" ELSE @]
                  /\ Continue(c, [NoRequest EXCEPT !.pc = "enqueueDelete"])
                  /\ UNCHANGED issued
             ELSE Conflict(c)
    /\ UNCHANGED jobs /\ UnchangedByRequests

\* purge: only the hold and the mark are asked about again.
Purge(c) ==
    /\ Asks(c, "purge", "purge")
    /\ LET seen == reqs[c].import
           cancels == IsImportActive(seen)
       IN  IF ds.exists /\ ds.holds = {} /\ ~ds.deleting
             THEN /\ ds' = [ds EXCEPT !.deleting = TRUE,
                                      !.import.status = IF cancels THEN "cancelled" ELSE @]
                  /\ Continue(c, IF cancels
                                   THEN [NoRequest EXCEPT !.pc = "drop", !.then = "enqueueDelete",
                                                          !.drop = ImportJobId(DeliveryOf(seen))]
                                   ELSE [NoRequest EXCEPT !.pc = "enqueueDelete"])
                  /\ UNCHANGED issued
             ELSE Conflict(c)
    /\ UNCHANGED jobs /\ UnchangedByRequests

-----------------------------------------------------------------------------
(* Calls to the queue. *)

\* Taking an enqueued step: the job changes, the request is over.
Enqueue(c, pc, j, job) ==
    /\ reqs[c].pc = pc
    /\ jobs' = [jobs EXCEPT ![j] = job]
    /\ Done(c)
    /\ UNCHANGED <<ds, issued>> /\ UnchangedByRequests

EnqueueImport(c) ==
    LET d == DeliveryOf(reqs[c].import)
        j == ImportJobId(d)
    IN  Enqueue(c, "enqueueImport", j, Added(jobs[j], d))

EnqueueGroup(c) ==
    \E g \in reqs[c].group : Enqueue(c, "enqueueGroup", g, Requested(jobs[g], NoDelivery))

EnqueueDelete(c) ==
    Enqueue(c, "enqueueDelete", DeleteJob, Requested(jobs[DeleteJob], NoDelivery))

\* removeQueuedImport, before whatever comes next.
Drop(c) ==
    /\ reqs[c].pc = "drop"
    /\ jobs' = [jobs EXCEPT ![reqs[c].drop] = Removed(@)]
    /\ Continue(c, IF reqs[c].then = "idle" THEN NoRequest
                   ELSE [reqs[c] EXCEPT !.pc = reqs[c].then, !.then = "idle", !.drop = 0])
    /\ UNCHANGED <<ds, issued>> /\ UnchangedByRequests

\* The queue is unavailable, or the instance dies: the rest of the request never happens.
Abandon(c) ==
    /\ reqs[c].pc # "idle"
    /\ Done(c)
    /\ UNCHANGED <<ds, issued, jobs>> /\ UnchangedByRequests

-----------------------------------------------------------------------------
(* Holds, taken by label-service for its jobs; asking twice is harmless. *)

AddHold(r) ==
    /\ "hold" \in Ops
    /\ LIVE /\ ds.removing = {} /\ ~IsImportActive(ds.import)
    /\ ds' = [ds EXCEPT !.holds = @ \cup {r}]
    /\ UNCHANGED <<issued, jobs, reqs>> /\ UnchangedByRequests

RemoveHold(r) ==
    /\ "hold" \in Ops
    /\ ds.exists /\ ~ds.deleting
    /\ ds' = [ds EXCEPT !.holds = @ \ {r}]
    /\ UNCHANGED <<issued, jobs, reqs>> /\ UnchangedByRequests

-----------------------------------------------------------------------------
Ask(c) ==
    \/ ReadStart(c) \/ ReadResume(c) \/ ReadCancel(c) \/ ReadRemoveGroup(c)
    \/ ReadRestore(c) \/ ReadPurge(c)
    \/ Start(c) \/ Resume(c) \/ Cancel(c) \/ RemoveGroup(c) \/ Restore(c) \/ Purge(c)
    \/ EnqueueImport(c) \/ EnqueueGroup(c) \/ EnqueueDelete(c) \/ Drop(c) \/ Abandon(c)

Requests == Trash \/ (\E c \in Clients : Ask(c)) \/ (\E r \in Refs : AddHold(r) \/ RemoveHold(r))
=============================================================================
