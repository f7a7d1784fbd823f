------------------------------- MODULE Dataset -------------------------------
(***************************************************************************)
(* One dataset of dataset-service with everything that acts on it: users'   *)
(* and label-service's requests, the workers behind the BullMQ queue, the   *)
(* recovery sweep, and the faults they live with.                           *)
(***************************************************************************)
EXTENDS DatasetRecovery

Init ==
    /\ ds = NewDataset
    /\ issued = 0
    /\ rows = [p \in Paths |-> 0]
    /\ files = {}
    /\ jobs = [j \in JobIds |-> NoJob(NoDelivery)]
    /\ work = [w \in Workers |-> Idle]
    /\ closings = {}
    /\ sweep = NoCursor
    /\ reqs = [c \in Clients |-> NoRequest]
    /\ faults = 0

Next ==
    \/ Requests
    \/ \E w \in Workers : Work(w)
    \/ \E j \in JobIds : LoseJob(j)
    \/ Recovery

Spec == Init /\ [][Next]_vars

\* The worker takes jobs and its processor goes on; BullMQ checks for stalled jobs; the sweep runs
\* every minute; time passes; a call that was made returns.  Users owe nothing.
Fairness ==
    /\ \A w \in Workers :
        /\ WF_vars(Take(w))
        /\ WF_vars(Progress(w))
        /\ WF_vars(\E j \in JobIds : CheckStalled(w, j))
    /\ WF_vars(Sweep)
    /\ WF_vars(Age)
    /\ WF_vars(\E c \in closings : Close(c))

FairSpec == Spec /\ Fairness

-----------------------------------------------------------------------------
(* Types and safety. *)

TypeOK ==
    /\ ds \in Dataset
    /\ issued \in 0..MaxIds
    /\ rows \in [Paths -> 0..MaxIds]
    /\ files \subseteq (0..MaxIds) \X Paths
    /\ jobs \in [JobIds -> Job(Delivery)]
    /\ work \in [Workers -> Processor]
    /\ closings \subseteq ClosingCall
    /\ sweep \in Cursor
    /\ reqs \in [Clients -> Request]
    /\ faults \in 0..MaxFaults

\* A held dataset is left in peace: no import is pending, no group is being removed and its
\* deletion has not begun, although each of these is decided by another request, on its own read
\* of the document (addHold, startImport, resumeImport, removeGroup, purge).
HeldInPeace ==
    ds.holds # {} =>
        /\ ds.exists
        /\ ~IsImportActive(ds.import)
        /\ ds.removing = {}
        /\ ~ds.deleting

\* An import reported done stored every readable entry its mapping takes, across retries, resumes,
\* crashes and group removals (runImport, runRemoveGroup).
DoneIsComplete ==
    ds.import.status = "done" /\ ~ds.deleting =>
        \A p \in Paths :
            GroupOf[p] \in ds.import.mapping \ ds.removing =>
                rows[p] = ds.import.id \/ p \in ds.import.errors

\* A row of the recorded import has its bytes in storage, unless its group or the dataset is on
\* its way out: a client that is shown it can open it (storeImage, clearPreviousImports).
RowsHaveFiles ==
    ~ds.deleting =>
        \A p \in Paths :
            rows[p] = ds.import.id /\ rows[p] # 0 /\ GroupOf[p] \notin ds.removing =>
                <<rows[p], p>> \in files

\* A deleted dataset leaves nothing behind and nothing comes back: no row, no file (runDelete
\* after a processor that may still have been storing entries).
NoOrphans ==
    ~ds.exists => files = {} /\ \A p \in Paths : rows[p] = 0

\* Each delivery is settled once and only a newer one takes its place: the abstract lifecycle.
Lifecycle == INSTANCE ImportLifecycle
               WITH current <- ImportJobId(DeliveryOf(ds.import)),
                    status <- ds.import.status,
                    held <- ds.holds # {},
                    gone <- ds.deleting \/ ~ds.exists
LifecycleSpec == Lifecycle!Spec

-----------------------------------------------------------------------------
(* The invariant behind the proofs (Dataset_proofs). *)

\* A job is locked only while it is active, and unless it failed for good it has an attempt left: no
\* interleaving of lost locks, stalled checks, outcomes and removals asked again exceeds the budget.
BudgetsKept == \A j \in JobIds : Budgeted(jobs[j])

\* The recorded import bears numbers that were issued, so that the next one is newer.
Numbered == ds.import.id <= issued /\ ds.import.delivery <= issued

\* What a request made sure of when it read is still what it remembers.
RequestsRemember ==
    \A c \in Clients :
        /\ reqs[c].pc = "start" => ~IsImportActive(reqs[c].import)
        /\ reqs[c].pc = "resume" => reqs[c].import.status \in {"cancelled", "failed"}

\* A processor that has begun to delete found the mark, and no request takes the mark back.
DeletionMarked ==
    \A w \in Workers :
        work[w].pc \in DeletePC \ {"deleteFind"} => ds.deleting \/ ~ds.exists

\* Inductive: each part below is kept by every step that starts in all of them.
IInv ==
    TypeOK /\ BudgetsKept /\ HeldInPeace /\ Numbered /\ RequestsRemember /\ DeletionMarked

-----------------------------------------------------------------------------
(* Liveness. *)

\* Whatever is lost on the way (a failed enqueue, a job Redis forgot, a killed worker), a pending
\* delivery is settled in the end (recoverDatasetJobs).
ImportsSettle ==
    \A i \in Ids :
        (IsImportActive(ds.import) /\ ImportJobId(DeliveryOf(ds.import)) = i)
            ~> ~(IsImportActive(ds.import) /\ ImportJobId(DeliveryOf(ds.import)) = i)

\* Attempts do not fail for ever: from some moment on none does.
ErrorsStop ==
    <>[][\A w \in Workers : ~AttemptError(w) /\ \A p \in Paths : ~EntryError(w, p)]_vars

\* Once attempts stop failing, a group marked for removal is removed and a dataset marked for
\* deletion is deleted, whatever was lost before: a removal whose attempts or whose stalls are
\* used up is asked for again by the next sweep (enqueueRemoval, recoverDatasetJobs).
RemovalsComplete == ErrorsStop => \A g \in Groups : g \in ds.removing ~> g \notin ds.removing
DeletionCompletes == ErrorsStop => (ds.deleting ~> ~ds.exists)

-----------------------------------------------------------------------------
(* What the documentation says and the code does not keep. *)

\* datasetTrash.ts: the sweeper and "delete permanently" take only datasets in the trash.
OnlyTrashIsDeleted == [][~ds.deleting /\ ds'.deleting => ds.trashed]_vars

\* datasetSupport.ts: files a label job shows "must not be deleted from under them".
HeldFilesStay == [][ds.holds # {} /\ ds'.holds # {} => files \subseteq files']_vars

\* dataset-service's README: what a cancelled import had stored "stays and shows".  A cancellation
\* between two attempts takes the waiting retry out of the queue, and nobody else shows anything.
NothingUnderWay ==
    /\ \A w \in Workers : At(w, "idle")
    /\ \A j \in JobIds : jobs[j].state \notin {"waiting", "active"}
    /\ \A c \in Clients : reqs[c].pc = "idle"
    /\ closings = {}
CancelledShows == ds.import.status = "cancelled" /\ NothingUnderWay => ds.shown = Stored
=============================================================================
