------------------------------ MODULE LabelJobs ------------------------------
(***************************************************************************)
(* label-service: the life of one labeling job and of its task sets.        *)
(*                                                                          *)
(* A job holds its dataset from its creation to its deletion.  Both are     *)
(* intents in the job's document, worked on under a lease by the request    *)
(* or by the recovery sweep (jobLifecycleService.ts).  A draft's task set   *)
(* is built aside under a lease of its own and then published; a second     *)
(* sweep removes the rows of sets that are not current (taskSetService.ts). *)
(* Jobs share no state, so one is enough.  A remote call or a statement of  *)
(* MongoDB is a step.                                                       *)
(***************************************************************************)
EXTENDS Integers, FiniteSets

CONSTANTS Deleters,       \* requests to delete the job, at once
          Recoverers,     \* recovery sweeps at once, one per replica
          CallsLinger,    \* a call that timed out may still arrive
          RequestsPause,  \* work on a lifecycle may outlive its lease
          Builders,       \* requests to build its tasks, at once
          MaxBuilds,      \* bound: task sets ever built
          Batches,        \* batches of tasks in a set
          MaxJobFaults    \* bound: calls that fail and processes that die

ASSUME LabelJobsAssumption ==
    /\ MaxBuilds \in Nat /\ Batches \in Nat \ {0} /\ MaxJobFaults \in Nat
    /\ CallsLinger \in BOOLEAN /\ RequestsPause \in BOOLEAN
    /\ (Deleters \cup Recoverers) \cap {"creator", "nobody"} = {}

VARIABLES job,        \* its document
          dataset,    \* its dataset, and this job's hold on it
          late,       \* calls on their way to dataset-service that nobody waits for any more
          tasks,      \* batches of task rows, per set
          labels,     \* sets with annotations, suggestions or mask files
          work,       \* who creates or deletes the job
          build,      \* requests building a task set
          built,      \* sets begun so far: generation ids are never reused
          labeller,   \* the set an annotator is about to write labels of
          cleaner,    \* the sweep over retired sets
          jobFaults   \* faults so far

jobVars == <<job, dataset, late, tasks, labels, work, build, built, labeller, cleaner, jobFaults>>

-----------------------------------------------------------------------------
NoSet == 0
Sets == 1..MaxBuilds
Workers == {"creator"} \cup Recoverers \cup Deleters
NoWorker == "nobody"

\* "ready" is a document without a lifecycle, "gone" one that is deleted.
Job == [life : {"none", "creating", "ready", "deleting", "gone"}, token : Workers \cup {NoWorker},
        leased : BOOLEAN, status : {"draft", "active", "archived"}, set : Sets \cup {NoSet},
        building : Sets \cup {NoSet}, renewed : BOOLEAN]
NewJob == [life |-> "none", token |-> NoWorker, leased |-> FALSE, status |-> "draft", set |-> NoSet,
           building |-> NoSet, renewed |-> FALSE]

Work == {"idle", "renew", "hold", "ready", "refuse", "begin", "labels", "tasks", "again", "unhold",
         "remove", "release"}

Build == [at : {"idle", "begin", "renew", "insert", "publish", "abandon"}, set : Sets \cup {NoSet},
          base : Sets \cup {NoSet}]
NoBuild == [at |-> "idle", set |-> NoSet, base |-> NoSet]

Cleaner == [at : {"idle", "labels", "tasks"}, set : Sets \cup {NoSet}]
Resting == [at |-> "idle", set |-> NoSet]

-----------------------------------------------------------------------------
(* The lifecycle: creation, deletion, recovery. *)

\* Every write of a worker goes to the document its lease is still in.
Owned(w, life) == job.life = life /\ job.token = w
Leased(life, w) == [job EXCEPT !.life = life, !.token = w, !.leased = TRUE]
WorksAt(w, at) == work' = [work EXCEPT ![w] = at]

\* What a call about the hold makes of the dataset.  The hold is the same however often it is
\* asked for, and a dataset being deleted takes and releases none.
Calls == {"hold", "unhold"}
Served(call) ==
    IF dataset = "gone" THEN dataset ELSE IF call = "hold" THEN "held" ELSE "free"

\* A call without an answer: it arrived, it never will, or it is still on its way.
Uncertain(call) ==
    \/ dataset' \in {dataset, Served(call)} /\ UNCHANGED late
    \/ CallsLinger /\ late' = [late EXCEPT ![call] = @ + 1] /\ UNCHANGED dataset

\* A call to another service, or to the database, fails; its caller lets go of the lease at once.
CallFails(w) ==
    /\ jobFaults < MaxJobFaults
    /\ jobFaults' = jobFaults + 1
    /\ WorksAt(w, "release")

CreateJob ==
    /\ job.life = "none"
    /\ job' = Leased("creating", "creator")
    /\ WorksAt("creator", "renew")
    /\ UNCHANGED <<dataset, late, tasks, labels, build, built, labeller, cleaner, jobFaults>>

\* Nothing is destroyed before the deletion is on record, nor while tasks are being built.
BeginDeletion(w) ==
    /\ work[w] = "idle" /\ job.life \in {"ready", "deleting"}
    /\ ~job.leased /\ job.building = NoSet
    /\ job' = Leased("deleting", w)
    /\ WorksAt(w, "begin")
    /\ UNCHANGED <<dataset, late, tasks, labels, build, built, labeller, cleaner, jobFaults>>

\* Mutant of RecoverLifecycle: only deletions are taken up again.
RecoverDeletions(w) ==
    /\ work[w] = "idle" /\ job.life = "deleting" /\ ~job.leased
    /\ job' = Leased("deleting", w)
    /\ WorksAt(w, "begin")
    /\ UNCHANGED <<dataset, late, tasks, labels, build, built, labeller, cleaner, jobFaults>>

RecoverLifecycle(w) ==
    /\ work[w] = "idle" /\ job.life \in {"creating", "deleting"} /\ ~job.leased
    /\ job' = Leased(job.life, w)
    /\ WorksAt(w, IF job.life = "creating" THEN "renew" ELSE "begin")
    /\ UNCHANGED <<dataset, late, tasks, labels, build, built, labeller, cleaner, jobFaults>>

Renew(w) ==
    /\ work[w] \in {"renew", "begin", "again"}
    /\ LET life == IF work[w] = "renew" THEN "creating" ELSE "deleting"
           next == [renew |-> "hold", begin |-> "labels", again |-> "unhold"]
       IN  IF Owned(w, life)
           THEN job' = Leased(life, w) /\ WorksAt(w, next[work[w]])
           ELSE WorksAt(w, "release") /\ UNCHANGED job
    /\ UNCHANGED <<dataset, late, tasks, labels, build, built, labeller, cleaner, jobFaults>>

\* A dataset in the trash, importing or losing a group refuses, and one being deleted; never one
\* that has this hold already, from a call that was taken for lost.
AddHold(w) ==
    /\ work[w] = "hold"
    /\ \/ /\ dataset # "held"
          /\ WorksAt(w, "refuse")
          /\ UNCHANGED <<dataset, late, jobFaults>>
       \/ /\ dataset # "gone"
          /\ dataset' = Served("hold")
          /\ WorksAt(w, "ready")
          /\ UNCHANGED <<late, jobFaults>>
       \/ CallFails(w) /\ Uncertain("hold")
    /\ UNCHANGED <<job, tasks, labels, build, built, labeller, cleaner>>

\* Mutant of MakeReady: the creation is finished whoever has the lease by now.
MakeReadyAnyhow(w) ==
    /\ work[w] = "ready"
    /\ job' = [job EXCEPT !.life = "ready", !.token = NoWorker, !.leased = FALSE]
    /\ WorksAt(w, "idle")
    /\ UNCHANGED <<dataset, late, tasks, labels, build, built, labeller, cleaner, jobFaults>>

MakeReady(w) ==
    /\ work[w] = "ready"
    /\ IF Owned(w, "creating")
       THEN /\ job' = [job EXCEPT !.life = "ready", !.token = NoWorker, !.leased = FALSE]
            /\ WorksAt(w, "idle")
       ELSE WorksAt(w, "release") /\ UNCHANGED job
    /\ UNCHANGED <<dataset, late, tasks, labels, build, built, labeller, cleaner, jobFaults>>

\* A refusal ends the creation: the job is deleted.
RefuseCreation(w) ==
    /\ work[w] = "refuse"
    /\ IF Owned(w, "creating")
       THEN job' = [job EXCEPT !.life = "deleting"] /\ WorksAt(w, "begin")
       ELSE WorksAt(w, "release") /\ UNCHANGED job
    /\ UNCHANGED <<dataset, late, tasks, labels, build, built, labeller, cleaner, jobFaults>>

\* The job's folder in file-service, its annotations and suggestions.
RemoveLabels(w) ==
    /\ work[w] = "labels"
    /\ \/ labels' = {} /\ WorksAt(w, "tasks") /\ UNCHANGED jobFaults
       \/ CallFails(w) /\ UNCHANGED labels
    /\ UNCHANGED <<job, dataset, late, tasks, build, built, labeller, cleaner>>

RemoveTasks(w) ==
    /\ work[w] = "tasks"
    /\ tasks' = [g \in Sets |-> 0]
    /\ WorksAt(w, "again")
    /\ UNCHANGED <<job, dataset, late, labels, build, built, labeller, cleaner, jobFaults>>

\* Mutant of RemoveHold: a call without an answer counts as one that arrived.
HopeForRelease(w) ==
    /\ work[w] = "unhold"
    /\ Uncertain("unhold") /\ WorksAt(w, "remove")
    /\ UNCHANGED <<job, tasks, labels, build, built, labeller, cleaner, jobFaults>>

RemoveHold(w) ==
    /\ work[w] = "unhold"
    /\ \/ dataset' = Served("unhold") /\ WorksAt(w, "remove") /\ UNCHANGED <<late, jobFaults>>
       \/ CallFails(w) /\ Uncertain("unhold")
    /\ UNCHANGED <<job, tasks, labels, build, built, labeller, cleaner>>

RemoveJob(w) ==
    /\ work[w] = "remove"
    /\ job' = IF Owned(w, "deleting") THEN [NewJob EXCEPT !.life = "gone"] ELSE job
    /\ WorksAt(w, "idle")
    /\ UNCHANGED <<dataset, late, tasks, labels, build, built, labeller, cleaner, jobFaults>>

\* Only its own lease: a newer attempt keeps its own.
ReleaseLease(w) ==
    /\ work[w] = "release"
    /\ job' = IF job.token = w THEN [job EXCEPT !.token = NoWorker, !.leased = FALSE] ELSE job
    /\ WorksAt(w, "idle")
    /\ UNCHANGED <<dataset, late, tasks, labels, build, built, labeller, cleaner, jobFaults>>

\* Its last call may have been sent, and arrives before the lease runs out unless work outlives it.
WorkerDies(w) ==
    /\ work[w] # "idle" /\ jobFaults < MaxJobFaults
    /\ jobFaults' = jobFaults + 1
    /\ IF work[w] \in Calls
       THEN Uncertain(work[w]) /\ (RequestsPause \/ UNCHANGED late)
       ELSE UNCHANGED <<dataset, late>>
    /\ WorksAt(w, "idle")
    /\ UNCHANGED <<job, tasks, labels, build, built, labeller, cleaner>>

\* A late call arrives, or is refused: its answer is not read.
Arrive(call) ==
    /\ late[call] > 0
    /\ late' = [late EXCEPT ![call] = @ - 1]
    /\ dataset' \in {dataset, Served(call)}
    /\ UNCHANGED <<job, tasks, labels, work, build, built, labeller, cleaner, jobFaults>>

\* The lease is longer than the remote calls made under it.  It runs out on a worker that died, and
\* on one that was suspended or waited for the database, which has no bound in time.
LapseLifecycle ==
    /\ job.leased
    /\ \/ work[job.token] = "idle" /\ UNCHANGED jobFaults
       \/ RequestsPause /\ jobFaults < MaxJobFaults /\ jobFaults' = jobFaults + 1
    /\ job' = [job EXCEPT !.leased = FALSE]
    /\ UNCHANGED <<dataset, late, tasks, labels, work, build, built, labeller, cleaner>>

\* dataset-service: a dataset nobody holds may be deleted.
DeleteDataset ==
    /\ dataset = "free"
    /\ dataset' = "gone"
    /\ UNCHANGED <<job, late, tasks, labels, work, build, built, labeller, cleaner, jobFaults>>

-----------------------------------------------------------------------------
(* Task sets. *)

BuildsAt(b, at) == build' = [build EXCEPT ![b].at = at]

ReadDraft(b) ==
    /\ build[b].at = "idle" /\ job.life = "ready" /\ job.status = "draft" /\ built < MaxBuilds
    /\ build' = [build EXCEPT ![b] = [at |-> "begin", set |-> NoSet, base |-> job.set]]
    /\ UNCHANGED <<job, dataset, late, tasks, labels, work, built, labeller, cleaner, jobFaults>>

IsDraft(b) == job.life = "ready" /\ job.status = "draft" /\ job.set = build[b].base
StageOwner(b) == IsDraft(b) /\ job.building = build[b].set

\* The claim is for a new set, and for the document as it was read.
BeginTaskSet(b) ==
    /\ build[b].at = "begin"
    /\ IF IsDraft(b) /\ job.building = NoSet /\ built < MaxBuilds
       THEN /\ built' = built + 1
            /\ job' = [job EXCEPT !.building = built + 1, !.renewed = TRUE]
            /\ build' = [build EXCEPT ![b].at = "renew", ![b].set = built + 1]
       ELSE /\ build' = [build EXCEPT ![b] = NoBuild]
            /\ UNCHANGED <<job, built>>
    /\ UNCHANGED <<dataset, late, tasks, labels, work, labeller, cleaner, jobFaults>>

RenewTaskSet(b) ==
    /\ build[b].at = "renew"
    /\ IF StageOwner(b)
       THEN job' = [job EXCEPT !.renewed = TRUE] /\ BuildsAt(b, "insert")
       ELSE BuildsAt(b, "abandon") /\ UNCHANGED job
    /\ UNCHANGED <<dataset, late, tasks, labels, work, built, labeller, cleaner, jobFaults>>

\* The lease was good when it was renewed; the rows are written without it.
InsertBatch(b) ==
    LET g == build[b].set
    IN  /\ build[b].at = "insert"
        /\ tasks' = [tasks EXCEPT ![g] = IF @ = Batches THEN @ ELSE @ + 1]
        /\ BuildsAt(b, IF tasks'[g] = Batches THEN "publish" ELSE "renew")
        /\ UNCHANGED <<job, dataset, late, labels, work, built, labeller, cleaner, jobFaults>>

\* The answer may be lost: abandoning must not take the published set away.
PublishTaskSet(b) ==
    LET published == [job EXCEPT !.set = build[b].set, !.building = NoSet, !.renewed = FALSE]
    IN  /\ build[b].at = "publish"
        /\ \/ StageOwner(b) /\ job' = published /\ build' = [build EXCEPT ![b] = NoBuild] /\ UNCHANGED jobFaults
           \/ ~StageOwner(b) /\ BuildsAt(b, "abandon") /\ UNCHANGED <<job, jobFaults>>
           \/ /\ jobFaults < MaxJobFaults
              /\ jobFaults' = jobFaults + 1
              /\ job' \in IF StageOwner(b) THEN {job, published} ELSE {job}
              /\ BuildsAt(b, "abandon")
        /\ UNCHANGED <<dataset, late, tasks, labels, work, built, labeller, cleaner>>

AbandonTaskSet(b) ==
    /\ build[b].at = "abandon"
    /\ job' = IF job.building = build[b].set THEN [job EXCEPT !.building = NoSet, !.renewed = FALSE] ELSE job
    /\ build' = [build EXCEPT ![b] = NoBuild]
    /\ UNCHANGED <<dataset, late, tasks, labels, work, built, labeller, cleaner, jobFaults>>

BuilderDies(b) ==
    /\ build[b].at # "idle" /\ jobFaults < MaxJobFaults
    /\ jobFaults' = jobFaults + 1
    /\ build' = [build EXCEPT ![b] = NoBuild]
    /\ UNCHANGED <<job, dataset, late, tasks, labels, work, built, labeller, cleaner>>

\* A build may outlive its lease: a batch has no bound in time.
LapseBuild ==
    /\ job.renewed
    /\ job' = [job EXCEPT !.renewed = FALSE]
    /\ UNCHANGED <<dataset, late, tasks, labels, work, build, built, labeller, cleaner, jobFaults>>

\* Activate, archive: only the document that was read, and not while tasks are built.
Transition(to) ==
    /\ job.life = "ready" /\ job.building = NoSet
    /\ \/ job.status = "draft" /\ to = "active" /\ job.set # NoSet
       \/ job.status # "archived" /\ to = "archived"
    /\ job' = [job EXCEPT !.status = to]
    /\ UNCHANGED <<dataset, late, tasks, labels, work, build, built, labeller, cleaner, jobFaults>>

\* An annotator's request checks the job and then writes; the job may be deleted in between.
OpenTask ==
    /\ job.life = "ready" /\ job.status = "active" /\ labeller = NoSet
    /\ labeller' = job.set
    /\ UNCHANGED <<job, dataset, late, tasks, labels, work, build, built, cleaner, jobFaults>>

WriteLabel ==
    /\ labeller # NoSet
    /\ labels' = labels \cup {labeller}
    /\ labeller' = NoSet
    /\ UNCHANGED <<job, dataset, late, tasks, work, build, built, cleaner, jobFaults>>

-----------------------------------------------------------------------------
(* The sweep over task sets. *)

ExpireBuild ==
    /\ cleaner.at = "idle" /\ job.building # NoSet /\ ~job.renewed
    /\ job' = [job EXCEPT !.building = NoSet]
    /\ UNCHANGED <<dataset, late, tasks, labels, work, build, built, labeller, cleaner, jobFaults>>

HasRows(g) == tasks[g] > 0 \/ g \in labels
\* Mutant of Retired: a set that is not published is retired, also while it is built.
RetiredUnlessCurrent(g) == job.life = "gone" \/ job.set # g

Retired(g) == job.life = "gone" \/ (job.set # g /\ job.building # g)

\* Mutant of CheckRetired: the sweep goes over the sets of jobs that exist.
CheckRetiredOfJob(g) ==
    /\ cleaner.at = "idle" /\ HasRows(g) /\ Retired(g) /\ job.life # "gone"
    /\ cleaner' = [at |-> "labels", set |-> g]
    /\ UNCHANGED <<job, dataset, late, tasks, labels, work, build, built, labeller, jobFaults>>

CheckRetired(g) ==
    /\ cleaner.at = "idle" /\ HasRows(g) /\ Retired(g)
    /\ cleaner' = [at |-> "labels", set |-> g]
    /\ UNCHANGED <<job, dataset, late, tasks, labels, work, build, built, labeller, jobFaults>>

\* A file's row goes after the file, so a failure is found again.
CleanLabels ==
    /\ cleaner.at = "labels"
    /\ \/ /\ labels' = labels \ {cleaner.set}
          /\ cleaner' = [cleaner EXCEPT !.at = "tasks"]
          /\ UNCHANGED jobFaults
       \/ /\ jobFaults < MaxJobFaults
          /\ jobFaults' = jobFaults + 1
          /\ cleaner' = Resting
          /\ UNCHANGED labels
    /\ UNCHANGED <<job, dataset, late, tasks, work, build, built, labeller>>

CleanTasks ==
    /\ cleaner.at = "tasks"
    /\ tasks' = [tasks EXCEPT ![cleaner.set] = 0]
    /\ cleaner' = Resting
    /\ UNCHANGED <<job, dataset, late, labels, work, build, built, labeller, jobFaults>>

-----------------------------------------------------------------------------
LabelJobsInit ==
    /\ job = NewJob
    /\ dataset = "free"
    /\ late = [c \in Calls |-> 0]
    /\ tasks = [g \in Sets |-> 0]
    /\ labels = {}
    /\ work = [w \in Workers |-> "idle"]
    /\ build = [b \in Builders |-> NoBuild]
    /\ built = 0
    /\ labeller = NoSet
    /\ cleaner = Resting
    /\ jobFaults = 0

Works(w) ==
    \/ Renew(w) \/ AddHold(w) \/ MakeReady(w) \/ RefuseCreation(w) \/ RemoveLabels(w)
    \/ RemoveTasks(w) \/ RemoveHold(w) \/ RemoveJob(w) \/ ReleaseLease(w)

Builds(b) ==
    BeginTaskSet(b) \/ RenewTaskSet(b) \/ InsertBatch(b) \/ PublishTaskSet(b) \/ AbandonTaskSet(b)

Cleans == ExpireBuild \/ (\E g \in Sets : CheckRetired(g)) \/ CleanLabels \/ CleanTasks

LabelJobsNext ==
    \/ CreateJob \/ LapseLifecycle \/ DeleteDataset
    \/ \E w \in Recoverers : RecoverLifecycle(w)
    \/ \E c \in Calls : Arrive(c)
    \/ \E w \in Deleters : BeginDeletion(w)
    \/ \E w \in Workers : Works(w) \/ WorkerDies(w)
    \/ \E b \in Builders : ReadDraft(b) \/ Builds(b) \/ BuilderDies(b)
    \/ LapseBuild \/ OpenTask \/ WriteLabel
    \/ \E to \in {"active", "archived"} : Transition(to)
    \/ Cleans

LabelJobsSpec == LabelJobsInit /\ [][LabelJobsNext]_jobVars

\* Requests run on, leases run out, and both sweeps come round (startSweeper in index.ts).
LabelJobsFairness ==
    /\ \A w \in Workers : WF_jobVars(Works(w))
    /\ \A b \in Builders : WF_jobVars(Builds(b))
    /\ WF_jobVars(\E w \in Recoverers : RecoverLifecycle(w))
    /\ WF_jobVars(LapseLifecycle) /\ WF_jobVars(LapseBuild)
    /\ WF_jobVars(Cleans) /\ WF_jobVars(WriteLabel)

-----------------------------------------------------------------------------
(* Properties. *)

LabelJobsTypeOK ==
    /\ job \in Job
    /\ dataset \in {"free", "held", "gone"}
    /\ late \in [Calls -> Nat]
    /\ tasks \in [Sets -> 0..Batches]
    /\ labels \subseteq Sets
    /\ work \in [Workers -> Work]
    /\ build \in [Builders -> Build]
    /\ built \in 0..MaxBuilds
    /\ labeller \in Sets \cup {NoSet}
    /\ cleaner \in Cleaner
    /\ jobFaults \in 0..MaxJobFaults

\* The hold follows the job: one in use has it, so that the images it shows cannot be deleted, and
\* one that is being deleted keeps it until its tasks are removed.  This needs no clock: calls that
\* fail, arrive late or are made again, a recovery beside the request it took for dead, and a
\* dataset that refuses one attempt and not the next leave it as it is.
HoldFollowsJob ==
    \/ job.life = "ready"
    \/ job.life = "deleting" /\ job.set # NoSet /\ tasks[job.set] > 0
    => dataset = "held"

\* A job that is gone leaves no hold behind, which nobody could release: whichever calls failed or
\* were made again, its document stays until the release is confirmed.
HoldEndsWithJob == job.life = "gone" => dataset # "held"

\* The set a job shows is whole: no build that expired, no rival and no sweep leaves it in parts.
PublishedIsWhole == job.life = "ready" /\ job.set # NoSet => tasks[job.set] = Batches

\* A creation or deletion that began comes to an end, over crashes and failed calls.
LifecycleEnds == job.life \in {"creating", "deleting"} ~> job.life \in {"ready", "gone"}

\* No rows stay behind of a set that is not current: an abandoned or expired build, a replaced set,
\* labels that arrived after the job's deletion (recoverTaskSets).
RetiredAreRemoved == \A g \in Sets : (g <= built /\ Retired(g) /\ HasRows(g)) ~> ~HasRows(g)
=============================================================================
