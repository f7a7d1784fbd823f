----------------------------- MODULE Label_proofs ------------------------------
(***************************************************************************)
(* Proofs about label-service.                                              *)
(*                                                                          *)
(* LabelJobs, for any number of requests, task sets, batches and faults:    *)
(* that the hold follows the job rests on the order of its life, in which   *)
(* only a deletion lets go of it, and not on the lease: calls may come late *)
(* and requests outlive their lease.  That none is left behind does rest on *)
(* the lease: whoever is at work is then the only one.  That the published  *)
(* set is whole rests on the numbers of the sets: one that was retired      *)
(* never becomes current again, so that what the sweep removes is not what  *)
(* a build publishes.                                                       *)
(*                                                                          *)
(* LabelTasks, for any number of tasks, annotators, requests in flight and  *)
(* answers a task needs: a task counts the annotators who answered it, and  *)
(* its count never goes down.  So what a request saw answered stays         *)
(* answered until it completes the job, and the request whose answer was    *)
(* the last one still lacking is under way to see it.                       *)
(***************************************************************************)
EXTENDS LabelJobs, LabelTasks, FiniteSetTheorems, TLAPS

-----------------------------------------------------------------------------
(* The lifecycle of a job: the inductive invariant. *)

DeletingAt == {"begin", "labels", "tasks", "again", "unhold", "remove"}
Ending == job.life \in {"deleting", "gone"}

\* The set the job shows has no tasks any more.
TasksGone == job.set = NoSet \/ tasks[job.set] = 0

\* Nobody works on a job before it exists, and only a deletion goes about deleting: what it does,
\* and the releases it sent, may come late but never to a job that is still in use.
StagesKept ==
    /\ \A w \in Workers :
         /\ work[w] # "idle" => job.life # "none"
         /\ work[w] \in DeletingAt => Ending
    /\ late["unhold"] > 0 => Ending

\* What each stage of the work has seen of the hold and has done to the tasks.
HoldKept ==
    /\ HoldFollowsJob
    /\ \A w \in Workers :
         /\ work[w] = "ready" /\ job.life = "creating" => dataset = "held"
         /\ work[w] \in {"again", "unhold", "remove"} => TasksGone
    /\ late["unhold"] > 0 => TasksGone

\* Sets are numbered as they are begun; a job that is created has none.
SetsNumbered ==
    /\ job.life \in {"none", "creating"} => job.set = NoSet /\ job.building = NoSet
    /\ job.set <= built /\ job.building <= built /\ labeller <= built
    /\ \A b \in Builders : build[b].set <= built
    /\ \A g \in Sets : HasRows(g) => g <= built

\* A set is built by one request and is not published before; it is whole when it is about to be.
BuildsKept ==
    /\ \A b \in Builders : build[b].at \in {"renew", "insert", "publish"} =>
          build[b].set \in Sets /\ build[b].set # job.set
    /\ \A b, d \in Builders : b # d /\ build[b].set # NoSet => build[b].set # build[d].set
    /\ \A b \in Builders :
          build[b].at = "publish" /\ job.life = "ready" /\ job.building = build[b].set =>
             tasks[build[b].set] = Batches

\* What the sweep took for retired is retired for good.
CleaningKept ==
    cleaner.at # "idle" => cleaner.set \in Sets /\ cleaner.set <= built /\ Retired(cleaner.set)

LabelJobsIInv ==
    /\ LabelJobsTypeOK /\ StagesKept /\ HoldKept
    /\ SetsNumbered /\ BuildsKept /\ CleaningKept /\ PublishedIsWhole

-----------------------------------------------------------------------------
(* The documents and places a step writes. *)

\* The document after a step on the lifecycle is one of these: LeasedJob, ReadyJob, and so on.
LEMMA LeasedFacts ==
    ASSUME job \in Job, NEW w \in Workers,
           NEW life \in {"none", "creating", "ready", "deleting", "gone"}, job' = Leased(life, w)
    PROVE  /\ job' \in Job
           /\ job'.life = life /\ job'.token = w /\ job'.leased
           /\ job'.set = job.set /\ job'.building = job.building
    BY DEF Leased, Job

LEMMA ReadyFacts ==
    ASSUME job \in Job, job' = [job EXCEPT !.life = "ready", !.token = NoWorker, !.leased = FALSE]
    PROVE  /\ job' \in Job
           /\ job'.life = "ready"
           /\ job'.set = job.set /\ job'.building = job.building
    BY DEF Job

LEMMA DeletingFacts ==
    ASSUME job \in Job, job' = [job EXCEPT !.life = "deleting"]
    PROVE  /\ job' \in Job
           /\ job'.life = "deleting" /\ job'.token = job.token /\ job'.leased = job.leased
           /\ job'.set = job.set /\ job'.building = job.building
    BY DEF Job

LEMMA ReleasedFacts ==
    ASSUME job \in Job, job' = [job EXCEPT !.token = NoWorker, !.leased = FALSE]
    PROVE  /\ job' \in Job
           /\ job'.life = job.life
           /\ job'.set = job.set /\ job'.building = job.building
    BY DEF Job

LEMMA LapsedFacts ==
    ASSUME job \in Job, job' = [job EXCEPT !.leased = FALSE]
    PROVE  /\ job' \in Job
           /\ job'.life = job.life
           /\ job'.set = job.set /\ job'.building = job.building
    BY DEF Job

LEMMA GoneFacts ==
    ASSUME job' = [NewJob EXCEPT !.life = "gone"]
    PROVE  /\ job' \in Job
           /\ job'.life = "gone"
           /\ job'.set = NoSet /\ job'.building = NoSet
    BY DEF Job, NewJob

LEMMA WorksAtFacts ==
    ASSUME work \in [Workers -> Work], NEW w \in Workers, NEW at \in Work, WorksAt(w, at)
    PROVE  /\ work' \in [Workers -> Work]
           /\ work'[w] = at
           /\ \A v \in Workers : v # w => work'[v] = work[v]
    BY DEF WorksAt

-----------------------------------------------------------------------------
(* A step on the lifecycle. *)

\* A job is created, used and deleted, in this order.
JobGoesOn ==
    /\ job'.life = "none" => job.life = "none"
    /\ job'.life = "creating" => job.life \in {"none", "creating"}
    /\ Ending => Ending'

LEMMA UncertainFacts ==
    ASSUME LabelJobsTypeOK, NEW call \in Calls, Uncertain(call)
    PROVE  /\ dataset' \in {dataset, Served(call)} /\ dataset' \in {"free", "held", "gone"}
           /\ late' \in [Calls -> Nat]
           /\ \A c \in Calls : late'[c] # late[c] => c = call
           /\ CallsLinger \/ late' = late
    BY DEF LabelJobsTypeOK, Uncertain, Served

\* Whoever is at work goes on to a place that suits the job, its hold and its tasks.
LEMMA WorkStep ==
    ASSUME LabelJobsTypeOK, StagesKept, HoldKept, NEW w \in Workers, NEW at \in Work, WorksAt(w, at), JobGoesOn,
           at # "idle" => job'.life # "none",
           at \in DeletingAt => Ending',
           dataset = "held" \/ at = "ready" => dataset' = "held" \/ job'.life # "creating",
           TasksGone \/ at \in {"again", "unhold", "remove"} => TasksGone',
           late'["unhold"] > 0 => late["unhold"] > 0 \/ work[w] = "unhold",
           HoldFollowsJob'
    PROVE  work' \in [Workers -> Work] /\ StagesKept' /\ HoldKept'
  <1>1. /\ work' \in [Workers -> Work]
        /\ work'[w] = at
        /\ \A v \in Workers : v # w => work'[v] = work[v]
    BY WorksAtFacts DEF LabelJobsTypeOK
  <1>2. late'["unhold"] > 0 => Ending /\ TasksGone
    BY DEF StagesKept, HoldKept, DeletingAt
  <1>3. StagesKept'
    BY <1>1, <1>2 DEF StagesKept, JobGoesOn
  <1>4. HoldKept'
    BY <1>1, <1>2 DEF HoldKept, StagesKept, JobGoesOn
  <1> QED
    BY <1>1, <1>3, <1>4

\* It leaves the sets alone, and at most removes labels.
LEMMA SetsStep ==
    ASSUME LabelJobsIInv, UNCHANGED <<tasks, build, built, labeller, cleaner>>, labels' \subseteq labels,
           job'.set = job.set, job'.building = job.building,
           job'.life = "ready" => job.life = "ready" \/ (job.set = NoSet /\ job.building = NoSet),
           job.life = "gone" => job'.life = "gone",
           job'.life \in {"none", "creating"} => job.life \in {"none", "creating"}
    PROVE  SetsNumbered' /\ BuildsKept' /\ CleaningKept' /\ PublishedIsWhole'
  <1>1. SetsNumbered'
    BY DEF LabelJobsIInv, SetsNumbered, HasRows
  <1>2. BuildsKept'
    BY DEF LabelJobsIInv, BuildsKept, Sets, NoSet
  <1>3. CleaningKept'
    BY DEF LabelJobsIInv, CleaningKept, Retired
  <1>4. PublishedIsWhole'
    BY DEF LabelJobsIInv, PublishedIsWhole
  <1> QED
    BY <1>1, <1>2, <1>3, <1>4

LEMMA CreateJobStep ==
    ASSUME LabelJobsIInv, CreateJob
    PROVE  LabelJobsIInv'
  <1> USE DEF CreateJob
  <1>1. "creator" \in Workers /\ "renew" \in Work /\ job \in Job
    BY DEF Workers, Work, LabelJobsIInv, LabelJobsTypeOK
  <1>2. /\ job' \in Job
        /\ job'.life = "creating" /\ job'.set = job.set /\ job'.building = job.building
    BY <1>1, LeasedFacts
  <1>3. HoldFollowsJob' /\ JobGoesOn
    BY <1>2 DEF HoldFollowsJob, JobGoesOn, Ending
  <1>4. work' \in [Workers -> Work] /\ StagesKept' /\ HoldKept'
    BY <1>1, <1>2, <1>3, WorkStep DEF LabelJobsIInv, DeletingAt, TasksGone
  <1>5. SetsNumbered' /\ BuildsKept' /\ CleaningKept' /\ PublishedIsWhole'
    BY <1>2, SetsStep
  <1> QED
    BY <1>2, <1>4, <1>5 DEF LabelJobsIInv, LabelJobsTypeOK

LEMMA BeginDeletionStep ==
    ASSUME LabelJobsIInv, NEW w \in Deleters, BeginDeletion(w)
    PROVE  LabelJobsIInv'
  <1> USE DEF BeginDeletion
  <1>1. w \in Workers /\ "begin" \in Work /\ job \in Job
    BY DEF Workers, Work, LabelJobsIInv, LabelJobsTypeOK
  <1>2. /\ job' \in Job
        /\ job'.life = "deleting" /\ job'.set = job.set /\ job'.building = job.building
    BY <1>1, LeasedFacts
  <1>3. HoldFollowsJob' /\ JobGoesOn /\ Ending'
    BY <1>2 DEF LabelJobsIInv, HoldKept, HoldFollowsJob, JobGoesOn, Ending
  <1>4. work' \in [Workers -> Work] /\ StagesKept' /\ HoldKept'
    BY <1>1, <1>2, <1>3, WorkStep DEF LabelJobsIInv, DeletingAt, TasksGone
  <1>5. SetsNumbered' /\ BuildsKept' /\ CleaningKept' /\ PublishedIsWhole'
    BY <1>2, SetsStep
  <1> QED
    BY <1>2, <1>4, <1>5 DEF LabelJobsIInv, LabelJobsTypeOK

LEMMA RecoverLifecycleStep ==
    ASSUME LabelJobsIInv, NEW w \in Recoverers, RecoverLifecycle(w)
    PROVE  LabelJobsIInv'
  <1> USE DEF RecoverLifecycle
  <1> DEFINE at == IF job.life = "creating" THEN "renew" ELSE "begin"
  <1>1. w \in Workers /\ at \in Work /\ job \in Job
    BY DEF Workers, Work, LabelJobsIInv, LabelJobsTypeOK
  <1>2. /\ job' \in Job
        /\ job'.life = job.life /\ job'.set = job.set /\ job'.building = job.building
    BY <1>1, LeasedFacts
  <1>3. HoldFollowsJob' /\ JobGoesOn
    BY <1>2 DEF LabelJobsIInv, HoldKept, HoldFollowsJob, JobGoesOn, Ending
  <1>4. at \in {"renew", "begin"} /\ (at = "begin" => Ending')
    BY <1>2 DEF Ending
  <1>5. WorksAt(w, at)
    OBVIOUS
  <1> HIDE DEF at
  <1>6. work' \in [Workers -> Work] /\ StagesKept' /\ HoldKept'
    BY <1>1, <1>2, <1>3, <1>4, <1>5, WorkStep DEF LabelJobsIInv, DeletingAt, TasksGone
  <1>7. SetsNumbered' /\ BuildsKept' /\ CleaningKept' /\ PublishedIsWhole'
    BY <1>2, SetsStep
  <1> QED
    BY <1>2, <1>6, <1>7 DEF LabelJobsIInv, LabelJobsTypeOK

LEMMA RenewStep ==
    ASSUME LabelJobsIInv, NEW w \in Workers, Renew(w)
    PROVE  LabelJobsIInv'
  <1> USE DEF Renew
  <1>1. PICK at \in {"hold", "labels", "unhold", "release"} :
           /\ WorksAt(w, at)
           /\ at \in {"labels", "unhold"} => work[w] \in {"begin", "again"}
           /\ at = "unhold" => work[w] = "again"
           /\ job' = job \/ \E life \in {"creating", "deleting"} : job.life = life /\ job' = Leased(life, w)
    BY DEF Owned
  <1>2. at \in Work /\ job \in Job /\ job.life # "none"
    BY DEF Work, LabelJobsIInv, LabelJobsTypeOK, StagesKept
  <1>3. /\ job' \in Job
        /\ job'.life = job.life /\ job'.set = job.set /\ job'.building = job.building
    BY <1>1, <1>2, LeasedFacts
  <1>4. HoldFollowsJob' /\ JobGoesOn
    BY <1>3 DEF LabelJobsIInv, HoldKept, HoldFollowsJob, JobGoesOn, Ending
  <1>5. /\ at \in DeletingAt => Ending'
        /\ TasksGone \/ at \in {"again", "unhold", "remove"} => TasksGone'
    BY <1>1, <1>3 DEF LabelJobsIInv, StagesKept, HoldKept, DeletingAt, Ending, TasksGone
  <1>6. work' \in [Workers -> Work] /\ StagesKept' /\ HoldKept'
    BY <1>1, <1>2, <1>3, <1>4, <1>5, WorkStep DEF LabelJobsIInv
  <1>7. SetsNumbered' /\ BuildsKept' /\ CleaningKept' /\ PublishedIsWhole'
    BY <1>3, SetsStep
  <1> QED
    BY <1>3, <1>6, <1>7 DEF LabelJobsIInv, LabelJobsTypeOK

\* A dataset that is held takes the hold again and never refuses it.
LEMMA AddHoldStep ==
    ASSUME LabelJobsIInv, NEW w \in Workers, AddHold(w)
    PROVE  LabelJobsIInv'
  <1> USE DEF AddHold
  <1>1. PICK at \in {"refuse", "ready", "release"} : WorksAt(w, at) /\ (at = "ready" => dataset' = "held")
    BY DEF CallFails, Served
  <1>2. at \in Work /\ "hold" \in Calls /\ job.life # "none" /\ JobGoesOn
    BY DEF Work, Calls, LabelJobsIInv, StagesKept, JobGoesOn, Ending
  <1>3. /\ dataset' \in {"free", "held", "gone"} /\ late' \in [Calls -> Nat] /\ late'["unhold"] = late["unhold"]
        /\ dataset = "held" => dataset' = "held"
    BY <1>2, UncertainFacts DEF LabelJobsIInv, LabelJobsTypeOK, Served, Calls
  <1>4. HoldFollowsJob'
    BY <1>3 DEF LabelJobsIInv, HoldKept, HoldFollowsJob
  <1>5. work' \in [Workers -> Work] /\ StagesKept' /\ HoldKept'
    BY <1>1, <1>2, <1>3, <1>4, WorkStep DEF LabelJobsIInv, DeletingAt, TasksGone
  <1>6. SetsNumbered' /\ BuildsKept' /\ CleaningKept' /\ PublishedIsWhole'
    BY SetsStep
  <1>7. jobFaults' \in 0..MaxJobFaults
    BY LabelJobsAssumption DEF LabelJobsIInv, LabelJobsTypeOK, CallFails
  <1> QED
    BY <1>3, <1>5, <1>6, <1>7 DEF LabelJobsIInv, LabelJobsTypeOK

LEMMA MakeReadyStep ==
    ASSUME LabelJobsIInv, NEW w \in Workers, MakeReady(w)
    PROVE  LabelJobsIInv'
  <1> USE DEF MakeReady
  <1>1. job \in Job /\ job.life # "none" /\ {"idle", "release"} \subseteq Work
    BY DEF Work, LabelJobsIInv, LabelJobsTypeOK, StagesKept
  <1>2. /\ job' \in Job /\ job'.set = job.set /\ job'.building = job.building
        /\ \/ job' = job
           \/ job.life = "creating" /\ job'.life = "ready"
    BY <1>1, ReadyFacts DEF Owned
  <1>3. job' # job => dataset = "held" /\ job.set = NoSet /\ job.building = NoSet
    BY <1>2 DEF Owned, LabelJobsIInv, HoldKept, SetsNumbered
  <1>4. HoldFollowsJob' /\ JobGoesOn
    BY <1>2, <1>3 DEF LabelJobsIInv, HoldKept, HoldFollowsJob, JobGoesOn, Ending
  <1>5. PICK at \in {"idle", "release"} : WorksAt(w, at)
    OBVIOUS
  <1>6. work' \in [Workers -> Work] /\ StagesKept' /\ HoldKept'
    BY <1>1, <1>2, <1>4, <1>5, WorkStep DEF LabelJobsIInv, DeletingAt, TasksGone
  <1>7. SetsNumbered' /\ BuildsKept' /\ CleaningKept' /\ PublishedIsWhole'
    BY <1>2, <1>3, SetsStep
  <1> QED
    BY <1>2, <1>6, <1>7 DEF LabelJobsIInv, LabelJobsTypeOK

LEMMA RefuseCreationStep ==
    ASSUME LabelJobsIInv, NEW w \in Workers, RefuseCreation(w)
    PROVE  LabelJobsIInv'
  <1> USE DEF RefuseCreation
  <1>1. job \in Job /\ job.life # "none" /\ {"begin", "release"} \subseteq Work
    BY DEF Work, LabelJobsIInv, LabelJobsTypeOK, StagesKept
  <1>2. /\ job' \in Job /\ job'.set = job.set /\ job'.building = job.building
        /\ \/ job' = job
           \/ job.life = "creating" /\ job'.life = "deleting"
    BY <1>1, DeletingFacts DEF Owned
  <1>3. HoldFollowsJob' /\ JobGoesOn
    BY <1>2 DEF LabelJobsIInv, HoldKept, HoldFollowsJob, SetsNumbered, JobGoesOn, Ending
  <1>4. PICK at \in {"begin", "release"} : WorksAt(w, at) /\ (at = "begin" => Ending')
    BY <1>1, DeletingFacts DEF Owned, Ending
  <1>5. work' \in [Workers -> Work] /\ StagesKept' /\ HoldKept'
    BY <1>1, <1>2, <1>3, <1>4, WorkStep DEF LabelJobsIInv, DeletingAt, TasksGone
  <1>6. SetsNumbered' /\ BuildsKept' /\ CleaningKept' /\ PublishedIsWhole'
    BY <1>2, SetsStep
  <1> QED
    BY <1>2, <1>5, <1>6 DEF LabelJobsIInv, LabelJobsTypeOK

LEMMA RemoveLabelsStep ==
    ASSUME LabelJobsIInv, NEW w \in Workers, RemoveLabels(w)
    PROVE  LabelJobsIInv'
  <1> USE DEF RemoveLabels
  <1>1. PICK at \in {"tasks", "release"} : WorksAt(w, at)
    BY DEF CallFails
  <1>2. at \in Work /\ Ending /\ JobGoesOn
    BY DEF Work, LabelJobsIInv, StagesKept, DeletingAt, JobGoesOn, Ending
  <1>3. labels' \subseteq labels /\ jobFaults' \in 0..MaxJobFaults
    BY LabelJobsAssumption DEF LabelJobsIInv, LabelJobsTypeOK, CallFails
  <1>4. HoldFollowsJob'
    BY DEF LabelJobsIInv, HoldKept, HoldFollowsJob
  <1>5. work' \in [Workers -> Work] /\ StagesKept' /\ HoldKept'
    BY <1>1, <1>2, <1>4, WorkStep DEF LabelJobsIInv, DeletingAt, Ending, TasksGone
  <1>6. SetsNumbered' /\ BuildsKept' /\ CleaningKept' /\ PublishedIsWhole'
    BY <1>3, SetsStep
  <1> QED
    BY <1>3, <1>5, <1>6 DEF LabelJobsIInv, LabelJobsTypeOK

\* From here on the tasks of the set the job shows are gone, which nothing builds again.
LEMMA RemoveTasksStep ==
    ASSUME LabelJobsIInv, NEW w \in Workers, RemoveTasks(w)
    PROVE  LabelJobsIInv'
  <1> USE DEF RemoveTasks
  <1>1. job \in Job /\ Ending /\ "again" \in Work /\ JobGoesOn
    BY DEF Work, LabelJobsIInv, LabelJobsTypeOK, StagesKept, DeletingAt, JobGoesOn, Ending
  <1>2. tasks' \in [Sets -> 0..Batches] /\ \A g \in Sets : tasks'[g] = 0
    BY LabelJobsAssumption
  <1>3. TasksGone'
    BY <1>1, <1>2 DEF Job, TasksGone
  <1>4. HoldFollowsJob'
    BY <1>1, <1>3 DEF HoldFollowsJob, TasksGone, Ending
  <1>5. work' \in [Workers -> Work] /\ StagesKept' /\ HoldKept'
    BY <1>1, <1>3, <1>4, WorkStep DEF LabelJobsIInv, DeletingAt, Ending
  <1>6. SetsNumbered' /\ BuildsKept' /\ CleaningKept' /\ PublishedIsWhole'
    BY <1>1, <1>2 DEF LabelJobsIInv, SetsNumbered, BuildsKept, CleaningKept, PublishedIsWhole, HasRows, Retired, Ending
  <1> QED
    BY <1>2, <1>5, <1>6 DEF LabelJobsIInv, LabelJobsTypeOK

LEMMA RemoveHoldStep ==
    ASSUME LabelJobsIInv, NEW w \in Workers, RemoveHold(w)
    PROVE  LabelJobsIInv'
  <1> USE DEF RemoveHold
  <1>1. Ending /\ TasksGone /\ JobGoesOn /\ "unhold" \in Calls
    BY DEF LabelJobsIInv, StagesKept, HoldKept, DeletingAt, JobGoesOn, Ending, Calls
  <1>2. PICK at \in {"remove", "release"} : WorksAt(w, at)
    BY DEF CallFails
  <1>3. at \in Work
    BY DEF Work
  <1>4. /\ dataset' \in {"free", "held", "gone"} /\ late' \in [Calls -> Nat]
        /\ jobFaults' \in 0..MaxJobFaults
    BY <1>1, UncertainFacts, LabelJobsAssumption DEF LabelJobsIInv, LabelJobsTypeOK, CallFails, Served
  <1>5. HoldFollowsJob'
    <2>1. job'.set = NoSet \/ ~(tasks'[job'.set] > 0)
      BY <1>1 DEF TasksGone
    <2> QED
      BY <1>1, <2>1 DEF HoldFollowsJob, Ending
  <1>6. work' \in [Workers -> Work] /\ StagesKept' /\ HoldKept'
    BY <1>1, <1>2, <1>3, <1>5, WorkStep DEF LabelJobsIInv, Ending, TasksGone
  <1>7. SetsNumbered' /\ BuildsKept' /\ CleaningKept' /\ PublishedIsWhole'
    BY SetsStep
  <1> QED
    BY <1>4, <1>6, <1>7 DEF LabelJobsIInv, LabelJobsTypeOK

LEMMA RemoveJobStep ==
    ASSUME LabelJobsIInv, NEW w \in Workers, RemoveJob(w)
    PROVE  LabelJobsIInv'
  <1> USE DEF RemoveJob
  <1>1. job \in Job /\ "idle" \in Work /\ Ending
    BY DEF Work, LabelJobsIInv, LabelJobsTypeOK, StagesKept, DeletingAt
  <1>2. CASE job' = job
    <2>1. HoldFollowsJob' /\ JobGoesOn
      BY <1>2 DEF LabelJobsIInv, HoldKept, HoldFollowsJob, JobGoesOn, Ending
    <2>2. work' \in [Workers -> Work] /\ StagesKept' /\ HoldKept'
      BY <1>1, <1>2, <2>1, WorkStep DEF LabelJobsIInv, DeletingAt, TasksGone
    <2>3. SetsNumbered' /\ BuildsKept' /\ CleaningKept' /\ PublishedIsWhole'
      BY <1>2, SetsStep
    <2> QED
      BY <1>2, <2>2, <2>3 DEF LabelJobsIInv, LabelJobsTypeOK
  <1>3. CASE job' = [NewJob EXCEPT !.life = "gone"]
    <2>1. /\ job' \in Job /\ job'.life = "gone"
          /\ job'.set = NoSet /\ job'.building = NoSet
      BY <1>3, GoneFacts
    <2>2. HoldFollowsJob' /\ JobGoesOn /\ TasksGone'
      BY <2>1 DEF HoldFollowsJob, JobGoesOn, Ending, TasksGone
    <2>3. work' \in [Workers -> Work] /\ StagesKept' /\ HoldKept'
      BY <1>1, <2>1, <2>2, WorkStep DEF LabelJobsIInv, DeletingAt
    <2>4. SetsNumbered' /\ BuildsKept' /\ CleaningKept' /\ PublishedIsWhole'
      BY <2>1 DEF LabelJobsIInv, LabelJobsTypeOK, SetsNumbered, BuildsKept, CleaningKept,
         PublishedIsWhole, HasRows, Retired, NoSet, Sets
    <2> QED
      BY <2>1, <2>3, <2>4 DEF LabelJobsIInv, LabelJobsTypeOK
  <1> QED
    BY <1>2, <1>3

LEMMA ReleaseLeaseStep ==
    ASSUME LabelJobsIInv, NEW w \in Workers, ReleaseLease(w)
    PROVE  LabelJobsIInv'
  <1> USE DEF ReleaseLease
  <1>1. job \in Job /\ "idle" \in Work
    BY DEF Work, LabelJobsIInv, LabelJobsTypeOK
  <1>2. /\ job' \in Job /\ job'.life = job.life
        /\ job'.set = job.set /\ job'.building = job.building
    BY <1>1, ReleasedFacts
  <1>3. HoldFollowsJob' /\ JobGoesOn
    BY <1>2 DEF LabelJobsIInv, HoldKept, HoldFollowsJob, JobGoesOn, Ending
  <1>4. work' \in [Workers -> Work] /\ StagesKept' /\ HoldKept'
    BY <1>1, <1>2, <1>3, WorkStep DEF LabelJobsIInv, DeletingAt, TasksGone
  <1>5. SetsNumbered' /\ BuildsKept' /\ CleaningKept' /\ PublishedIsWhole'
    BY <1>2, SetsStep
  <1> QED
    BY <1>2, <1>4, <1>5 DEF LabelJobsIInv, LabelJobsTypeOK

LEMMA WorkerDiesStep ==
    ASSUME LabelJobsIInv, NEW w \in Workers, WorkerDies(w)
    PROVE  LabelJobsIInv'
  <1> USE DEF WorkerDies
  <1>1. work[w] \in Calls => Uncertain(work[w])
    OBVIOUS
  <1>2. /\ dataset' \in {"free", "held", "gone"} /\ late' \in [Calls -> Nat]
        /\ dataset = "held" => dataset' = "held" \/ work[w] = "unhold"
        /\ late'["unhold"] # late["unhold"] => work[w] = "unhold"
    BY <1>1, UncertainFacts DEF LabelJobsIInv, LabelJobsTypeOK, Served, Calls
  <1>3. work[w] = "unhold" => Ending /\ TasksGone
    BY DEF LabelJobsIInv, StagesKept, HoldKept, DeletingAt
  <1>4. HoldFollowsJob' /\ JobGoesOn
    <2>1. TasksGone => job'.set = NoSet \/ ~(tasks'[job'.set] > 0)
      BY DEF TasksGone
    <2> QED
      BY <1>2, <1>3, <2>1 DEF LabelJobsIInv, HoldKept, HoldFollowsJob, JobGoesOn, Ending
  <1>5. work' \in [Workers -> Work] /\ StagesKept' /\ HoldKept'
    BY <1>2, <1>3, <1>4, WorkStep DEF LabelJobsIInv, DeletingAt, Work, Ending, TasksGone
  <1>6. SetsNumbered' /\ BuildsKept' /\ CleaningKept' /\ PublishedIsWhole'
    BY SetsStep
  <1>7. jobFaults' \in 0..MaxJobFaults
    BY LabelJobsAssumption DEF LabelJobsIInv, LabelJobsTypeOK
  <1> QED
    BY <1>2, <1>5, <1>6, <1>7 DEF LabelJobsIInv, LabelJobsTypeOK

\* A release that comes late finds the job in its deletion, and its tasks gone.
LEMMA ArriveStep ==
    ASSUME LabelJobsIInv, NEW call \in Calls, Arrive(call)
    PROVE  LabelJobsIInv'
  <1> USE DEF Arrive
  <1>1. /\ dataset' \in {"free", "held", "gone"} /\ late' \in [Calls -> Nat]
        /\ late'["unhold"] > 0 => late["unhold"] > 0
        /\ dataset = "held" => dataset' = "held" \/ late["unhold"] > 0
    BY DEF LabelJobsIInv, LabelJobsTypeOK, Served, Calls
  <1>2. late["unhold"] > 0 => Ending /\ TasksGone
    BY DEF LabelJobsIInv, StagesKept, HoldKept
  <1>3. HoldFollowsJob'
    <2>1. TasksGone => job'.set = NoSet \/ ~(tasks'[job'.set] > 0)
      BY DEF TasksGone
    <2> QED
      BY <1>1, <1>2, <2>1 DEF LabelJobsIInv, HoldKept, HoldFollowsJob, Ending
  <1>4. StagesKept' /\ HoldKept'
    BY <1>1, <1>2, <1>3 DEF LabelJobsIInv, StagesKept, HoldKept, Ending, TasksGone
  <1>5. SetsNumbered' /\ BuildsKept' /\ CleaningKept' /\ PublishedIsWhole'
    BY SetsStep
  <1> QED
    BY <1>1, <1>4, <1>5 DEF LabelJobsIInv, LabelJobsTypeOK

LEMMA LapseLifecycleStep ==
    ASSUME LabelJobsIInv, LapseLifecycle
    PROVE  LabelJobsIInv'
  <1> USE DEF LapseLifecycle
  <1>1. job \in Job /\ jobFaults' \in 0..MaxJobFaults
    BY LabelJobsAssumption DEF LabelJobsIInv, LabelJobsTypeOK
  <1>2. /\ job' \in Job /\ job'.life = job.life
        /\ job'.set = job.set /\ job'.building = job.building
    BY <1>1, LapsedFacts
  <1>3. StagesKept' /\ HoldKept'
    BY <1>2 DEF LabelJobsIInv, StagesKept, HoldKept, HoldFollowsJob, Ending, TasksGone
  <1>4. SetsNumbered' /\ BuildsKept' /\ CleaningKept' /\ PublishedIsWhole'
    BY <1>2, SetsStep
  <1> QED
    BY <1>1, <1>2, <1>3, <1>4 DEF LabelJobsIInv, LabelJobsTypeOK

LEMMA DeleteDatasetStep ==
    ASSUME LabelJobsIInv, DeleteDataset
    PROVE  LabelJobsIInv'
  <1> USE DEF DeleteDataset
  <1>1. StagesKept' /\ HoldKept'
    BY DEF LabelJobsIInv, StagesKept, HoldKept, HoldFollowsJob, Ending, TasksGone
  <1>2. SetsNumbered' /\ BuildsKept' /\ CleaningKept' /\ PublishedIsWhole'
    BY SetsStep
  <1> QED
    BY <1>1, <1>2 DEF LabelJobsIInv, LabelJobsTypeOK

-----------------------------------------------------------------------------
(* A step on the task sets. *)

LEMMA StageFacts ==
    ASSUME job \in Job, NEW set \in Sets \cup {NoSet}, NEW building \in Sets \cup {NoSet}, NEW renewed \in BOOLEAN,
           job' = [job EXCEPT !.set = set, !.building = building, !.renewed = renewed]
    PROVE  /\ job' \in Job
           /\ job'.life = job.life /\ job'.token = job.token /\ job'.leased = job.leased
           /\ job'.set = set /\ job'.building = building
    BY DEF Job

LEMMA ClaimFacts ==
    ASSUME job \in Job, NEW building \in Sets \cup {NoSet}, NEW renewed \in BOOLEAN,
           job' = [job EXCEPT !.building = building, !.renewed = renewed]
    PROVE  /\ job' \in Job
           /\ job'.life = job.life /\ job'.token = job.token /\ job'.leased = job.leased
           /\ job'.set = job.set /\ job'.building = building
    BY DEF Job

LEMMA RenewedFacts ==
    ASSUME job \in Job, NEW renewed \in BOOLEAN, job' = [job EXCEPT !.renewed = renewed]
    PROVE  /\ job' \in Job
           /\ job'.life = job.life /\ job'.token = job.token /\ job'.leased = job.leased
           /\ job'.set = job.set /\ job'.building = job.building
    BY DEF Job

LEMMA StatusFacts ==
    ASSUME job \in Job, NEW status \in {"draft", "active", "archived"}, job' = [job EXCEPT !.status = status]
    PROVE  /\ job' \in Job
           /\ job'.life = job.life /\ job'.token = job.token /\ job'.leased = job.leased
           /\ job'.set = job.set /\ job'.building = job.building
    BY DEF Job

LEMMA ExpiredFacts ==
    ASSUME job \in Job, job' = [job EXCEPT !.building = NoSet]
    PROVE  /\ job' \in Job
           /\ job'.life = job.life /\ job'.token = job.token /\ job'.leased = job.leased
           /\ job'.set = job.set /\ job'.building = NoSet
    BY DEF Job

LEMMA BuildsAtFacts ==
    ASSUME build \in [Builders -> Build], NEW b \in Builders,
           NEW at \in {"idle", "begin", "renew", "insert", "publish", "abandon"}, BuildsAt(b, at)
    PROVE  /\ build' \in [Builders -> Build]
           /\ build'[b].at = at /\ build'[b].set = build[b].set
           /\ \A d \in Builders : d # b => build'[d] = build[d]
    BY DEF BuildsAt, Build

LEMMA NewBuildFacts ==
    ASSUME build \in [Builders -> Build], NEW b \in Builders, NEW new \in Build,
           build' = [build EXCEPT ![b] = new]
    PROVE  /\ build' \in [Builders -> Build]
           /\ build'[b] = new
           /\ \A d \in Builders : d # b => build'[d] = build[d]
    OBVIOUS

\* It leaves the lifecycle alone; the set of a job that is deleted only loses tasks.
LEMMA TasksStep ==
    ASSUME LabelJobsIInv, UNCHANGED <<work, dataset, late>>, job' \in Job, tasks' \in [Sets -> 0..Batches],
           job'.life = job.life, job'.token = job.token, job'.leased = job.leased,
           job'.set = job.set \/ job.life = "ready",
           \A g \in Sets : g = job.set => tasks'[g] <= tasks[g]
    PROVE  StagesKept' /\ HoldKept'
  <1>1. StagesKept'
    BY DEF LabelJobsIInv, StagesKept, Ending
  <1>2. job.life # "ready" /\ job'.set # NoSet => job.set \in Sets /\ job'.set = job.set
    BY DEF Job
  <1>3. \A g \in Sets : tasks[g] \in Nat /\ tasks'[g] \in Nat
    BY LabelJobsAssumption DEF LabelJobsIInv, LabelJobsTypeOK
  <1>4. HoldFollowsJob'
    <2>1. dataset' # "held" /\ job'.life = "deleting" /\ job'.set # NoSet => ~(tasks'[job'.set] > 0)
      BY <1>2, <1>3 DEF LabelJobsIInv, HoldKept, HoldFollowsJob
    <2> QED
      BY <2>1 DEF LabelJobsIInv, HoldKept, HoldFollowsJob
  <1>5. Ending /\ TasksGone => TasksGone'
    <2>1. ASSUME Ending, TasksGone, job'.set # NoSet PROVE tasks'[job'.set] = 0
      <3>1. job.set \in Sets /\ job'.set = job.set
        BY <1>2, <2>1 DEF Ending
      <3> QED
        BY <1>3, <2>1, <3>1 DEF TasksGone
    <2> QED
      BY <2>1 DEF TasksGone
  <1>6. HoldKept'
    BY <1>4, <1>5 DEF LabelJobsIInv, HoldKept, StagesKept, DeletingAt
  <1> QED
    BY <1>1, <1>6

LEMMA ReadDraftStep ==
    ASSUME LabelJobsIInv, NEW b \in Builders, ReadDraft(b)
    PROVE  LabelJobsIInv'
  <1> USE DEF ReadDraft
  <1> DEFINE new == [at |-> "begin", set |-> NoSet, base |-> job.set]
  <1>1. new \in Build /\ new.set = NoSet /\ new.at = "begin" /\ job \in Job
    BY DEF LabelJobsIInv, LabelJobsTypeOK, Job, Build
  <1>2. build' = [build EXCEPT ![b] = new]
    OBVIOUS
  <1> HIDE DEF new
  <1>3. /\ build' \in [Builders -> Build]
        /\ build'[b] = new
        /\ \A d \in Builders : d # b => build'[d] = build[d]
    BY <1>1, <1>2, NewBuildFacts DEF LabelJobsIInv, LabelJobsTypeOK
  <1>4. StagesKept' /\ HoldKept'
    BY DEF LabelJobsIInv, StagesKept, HoldKept, HoldFollowsJob, Ending, TasksGone
  <1>5. SetsNumbered'
    BY <1>1, <1>3 DEF LabelJobsIInv, LabelJobsTypeOK, SetsNumbered, HasRows, NoSet
  <1>6. BuildsKept'
    BY <1>1, <1>3 DEF LabelJobsIInv, BuildsKept
  <1>7. CleaningKept' /\ PublishedIsWhole'
    BY DEF LabelJobsIInv, CleaningKept, Retired, PublishedIsWhole
  <1> QED
    BY <1>3, <1>4, <1>5, <1>6, <1>7 DEF LabelJobsIInv, LabelJobsTypeOK

\* The number of the new set is one no set, label or sweep has had.
LEMMA BeginTaskSetStep ==
    ASSUME LabelJobsIInv, NEW b \in Builders, BeginTaskSet(b)
    PROVE  LabelJobsIInv'
  <1> USE DEF BeginTaskSet
  <1>1. job \in Job /\ build \in [Builders -> Build] /\ built \in 0..MaxBuilds /\ MaxBuilds \in Nat
    BY LabelJobsAssumption DEF LabelJobsIInv, LabelJobsTypeOK
  <1>2. CASE IsDraft(b) /\ job.building = NoSet /\ built < MaxBuilds
    <2> DEFINE g == built + 1
               new == [build[b] EXCEPT !.at = "renew", !.set = g]
    <2>1. g \in Sets /\ g \in Nat /\ job.life = "ready" /\ built' = g /\ built' \in 0..MaxBuilds /\ built < g
      BY <1>1, <1>2 DEF Sets, IsDraft
    <2>2. job' = [job EXCEPT !.building = g, !.renewed = TRUE] /\ build' = [build EXCEPT ![b] = new]
      BY <1>1, <1>2 DEF Build
    <2>3. new \in Build /\ new.at = "renew" /\ new.set = g
      BY <1>1, <2>1 DEF Build
    <2> HIDE DEF g, new
    <2>4. /\ job' \in Job
          /\ job'.life = job.life /\ job'.token = job.token /\ job'.leased = job.leased
          /\ job'.set = job.set /\ job'.building = g
      BY <1>1, <2>1, <2>2, ClaimFacts
    <2>5. /\ build' \in [Builders -> Build]
          /\ build'[b] = new
          /\ \A d \in Builders : d # b => build'[d] = build[d]
      BY <1>1, <2>2, <2>3, NewBuildFacts
    <2>6. StagesKept' /\ HoldKept'
      BY <2>1, <2>4 DEF LabelJobsIInv, StagesKept, HoldKept, HoldFollowsJob, Ending, TasksGone
    <2>7. /\ job.set \in 0..MaxBuilds /\ labeller \in 0..MaxBuilds
          /\ \A d \in Builders : build[d].set \in 0..MaxBuilds
          /\ Sets \subseteq 0..MaxBuilds
      BY <1>1 DEF LabelJobsIInv, LabelJobsTypeOK, Job, Build, Sets, NoSet
    <2>8. SetsNumbered'
      BY <1>1, <2>1, <2>3, <2>4, <2>5, <2>7 DEF LabelJobsIInv, SetsNumbered, HasRows
    <2>9. BuildsKept'
      <3>1. g # job.set /\ \A d \in Builders : build[d].set # g
        BY <1>1, <2>1, <2>7 DEF LabelJobsIInv, SetsNumbered
      <3> QED
        BY <2>1, <2>3, <2>4, <2>5, <3>1 DEF LabelJobsIInv, BuildsKept
    <2>10. CleaningKept'
      BY <1>1, <2>1, <2>4, <2>7 DEF LabelJobsIInv, CleaningKept, Retired
    <2>11. PublishedIsWhole'
      BY <2>4 DEF LabelJobsIInv, PublishedIsWhole
    <2> QED
      BY <2>1, <2>4, <2>5, <2>6, <2>8, <2>9, <2>10, <2>11 DEF LabelJobsIInv, LabelJobsTypeOK
  <1>3. CASE ~(IsDraft(b) /\ job.building = NoSet /\ built < MaxBuilds)
    <2>1. NoBuild \in Build /\ NoBuild.at = "idle" /\ NoBuild.set = NoSet
      BY DEF NoBuild, Build
    <2>2. /\ build' \in [Builders -> Build]
          /\ build'[b] = NoBuild
          /\ \A d \in Builders : d # b => build'[d] = build[d]
      BY <1>1, <1>3, <2>1, NewBuildFacts
    <2>3. StagesKept' /\ HoldKept'
      BY <1>3 DEF LabelJobsIInv, StagesKept, HoldKept, HoldFollowsJob, Ending, TasksGone
    <2>4. SetsNumbered'
      BY <1>1, <1>3, <2>1, <2>2 DEF LabelJobsIInv, SetsNumbered, HasRows, NoSet
    <2>5. BuildsKept'
      BY <1>3, <2>1, <2>2 DEF LabelJobsIInv, BuildsKept
    <2>6. CleaningKept' /\ PublishedIsWhole'
      BY <1>3 DEF LabelJobsIInv, CleaningKept, Retired, PublishedIsWhole
    <2> QED
      BY <1>3, <2>2, <2>3, <2>4, <2>5, <2>6 DEF LabelJobsIInv, LabelJobsTypeOK
  <1> QED
    BY <1>2, <1>3

LEMMA RenewTaskSetStep ==
    ASSUME LabelJobsIInv, NEW b \in Builders, RenewTaskSet(b)
    PROVE  LabelJobsIInv'
  <1> USE DEF RenewTaskSet
  <1>1. job \in Job /\ build \in [Builders -> Build]
    BY DEF LabelJobsIInv, LabelJobsTypeOK
  <1>2. /\ job' \in Job
        /\ job'.life = job.life /\ job'.token = job.token /\ job'.leased = job.leased
        /\ job'.set = job.set /\ job'.building = job.building
    BY <1>1, RenewedFacts
  <1>3. PICK at \in {"insert", "abandon"} : BuildsAt(b, at)
    OBVIOUS
  <1>4. /\ build' \in [Builders -> Build]
        /\ build'[b].at = at /\ build'[b].set = build[b].set
        /\ \A d \in Builders : d # b => build'[d] = build[d]
    BY <1>1, <1>3, BuildsAtFacts
  <1>5. StagesKept' /\ HoldKept'
    BY <1>2 DEF LabelJobsIInv, StagesKept, HoldKept, HoldFollowsJob, Ending, TasksGone
  <1>6. SetsNumbered'
    BY <1>2, <1>4 DEF LabelJobsIInv, SetsNumbered, HasRows
  <1>7. BuildsKept'
    BY <1>2, <1>3, <1>4 DEF LabelJobsIInv, BuildsKept
  <1>8. CleaningKept' /\ PublishedIsWhole'
    BY <1>2 DEF LabelJobsIInv, CleaningKept, Retired, PublishedIsWhole
  <1> QED
    BY <1>2, <1>4, <1>5, <1>6, <1>7, <1>8 DEF LabelJobsIInv, LabelJobsTypeOK

\* The rows go to the builder's own set, which is neither shown nor another's.
LEMMA InsertBatchStep ==
    ASSUME LabelJobsIInv, NEW b \in Builders, InsertBatch(b)
    PROVE  LabelJobsIInv'
  <1> USE DEF InsertBatch
  <1> DEFINE g == build[b].set
             at == IF tasks'[g] = Batches THEN "publish" ELSE "renew"
  <1>1. job \in Job /\ build \in [Builders -> Build] /\ tasks \in [Sets -> 0..Batches] /\ Batches \in Nat \ {0}
    BY LabelJobsAssumption DEF LabelJobsIInv, LabelJobsTypeOK
  <1>2. g \in Sets /\ g # job.set
    BY DEF LabelJobsIInv, BuildsKept
  <1>3. at \in {"publish", "renew"} /\ (at = "publish" => tasks'[g] = Batches) /\ BuildsAt(b, at)
    OBVIOUS
  <1>4. tasks' \in [Sets -> 0..Batches] /\ \A h \in Sets : h # g => tasks'[h] = tasks[h]
    BY <1>1, <1>2
  <1> HIDE DEF at
  <1>5. /\ build' \in [Builders -> Build]
        /\ build'[b].at = at /\ build'[b].set = g
        /\ \A d \in Builders : d # b => build'[d] = build[d]
    BY <1>1, <1>3, BuildsAtFacts
  <1>6. StagesKept' /\ HoldKept'
    <2>1. \A h \in Sets : h = job.set => tasks'[h] <= tasks[h]
      BY <1>1, <1>2, <1>4
    <2> QED
      BY <1>1, <1>4, <2>1, TasksStep
  <1>7. SetsNumbered'
    <2>1. g <= built
      BY DEF LabelJobsIInv, SetsNumbered
    <2> QED
      BY <1>4, <1>5, <2>1 DEF LabelJobsIInv, SetsNumbered, HasRows
  <1>8. BuildsKept'
    <2>1. g # NoSet /\ \A d \in Builders : d # b => build[d].set # g
      BY <1>2 DEF LabelJobsIInv, BuildsKept, Sets, NoSet
    <2>2. \A d \in Builders : build'[d].at \in {"renew", "insert", "publish"} =>
             build'[d].set \in Sets /\ build'[d].set # job'.set
      BY <1>2, <1>5 DEF LabelJobsIInv, BuildsKept
    <2>3. \A d, e \in Builders : d # e /\ build'[d].set # NoSet => build'[d].set # build'[e].set
      BY <1>5, <2>1 DEF LabelJobsIInv, BuildsKept
    <2>4. ASSUME NEW d \in Builders, build'[d].at = "publish", job'.life = "ready", job'.building = build'[d].set
          PROVE  tasks'[build'[d].set] = Batches
      <3>1. CASE d = b
        BY <1>3, <1>5, <2>4, <3>1
      <3>2. CASE d # b
        BY <1>4, <1>5, <2>1, <2>4, <3>2 DEF LabelJobsIInv, BuildsKept
      <3> QED
        BY <3>1, <3>2
    <2> QED
      BY <2>2, <2>3, <2>4 DEF BuildsKept
  <1>9. CleaningKept' /\ PublishedIsWhole'
    <2>1. job.set # NoSet => job.set \in Sets
      BY <1>1 DEF Job
    <2> QED
      BY <1>2, <1>4, <2>1 DEF LabelJobsIInv, CleaningKept, Retired, PublishedIsWhole
  <1> QED
    BY <1>4, <1>5, <1>6, <1>7, <1>8, <1>9 DEF LabelJobsIInv, LabelJobsTypeOK

\* What is published is what its owner built, which no sweep took for retired.
LEMMA PublishTaskSetStep ==
    ASSUME LabelJobsIInv, NEW b \in Builders, PublishTaskSet(b)
    PROVE  LabelJobsIInv'
  <1> USE DEF PublishTaskSet
  <1> DEFINE g == build[b].set
             published == [job EXCEPT !.set = g, !.building = NoSet, !.renewed = FALSE]
  <1>1. /\ job \in Job /\ build \in [Builders -> Build] /\ jobFaults' \in 0..MaxJobFaults
        /\ g \in Sets /\ g # NoSet /\ g # job.set
    BY LabelJobsAssumption DEF LabelJobsIInv, LabelJobsTypeOK, BuildsKept, Sets, NoSet
  <1>2. /\ build' \in [Builders -> Build]
        /\ build'[b].at \in {"idle", "abandon"} /\ build'[b].set \in {NoSet, g}
        /\ \A d \in Builders : d # b => build'[d] = build[d]
    <2>1. BuildsAt(b, "abandon") \/ build' = [build EXCEPT ![b] = NoBuild]
      OBVIOUS
    <2>2. NoBuild \in Build /\ NoBuild.at = "idle" /\ NoBuild.set = NoSet
      BY DEF NoBuild, Build
    <2>3. CASE BuildsAt(b, "abandon")
      BY <1>1, <2>3, BuildsAtFacts
    <2>4. CASE build' = [build EXCEPT ![b] = NoBuild]
      BY <1>1, <2>2, <2>4, NewBuildFacts
    <2> QED
      BY <2>1, <2>3, <2>4
  <1>3. job' = job \/ (StageOwner(b) /\ job' = published)
    OBVIOUS
  <1>4. CASE job' = job
    <2>1. StagesKept' /\ HoldKept'
      BY <1>4 DEF LabelJobsIInv, StagesKept, HoldKept, HoldFollowsJob, Ending, TasksGone
    <2>2. SetsNumbered'
      <3>1. g <= built /\ NoSet <= built
        BY DEF LabelJobsIInv, LabelJobsTypeOK, SetsNumbered, NoSet
      <3> QED
        BY <1>2, <1>4, <3>1 DEF LabelJobsIInv, SetsNumbered, HasRows
    <2>3. BuildsKept'
      BY <1>2, <1>4 DEF LabelJobsIInv, BuildsKept
    <2>4. CleaningKept' /\ PublishedIsWhole'
      BY <1>4 DEF LabelJobsIInv, CleaningKept, Retired, PublishedIsWhole
    <2> QED
      BY <1>1, <1>2, <1>4, <2>1, <2>2, <2>3, <2>4 DEF LabelJobsIInv, LabelJobsTypeOK
  <1>5. CASE StageOwner(b) /\ job' = published
    <2>1. /\ job' \in Job
          /\ job'.life = job.life /\ job'.token = job.token /\ job'.leased = job.leased
          /\ job'.set = g /\ job'.building = NoSet
      BY <1>1, <1>5, StageFacts
    <2>2. job.life = "ready" /\ job.building = g
      BY <1>5 DEF StageOwner, IsDraft
    <2>3. tasks[g] = Batches
      BY <2>2 DEF LabelJobsIInv, BuildsKept
    <2>4. StagesKept' /\ HoldKept'
      <3>1. /\ tasks' \in [Sets -> 0..Batches]
            /\ \A h \in Sets : h = job.set => tasks'[h] <= tasks[h]
        BY LabelJobsAssumption DEF LabelJobsIInv, LabelJobsTypeOK
      <3> QED
        BY <2>1, <2>2, <3>1, TasksStep
    <2>5. SetsNumbered'
      <3>1. g <= built /\ NoSet <= built
        BY DEF LabelJobsIInv, LabelJobsTypeOK, SetsNumbered, NoSet
      <3> QED
        BY <1>2, <2>1, <2>2, <3>1 DEF LabelJobsIInv, SetsNumbered, HasRows
    <2>6. BuildsKept'
      <3>1. \A d \in Builders : d # b => build[d].set # g
        BY <1>1 DEF LabelJobsIInv, BuildsKept
      <3>2. NoSet \notin Sets
        BY DEF Sets, NoSet
      <3> QED
        BY <1>1, <1>2, <2>1, <3>1, <3>2 DEF LabelJobsIInv, BuildsKept
    <2>7. CleaningKept'
      <3>1. NoSet \notin Sets
        BY DEF Sets, NoSet
      <3> QED
        BY <2>1, <2>2, <3>1 DEF LabelJobsIInv, CleaningKept, Retired
    <2>8. PublishedIsWhole'
      BY <2>1, <2>3 DEF PublishedIsWhole
    <2> QED
      BY <1>1, <1>2, <2>1, <2>4, <2>5, <2>6, <2>7, <2>8 DEF LabelJobsIInv, LabelJobsTypeOK
  <1> QED
    BY <1>3, <1>4, <1>5

\* A claim that ends leaves a set that is retired for good.
LEMMA UnclaimedStep ==
    ASSUME LabelJobsIInv, UNCHANGED <<dataset, late, tasks, labels, work, built, labeller, cleaner>>,
           job' \in Job, job'.life = job.life, job'.token = job.token, job'.leased = job.leased,
           job'.set = job.set, job'.building \in {job.building, NoSet}
    PROVE  StagesKept' /\ HoldKept' /\ CleaningKept' /\ PublishedIsWhole'
  <1>1. StagesKept' /\ HoldKept'
    BY DEF LabelJobsIInv, StagesKept, HoldKept, HoldFollowsJob, Ending, TasksGone
  <1>2. CleaningKept'
    BY DEF LabelJobsIInv, CleaningKept, Retired, Sets, NoSet
  <1>3. PublishedIsWhole'
    BY DEF LabelJobsIInv, PublishedIsWhole
  <1> QED
    BY <1>1, <1>2, <1>3

\* A request that gives up its set, or dies.
LEMMA GivesUpStep ==
    ASSUME LabelJobsIInv, NEW b \in Builders, UNCHANGED <<tasks, labels, built, labeller>>,
           build' = [build EXCEPT ![b] = NoBuild],
           job'.life = job.life, job'.set = job.set, job'.building \in {job.building, NoSet}
    PROVE  build' \in [Builders -> Build] /\ SetsNumbered' /\ BuildsKept'
  <1>1. NoBuild \in Build /\ NoBuild.at = "idle" /\ NoBuild.set = NoSet
    BY DEF NoBuild, Build
  <1>2. /\ build' \in [Builders -> Build]
        /\ build'[b] = NoBuild
        /\ \A d \in Builders : d # b => build'[d] = build[d]
    BY <1>1, NewBuildFacts DEF LabelJobsIInv, LabelJobsTypeOK
  <1>3. SetsNumbered'
    <2>1. NoSet <= built
      BY DEF LabelJobsIInv, LabelJobsTypeOK, NoSet
    <2> QED
      BY <1>1, <1>2, <2>1 DEF LabelJobsIInv, SetsNumbered, HasRows
  <1>4. BuildsKept'
    BY <1>1, <1>2 DEF LabelJobsIInv, BuildsKept, Sets, NoSet
  <1> QED
    BY <1>2, <1>3, <1>4

LEMMA AbandonTaskSetStep ==
    ASSUME LabelJobsIInv, NEW b \in Builders, AbandonTaskSet(b)
    PROVE  LabelJobsIInv'
  <1> USE DEF AbandonTaskSet
  <1>1. /\ job' \in Job
        /\ job'.life = job.life /\ job'.token = job.token /\ job'.leased = job.leased
        /\ job'.set = job.set /\ job'.building \in {job.building, NoSet}
    <2>1. job \in Job
      BY DEF LabelJobsIInv, LabelJobsTypeOK
    <2>2. CASE job' = job
      BY <2>1, <2>2
    <2>3. CASE job' = [job EXCEPT !.building = NoSet, !.renewed = FALSE]
      BY <2>1, <2>3, ClaimFacts
    <2> QED
      BY <2>2, <2>3
  <1>2. StagesKept' /\ HoldKept' /\ CleaningKept' /\ PublishedIsWhole'
    BY <1>1, UnclaimedStep
  <1>3. build' \in [Builders -> Build] /\ SetsNumbered' /\ BuildsKept'
    BY <1>1, GivesUpStep
  <1> QED
    BY <1>1, <1>2, <1>3 DEF LabelJobsIInv, LabelJobsTypeOK

LEMMA BuilderDiesStep ==
    ASSUME LabelJobsIInv, NEW b \in Builders, BuilderDies(b)
    PROVE  LabelJobsIInv'
  <1> USE DEF BuilderDies
  <1>1. job' \in Job /\ jobFaults' \in 0..MaxJobFaults
    BY LabelJobsAssumption DEF LabelJobsIInv, LabelJobsTypeOK
  <1>2. StagesKept' /\ HoldKept' /\ CleaningKept' /\ PublishedIsWhole'
    BY <1>1, UnclaimedStep
  <1>3. build' \in [Builders -> Build] /\ SetsNumbered' /\ BuildsKept'
    BY GivesUpStep
  <1> QED
    BY <1>1, <1>2, <1>3 DEF LabelJobsIInv, LabelJobsTypeOK

LEMMA DraftStep ==
    ASSUME LabelJobsIInv, UNCHANGED <<dataset, late, tasks, labels, work, build, built, labeller, cleaner, jobFaults>>,
           job' \in Job, job'.life = job.life, job'.token = job.token, job'.leased = job.leased,
           job'.set = job.set, job'.building \in {job.building, NoSet}
    PROVE  LabelJobsIInv'
  <1>1. StagesKept' /\ HoldKept' /\ CleaningKept' /\ PublishedIsWhole'
    BY UnclaimedStep
  <1>2. SetsNumbered'
    <2>1. NoSet <= built
      BY DEF LabelJobsIInv, LabelJobsTypeOK, NoSet
    <2> QED
      BY <2>1 DEF LabelJobsIInv, SetsNumbered, HasRows
  <1>3. BuildsKept'
    BY DEF LabelJobsIInv, BuildsKept, Sets, NoSet
  <1> QED
    BY <1>1, <1>2, <1>3 DEF LabelJobsIInv, LabelJobsTypeOK

LEMMA LapseBuildStep ==
    ASSUME LabelJobsIInv, LapseBuild
    PROVE  LabelJobsIInv'
    BY RenewedFacts, DraftStep DEF LapseBuild, LabelJobsIInv, LabelJobsTypeOK

LEMMA TransitionStep ==
    ASSUME LabelJobsIInv, NEW to \in {"active", "archived"}, Transition(to)
    PROVE  LabelJobsIInv'
    BY StatusFacts, DraftStep DEF Transition, LabelJobsIInv, LabelJobsTypeOK

LEMMA ExpireBuildStep ==
    ASSUME LabelJobsIInv, ExpireBuild
    PROVE  LabelJobsIInv'
    BY ExpiredFacts, DraftStep DEF ExpireBuild, LabelJobsIInv, LabelJobsTypeOK

\* An annotator, or the sweep: the document and the builds stay, and the set shown keeps its tasks.
LEMMA RowsStep ==
    ASSUME LabelJobsIInv, UNCHANGED <<job, dataset, late, work, build, built>>,
           tasks' \in [Sets -> 0..Batches], labels' \subseteq Sets, labeller' \in Sets \cup {NoSet},
           labeller' <= built, \A g \in Sets : g \in labels' => g \in labels \/ g <= built,
           \A g \in Sets : tasks'[g] = tasks[g] \/ (tasks'[g] = 0 /\ Retired(g)),
           cleaner' \in Cleaner, jobFaults' \in 0..MaxJobFaults, CleaningKept'
    PROVE  LabelJobsIInv'
  <1>1. job \in Job /\ \A g \in Sets : tasks[g] \in Nat /\ tasks'[g] \in Nat
    BY LabelJobsAssumption DEF LabelJobsIInv, LabelJobsTypeOK
  <1>2. StagesKept' /\ HoldKept'
    <2>1. \A g \in Sets : g = job.set => tasks'[g] <= tasks[g]
      BY <1>1
    <2> QED
      BY <1>1, <2>1, TasksStep
  <1>3. SetsNumbered'
    BY <1>1 DEF LabelJobsIInv, SetsNumbered, HasRows
  <1>4. BuildsKept'
    <2>1. ASSUME NEW b \in Builders, build[b].at = "publish", job.life = "ready", job.building = build[b].set
          PROVE  tasks'[build[b].set] = Batches
      <3>1. build[b].set \in Sets /\ tasks[build[b].set] = Batches /\ ~Retired(build[b].set)
        BY <2>1 DEF LabelJobsIInv, BuildsKept, Retired
      <3> QED
        BY <3>1
    <2> QED
      BY <2>1 DEF LabelJobsIInv, BuildsKept
  <1>5. PublishedIsWhole'
    BY <1>1 DEF LabelJobsIInv, PublishedIsWhole, Retired, Job
  <1> QED
    BY <1>2, <1>3, <1>4, <1>5 DEF LabelJobsIInv, LabelJobsTypeOK

LEMMA OpenTaskStep ==
    ASSUME LabelJobsIInv, OpenTask
    PROVE  LabelJobsIInv'
  <1>1. labeller' \in Sets \cup {NoSet} /\ labeller' <= built
    BY DEF OpenTask, LabelJobsIInv, LabelJobsTypeOK, SetsNumbered, Job
  <1> QED
    BY <1>1, RowsStep DEF OpenTask, LabelJobsIInv, LabelJobsTypeOK, CleaningKept, Retired

LEMMA WriteLabelStep ==
    ASSUME LabelJobsIInv, WriteLabel
    PROVE  LabelJobsIInv'
  <1>1. labeller \in Sets /\ labeller <= built /\ NoSet <= built
    BY DEF WriteLabel, LabelJobsIInv, LabelJobsTypeOK, SetsNumbered, NoSet
  <1> QED
    BY <1>1, RowsStep DEF WriteLabel, LabelJobsIInv, LabelJobsTypeOK, CleaningKept, Retired

LEMMA CheckRetiredStep ==
    ASSUME LabelJobsIInv, NEW g \in Sets, CheckRetired(g)
    PROVE  LabelJobsIInv'
  <1> USE DEF CheckRetired
  <1>1. cleaner' \in Cleaner /\ cleaner'.set = g
    BY DEF Cleaner
  <1>2. g <= built
    BY DEF LabelJobsIInv, SetsNumbered
  <1>3. CleaningKept'
    BY <1>1, <1>2 DEF CleaningKept, Retired
  <1> QED
    BY <1>1, <1>3, RowsStep DEF LabelJobsIInv, LabelJobsTypeOK, SetsNumbered

LEMMA CleanLabelsStep ==
    ASSUME LabelJobsIInv, CleanLabels
    PROVE  LabelJobsIInv'
  <1> USE DEF CleanLabels
  <1>1. cleaner' \in Cleaner /\ (cleaner'.at # "idle" => cleaner'.set = cleaner.set)
    BY DEF LabelJobsIInv, LabelJobsTypeOK, Cleaner, Resting
  <1>2. jobFaults' \in 0..MaxJobFaults
    BY LabelJobsAssumption DEF LabelJobsIInv, LabelJobsTypeOK
  <1>3. labels' \subseteq labels
    OBVIOUS
  <1>4. CleaningKept'
    BY <1>1 DEF LabelJobsIInv, CleaningKept, Retired
  <1> QED
    BY <1>1, <1>2, <1>3, <1>4, RowsStep DEF LabelJobsIInv, LabelJobsTypeOK, SetsNumbered

LEMMA CleanTasksStep ==
    ASSUME LabelJobsIInv, CleanTasks
    PROVE  LabelJobsIInv'
  <1> USE DEF CleanTasks
  <1>1. cleaner.set \in Sets /\ Retired(cleaner.set)
    BY DEF LabelJobsIInv, CleaningKept
  <1>2. /\ tasks' \in [Sets -> 0..Batches]
        /\ \A g \in Sets : tasks'[g] = tasks[g] \/ (tasks'[g] = 0 /\ Retired(g))
    BY <1>1, LabelJobsAssumption DEF LabelJobsIInv, LabelJobsTypeOK
  <1>3. cleaner' \in Cleaner /\ CleaningKept'
    BY DEF Cleaner, Resting, CleaningKept
  <1> QED
    BY <1>2, <1>3, RowsStep DEF LabelJobsIInv, LabelJobsTypeOK, SetsNumbered

-----------------------------------------------------------------------------
LEMMA LabelJobsStarts == LabelJobsInit => LabelJobsIInv
  <1> SUFFICES ASSUME LabelJobsInit PROVE LabelJobsIInv
    OBVIOUS
  <1> USE DEF LabelJobsInit
  <1>1. /\ job \in Job /\ job.life = "none" /\ job.set = NoSet /\ job.building = NoSet
        /\ \A b \in Builders : build[b] = NoBuild
        /\ NoBuild \in Build /\ NoBuild.at = "idle" /\ NoBuild.set = NoSet
    BY DEF NewJob, Job, NoBuild, Build
  <1>2. LabelJobsTypeOK
    <2>1. cleaner \in Cleaner /\ work \in [Workers -> Work]
      BY DEF Cleaner, Resting, Work
    <2>2. build \in [Builders -> Build]
      BY <1>1
    <2> QED
      BY <1>1, <2>1, <2>2, LabelJobsAssumption DEF LabelJobsTypeOK
  <1>3. StagesKept /\ HoldKept
    BY <1>1 DEF StagesKept, HoldKept, HoldFollowsJob, DeletingAt, Calls
  <1>4. SetsNumbered
    BY <1>1 DEF SetsNumbered, HasRows, NoSet
  <1>5. BuildsKept /\ CleaningKept /\ PublishedIsWhole
    BY <1>1 DEF BuildsKept, CleaningKept, PublishedIsWhole, Resting
  <1> QED
    BY <1>2, <1>3, <1>4, <1>5 DEF LabelJobsIInv

LEMMA LabelJobsSteps == LabelJobsIInv /\ [LabelJobsNext]_jobVars => LabelJobsIInv'
  <1> SUFFICES ASSUME LabelJobsIInv, [LabelJobsNext]_jobVars PROVE LabelJobsIInv'
    OBVIOUS
  <1>1. CASE CreateJob \/ LapseLifecycle \/ DeleteDataset \/ \E c \in Calls : Arrive(c)
    BY <1>1, CreateJobStep, LapseLifecycleStep, DeleteDatasetStep, ArriveStep
  <1>2. CASE (\E w \in Deleters : BeginDeletion(w)) \/ (\E w \in Recoverers : RecoverLifecycle(w))
    BY <1>2, BeginDeletionStep, RecoverLifecycleStep
  <1>3. ASSUME NEW w \in Workers, Works(w) \/ WorkerDies(w)
        PROVE  LabelJobsIInv'
    BY <1>3, RenewStep, AddHoldStep, MakeReadyStep, RefuseCreationStep, RemoveLabelsStep, RemoveTasksStep,
       RemoveHoldStep, RemoveJobStep, ReleaseLeaseStep, WorkerDiesStep DEF Works
  <1>4. ASSUME NEW b \in Builders, ReadDraft(b) \/ Builds(b) \/ BuilderDies(b)
        PROVE  LabelJobsIInv'
    BY <1>4, ReadDraftStep, BeginTaskSetStep, RenewTaskSetStep, InsertBatchStep, PublishTaskSetStep,
       AbandonTaskSetStep, BuilderDiesStep DEF Builds
  <1>5. CASE LapseBuild \/ OpenTask \/ WriteLabel \/ \E to \in {"active", "archived"} : Transition(to)
    BY <1>5, LapseBuildStep, OpenTaskStep, WriteLabelStep, TransitionStep
  <1>6. CASE Cleans
    BY <1>6, ExpireBuildStep, CheckRetiredStep, CleanLabelsStep, CleanTasksStep DEF Cleans
  <1>7. CASE UNCHANGED jobVars
    <2>1. /\ UNCHANGED <<job, dataset, late, tasks, labels, work>>
          /\ UNCHANGED <<build, built, labeller, cleaner, jobFaults>>
      BY <1>7 DEF jobVars
    <2> QED
      BY <2>1, DraftStep DEF LabelJobsIInv, LabelJobsTypeOK
  <1> QED
    BY <1>1, <1>2, <1>3, <1>4, <1>5, <1>6, <1>7 DEF LabelJobsNext

\* The lease, the hold, the numbers of the sets and the builds fit together in every reachable
\* state, however calls fail and workers, builders and sweeps interleave.
THEOREM LabelJobsInvariance == LabelJobsSpec => []LabelJobsIInv
  <1>1. LabelJobsInit => LabelJobsIInv
    BY LabelJobsStarts
  <1>2. LabelJobsIInv /\ [LabelJobsNext]_jobVars => LabelJobsIInv'
    BY LabelJobsSteps
  <1> QED
    BY <1>1, <1>2, PTL DEF LabelJobsSpec

\* A job in use holds its dataset, and one being deleted keeps the hold while it shows tasks: also
\* beside calls that arrive late and requests that outlived their lease.
THEOREM HoldFollows == LabelJobsSpec => []HoldFollowsJob
  <1>1. LabelJobsIInv => HoldFollowsJob
    BY DEF LabelJobsIInv, HoldKept
  <1> QED
    BY <1>1, LabelJobsInvariance, PTL

\* The set an open job shows has all its tasks, whatever builds expired and sweeps removed.
THEOREM PublishedWhole == LabelJobsSpec => []PublishedIsWhole
  <1>1. LabelJobsIInv => PublishedIsWhole
    BY DEF LabelJobsIInv
  <1> QED
    BY <1>1, LabelJobsInvariance, PTL

-----------------------------------------------------------------------------
(* The lease on the lifecycle, where neither calls nor requests outlive it. *)

CreatingAt == {"renew", "hold", "ready", "refuse"}

\* Whoever is at work has the lease, and the job is at the stage the work is for.
LeaseKept ==
    \A w \in Workers : work[w] # "idle" =>
       /\ job.token = w /\ job.leased
       /\ work[w] \in CreatingAt => job.life = "creating"
       /\ work[w] \in DeletingAt => job.life = "deleting"

\* A confirmed release is final: no call is on its way to take the hold again.
ReleaseKept ==
    /\ HoldEndsWithJob
    /\ \A w \in Workers : work[w] = "remove" => dataset # "held"
    /\ \A c \in Calls : late[c] = 0

LeaseIInv == LeaseKept /\ ReleaseKept

\* Nobody else is at work beside one who is, nor when the lease is free.
LEMMA OneAtWork ==
    ASSUME LeaseKept, NEW w \in Workers, work[w] # "idle" \/ ~job.leased
    PROVE  \A v \in Workers : v # w => work[v] = "idle"
    BY DEF LeaseKept

\* The one at work goes on with the lease, or ends without it.
LEMMA LeaseStep ==
    ASSUME LabelJobsTypeOK, ReleaseKept, UNCHANGED late,
           NEW w \in Workers, NEW at \in Work, WorksAt(w, at),
           \A v \in Workers : v # w => work[v] = "idle",
           at # "idle" => job'.token = w /\ job'.leased,
           at \in CreatingAt => job'.life = "creating",
           at \in DeletingAt => job'.life = "deleting",
           at = "remove" => dataset' # "held",
           HoldEndsWithJob'
    PROVE  LeaseIInv'
  <1>1. /\ work'[w] = at
        /\ \A v \in Workers : v # w => work'[v] = "idle"
    BY WorksAtFacts DEF LabelJobsTypeOK
  <1>2. LeaseKept'
    BY <1>1 DEF LeaseKept, CreatingAt, DeletingAt
  <1>3. ReleaseKept'
    BY <1>1 DEF ReleaseKept
  <1> QED
    BY <1>2, <1>3 DEF LeaseIInv

\* A request or a recovery that takes the lease finds nobody at work.
LEMMA ClaimLeaseStep ==
    ASSUME LabelJobsIInv, LeaseIInv, NEW w \in Workers,
           \/ w = "creator" /\ CreateJob
           \/ BeginDeletion(w)
           \/ RecoverLifecycle(w)
    PROVE  LeaseIInv'
  <1>1. PICK life \in {"creating", "deleting"}, at \in {"renew", "begin"} :
           /\ job' = Leased(life, w) /\ WorksAt(w, at)
           /\ life = "creating" <=> at = "renew"
    BY DEF CreateJob, BeginDeletion, RecoverLifecycle
  <1>2. at \in Work /\ job \in Job
    BY DEF Work, LabelJobsIInv, LabelJobsTypeOK
  <1>3. job'.life = life /\ job'.token = w /\ job'.leased
    BY <1>1, <1>2, LeasedFacts
  <1>4. \A v \in Workers : v # w => work[v] = "idle"
    <2>1. CASE job.life = "none"
      BY <2>1 DEF LabelJobsIInv, StagesKept
    <2>2. CASE job.life # "none"
      BY <2>2, OneAtWork DEF LeaseIInv, CreateJob, BeginDeletion, RecoverLifecycle
    <2> QED
      BY <2>1, <2>2
  <1>5. UNCHANGED late /\ HoldEndsWithJob'
    BY <1>3 DEF CreateJob, BeginDeletion, RecoverLifecycle, HoldEndsWithJob
  <1> QED
    BY <1>1, <1>2, <1>3, <1>4, <1>5, LeaseStep DEF LabelJobsIInv, LeaseIInv, CreatingAt, DeletingAt

\* The owner's writes always find their document.
LEMMA OwnLeaseStep ==
    ASSUME LabelJobsIInv, LeaseIInv, NEW w \in Workers,
           Renew(w) \/ MakeReady(w) \/ RefuseCreation(w) \/ RemoveJob(w) \/ ReleaseLease(w)
    PROVE  LeaseIInv'
  <1>1. /\ LabelJobsTypeOK /\ job \in Job /\ LeaseKept /\ ReleaseKept /\ "idle" \in Work
        /\ work[w] # "idle" /\ \A v \in Workers : v # w => work[v] = "idle"
        /\ job.token = w /\ job.leased
        /\ UNCHANGED <<dataset, late>>
    BY OneAtWork DEF LabelJobsIInv, LabelJobsTypeOK, LeaseIInv, LeaseKept, Work,
       Renew, MakeReady, RefuseCreation, RemoveJob, ReleaseLease
  <1>2. CASE Renew(w)
    <2>1. PICK life \in {"creating", "deleting"}, at \in {"hold", "labels", "unhold"} :
             /\ job' = Leased(life, w) /\ WorksAt(w, at)
             /\ life = "creating" <=> at = "hold"
      <3>1. Owned(w, IF work[w] = "renew" THEN "creating" ELSE "deleting")
        BY <1>1, <1>2 DEF LeaseKept, Renew, Owned, CreatingAt, DeletingAt
      <3> QED
        BY <1>2, <3>1 DEF Renew
    <2>2. job'.life = life /\ job'.token = w /\ job'.leased /\ at \in Work
      BY <1>1, <2>1, LeasedFacts DEF Work
    <2> QED
      BY <1>1, <2>1, <2>2, LeaseStep DEF HoldEndsWithJob, CreatingAt, DeletingAt
  <1>3. CASE MakeReady(w)
    <2>1. job' = [job EXCEPT !.life = "ready", !.token = NoWorker, !.leased = FALSE] /\ WorksAt(w, "idle")
      BY <1>1, <1>3 DEF MakeReady, Owned, LeaseKept, CreatingAt
    <2>2. job'.life = "ready"
      BY <1>1, <2>1, ReadyFacts
    <2> QED
      BY <1>1, <2>1, <2>2, LeaseStep DEF HoldEndsWithJob, CreatingAt, DeletingAt
  <1>4. CASE RefuseCreation(w)
    <2>1. job' = [job EXCEPT !.life = "deleting"] /\ WorksAt(w, "begin") /\ "begin" \in Work
      BY <1>1, <1>4 DEF RefuseCreation, Owned, LeaseKept, CreatingAt, Work
    <2>2. job'.life = "deleting" /\ job'.token = w /\ job'.leased
      BY <1>1, <2>1, DeletingFacts
    <2> QED
      BY <1>1, <2>1, <2>2, LeaseStep DEF HoldEndsWithJob, CreatingAt, DeletingAt
  <1>5. CASE RemoveJob(w)
    <2>1. dataset # "held" /\ WorksAt(w, "idle")
      BY <1>1, <1>5 DEF RemoveJob, ReleaseKept
    <2> QED
      BY <1>1, <2>1, LeaseStep DEF HoldEndsWithJob, CreatingAt, DeletingAt
  <1>6. CASE ReleaseLease(w)
    <2>1. WorksAt(w, "idle") /\ job'.life = job.life
      BY <1>1, <1>6, ReleasedFacts DEF ReleaseLease
    <2> QED
      BY <1>1, <2>1, LeaseStep DEF ReleaseKept, HoldEndsWithJob, CreatingAt, DeletingAt
  <1> QED
    BY <1>2, <1>3, <1>4, <1>5, <1>6

\* A call that fails ends the work, and what it did is done: nothing of it comes later.
LEMMA CallStep ==
    ASSUME ~CallsLinger, LabelJobsIInv, LeaseIInv, NEW w \in Workers,
           AddHold(w) \/ RemoveLabels(w) \/ RemoveTasks(w) \/ RemoveHold(w) \/ WorkerDies(w)
    PROVE  LeaseIInv'
  <1>1. /\ LabelJobsTypeOK /\ LeaseKept /\ ReleaseKept
        /\ work[w] # "idle" /\ \A v \in Workers : v # w => work[v] = "idle"
        /\ job.token = w /\ job.leased /\ job' = job
    BY OneAtWork DEF LabelJobsIInv, LeaseIInv, LeaseKept, AddHold, RemoveLabels, RemoveTasks, RemoveHold, WorkerDies
  <1>2. PICK at \in {"refuse", "ready", "release", "tasks", "again", "remove", "idle"} :
           /\ WorksAt(w, at)
           /\ at \in {"refuse", "ready"} => work[w] = "hold"
           /\ at \in {"tasks", "again", "remove"} => work[w] \in {"labels", "tasks", "unhold"}
           /\ at = "remove" => dataset' # "held"
    BY DEF AddHold, RemoveLabels, RemoveTasks, RemoveHold, WorkerDies, CallFails, Served
  <1>3. UNCHANGED late
    <2>1. \/ UNCHANGED late
          \/ \E call \in Calls : Uncertain(call)
      BY DEF AddHold, RemoveLabels, RemoveTasks, RemoveHold, WorkerDies, Calls
    <2> QED
      BY <1>1, <2>1, UncertainFacts
  <1>4. job.life # "gone" \/ UNCHANGED dataset
    BY <1>1 DEF AddHold, RemoveLabels, RemoveTasks, RemoveHold, WorkerDies, LeaseKept, CreatingAt, DeletingAt, Calls
  <1>5. HoldEndsWithJob'
    BY <1>1, <1>4 DEF ReleaseKept, HoldEndsWithJob
  <1>6. /\ at \in Work
        /\ at \in CreatingAt => job'.life = "creating"
        /\ at \in DeletingAt => job'.life = "deleting"
    BY <1>1, <1>2 DEF Work, LeaseKept, CreatingAt, DeletingAt
  <1> QED
    BY <1>1, <1>2, <1>3, <1>5, <1>6, LeaseStep

\* What goes on beside the lifecycle touches neither the lease nor the hold.
LEMMA BesideStep ==
    ASSUME LeaseIInv, UNCHANGED <<dataset, late, work>>,
           job'.life = job.life, job'.token = job.token, job'.leased = job.leased
    PROVE  LeaseIInv'
    BY DEF LeaseIInv, LeaseKept, ReleaseKept, HoldEndsWithJob

LEMMA BuildsBeside ==
    ASSUME LabelJobsIInv, LeaseIInv, NEW b \in Builders, ReadDraft(b) \/ Builds(b) \/ BuilderDies(b)
    PROVE  LeaseIInv'
  <1>1. job \in Job
    BY DEF LabelJobsIInv, LabelJobsTypeOK
  <1>2. /\ UNCHANGED <<dataset, late, work>>
        /\ job'.life = job.life /\ job'.token = job.token /\ job'.leased = job.leased
    BY <1>1 DEF Job, ReadDraft, Builds, BuilderDies, BeginTaskSet, RenewTaskSet, InsertBatch, PublishTaskSet,
       AbandonTaskSet
  <1> QED
    BY <1>2, BesideStep

LEMMA LeaseSteps ==
    ASSUME ~CallsLinger, ~RequestsPause
    PROVE  LabelJobsIInv /\ LeaseIInv /\ [LabelJobsNext]_jobVars => LeaseIInv'
  <1> SUFFICES ASSUME LabelJobsIInv, LeaseIInv, [LabelJobsNext]_jobVars PROVE LeaseIInv'
    OBVIOUS
  <1>1. job \in Job /\ "creator" \in Workers /\ Deleters \cup Recoverers \subseteq Workers
    BY DEF LabelJobsIInv, LabelJobsTypeOK, Workers
  <1>2. CASE \/ CreateJob
             \/ \E w \in Deleters : BeginDeletion(w)
             \/ \E w \in Recoverers : RecoverLifecycle(w)
    BY <1>1, <1>2, ClaimLeaseStep
  <1>3. ASSUME NEW w \in Workers, Works(w) \/ WorkerDies(w)
        PROVE  LeaseIInv'
    BY <1>3, OwnLeaseStep, CallStep DEF Works
  <1>4. CASE LapseLifecycle
    <2>1. \A w \in Workers : work[w] = "idle"
      BY <1>4 DEF LapseLifecycle, LeaseIInv, LeaseKept
    <2>2. job'.life = job.life /\ UNCHANGED <<work, dataset, late>>
      BY <1>1, <1>4, LapsedFacts DEF LapseLifecycle
    <2> QED
      BY <2>1, <2>2 DEF LeaseIInv, LeaseKept, ReleaseKept, HoldEndsWithJob
  <1>5. CASE DeleteDataset
    BY <1>5 DEF DeleteDataset, LeaseIInv, LeaseKept, ReleaseKept, HoldEndsWithJob
  <1>6. ~\E c \in Calls : Arrive(c)
    BY DEF Arrive, LeaseIInv, ReleaseKept
  <1>7. ASSUME NEW b \in Builders, ReadDraft(b) \/ Builds(b) \/ BuilderDies(b)
        PROVE  LeaseIInv'
    BY <1>7, BuildsBeside
  <1>8. CASE LapseBuild \/ OpenTask \/ WriteLabel \/ (\E to \in {"active", "archived"} : Transition(to)) \/ Cleans
    <2>1. /\ UNCHANGED <<dataset, late, work>>
          /\ job'.life = job.life /\ job'.token = job.token /\ job'.leased = job.leased
      BY <1>1, <1>8 DEF Job, LapseBuild, OpenTask, WriteLabel, Transition, Cleans, ExpireBuild, CheckRetired,
         CleanLabels, CleanTasks
    <2> QED
      BY <2>1, BesideStep
  <1>9. CASE UNCHANGED jobVars
    BY <1>9, BesideStep DEF jobVars
  <1> QED
    BY <1>2, <1>3, <1>4, <1>5, <1>6, <1>7, <1>8, <1>9 DEF LabelJobsNext

\* A job that is gone left no hold behind, where no call and no request outlives the lease.
THEOREM HoldsEnd ==
    ASSUME ~CallsLinger, ~RequestsPause
    PROVE  LabelJobsSpec => []HoldEndsWithJob
  <1>1. LabelJobsInit => LeaseIInv
    BY DEF LabelJobsInit, NewJob, LeaseIInv, LeaseKept, ReleaseKept, HoldEndsWithJob
  <1>2. LabelJobsIInv /\ LeaseIInv /\ [LabelJobsNext]_jobVars => LeaseIInv'
    BY LeaseSteps
  <1>3. LeaseIInv => HoldEndsWithJob
    BY DEF LeaseIInv, ReleaseKept
  <1> QED
    BY <1>1, <1>2, <1>3, LabelJobsInvariance, PTL DEF LabelJobsSpec

-----------------------------------------------------------------------------
(* The tasks and who answers them: the inductive invariant. *)

\* A request in flight is of somebody, about a task.
InFlight ==
    \A s \in Submissions : submission[s].at # "idle" =>
        submission[s].frame \in Frames /\ submission[s].who \in Annotators

\* A task's count is the number of those who answered it.
CountsKept ==
    \A f \in Frames : IsFiniteSet(task[f].answered) /\ task[f].count = Cardinality(task[f].answered)

Finished == \A f \in Frames : task[f].count >= REDUNDANCY
Tallying == \E s \in Submissions : submission[s].at \in {"tally", "complete"}

\* Who is about to complete the job saw every task answered; with all of them answered, somebody is
\* on the way to complete it, unless a request died or the job was paused.
CompletionKept ==
    /\ \A s \in Submissions : submission[s].at = "complete" => Finished
    /\ phase = "completed" => Finished
    /\ phase = "paused" => paused
    /\ Finished /\ ~Tallying /\ lost = 0 /\ ~paused => phase = "completed"

LabelTasksIInv == LabelTasksTypeOK /\ InFlight /\ CountsKept /\ CompletionKept

-----------------------------------------------------------------------------
LEMMA GotoFacts ==
    ASSUME submission \in [Submissions -> Submission], NEW s \in Submissions,
           NEW at \in {"idle", "judge", "write", "count", "tally", "complete"}, Goto(s, at)
    PROVE  /\ submission' \in [Submissions -> Submission]
           /\ submission'[s].at = at
           /\ at # "idle" => submission'[s].frame = submission[s].frame /\ submission'[s].who = submission[s].who
           /\ \A t \in Submissions : t # s => submission'[t] = submission[t]
  <1>1. NoSubmission \in Submission /\ NoSubmission.at = "idle"
    BY DEF NoSubmission, Submission
  <1>2. CASE at = "idle"
    BY <1>1, <1>2 DEF Goto
  <1>3. CASE at # "idle"
    BY <1>3 DEF Goto, Submission
  <1> QED
    BY <1>2, <1>3

\* A request goes on and the tasks stay as they are.
LEMMA OnItsWay ==
    ASSUME LabelTasksIInv, NEW s \in Submissions, UNCHANGED <<task, phase, paused>>,
           submission' \in [Submissions -> Submission],
           submission'[s].at # "idle" => submission'[s].frame \in Frames /\ submission'[s].who \in Annotators,
           \A t \in Submissions : t # s => submission'[t] = submission[t],
           annotation' \in [Frames -> [Annotators -> Annotation]], lost' \in 0..MaxLost,
           submission'[s].at = "complete" => Finished,
           submission[s].at \in {"tally", "complete"} =>
              submission'[s].at \in {"tally", "complete"} \/ ~Finished \/ lost' # 0,
           lost' = 0 => lost = 0
    PROVE  LabelTasksIInv'
  <1>1. LabelTasksTypeOK'
    BY DEF LabelTasksIInv, LabelTasksTypeOK
  <1>2. InFlight' /\ CountsKept'
    BY DEF LabelTasksIInv, InFlight, CountsKept
  <1>3. CompletionKept'
    <2>1. Finished' <=> Finished
      BY DEF Finished
    <2>2. \A t \in Submissions : submission'[t].at = "complete" => Finished
      BY DEF LabelTasksIInv, CompletionKept
    <2>3. Finished /\ ~Tallying' /\ lost' = 0 => ~Tallying
      BY DEF Tallying
    <2> QED
      BY <2>1, <2>2, <2>3 DEF LabelTasksIInv, CompletionKept
  <1> QED
    BY <1>1, <1>2, <1>3 DEF LabelTasksIInv

LEMMA SubmitStep ==
    ASSUME LabelTasksIInv, NEW s \in Submissions, NEW f \in Frames, NEW a \in Annotators,
           NEW outcome \in {"draft", "done", "skipped"}, Submit(s, f, a, outcome)
    PROVE  LabelTasksIInv'
  <1> DEFINE new == [at |-> "judge", frame |-> f, who |-> a, outcome |-> outcome,
                     phase |-> phase, reopens |-> FALSE]
  <1>1. new \in Submission /\ new.at = "judge" /\ new.frame = f /\ new.who = a
    BY DEF LabelTasksIInv, LabelTasksTypeOK, Submission
  <1>2. submission' = [submission EXCEPT ![s] = new]
    BY DEF Submit
  <1> HIDE DEF new
  <1>3. /\ submission' \in [Submissions -> Submission]
        /\ submission'[s] = new
        /\ \A t \in Submissions : t # s => submission'[t] = submission[t]
    BY <1>1, <1>2 DEF LabelTasksIInv, LabelTasksTypeOK
  <1> QED
    BY <1>1, <1>3, OnItsWay DEF Submit, LabelTasksIInv, LabelTasksTypeOK

LEMMA JudgeStep ==
    ASSUME LabelTasksIInv, NEW s \in Submissions, Judge(s)
    PROVE  LabelTasksIInv'
  <1> USE DEF Judge
  <1>1. submission \in [Submissions -> Submission]
    BY DEF LabelTasksIInv, LabelTasksTypeOK
  <1>2. /\ submission' \in [Submissions -> Submission]
        /\ submission'[s].at \in {"idle", "write"}
        /\ submission'[s].at # "idle" =>
              submission'[s].frame = submission[s].frame /\ submission'[s].who = submission[s].who
        /\ \A t \in Submissions : t # s => submission'[t] = submission[t]
    <2>1. CASE Goto(s, "idle")
      BY <1>1, <2>1, GotoFacts
    <2>2. CASE ~Goto(s, "idle")
      BY <1>1, <2>2 DEF Submission
    <2> QED
      BY <2>1, <2>2
  <1> QED
    BY <1>2, OnItsWay DEF LabelTasksIInv, LabelTasksTypeOK, InFlight

LEMMA WriteAnnotationStep ==
    ASSUME LabelTasksIInv, NEW s \in Submissions, WriteAnnotation(s)
    PROVE  LabelTasksIInv'
  <1> USE DEF WriteAnnotation
  <1>1. /\ submission \in [Submissions -> Submission]
        /\ submission[s].frame \in Frames /\ submission[s].who \in Annotators
    BY DEF LabelTasksIInv, LabelTasksTypeOK, InFlight
  <1>2. PICK at \in {"idle", "count"} : Goto(s, at)
    OBVIOUS
  <1>3. /\ submission' \in [Submissions -> Submission]
        /\ submission'[s].at = at
        /\ at # "idle" => submission'[s].frame = submission[s].frame /\ submission'[s].who = submission[s].who
        /\ \A t \in Submissions : t # s => submission'[t] = submission[t]
    BY <1>1, <1>2, GotoFacts
  <1>4. annotation' \in [Frames -> [Annotators -> Annotation]]
    BY <1>1 DEF LabelTasksIInv, LabelTasksTypeOK, Mine, Annotation, Submission
  <1> QED
    BY <1>1, <1>3, <1>4, OnItsWay DEF LabelTasksIInv, LabelTasksTypeOK

\* The count follows the set of those who answered, so it never goes down, and whoever raised it
\* goes on to look at the others.
LEMMA RecordTaskCompletionStep ==
    ASSUME LabelTasksIInv, NEW s \in Submissions, RecordTaskCompletion(s)
    PROVE  LabelTasksIInv'
  <1> USE DEF RecordTaskCompletion
  <1> DEFINE f == submission[s].frame
             who == submission[s].who
             first == who \notin task[f].answered
             at == IF first THEN "tally" ELSE "idle"
             new == [count |-> IF first THEN task[f].count + 1 ELSE task[f].count,
                     answered |-> task[f].answered \cup {who}]
  <1>1. /\ submission \in [Submissions -> Submission] /\ task \in [Frames -> Task]
        /\ f \in Frames /\ who \in Annotators
        /\ task[f].count \in Nat /\ task[f].answered \subseteq Annotators /\ REDUNDANCY \in Nat
    BY LabelTasksAssumption DEF LabelTasksIInv, LabelTasksTypeOK, InFlight, Task
  <1>2. Goto(s, at) /\ at \in {"idle", "tally"} /\ task' = [task EXCEPT ![f] = new]
    OBVIOUS
  <1>3. new \in Task /\ new.count >= task[f].count /\ (~first => new.count = task[f].count)
    BY <1>1 DEF Task
  <1>4. IsFiniteSet(new.answered) /\ new.count = Cardinality(new.answered)
    <2>1. IsFiniteSet(task[f].answered) /\ task[f].count = Cardinality(task[f].answered)
      BY <1>1 DEF LabelTasksIInv, CountsKept
    <2>2. /\ IsFiniteSet(task[f].answered \cup {who})
          /\ Cardinality(task[f].answered \cup {who}) =
                IF who \in task[f].answered THEN Cardinality(task[f].answered)
                ELSE Cardinality(task[f].answered) + 1
      BY <2>1, FS_AddElement
    <2> QED
      BY <2>1, <2>2
  <1> HIDE DEF new
  <1>5. /\ task' \in [Frames -> Task] /\ task'[f] = new
        /\ \A g \in Frames : g # f => task'[g] = task[g]
    BY <1>1, <1>2, <1>3
  <1> HIDE DEF at
  <1>6. /\ submission' \in [Submissions -> Submission]
        /\ submission'[s].at = at
        /\ at # "idle" => submission'[s].frame = f /\ submission'[s].who = who
        /\ \A t \in Submissions : t # s => submission'[t] = submission[t]
    BY <1>1, <1>2, GotoFacts
  <1>7. LabelTasksTypeOK'
    BY <1>5, <1>6 DEF LabelTasksIInv, LabelTasksTypeOK
  <1>8. InFlight'
    BY <1>1, <1>6 DEF LabelTasksIInv, InFlight
  <1>9. CountsKept'
    BY <1>4, <1>5 DEF LabelTasksIInv, CountsKept
  <1>10. CompletionKept'
    <2>1. \A g \in Frames : task[g].count \in Nat /\ task'[g].count \in Nat /\ task'[g].count >= task[g].count
      BY <1>1, <1>3, <1>5 DEF Task
    <2>2. Finished => Finished'
      BY <1>1, <2>1 DEF Finished
    <2>3. ~first => (Finished' <=> Finished) /\ (Tallying => Tallying')
      BY <1>3, <1>5, <1>6 DEF Finished, Tallying
    <2>4. first => Tallying'
      BY <1>6 DEF Tallying, at
    <2>5. \A t \in Submissions : submission'[t].at = "complete" => submission[t].at = "complete"
      BY <1>2, <1>6
    <2> QED
      BY <2>2, <2>3, <2>4, <2>5 DEF LabelTasksIInv, CompletionKept
  <1> QED
    BY <1>7, <1>8, <1>9, <1>10 DEF LabelTasksIInv

LEMMA CountRemainingStep ==
    ASSUME LabelTasksIInv, NEW s \in Submissions, CountRemaining(s)
    PROVE  LabelTasksIInv'
  <1> USE DEF CountRemaining
  <1>1. submission \in [Submissions -> Submission]
    BY DEF LabelTasksIInv, LabelTasksTypeOK
  <1>2. PICK at \in {"idle", "complete"} : Goto(s, at) /\ (at = "complete" <=> Finished)
    BY DEF Finished
  <1>3. /\ submission' \in [Submissions -> Submission]
        /\ submission'[s].at = at
        /\ at # "idle" => submission'[s].frame = submission[s].frame /\ submission'[s].who = submission[s].who
        /\ \A t \in Submissions : t # s => submission'[t] = submission[t]
    BY <1>1, <1>2, GotoFacts
  <1> QED
    BY <1>2, <1>3, OnItsWay DEF LabelTasksIInv, LabelTasksTypeOK, InFlight

LEMMA CompleteJobStep ==
    ASSUME LabelTasksIInv, NEW s \in Submissions, CompleteJob(s)
    PROVE  LabelTasksIInv'
  <1> USE DEF CompleteJob
  <1>1. submission \in [Submissions -> Submission] /\ Finished
    BY DEF LabelTasksIInv, LabelTasksTypeOK, CompletionKept
  <1>2. /\ submission' \in [Submissions -> Submission]
        /\ submission'[s].at = "idle"
        /\ \A t \in Submissions : t # s => submission'[t] = submission[t]
    BY <1>1, GotoFacts
  <1>3. LabelTasksTypeOK'
    BY <1>2 DEF LabelTasksIInv, LabelTasksTypeOK
  <1>4. InFlight' /\ CountsKept'
    BY <1>2 DEF LabelTasksIInv, InFlight, CountsKept
  <1>5. CompletionKept'
    <2>1. Finished'
      BY <1>1 DEF Finished
    <2>2. phase' = "completed" \/ (phase' = "paused" /\ paused')
      BY DEF LabelTasksIInv, LabelTasksTypeOK, CompletionKept
    <2> QED
      BY <2>1, <2>2 DEF CompletionKept
  <1> QED
    BY <1>3, <1>4, <1>5 DEF LabelTasksIInv

LEMMA LoseRequestStep ==
    ASSUME LabelTasksIInv, NEW s \in Submissions, LoseRequest(s)
    PROVE  LabelTasksIInv'
  <1> USE DEF LoseRequest
  <1>1. submission \in [Submissions -> Submission] /\ lost' \in 0..MaxLost /\ lost' # 0
    BY LabelTasksAssumption DEF LabelTasksIInv, LabelTasksTypeOK
  <1>2. /\ submission' \in [Submissions -> Submission]
        /\ submission'[s].at = "idle"
        /\ \A t \in Submissions : t # s => submission'[t] = submission[t]
    BY <1>1, GotoFacts
  <1> QED
    BY <1>1, <1>2, OnItsWay DEF LabelTasksIInv, LabelTasksTypeOK

LEMMA PauseStep ==
    ASSUME LabelTasksIInv, PauseJob \/ ResumeJob
    PROVE  LabelTasksIInv'
  <1> USE DEF PauseJob, ResumeJob
  <1>1. paused'
    BY DEF LabelTasksIInv, CompletionKept
  <1>2. LabelTasksTypeOK' /\ InFlight' /\ CountsKept'
    BY DEF LabelTasksIInv, LabelTasksTypeOK, InFlight, CountsKept
  <1>3. CompletionKept'
    BY <1>1 DEF LabelTasksIInv, CompletionKept, Finished, Tallying
  <1> QED
    BY <1>2, <1>3 DEF LabelTasksIInv

-----------------------------------------------------------------------------
LEMMA LabelTasksStarts == LabelTasksInit => LabelTasksIInv
  <1> SUFFICES ASSUME LabelTasksInit PROVE LabelTasksIInv
    OBVIOUS
  <1> USE DEF LabelTasksInit
  <1>1. /\ NoSubmission \in Submission /\ NoSubmission.at = "idle"
        /\ NewTask \in Task /\ NewTask.count = 0 /\ NewTask.answered = {}
    BY DEF NoSubmission, Submission, NewTask, Task
  <1>2. LabelTasksTypeOK
    <2>1. task \in [Frames -> Task] /\ submission \in [Submissions -> Submission]
      BY <1>1
    <2>2. annotation \in [Frames -> [Annotators -> Annotation]]
      BY DEF Annotation
    <2>3. lost \in 0..MaxLost
      BY LabelTasksAssumption
    <2> QED
      BY <2>1, <2>2, <2>3 DEF LabelTasksTypeOK
  <1>3. InFlight
    BY <1>1 DEF InFlight
  <1>4. CountsKept
    BY <1>1, FS_EmptySet DEF CountsKept
  <1>5. CompletionKept
    <2>1. ~Finished
      BY <1>1, LabelTasksAssumption DEF Finished
    <2> QED
      BY <1>1, <2>1 DEF CompletionKept
  <1> QED
    BY <1>2, <1>3, <1>4, <1>5 DEF LabelTasksIInv

LEMMA LabelTasksSteps == LabelTasksIInv /\ [LabelTasksNext]_taskVars => LabelTasksIInv'
  <1> SUFFICES ASSUME LabelTasksIInv, [LabelTasksNext]_taskVars PROVE LabelTasksIInv'
    OBVIOUS
  <1>1. ASSUME NEW s \in Submissions, NEW f \in Frames, NEW a \in Annotators,
               NEW o \in {"draft", "done", "skipped"}, Submit(s, f, a, o)
        PROVE  LabelTasksIInv'
    BY <1>1, SubmitStep
  <1>2. ASSUME NEW s \in Submissions, Answers(s) \/ LoseRequest(s)
        PROVE  LabelTasksIInv'
    BY <1>2, JudgeStep, WriteAnnotationStep, RecordTaskCompletionStep, CountRemainingStep, CompleteJobStep,
       LoseRequestStep DEF Answers
  <1>3. CASE PauseJob \/ ResumeJob
    BY <1>3, PauseStep
  <1>4. CASE UNCHANGED taskVars
    BY <1>4 DEF taskVars, LabelTasksIInv, LabelTasksTypeOK, InFlight, CountsKept, CompletionKept, Finished, Tallying
  <1> QED
    BY <1>1, <1>2, <1>3, <1>4 DEF LabelTasksNext

\* In every reachable state the counts are those of the answers, and a job all of whose tasks are
\* answered is complete, about to be completed, or was disturbed.
THEOREM LabelTasksInvariance == LabelTasksSpec => []LabelTasksIInv
  <1>1. LabelTasksInit => LabelTasksIInv
    BY LabelTasksStarts
  <1>2. LabelTasksIInv /\ [LabelTasksNext]_taskVars => LabelTasksIInv'
    BY LabelTasksSteps
  <1> QED
    BY <1>1, <1>2, PTL DEF LabelTasksSpec

\* A job is completed when and only when each of its tasks has answers of enough annotators, for any
\* number of answers at once, unless a request died or the job was paused.
THEOREM CompletedIsAnswered == LabelTasksSpec => []CompletedMeansAnswered
  <1>1. LabelTasksIInv => CompletedMeansAnswered
    <2> SUFFICES ASSUME LabelTasksIInv PROVE CompletedMeansAnswered
      OBVIOUS
    <2>1. Finished <=> \A f \in Frames : Cardinality(task[f].answered) >= REDUNDANCY
      BY DEF LabelTasksIInv, CountsKept, Finished
    <2> QED
      BY <2>1 DEF LabelTasksIInv, CompletionKept, CompletedMeansAnswered, Tallying
  <1> QED
    BY <1>1, LabelTasksInvariance, PTL
================================================================================
