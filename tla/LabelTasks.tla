----------------------------- MODULE LabelTasks ------------------------------
(***************************************************************************)
(* label-service: annotators at work on the published task set of a job     *)
(* (taskService.ts).  A task is handed out under a lease (nextTask), but    *)
(* no request that follows looks at it: whoever has the task's address may  *)
(* answer, with several requests in flight, and each judges the job by the  *)
(* copy it read first.  So leases, and the list of who skipped a task, only *)
(* say what is offered next and are left out.                               *)
(***************************************************************************)
EXTENDS Integers, FiniteSets

CONSTANTS Frames,           \* the tasks of the set
          Annotators,
          Submissions,      \* requests in flight at once
          REDUNDANCY,       \* answers a task needs
          MaxLost           \* bound: requests that die half-way

\* A job without tasks is not activated.
ASSUME LabelTasksAssumption == Frames # {} /\ REDUNDANCY \in Nat \ {0} /\ MaxLost \in Nat

VARIABLES task,        \* the task rows
          annotation,  \* each annotator's labels of each task
          phase,       \* status of the job
          submission,  \* requests in flight
          lost,        \* requests that died so far
          paused       \* history: the job was paused

taskVars == <<task, annotation, phase, submission, lost, paused>>

-----------------------------------------------------------------------------
Nothing == "none"

Task == [count : Nat, answered : SUBSET Annotators]
NewTask == [count |-> 0, answered |-> {}]

Annotation == {"none", "draft", "done", "skipped"}

Submission == [at : {"idle", "judge", "write", "count", "tally", "complete"},
               frame : Frames \cup {Nothing}, who : Annotators \cup {Nothing}, outcome : {"draft", "done", "skipped"},
               phase : {"active", "paused", "completed"}, reopens : BOOLEAN]
NoSubmission == [at |-> "idle", frame |-> Nothing, who |-> Nothing,
                 outcome |-> "draft", phase |-> "active", reopens |-> FALSE]

Goto(s, at) == submission' = [submission EXCEPT ![s] = IF at = "idle" THEN NoSubmission ELSE [@ EXCEPT !.at = at]]

-----------------------------------------------------------------------------
\* Any task may be opened by its address: the request reads the task and the job.
Submit(s, f, a, outcome) ==
    /\ submission[s].at = "idle"
    /\ submission' = [submission EXCEPT ![s] = [at |-> "judge", frame |-> f, who |-> a, outcome |-> outcome,
                                                phase |-> phase, reopens |-> FALSE]]
    /\ UNCHANGED <<task, annotation, phase, lost, paused>>

Mine(s) == annotation[submission[s].frame][submission[s].who]

\* assertWritable: labels are taken while the job is active, and revised when it is completed.
Writable(s) ==
    \/ submission[s].phase = "active"
    \/ submission[s].phase = "completed" /\ Mine(s) # "none"

Judge(s) ==
    /\ submission[s].at = "judge"
    /\ IF Writable(s) /\ ~(submission[s].outcome = "skipped" /\ Mine(s) = "done")
       THEN submission' = [submission EXCEPT ![s].at = "write",
                               ![s].reopens = submission[s].outcome = "draft" /\ Mine(s) = "skipped"]
       ELSE Goto(s, "idle")
    /\ UNCHANGED <<task, annotation, phase, lost, paused>>

\* Saving labels keeps the status, but a skipped frame is reopened; finishing sets it.
WriteAnnotation(s) ==
    LET r == submission[s]
        status == IF r.outcome # "draft" THEN r.outcome
                  ELSE IF r.reopens \/ Mine(s) = "none" THEN "draft" ELSE Mine(s)
    IN  /\ r.at = "write"
        /\ annotation' = [annotation EXCEPT ![r.frame][r.who] = status]
        /\ Goto(s, IF r.outcome = "done" THEN "count" ELSE "idle")
        /\ UNCHANGED <<task, phase, lost, paused>>

\* Mutant of RecordTaskCompletion: every answer counts, a repeated one too.
RecordEveryCompletion(s) ==
    LET r == submission[s]
    IN  /\ r.at = "count"
        /\ task' = [task EXCEPT ![r.frame] = [count |-> @.count + 1, answered |-> @.answered \cup {r.who}]]
        /\ Goto(s, "tally")
        /\ UNCHANGED <<annotation, phase, lost, paused>>

\* Counts an annotator once, however often the request is repeated.
RecordTaskCompletion(s) ==
    LET r == submission[s]
        first == r.who \notin task[r.frame].answered
    IN  /\ r.at = "count"
        /\ task' = [task EXCEPT ![r.frame] =
                       [count |-> IF first THEN @.count + 1 ELSE @.count,
                        answered |-> @.answered \cup {r.who}]]
        /\ Goto(s, IF first THEN "tally" ELSE "idle")
        /\ UNCHANGED <<annotation, phase, lost, paused>>

\* maybeCompleteJob: what is left is counted, ...
CountRemaining(s) ==
    /\ submission[s].at = "tally"
    /\ Goto(s, IF \A f \in Frames : task[f].count >= REDUNDANCY THEN "complete" ELSE "idle")
    /\ UNCHANGED <<task, annotation, phase, lost, paused>>

\* ... and the job completed if it is still active.
CompleteJob(s) ==
    /\ submission[s].at = "complete"
    /\ phase' = IF phase = "active" THEN "completed" ELSE phase
    /\ Goto(s, "idle")
    /\ UNCHANGED <<task, annotation, lost, paused>>

LoseRequest(s) ==
    /\ submission[s].at # "idle" /\ lost < MaxLost
    /\ lost' = lost + 1
    /\ Goto(s, "idle")
    /\ UNCHANGED <<task, annotation, phase, paused>>

PauseJob ==
    /\ phase = "active"
    /\ phase' = "paused"
    /\ paused' = TRUE
    /\ UNCHANGED <<task, annotation, submission, lost>>

ResumeJob ==
    /\ phase = "paused"
    /\ phase' = "active"
    /\ UNCHANGED <<task, annotation, submission, lost, paused>>

-----------------------------------------------------------------------------
LabelTasksInit ==
    /\ task = [f \in Frames |-> NewTask]
    /\ annotation = [f \in Frames |-> [a \in Annotators |-> "none"]]
    /\ phase = "active"
    /\ submission = [s \in Submissions |-> NoSubmission]
    /\ lost = 0
    /\ paused = FALSE

Answers(s) ==
    Judge(s) \/ WriteAnnotation(s) \/ RecordTaskCompletion(s) \/ CountRemaining(s) \/ CompleteJob(s)

LabelTasksNext ==
    \/ \E s \in Submissions, f \in Frames, a \in Annotators, o \in {"draft", "done", "skipped"} :
          Submit(s, f, a, o)
    \/ \E s \in Submissions : Answers(s) \/ LoseRequest(s)
    \/ PauseJob \/ ResumeJob

LabelTasksSpec == LabelTasksInit /\ [][LabelTasksNext]_taskVars

-----------------------------------------------------------------------------
(* Properties. *)

LabelTasksTypeOK ==
    /\ task \in [Frames -> Task]
    /\ annotation \in [Frames -> [Annotators -> Annotation]]
    /\ phase \in {"active", "paused", "completed"}
    /\ submission \in [Submissions -> Submission]
    /\ lost \in 0..MaxLost
    /\ paused \in BOOLEAN

\* A job is completed when and only when every task has answers of enough annotators: never early,
\* however often an answer is repeated, and the last one is never overlooked, also when two arrive at
\* once (recordTaskCompletion, maybeCompleteJob).  A request that dies, or a pause, may overlook it.
CompletedMeansAnswered ==
    LET all == \A f \in Frames : Cardinality(task[f].answered) >= REDUNDANCY
        busy == \E s \in Submissions : submission[s].at \in {"tally", "complete"}
    IN  /\ phase = "completed" => all
        /\ all /\ ~busy /\ lost = 0 /\ ~paused => phase = "completed"
=============================================================================
