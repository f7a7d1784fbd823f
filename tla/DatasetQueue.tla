----------------------------- MODULE DatasetQueue -----------------------------
(***************************************************************************)
(* The BullMQ queue of dataset-service, as its producers and its worker use *)
(* it (queue/importQueue.ts, queue/importWorker.ts).  A job is addressed by *)
(* a stable id; "unknown" is what BullMQ answers for an id it holds nothing *)
(* for.  A waiting job stands for waiting and delayed (backed off) alike,   *)
(* so jobs are taken in any order.                                          *)
(*                                                                          *)
(* Every operator maps a job to the job after one queue operation; the      *)
(* modules that extend this one decide which job and when.                  *)
(***************************************************************************)
EXTENDS Naturals

CONSTANTS Workers,            \* processors: one per service instance (IMPORT_WORKERS = 1)
          NoWorker,           \* the owner of a job nobody has locked
          IMPORT_ATTEMPTS,    \* attempts a delivery gets before it fails for good
          IMPORT_MAX_STALLED  \* times a stalled job is handed out again

ASSUME QueueAssumption ==
    /\ Workers # {}
    /\ NoWorker \notin Workers
    /\ IMPORT_ATTEMPTS \in Nat \ {0}
    /\ IMPORT_MAX_STALLED \in Nat

JobState == {"unknown", "waiting", "active", "completed", "failed"}

\* `data` is the job's payload (which delivery it is for); the queue never reads it.
Job(Data) ==
    [state : JobState, attempts : 0..IMPORT_ATTEMPTS, stalls : 0..(IMPORT_MAX_STALLED + 1),
     lock : Workers \cup {NoWorker}, data : Data]

\* A job is locked only while it is active, and unless it failed for good it has an attempt left.
Budgeted(job) ==
    /\ job.lock # NoWorker => job.state = "active"
    /\ job.state # "failed" => job.attempts < IMPORT_ATTEMPTS

NoJob(data) ==
    [state |-> "unknown", attempts |-> 0, stalls |-> 0, lock |-> NoWorker, data |-> data]

Fresh(data) == [NoJob(data) EXCEPT !.state = "waiting"]

-----------------------------------------------------------------------------
(* Producers. *)

\* Queue.add with a job id: an id BullMQ still holds, even a finished one, is a duplicate.
Added(job, data) == IF job.state = "unknown" THEN Fresh(data) ELSE job

\* Mutant of Requested: a finished job is taken for one that is still to come.
RequestedOnce(job, data) == IF job.state = "unknown" THEN Fresh(data) ELSE job

\* enqueueRemoval: a retained finished job is retried with its attempts reset; its stalls still
\* count.
Requested(job, data) ==
    IF job.state \in {"completed", "failed"} THEN [Fresh(data) EXCEPT !.stalls = job.stalls]
    ELSE Added(job, data)

\* removeQueuedImport: job.remove() is refused while a worker holds the lock.
Removed(job) == IF job.lock = NoWorker THEN NoJob(job.data) ELSE job

-----------------------------------------------------------------------------
(* The worker's side. *)

Taken(job, w) == [job EXCEPT !.state = "active", !.lock = w]

Unlocked(job) == [job EXCEPT !.lock = NoWorker]

Completed(job) == [job EXCEPT !.state = "completed", !.lock = NoWorker]

Failed(job) == [job EXCEPT !.state = "failed", !.lock = NoWorker]

\* Mutant of AttemptFailed: one attempt too many.
AttemptFailedLate(job) ==
    [job EXCEPT !.attempts = @ + 1,
                !.state = IF job.attempts < IMPORT_ATTEMPTS THEN "waiting" ELSE "failed",
                !.lock = NoWorker]

\* An attempt threw: another one while the budget lasts (willRetry).
AttemptFailed(job) ==
    LET made == job.attempts + 1
    IN  [job EXCEPT !.attempts = made,
                    !.state = IF made < IMPORT_ATTEMPTS THEN "waiting" ELSE "failed",
                    !.lock = NoWorker]

\* The stalled check hands a job whose lock expired out again, up to its limit (which the counter
\* need not exceed by more than one).
Stalled(job) ==
    [job EXCEPT !.stalls = IF @ <= IMPORT_MAX_STALLED THEN @ + 1 ELSE @,
                !.state = IF job.stalls < IMPORT_MAX_STALLED THEN "waiting" ELSE "failed"]
=============================================================================
