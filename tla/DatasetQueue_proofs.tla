------------------------- MODULE DatasetQueue_proofs -------------------------
(***************************************************************************)
(* What the operations of the queue keep, whatever the payload of its jobs. *)
(***************************************************************************)
EXTENDS DatasetQueue, TLAPS

\* Every operation of the queue keeps a job typed and within its budget.
LEMMA QueueOperators ==
    ASSUME NEW Data, NEW job \in Job(Data), Budgeted(job), NEW d \in Data, NEW w \in Workers
    PROVE  /\ NoJob(d) \in Job(Data) /\ Budgeted(NoJob(d))
           /\ Added(job, d) \in Job(Data) /\ Budgeted(Added(job, d))
           /\ Requested(job, d) \in Job(Data) /\ Budgeted(Requested(job, d))
           /\ Removed(job) \in Job(Data) /\ Budgeted(Removed(job))
           /\ Unlocked(job) \in Job(Data) /\ Budgeted(Unlocked(job))
           /\ job.state = "waiting" => /\ Taken(job, w) \in Job(Data)
                                       /\ Budgeted(Taken(job, w))
           /\ job.lock = w => /\ Completed(job) \in Job(Data) /\ Budgeted(Completed(job))
                              /\ Failed(job) \in Job(Data) /\ Budgeted(Failed(job))
                              /\ AttemptFailed(job) \in Job(Data)
                              /\ Budgeted(AttemptFailed(job))
           /\ job.state = "active" /\ job.lock = NoWorker =>
                              Stalled(job) \in Job(Data) /\ Budgeted(Stalled(job))
<1>. USE QueueAssumption DEF Job, JobState, Budgeted
<1>1. \A e \in Data : NoJob(e) \in Job(Data) /\ Budgeted(NoJob(e))
  BY DEF NoJob
<1>2. Fresh(d) \in Job(Data) /\ Budgeted(Fresh(d))
  BY DEF Fresh, NoJob
<1>3. Added(job, d) \in Job(Data) /\ Budgeted(Added(job, d))
  BY <1>2 DEF Added
<1>4. Requested(job, d) \in Job(Data) /\ Budgeted(Requested(job, d))
  <2>1. [Fresh(d) EXCEPT !.stalls = job.stalls] \in Job(Data)
    BY <1>2
  <2>2. Budgeted([Fresh(d) EXCEPT !.stalls = job.stalls])
    BY <1>2 DEF Fresh, NoJob
  <2>. QED BY <1>3, <2>1, <2>2 DEF Requested
<1>5. Removed(job) \in Job(Data) /\ Budgeted(Removed(job))
  BY <1>1 DEF Removed
<1>6. Unlocked(job) \in Job(Data) /\ Budgeted(Unlocked(job))
  BY DEF Unlocked
<1>7. job.state = "waiting" => Taken(job, w) \in Job(Data) /\ Budgeted(Taken(job, w))
  BY DEF Taken
<1>8. ASSUME job.lock = w
      PROVE  job.state = "active"
  BY <1>8
<1>9. job.lock = w => Completed(job) \in Job(Data) /\ Budgeted(Completed(job))
  BY <1>8 DEF Completed
<1>10. job.lock = w => Failed(job) \in Job(Data) /\ Budgeted(Failed(job))
  BY <1>8 DEF Failed
<1>11. job.lock = w => AttemptFailed(job) \in Job(Data) /\ Budgeted(AttemptFailed(job))
  <2>. SUFFICES ASSUME job.lock = w
                PROVE  AttemptFailed(job) \in Job(Data) /\ Budgeted(AttemptFailed(job))
    OBVIOUS
  <2>1. job.attempts \in Nat /\ job.attempts < IMPORT_ATTEMPTS
    BY <1>8
  <2>2. /\ job.attempts + 1 \in 0..IMPORT_ATTEMPTS
        /\ ~(job.attempts + 1 < IMPORT_ATTEMPTS) => job.attempts + 1 = IMPORT_ATTEMPTS
    BY <2>1
  <2>3. \A a \in 0..IMPORT_ATTEMPTS, s \in JobState :
          [job EXCEPT !.attempts = a, !.state = s, !.lock = NoWorker] \in Job(Data)
    OBVIOUS
  <2>4. AttemptFailed(job) \in Job(Data)
    BY <2>2, <2>3 DEF AttemptFailed
  <2>5. Budgeted(AttemptFailed(job))
    BY <1>8, <2>1, <2>2 DEF AttemptFailed
  <2>. QED BY <2>4, <2>5
<1>12. job.state = "active" /\ job.lock = NoWorker =>
         Stalled(job) \in Job(Data) /\ Budgeted(Stalled(job))
  <2>. SUFFICES ASSUME job.state = "active", job.lock = NoWorker
                PROVE  Stalled(job) \in Job(Data) /\ Budgeted(Stalled(job))
    OBVIOUS
  <2>1. job.stalls \in Nat /\ job.stalls <= IMPORT_MAX_STALLED + 1
    OBVIOUS
  <2>2. job.stalls <= IMPORT_MAX_STALLED => job.stalls + 1 \in 0..(IMPORT_MAX_STALLED + 1)
    BY <2>1
  <2>3. \A n \in 0..(IMPORT_MAX_STALLED + 1), s \in JobState :
          [job EXCEPT !.stalls = n, !.state = s] \in Job(Data)
    OBVIOUS
  <2>4. Stalled(job) \in Job(Data)
    BY <2>2, <2>3 DEF Stalled
  <2>5. Budgeted(Stalled(job))
    BY <2>1 DEF Stalled
  <2>. QED BY <2>4, <2>5
<1>. QED BY <1>1, <1>3, <1>4, <1>5, <1>6, <1>7, <1>9, <1>10, <1>11, <1>12

=============================================================================
