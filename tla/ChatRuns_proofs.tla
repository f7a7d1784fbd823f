---------------------------- MODULE ChatRuns_proofs ----------------------------
(***************************************************************************)
(* Proofs about ChatRuns, for any number of questions, conversations and    *)
(* replicas.                                                                *)
(*                                                                          *)
(* That a question dropped by a cancellation is never answered rests on the *)
(* run alone: it was ended, or it has the trigger check still before it.    *)
(* That turns neither overlap nor overtake rests on the lock of the         *)
(* conversation, which follows the run from the claim to the release as     *)
(* long as no worker outlives it, and on the order of births, which a list  *)
(* that was read earlier cannot get wrong: what it lacks is younger.        *)
(***************************************************************************)
EXTENDS ChatRuns, FiniteSetTheorems, TLAPS

-----------------------------------------------------------------------------
(* The inductive invariants. *)

\* The types of all but the budget, which needs the sum of what is reserved.
ChatShape ==
    /\ message \in [Questions -> Message]
    /\ run \in [Questions -> Run]
    /\ exec \in [Questions -> Exec]
    /\ lock \in [Conversations -> Lock]
    /\ answers \in [Questions -> 0..1]
    /\ tick \in [Replicas -> Tick]
    /\ cancel \in Cancel
    /\ dropped \subseteq Questions

IsAsked(q) == message[q].conversation # NoConversation

AskedFirst == \A q \in Questions : message[q].request \/ run[q].state # "none" => IsAsked(q)

\* Runs are numbered as they are made.
BornInOrder ==
    \A q \in Questions :
        /\ run[q].born = 0 <=> run[q].state = "none"
        /\ run[q].born <= Born

\* What a tick is at work on exists.
Fits(w) ==
    /\ \A q \in tick[w].todo : IsAsked(q)
    /\ tick[w].at \in {"lock", "take"} => \A q \in tick[w].todo : run[q].state # "none"
    /\ tick[w].at \in {"mark", "unlock", "unset", "take"} => tick[w].q \in Questions
    /\ tick[w].at = "take" => run[tick[w].q].state # "none"
    /\ tick[w].at = "unlock" => run[tick[w].q].state \notin {"none", "queued"}
    /\ tick[w].at = "mark" => run[tick[w].q].state = "completed"

Listed == \A w \in Replicas : Fits(w)

\* A replica is at work on runs that were claimed.
Executed ==
    /\ \A q \in Questions :
         /\ run[q].state \in {"none", "queued"} => exec[q] = "none"
         /\ run[q].state = "running" => exec[q] # "none"
         /\ answers[q] # 0 => run[q].state = "completed"

\* A question that was dropped is over, or what is made of it stops at the trigger.
DroppedKept ==
    \A q \in dropped :
        \/ run[q].state \in {"failed", "cancelled"}
        \/ /\ message[q].cancelled /\ run[q].state # "completed"
           /\ exec[q] \in {"none", "guard", "trigger", "release", "over"}

ChatIInv == ChatShape /\ AskedFirst /\ BornInOrder /\ Listed /\ Executed /\ DroppedKept

Busy(q) == exec[q] \notin {"none", "over"}
Holds(q) == lock[message[q].conversation] = [run |-> q, live |-> TRUE]

\* Whoever is at work on a run, or about to start it, holds its conversation.
LockKept ==
    /\ \A q \in Questions : Busy(q) => Holds(q)
    /\ \A w \in Replicas :
         /\ tick[w].at \in {"take", "unlock"} => ~Busy(tick[w].q)
         /\ tick[w].at = "take" /\ run[tick[w].q].state = "queued" => Holds(tick[w].q)
    /\ \A v, w \in Replicas :
         tick[v].at = "take" /\ tick[w].at = "take" /\ tick[v].q = tick[w].q /\ v # w =>
            run[tick[w].q].state # "queued"
    /\ \A q \in Questions : run[q].state = "running" /\ ~run[q].live => ~Busy(q)

Together(q, r) == message[q].conversation = message[r].conversation

\* What a list of candidates lacks is younger than what it has of the conversation.
InTurn ==
    \A w \in Replicas :
        /\ tick[w].at \in {"lock", "take"} =>
             \A q \in tick[w].todo, r \in Questions :
                run[r].state = "queued" /\ Together(q, r) /\ r \notin tick[w].todo => run[q].born <= run[r].born
        /\ tick[w].at = "take" =>
             \A r \in Questions :
                run[r].state = "queued" /\ Together(tick[w].q, r) => run[tick[w].q].born <= run[r].born

TurnsIInv == ChatIInv /\ LockKept /\ InTurn

-----------------------------------------------------------------------------
(* What steps have in common. *)

LEMMA StepFacts ==
    ASSUME tick \in [Replicas -> Tick], NEW w \in Replicas, NEW q \in Questions,
           NEW at \in {"idle", "mark", "unlock", "insert", "unset", "lock", "take"}, Step(w, at, q)
    PROVE  /\ tick' \in [Replicas -> Tick]
           /\ tick'[w].at = at /\ tick'[w].q = q /\ tick'[w].todo = tick[w].todo
           /\ \A v \in Replicas : v # w => tick'[v] = tick[v]
    BY DEF Step, Tick

LEMMA GoOnFacts ==
    ASSUME tick \in [Replicas -> Tick], NEW w \in Replicas, NEW left \in SUBSET Questions,
           NEW at \in {"idle", "insert", "lock"}, GoOn(w, at, left)
    PROVE  /\ tick' \in [Replicas -> Tick]
           /\ tick'[w].at \in {"idle", at} /\ tick'[w].todo = left
           /\ \A v \in Replicas : v # w => tick'[v] = tick[v]
    BY DEF GoOn, Tick, NewTick

LEMMA EndFacts ==
    ASSUME run \in [Questions -> Run], NEW q \in Questions, NEW state \in {"completed", "failed", "cancelled"},
           run' = End(q, state)
    PROVE  /\ run' \in [Questions -> Run]
           /\ \A r \in Questions : run'[r].born = run[r].born
           /\ run'[q] = run[q] \/ run[q].state = "running"
           /\ run'[q].state = IF run[q].state = "running" THEN state ELSE run[q].state
           /\ \A r \in Questions : r # q => run'[r] = run[r]
  <1>1. CASE run[q].state = "running"
    BY <1>1 DEF End, Ended, Run
  <1>2. CASE run[q].state # "running"
    BY <1>2 DEF End
  <1> QED
    BY <1>1, <1>2

LEMMA GoesFacts ==
    ASSUME exec \in [Questions -> Exec], NEW q \in Questions, NEW at \in Exec, Goes(q, at)
    PROVE  /\ exec' \in [Questions -> Exec]
           /\ exec'[q] = at
           /\ \A r \in Questions : r # q => exec'[r] = exec[r]
    BY DEF Goes

LEMMA UnlockedFacts ==
    ASSUME lock \in [Conversations -> Lock], NEW k, NEW q, lock' = Unlocked(k, q)
    PROVE  /\ lock' \in [Conversations -> Lock]
           /\ \A m \in Conversations : lock'[m] = lock[m] \/ lock[m].run = q
  <1>1. NoLock \in Lock
    BY DEF NoLock, Lock
  <1> QED
    BY <1>1 DEF Unlocked

\* Questions stay asked, runs move on, and what a tick turns to exists.
LEMMA Onward ==
    ASSUME ChatIInv,
           \A q \in Questions : IsAsked(q) => IsAsked(q)',
           \A q \in Questions : message'[q].request \/ run'[q].state # "none" => IsAsked(q)',
           \A q \in Questions :
              /\ run[q].state # "none" => run'[q].state # "none"
              /\ run[q].state \notin {"none", "queued"} => run'[q].state \notin {"none", "queued"}
              /\ run[q].state = "completed" => run'[q].state = "completed",
           \A v \in Replicas : tick'[v] = tick[v] \/ Fits(v)'
    PROVE  AskedFirst' /\ Listed'
  <1>1. AskedFirst'
    BY DEF AskedFirst
  <1>2. ASSUME NEW v \in Replicas PROVE Fits(v)'
    <2>1. CASE tick'[v] = tick[v]
      <3>1. Fits(v) /\ tick[v].todo \subseteq Questions
        BY DEF ChatIInv, Listed, ChatShape, Tick
      <3> QED
        BY <2>1, <3>1 DEF Fits
    <2>2. CASE Fits(v)'
      BY <2>2
    <2> QED
      BY <2>1, <2>2
  <1> QED
    BY <1>1, <1>2 DEF Listed

LEMMA BornStays ==
    ASSUME BornInOrder, \A q \in Questions :
              run'[q].born = run[q].born /\ (run'[q].state = "none" <=> run[q].state = "none")
    PROVE  BornInOrder'
  <1>1. {q \in Questions : run'[q].born > 0} = {q \in Questions : run[q].born > 0}
    OBVIOUS
  <1>2. Born' = Born
    BY <1>1 DEF Born
  <1> QED
    BY <1>2 DEF BornInOrder

\* A step that leaves runs, replicas and locks alone.
LEMMA UserStep ==
    ASSUME ChatIInv, UNCHANGED <<run, exec, lock, answers, tick, dropped>>,
           message' \in [Questions -> Message], cancel' \in Cancel,
           \A q \in Questions : /\ IsAsked(q) => IsAsked(q)'
                                /\ message'[q].request => IsAsked(q)'
                                /\ message[q].cancelled => message'[q].cancelled
    PROVE  ChatIInv'
  <1>1. ChatShape'
    BY DEF ChatIInv, ChatShape
  <1>2. AskedFirst' /\ Listed'
    BY Onward DEF ChatIInv, AskedFirst
  <1>3. BornInOrder' /\ Executed'
    BY BornStays DEF ChatIInv, Executed
  <1>4. DroppedKept'
    BY DEF ChatIInv, ChatShape, DroppedKept
  <1> QED
    BY <1>1, <1>2, <1>3, <1>4 DEF ChatIInv

LEMMA AskStep ==
    ASSUME ChatIInv, NEW q \in Questions, NEW k \in Conversations, Ask(q, k)
    PROVE  ChatIInv'
  <1>1. message \in [Questions -> Message] /\ k # NoConversation
    BY ChatAssumption DEF ChatIInv, ChatShape, NoConversation
  <1>2. /\ message' \in [Questions -> Message]
        /\ message'[q].conversation = k /\ message'[q].cancelled = message[q].cancelled
        /\ \A r \in Questions : r # q => message'[r] = message[r]
    BY <1>1 DEF Ask, Message
  <1> QED
    BY <1>1, <1>2, UserStep DEF Ask, ChatIInv, ChatShape, AskedFirst, IsAsked

LEMMA ChangeMembersStep ==
    ASSUME ChatIInv, NEW k \in Conversations, ChangeMembers(k)
    PROVE  ChatIInv'
  <1>1. message \in [Questions -> Message]
    BY DEF ChatIInv, ChatShape
  <1>2. message' \in [Questions -> Message] /\ \A q \in Questions :
           /\ message'[q].conversation = message[q].conversation /\ message'[q].request = message[q].request
           /\ message'[q].cancelled = message[q].cancelled
    BY <1>1 DEF ChangeMembers, Message
  <1> QED
    BY <1>2, UserStep DEF ChangeMembers, ChatIInv, ChatShape, AskedFirst, IsAsked

LEMMA FindOpenRunsStep ==
    ASSUME ChatIInv, NEW k \in Conversations, FindOpenRuns(k)
    PROVE  ChatIInv'
  <1>1. cancel' \in Cancel
    BY DEF FindOpenRuns, Cancel, Asked
  <1> QED
    BY <1>1, UserStep DEF FindOpenRuns, ChatIInv, ChatShape, AskedFirst, IsAsked

LEMMA CancelQuestionsStep ==
    ASSUME ChatIInv, CancelQuestions
    PROVE  ChatIInv'
  <1>1. message \in [Questions -> Message] /\ cancel \in Cancel
    BY DEF ChatIInv, ChatShape
  <1>2. message' \in [Questions -> Message] /\ \A q \in Questions :
           /\ message'[q].conversation = message[q].conversation
           /\ message'[q].request => message[q].request
           /\ message[q].cancelled => message'[q].cancelled
    BY <1>1 DEF CancelQuestions, Message
  <1>3. cancel' \in Cancel
    BY <1>1 DEF CancelQuestions, Cancel
  <1> QED
    BY <1>2, <1>3, UserStep DEF CancelQuestions, ChatIInv, ChatShape, AskedFirst, IsAsked

\* What a finished cancellation drops was ended by it, or will be by the trigger check.
LEMMA CancelRunsStep ==
    ASSUME ChatIInv, CancelRuns
    PROVE  ChatIInv'
  <1> USE DEF CancelRuns
  <1>1. run \in [Questions -> Run] /\ message \in [Questions -> Message] /\ Open = {"queued", "running"}
    BY DEF ChatIInv, ChatShape, Open
  <1>2. /\ run' \in [Questions -> Run]
        /\ \A q \in Questions :
             /\ run'[q].born = run[q].born
             /\ run'[q].state = run[q].state \/ (run[q].state \in Open /\ run'[q].state = "cancelled")
    BY ZenonT(60), <1>1 DEF Ended, Run
  <1>3. ChatShape'
    <2>1. cancel' \in Cancel
      BY DEF NoCancel, Cancel
    <2>2. dropped' \subseteq Questions
      BY DEF ChatIInv, ChatShape, Asked
    <2> QED
      BY <1>2, <2>1, <2>2 DEF ChatIInv, ChatShape
  <1>4. AskedFirst' /\ Listed'
    BY <1>1, <1>2, Onward DEF ChatIInv, AskedFirst, IsAsked
  <1>5. BornInOrder'
    BY <1>1, <1>2, BornStays DEF ChatIInv
  <1>6. Executed'
    BY <1>1, <1>2 DEF ChatIInv, Executed
  <1>7. DroppedKept'
    <2>1. ASSUME NEW q \in dropped'
          PROVE  \/ run'[q].state \in {"failed", "cancelled"}
                 \/ /\ message[q].cancelled /\ run'[q].state # "completed"
                    /\ exec[q] \in {"none", "guard", "trigger", "release", "over"}
      <3>1. CASE q \in dropped
        BY <1>1, <1>2, <3>1 DEF ChatIInv, ChatShape, DroppedKept
      <3>2. CASE q \in Asked(cancel.conversation) /\ run[q].state \in Open
        BY <1>1, <3>2 DEF Asked, Ended, Run
      <3>3. CASE /\ q \in Asked(cancel.conversation) /\ message[q].cancelled
                 /\ run[q].state \notin Open \cup {"completed"}
        BY <1>1, <1>2, <3>3 DEF Asked, Run, ChatIInv, Executed
      <3> QED
        BY <3>1, <3>2, <3>3
    <2> QED
      BY <2>1 DEF DroppedKept
  <1> QED
    BY <1>3, <1>4, <1>5, <1>6, <1>7 DEF ChatIInv

-----------------------------------------------------------------------------
(* Executing a run. *)

LEMMA ExecStep ==
    ASSUME ChatIInv, NEW q \in Questions, UNCHANGED <<message, lock, answers, tick, cancel, dropped>>,
           run' \in [Questions -> Run], exec' \in [Questions -> Exec],
           \A r \in Questions : run'[r].born = run[r].born /\ (r # q => run'[r].state = run[r].state),
           \/ run'[q].state = run[q].state
           \/ run[q].state = "running" /\ run'[q].state \in {"completed", "failed", "cancelled"},
           \A r \in Questions : r # q => exec'[r] = exec[r],
           exec[q] # "none" /\ exec'[q] # "none",
           q \in dropped => \/ run'[q].state \in {"failed", "cancelled"}
                            \/ /\ message[q].cancelled /\ run'[q].state # "completed"
                               /\ exec'[q] \in {"guard", "trigger", "release", "over"}
    PROVE  ChatIInv'
  <1>1. ChatShape'
    BY DEF ChatIInv, ChatShape
  <1>2. AskedFirst' /\ Listed'
    BY Onward DEF ChatIInv, AskedFirst, IsAsked
  <1>3. BornInOrder'
    BY BornStays DEF ChatIInv
  <1>4. Executed'
    BY DEF ChatIInv, Executed
  <1>5. DroppedKept'
    BY DEF ChatIInv, ChatShape, DroppedKept
  <1> QED
    BY <1>1, <1>2, <1>3, <1>4, <1>5 DEF ChatIInv

LEMMA GuardRunStep ==
    ASSUME ChatIInv, NEW q \in Questions, GuardRun(q)
    PROVE  ChatIInv'
  <1>1. /\ exec' \in [Questions -> Exec]
        /\ exec'[q] = "trigger"
        /\ \A r \in Questions : r # q => exec'[r] = exec[r]
    BY GoesFacts DEF GuardRun, ChatIInv, ChatShape, Exec
  <1> QED
    BY <1>1, ExecStep DEF GuardRun, ChatIInv, ChatShape, DroppedKept

\* The question of a run that was dropped was cancelled, so its run goes no further.
LEMMA ReadTriggerStep ==
    ASSUME ChatIInv, NEW q \in Questions, ReadTrigger(q)
    PROVE  ChatIInv'
  <1> USE DEF ReadTrigger
  <1>1. run \in [Questions -> Run] /\ exec \in [Questions -> Exec]
    BY DEF ChatIInv, ChatShape
  <1>2. PICK at \in {"release", "reserve"} : Goes(q, at) /\ (at = "release" <=> message[q].cancelled)
    BY DEF ChatIInv, ChatShape, Message
  <1>3. /\ exec' \in [Questions -> Exec]
        /\ exec'[q] = at
        /\ \A r \in Questions : r # q => exec'[r] = exec[r]
    BY <1>1, <1>2, GoesFacts DEF Exec
  <1>4. CASE message[q].cancelled
    <2>1. /\ run' \in [Questions -> Run]
          /\ \A r \in Questions : run'[r].born = run[r].born
          /\ run'[q].state = IF run[q].state = "running" THEN "cancelled" ELSE run[q].state
          /\ \A r \in Questions : r # q => run'[r] = run[r]
      BY <1>1, <1>4, EndFacts
    <2>2. q \in dropped => run[q].state # "completed"
      BY DEF ChatIInv, DroppedKept
    <2> QED
      BY <1>2, <1>3, <1>4, <2>1, <2>2, ExecStep
  <1>5. CASE ~message[q].cancelled
    BY <1>1, <1>2, <1>3, <1>5, ExecStep DEF ChatIInv, DroppedKept
  <1> QED
    BY <1>4, <1>5

LEMMA ReserveBudgetStep ==
    ASSUME ChatIInv, NEW q \in Questions, ReserveBudget(q)
    PROVE  ChatIInv'
  <1>1. /\ exec' \in [Questions -> Exec]
        /\ exec'[q] = "analyze"
        /\ \A r \in Questions : r # q => exec'[r] = exec[r]
    BY GoesFacts DEF ReserveBudget, ChatIInv, ChatShape, Exec
  <1> QED
    BY <1>1, ExecStep DEF ReserveBudget, ChatIInv, ChatShape, DroppedKept

LEMMA AnalyzeStep ==
    ASSUME ChatIInv, NEW q \in Questions, Analyze(q)
    PROVE  ChatIInv'
  <1>1. /\ exec' \in [Questions -> Exec]
        /\ exec'[q] = "finish"
        /\ \A r \in Questions : r # q => exec'[r] = exec[r]
    BY GoesFacts DEF Analyze, ChatIInv, ChatShape, Exec
  <1> QED
    BY <1>1, ExecStep DEF Analyze, ChatIInv, ChatShape, DroppedKept

LEMMA CheckAgainStep ==
    ASSUME ChatIInv, NEW q \in Questions, CheckAgain(q)
    PROVE  ChatIInv'
  <1>1. /\ exec' \in [Questions -> Exec]
        /\ exec'[q] = "complete"
        /\ \A r \in Questions : r # q => exec'[r] = exec[r]
    BY GoesFacts DEF CheckAgain, ChatIInv, ChatShape, Exec
  <1> QED
    BY <1>1, ExecStep DEF CheckAgain, ChatIInv, ChatShape, DroppedKept

\* What is completed was not dropped.
LEMMA CompleteRunStep ==
    ASSUME ChatIInv, NEW q \in Questions, CompleteRun(q)
    PROVE  ChatIInv'
  <1>1. /\ exec' \in [Questions -> Exec]
        /\ exec'[q] = "refund"
        /\ \A r \in Questions : r # q => exec'[r] = exec[r]
    BY GoesFacts DEF CompleteRun, ChatIInv, ChatShape, Exec
  <1>2. /\ run' \in [Questions -> Run]
        /\ \A r \in Questions : run'[r].born = run[r].born
        /\ run'[q].state = IF run[q].state = "running" THEN "completed" ELSE run[q].state
        /\ \A r \in Questions : r # q => run'[r] = run[r]
    BY EndFacts DEF CompleteRun, ChatIInv, ChatShape
  <1> QED
    BY <1>1, <1>2, ExecStep DEF CompleteRun, ChatIInv, ChatShape, DroppedKept

LEMMA FailRunStep ==
    ASSUME ChatIInv, NEW q \in Questions, FailRun(q)
    PROVE  ChatIInv'
  <1>1. /\ exec' \in [Questions -> Exec]
        /\ exec'[q] = "release"
        /\ \A r \in Questions : r # q => exec'[r] = exec[r]
    BY GoesFacts DEF FailRun, ChatIInv, ChatShape, Exec
  <1>2. /\ run' \in [Questions -> Run]
        /\ \A r \in Questions : run'[r].born = run[r].born
        /\ run'[q].state = IF run[q].state = "running" THEN "failed" ELSE run[q].state
        /\ \A r \in Questions : r # q => run'[r] = run[r]
    BY EndFacts DEF FailRun, ChatIInv, ChatShape
  <1> QED
    BY <1>1, <1>2, ExecStep DEF FailRun, ChatIInv, ChatShape, DroppedKept

LEMMA RefundStep ==
    ASSUME ChatIInv, NEW q \in Questions, Refund(q)
    PROVE  ChatIInv'
  <1>1. /\ exec' \in [Questions -> Exec]
        /\ exec'[q] = "release"
        /\ \A r \in Questions : r # q => exec'[r] = exec[r]
    BY GoesFacts DEF Refund, ChatIInv, ChatShape, Exec
  <1> QED
    BY <1>1, ExecStep DEF Refund, ChatIInv, ChatShape, DroppedKept

LEMMA ReleaseConversationStep ==
    ASSUME ChatIInv, NEW q \in Questions, ReleaseConversation(q)
    PROVE  ChatIInv'
  <1> USE DEF ReleaseConversation
  <1>1. /\ exec' \in [Questions -> Exec]
        /\ exec'[q] = "over"
        /\ \A r \in Questions : r # q => exec'[r] = exec[r]
    BY GoesFacts DEF ChatIInv, ChatShape, Exec
  <1>2. lock' \in [Conversations -> Lock]
    BY UnlockedFacts DEF ChatIInv, ChatShape
  <1>3. ChatShape'
    BY <1>1, <1>2 DEF ChatIInv, ChatShape
  <1>4. AskedFirst' /\ Listed'
    BY Onward DEF ChatIInv, AskedFirst, IsAsked
  <1>5. BornInOrder'
    BY BornStays DEF ChatIInv
  <1>6. Executed' /\ DroppedKept'
    BY <1>1 DEF ChatIInv, ChatShape, Executed, DroppedKept
  <1> QED
    BY <1>3, <1>4, <1>5, <1>6 DEF ChatIInv

LEMMA DieStep ==
    ASSUME ChatIInv, NEW q \in Questions, Die(q)
    PROVE  ChatIInv'
  <1>1. /\ exec' \in [Questions -> Exec]
        /\ exec'[q] = "over"
        /\ \A r \in Questions : r # q => exec'[r] = exec[r]
    BY GoesFacts DEF Die, ChatIInv, ChatShape, Exec
  <1> QED
    BY <1>1, ExecStep DEF Die, ChatIInv, ChatShape, DroppedKept

LEMMA LapseLockStep ==
    ASSUME ChatIInv, NEW k \in Conversations, LapseLock(k)
    PROVE  ChatIInv'
  <1>1. lock' \in [Conversations -> Lock]
    BY DEF LapseLock, ChatIInv, ChatShape, Lock
  <1>2. AskedFirst' /\ Listed'
    BY Onward DEF LapseLock, ChatIInv, AskedFirst, IsAsked
  <1>3. BornInOrder'
    BY BornStays DEF LapseLock, ChatIInv
  <1> QED
    BY <1>1, <1>2, <1>3 DEF LapseLock, ChatIInv, ChatShape, Executed, DroppedKept

LEMMA ExpireFacts ==
    ASSUME run \in [Questions -> Run], NEW q \in Questions, run' = [run EXCEPT ![q].live = FALSE]
    PROVE  /\ run' \in [Questions -> Run]
           /\ \A r \in Questions : run'[r].born = run[r].born /\ run'[r].state = run[r].state
           /\ \A r \in Questions : r # q => run'[r] = run[r]
    BY DEF Run

LEMMA LapseRunStep ==
    ASSUME ChatIInv, NEW q \in Questions, LapseRun(q)
    PROVE  ChatIInv'
  <1>1. /\ run' \in [Questions -> Run]
        /\ \A r \in Questions : run'[r].born = run[r].born /\ run'[r].state = run[r].state
    BY ExpireFacts DEF LapseRun, ChatIInv, ChatShape
  <1> QED
    BY <1>1, ExecStep DEF LapseRun, ChatIInv, ChatShape, Executed, DroppedKept

-----------------------------------------------------------------------------
(* Ticks. *)

\* A tick looks on, or writes something that is not the state of a run.
LEMMA TickStep ==
    ASSUME ChatIInv, NEW w \in Replicas, UNCHANGED <<exec, cancel, dropped>>,
           message' \in [Questions -> Message], run' \in [Questions -> Run], lock' \in [Conversations -> Lock],
           answers' \in [Questions -> 0..1], tick' \in [Replicas -> Tick],
           \A v \in Replicas : v # w => tick'[v] = tick[v],
           Fits(w)',
           \A q \in Questions :
              /\ message'[q].conversation = message[q].conversation
              /\ message'[q].request => message[q].request
              /\ message'[q].cancelled = message[q].cancelled
              /\ run'[q].born = run[q].born
              /\ \/ run'[q].state = run[q].state
                 \/ run[q].state = "running" /\ run'[q].state = "failed"
              /\ answers'[q] # 0 => answers[q] # 0 \/ run[q].state = "completed"
    PROVE  ChatIInv'
  <1>1. ChatShape'
    BY DEF ChatIInv, ChatShape
  <1>2. AskedFirst' /\ Listed'
    BY Onward DEF ChatIInv, AskedFirst, IsAsked
  <1>3. BornInOrder'
    BY BornStays DEF ChatIInv
  <1>4. Executed'
    BY DEF ChatIInv, Executed
  <1>5. DroppedKept'
    BY DEF ChatIInv, ChatShape, DroppedKept
  <1> QED
    BY <1>1, <1>2, <1>3, <1>4, <1>5 DEF ChatIInv

LEMMA Listing ==
    ASSUME ChatIInv, NEW w \in Replicas
    PROVE  /\ tick \in [Replicas -> Tick] /\ tick[w].todo \subseteq Questions
           /\ \A q \in tick[w].todo : IsAsked(q)
           /\ tick[w].at \in {"lock", "take"} => \A q \in tick[w].todo : run[q].state # "none"
           /\ tick[w].at \in {"mark", "unlock", "unset", "take"} => tick[w].q \in Questions
           /\ tick[w].at = "take" => run[tick[w].q].state # "none"
           /\ tick[w].at = "unlock" => run[tick[w].q].state \notin {"none", "queued"}
           /\ tick[w].at = "mark" => run[tick[w].q].state = "completed"
    BY DEF ChatIInv, ChatShape, Listed, Fits, Tick

\* A tick begins anew.
LEMMA Idles ==
    ASSUME ChatIInv, NEW w \in Replicas, GoOn(w, "idle", {})
    PROVE  /\ tick' \in [Replicas -> Tick]
           /\ tick'[w].at = "idle" /\ tick'[w].todo = {}
           /\ \A v \in Replicas : v # w => tick'[v] = tick[v]
           /\ Fits(w)'
  <1>1. /\ tick' \in [Replicas -> Tick]
        /\ tick'[w].at = "idle" /\ tick'[w].todo = {}
        /\ \A v \in Replicas : v # w => tick'[v] = tick[v]
    BY GoOnFacts DEF ChatIInv, ChatShape
  <1> QED
    BY <1>1 DEF Fits

LEMMA AppendAnswerStep ==
    ASSUME ChatIInv, NEW w \in Replicas, NEW q \in Questions, AppendAnswer(w, q)
    PROVE  ChatIInv'
  <1> USE DEF AppendAnswer
  <1>1. /\ tick' \in [Replicas -> Tick]
        /\ tick'[w].at = "mark" /\ tick'[w].q = q /\ tick'[w].todo = tick[w].todo
        /\ \A v \in Replicas : v # w => tick'[v] = tick[v]
    BY StepFacts DEF ChatIInv, ChatShape
  <1>2. answers' \in [Questions -> 0..1] /\ \A r \in Questions : r # q => answers'[r] = answers[r]
    BY DEF ChatIInv, ChatShape
  <1>3. Fits(w)'
    BY <1>1, Listing DEF Fits, IsAsked
  <1> QED
    BY <1>1, <1>2, <1>3, TickStep DEF ChatIInv, ChatShape

LEMMA MarkPublishedStep ==
    ASSUME ChatIInv, NEW w \in Replicas, MarkPublished(w)
    PROVE  ChatIInv'
  <1> USE DEF MarkPublished
  <1>1. run' \in [Questions -> Run] /\ \A r \in Questions :
           run'[r].born = run[r].born /\ run'[r].state = run[r].state
    BY ZenonT(60), Listing DEF ChatIInv, ChatShape, Run
  <1> QED
    BY <1>1, Idles, TickStep DEF ChatIInv, ChatShape

LEMMA FailExpiredStep ==
    ASSUME ChatIInv, NEW w \in Replicas, NEW q \in Questions, FailExpired(w, q)
    PROVE  ChatIInv'
  <1> USE DEF FailExpired
  <1>1. /\ tick' \in [Replicas -> Tick]
        /\ tick'[w].at = "unlock" /\ tick'[w].q = q /\ tick'[w].todo = tick[w].todo
        /\ \A v \in Replicas : v # w => tick'[v] = tick[v]
    BY StepFacts DEF ChatIInv, ChatShape
  <1>2. /\ run' \in [Questions -> Run]
        /\ \A r \in Questions : run'[r].born = run[r].born
        /\ run'[q].state = "failed"
        /\ \A r \in Questions : r # q => run'[r] = run[r]
    BY EndFacts DEF ChatIInv, ChatShape
  <1>3. Fits(w)'
    BY <1>1, <1>2, Listing DEF Fits, IsAsked
  <1> QED
    BY <1>1, <1>2, <1>3, TickStep DEF ChatIInv, ChatShape

LEMMA UnlockExpiredStep ==
    ASSUME ChatIInv, NEW w \in Replicas, UnlockExpired(w)
    PROVE  ChatIInv'
  <1> USE DEF UnlockExpired
  <1>1. lock' \in [Conversations -> Lock]
    BY UnlockedFacts DEF ChatIInv, ChatShape
  <1> QED
    BY <1>1, Idles, TickStep DEF ChatIInv, ChatShape

LEMMA FindRequestsStep ==
    ASSUME ChatIInv, NEW w \in Replicas, FindRequests(w)
    PROVE  ChatIInv'
  <1> USE DEF FindRequests, Look
  <1> DEFINE S == {q \in Questions : message[q].request /\ ~message[q].cancelled}
  <1>1. \A q \in S : q \in Questions /\ IsAsked(q)
    BY DEF ChatIInv, AskedFirst
  <1> HIDE DEF S
  <1>2. /\ tick' \in [Replicas -> Tick]
        /\ tick'[w].at = "insert" /\ tick'[w].todo = S
        /\ \A v \in Replicas : v # w => tick'[v] = tick[v]
    BY <1>1 DEF ChatIInv, ChatShape, Tick, S
  <1>3. Fits(w)'
    BY <1>1, <1>2 DEF Fits, IsAsked, FindRequests
  <1> QED
    BY <1>2, <1>3, TickStep DEF ChatIInv, ChatShape

LEMMA FindQueuedStep ==
    ASSUME ChatIInv, NEW w \in Replicas, FindQueued(w)
    PROVE  ChatIInv'
  <1> USE DEF FindQueued, Look
  <1> DEFINE S == {q \in Questions : run[q].state = "queued"}
  <1>1. \A q \in S : q \in Questions /\ IsAsked(q) /\ run[q].state # "none"
    BY DEF ChatIInv, AskedFirst
  <1> HIDE DEF S
  <1>2. /\ tick' \in [Replicas -> Tick]
        /\ tick'[w].at = "lock" /\ tick'[w].todo = S
        /\ \A v \in Replicas : v # w => tick'[v] = tick[v]
    BY <1>1 DEF ChatIInv, ChatShape, Tick, S
  <1>3. Fits(w)'
    BY <1>1, <1>2 DEF Fits, IsAsked
  <1> QED
    BY <1>2, <1>3, TickStep DEF ChatIInv, ChatShape

LEMMA UnsetFacts ==
    ASSUME message \in [Questions -> Message], NEW q \in Questions,
           message' = [message EXCEPT ![q].request = FALSE]
    PROVE  message' \in [Questions -> Message] /\ \A r \in Questions :
              /\ message'[r].conversation = message[r].conversation
              /\ message'[r].cancelled = message[r].cancelled
              /\ message'[r].request => message[r].request
    BY DEF Message

LEMMA UnsetRequestStep ==
    ASSUME ChatIInv, NEW w \in Replicas, UnsetRequest(w)
    PROVE  ChatIInv'
  <1> USE DEF UnsetRequest
  <1>1. message' \in [Questions -> Message] /\ \A r \in Questions :
           /\ message'[r].conversation = message[r].conversation /\ message'[r].cancelled = message[r].cancelled
           /\ message'[r].request => message[r].request
    <2>1. tick[w].q \in Questions /\ message \in [Questions -> Message]
      BY Listing DEF ChatIInv, ChatShape
    <2> QED
      BY <2>1, UnsetFacts
  <1> DEFINE left == tick[w].todo \ {tick[w].q}
  <1>2. left \subseteq Questions /\ left \subseteq tick[w].todo /\ GoOn(w, "insert", left)
    BY Listing
  <1> HIDE DEF left
  <1>3. /\ tick' \in [Replicas -> Tick]
        /\ tick'[w].at \in {"idle", "insert"} /\ tick'[w].todo = left
        /\ \A v \in Replicas : v # w => tick'[v] = tick[v]
    BY <1>2, GoOnFacts DEF ChatIInv, ChatShape
  <1>4. Fits(w)'
    BY <1>1, <1>2, <1>3, Listing DEF Fits, IsAsked
  <1> QED
    BY <1>1, <1>3, <1>4, TickStep DEF ChatIInv, ChatShape

\* What is left of the candidates is among them.
LEMMA LeftFits ==
    ASSUME ChatIInv, NEW w \in Replicas, NEW left, left \subseteq tick[w].todo, tick[w].at \in {"lock", "take"},
           tick'[w].todo = left, UNCHANGED message,
           \A q \in Questions : run[q].state # "none" => run'[q].state # "none",
           \/ tick'[w].at \in {"idle", "lock"}
           \/ tick'[w].at = "take" /\ tick'[w].q \in tick[w].todo
    PROVE  Fits(w)'
    BY Listing DEF Fits, IsAsked

LEMMA LockConversationStep ==
    ASSUME ChatIInv, NEW w \in Replicas, LockConversation(w)
    PROVE  ChatIInv'
  <1> USE DEF LockConversation
  <1>1. PICK q \in tick[w].todo :
           LET k == message[q].conversation
               left == tick[w].todo \ Asked(k)
           IN  IF IsFree(k)
               THEN /\ lock' = [lock EXCEPT ![k] = [run |-> q, live |-> TRUE]]
                    /\ tick' = [tick EXCEPT ![w] = [at |-> "take", todo |-> left, q |-> q]]
               ELSE GoOn(w, "lock", left) /\ UNCHANGED lock
    OBVIOUS
  <1> DEFINE k == message[q].conversation
             left == tick[w].todo \ Asked(k)
  <1>2. q \in Questions /\ left \subseteq tick[w].todo /\ left \subseteq Questions
    BY Listing
  <1> HIDE DEF left
  <1>3. /\ lock' \in [Conversations -> Lock] /\ tick' \in [Replicas -> Tick]
        /\ tick'[w].todo = left
        /\ tick'[w].at \in {"idle", "lock"} \/ (tick'[w].at = "take" /\ tick'[w].q = q)
        /\ \A v \in Replicas : v # w => tick'[v] = tick[v]
    <2>1. CASE IsFree(k)
      <3> DEFINE mine == [run |-> q, live |-> TRUE]
                 next == [at |-> "take", todo |-> left, q |-> q]
      <3>1. mine \in Lock /\ next \in Tick
        BY <1>2 DEF Lock, Tick
      <3>2. next.at = "take" /\ next.todo = left /\ next.q = q
        OBVIOUS
      <3>3. lock' = [lock EXCEPT ![k] = mine] /\ tick' = [tick EXCEPT ![w] = next]
        BY <1>1, <2>1 DEF left
      <3> HIDE DEF mine, next
      <3>4. lock' \in [Conversations -> Lock]
        BY <3>1, <3>3 DEF ChatIInv, ChatShape
      <3>5. tick' \in [Replicas -> Tick] /\ tick'[w] = next /\ \A v \in Replicas : v # w => tick'[v] = tick[v]
        BY <3>1, <3>3 DEF ChatIInv, ChatShape
      <3> QED
        BY <3>2, <3>4, <3>5
    <2>2. CASE ~IsFree(k)
      BY <1>1, <1>2, <2>2, GoOnFacts DEF ChatIInv, ChatShape, left
    <2> QED
      BY <2>1, <2>2
  <1>4. Fits(w)'
    BY <1>2, <1>3, LeftFits
  <1> QED
    BY <1>3, <1>4, TickStep DEF ChatIInv, ChatShape

LEMMA TakenFacts ==
    ASSUME run \in [Questions -> Run], NEW q \in Questions,
           run' = [run EXCEPT ![q] = [@ EXCEPT !.state = "running", !.live = TRUE]]
    PROVE  /\ run' \in [Questions -> Run]
           /\ \A r \in Questions : run'[r].born = run[r].born
           /\ run'[q].state = "running" /\ run'[q].live
           /\ \A r \in Questions : r # q => run'[r] = run[r]
    BY DEF Run, Open

LEMMA TakeRunStep ==
    ASSUME ChatIInv, NEW w \in Replicas, TakeRun(w)
    PROVE  ChatIInv'
  <1> USE DEF TakeRun
  <1> DEFINE q == tick[w].q
  <1>1. q \in Questions /\ tick[w].todo \subseteq Questions
    BY Listing
  <1>2. CASE run[q].state = "queued"
    <2>1. /\ run' \in [Questions -> Run]
          /\ \A r \in Questions : run'[r].born = run[r].born
          /\ run'[q].state = "running" /\ run'[q].live
          /\ \A r \in Questions : r # q => run'[r] = run[r]
      BY <1>1, <1>2, TakenFacts DEF ChatIInv, ChatShape
    <2>2. /\ exec' \in [Questions -> Exec]
          /\ exec'[q] = "guard"
          /\ \A r \in Questions : r # q => exec'[r] = exec[r]
      BY <1>1, <1>2 DEF ChatIInv, ChatShape, Exec
    <2>3. /\ tick' \in [Replicas -> Tick]
          /\ \A v \in Replicas : v # w => tick'[v] = tick[v]
          /\ Fits(w)'
      BY <1>2, Idles
    <2>4. ChatShape'
      BY <1>2, <2>1, <2>2, <2>3 DEF ChatIInv, ChatShape
    <2>5. AskedFirst' /\ Listed'
      BY <1>2, <2>1, <2>3, Onward DEF ChatIInv, AskedFirst, IsAsked
    <2>6. BornInOrder'
      BY <1>1, <1>2, <2>1, BornStays DEF ChatIInv
    <2>7. Executed'
      BY <1>2, <2>1, <2>2 DEF ChatIInv, Executed
    <2>8. DroppedKept'
      BY <1>2, <2>1, <2>2 DEF ChatIInv, ChatShape, DroppedKept
    <2> QED
      BY <2>4, <2>5, <2>6, <2>7, <2>8 DEF ChatIInv
  <1>3. CASE run[q].state # "queued"
    <2>1. lock' \in [Conversations -> Lock]
      BY <1>3, UnlockedFacts DEF ChatIInv, ChatShape
    <2>2. /\ tick' \in [Replicas -> Tick]
          /\ tick'[w].at \in {"idle", "lock"} /\ tick'[w].todo = tick[w].todo
          /\ \A v \in Replicas : v # w => tick'[v] = tick[v]
      BY <1>1, <1>3, GoOnFacts DEF ChatIInv, ChatShape
    <2>3. Fits(w)'
      BY <1>3, <2>2, LeftFits
    <2> QED
      BY <1>3, <2>1, <2>2, <2>3, TickStep DEF ChatIInv, ChatShape
  <1> QED
    BY <1>2, <1>3

\* There is a number left for a question that has no run.
LEMMA BornRoom ==
    ASSUME NEW q \in Questions, run[q].born = 0
    PROVE  Born \in Nat /\ Born + 1 <= Cardinality(Questions) /\ Cardinality(Questions) \in Nat
  <1> DEFINE S == {r \in Questions : run[r].born > 0}
  <1>1. IsFiniteSet(Questions) /\ S \subseteq Questions /\ q \notin S
    BY ChatAssumption
  <1>2. IsFiniteSet(S)
    BY <1>1, FS_Subset
  <1>3. Cardinality(S) \in Nat /\ Cardinality(Questions) \in Nat
    BY <1>1, <1>2, FS_CardinalityType
  <1>4. Cardinality(S \cup {q}) = Cardinality(S) + 1
    BY <1>1, <1>2, FS_AddElement
  <1>5. Cardinality(S \cup {q}) <= Cardinality(Questions)
    BY <1>1, FS_Subset
  <1> QED
    BY <1>3, <1>4, <1>5 DEF Born

LEMMA BornNext ==
    ASSUME NEW q \in Questions, run[q].born = 0, run'[q].born > 0,
           \A r \in Questions : r # q => run'[r].born = run[r].born
    PROVE  Born' = Born + 1
  <1> DEFINE S == {r \in Questions : run[r].born > 0}
  <1>1. IsFiniteSet(S) /\ q \notin S
    BY ChatAssumption, FS_Subset
  <1>2. {r \in Questions : run'[r].born > 0} = S \cup {q}
    OBVIOUS
  <1>3. Cardinality(S \cup {q}) = Cardinality(S) + 1
    BY <1>1, FS_AddElement
  <1> QED
    BY <1>2, <1>3 DEF Born

LEMMA InsertedFacts ==
    ASSUME run \in [Questions -> Run], NEW q \in Questions, run[q].born = 0,
           run' = [run EXCEPT ![q] = [@ EXCEPT !.state = "queued", !.born = Born + 1]]
    PROVE  /\ run' \in [Questions -> Run]
           /\ run'[q].state = "queued" /\ run'[q].born = Born + 1
           /\ \A r \in Questions : r # q => run'[r] = run[r]
  <1>1. Born + 1 \in 0..Cardinality(Questions)
    BY BornRoom
  <1> QED
    BY <1>1 DEF Run, Open

LEMMA InsertRunStep ==
    ASSUME ChatIInv, NEW w \in Replicas, InsertRun(w)
    PROVE  ChatIInv'
  <1> USE DEF InsertRun
  <1>1. PICK q \in tick[w].todo :
           /\ run' = IF run[q].state # "none" THEN run
                     ELSE [run EXCEPT ![q] = [@ EXCEPT !.state = "queued", !.born = Born + 1]]
           /\ Step(w, "unset", q)
    OBVIOUS
  <1>2. q \in Questions /\ IsAsked(q)
    BY Listing
  <1>3. /\ tick' \in [Replicas -> Tick]
        /\ tick'[w].at = "unset" /\ tick'[w].q = q /\ tick'[w].todo = tick[w].todo
        /\ \A v \in Replicas : v # w => tick'[v] = tick[v]
    BY <1>1, <1>2, StepFacts DEF ChatIInv, ChatShape
  <1>4. Fits(w)'
    BY <1>2, <1>3, Listing DEF Fits, IsAsked
  <1>5. CASE run[q].state # "none"
    BY <1>1, <1>3, <1>4, <1>5, TickStep DEF ChatIInv, ChatShape
  <1>6. CASE run[q].state = "none"
    <2>1. run[q].born = 0
      BY <1>2, <1>6 DEF ChatIInv, BornInOrder
    <2>2. /\ run' \in [Questions -> Run]
          /\ run'[q].state = "queued" /\ run'[q].born = Born + 1
          /\ \A r \in Questions : r # q => run'[r] = run[r]
      BY <1>1, <1>2, <1>6, <2>1, InsertedFacts DEF ChatIInv, ChatShape
    <2>3. ChatShape'
      BY <1>3, <2>2 DEF ChatIInv, ChatShape
    <2>4. AskedFirst' /\ Listed'
      BY <1>2, <1>3, <1>4, <1>6, <2>2, Onward DEF ChatIInv, AskedFirst, IsAsked
    <2>5. Born \in Nat /\ Born' = Born + 1
      BY <1>2, <2>1, <2>2, BornRoom, BornNext
    <2>6. BornInOrder'
      <3>1. \A r \in Questions : run[r].born \in Nat
        BY ChatAssumption, FS_CardinalityType DEF ChatIInv, ChatShape, Run
      <3> QED
        BY <2>2, <2>5, <3>1 DEF ChatIInv, BornInOrder
    <2>7. Executed' /\ DroppedKept'
      BY <1>2, <1>6, <2>2 DEF ChatIInv, ChatShape, Executed, DroppedKept
    <2> QED
      BY <2>3, <2>4, <2>6, <2>7 DEF ChatIInv
  <1> QED
    BY <1>5, <1>6

LEMMA FailTickStep ==
    ASSUME ChatIInv, NEW w \in Replicas, FailTick(w)
    PROVE  ChatIInv'
  <1>1. GoOn(w, "idle", {})
    BY DEF FailTick, GoOn
  <1> QED
    BY <1>1, Idles, TickStep DEF FailTick, ChatIInv, ChatShape

-----------------------------------------------------------------------------
LEMMA ChatStarts == ChatInit => ChatIInv
  <1> SUFFICES ASSUME ChatInit PROVE ChatIInv
    OBVIOUS
  <1> USE DEF ChatInit
  <1>1. /\ Unasked \in Message /\ ~Unasked.request /\ NoLock \in Lock /\ NoCancel \in Cancel
        /\ NewTick \in Tick /\ NewTick.at = "idle" /\ NewTick.todo = {}
    BY DEF Unasked, Message, NoLock, Lock, NoCancel, Cancel, NewTick, Tick
  <1>2. NoRun \in Run /\ NoRun.state = "none" /\ NoRun.born = 0
    BY ChatAssumption, FS_CardinalityType DEF NoRun, Run
  <1>3. ChatShape
    <2>1. /\ message \in [Questions -> Message] /\ run \in [Questions -> Run]
          /\ lock \in [Conversations -> Lock] /\ tick \in [Replicas -> Tick]
      BY <1>1, <1>2
    <2>2. exec \in [Questions -> Exec] /\ answers \in [Questions -> 0..1]
      BY DEF Exec
    <2> QED
      BY <1>1, <2>1, <2>2 DEF ChatShape
  <1>4. AskedFirst /\ Listed
    BY <1>1, <1>2 DEF AskedFirst, Listed, Fits
  <1>5. BornInOrder
    <2>1. {q \in Questions : run[q].born > 0} = {}
      BY <1>2
    <2>2. Born = 0
      BY <2>1, FS_EmptySet DEF Born
    <2> QED
      BY <1>2, <2>2 DEF BornInOrder
  <1>6. Executed /\ DroppedKept
    BY <1>2 DEF Executed, DroppedKept
  <1> QED
    BY <1>3, <1>4, <1>5, <1>6 DEF ChatIInv

LEMMA ChatSteps == ChatIInv /\ [ChatNext]_chatVars => ChatIInv'
  <1> SUFFICES ASSUME ChatIInv, [ChatNext]_chatVars PROVE ChatIInv'
    OBVIOUS
  <1>1. ASSUME NEW q \in Questions, NEW k \in Conversations, Ask(q, k) PROVE ChatIInv'
    BY <1>1, AskStep
  <1>2. ASSUME NEW k \in Conversations, ChangeMembers(k) \/ FindOpenRuns(k) \/ LapseLock(k) PROVE ChatIInv'
    BY <1>2, ChangeMembersStep, FindOpenRunsStep, LapseLockStep
  <1>3. CASE CancelQuestions \/ CancelRuns
    BY <1>3, CancelQuestionsStep, CancelRunsStep
  <1>4. ASSUME NEW w \in Replicas, Housekeeping(w) \/ FailTick(w) PROVE ChatIInv'
    BY <1>4, AppendAnswerStep, FailExpiredStep, MarkPublishedStep, UnlockExpiredStep, FindRequestsStep,
       InsertRunStep, UnsetRequestStep, FindQueuedStep, LockConversationStep, TakeRunStep, FailTickStep
       DEF Housekeeping
  <1>5. ASSUME NEW q \in Questions, Execute(q) \/ Die(q) \/ LapseRun(q) PROVE ChatIInv'
    BY <1>5, GuardRunStep, ReadTriggerStep, ReserveBudgetStep, AnalyzeStep, CheckAgainStep, CompleteRunStep,
       RefundStep, FailRunStep, ReleaseConversationStep, DieStep, LapseRunStep DEF Execute
  <1>6. CASE UNCHANGED chatVars
    <2>1. UNCHANGED <<message, run, exec, lock, answers>> /\ UNCHANGED <<tick, cancel, dropped>>
      BY <1>6 DEF chatVars
    <2> QED
      BY <2>1, UserStep DEF ChatIInv, ChatShape, AskedFirst, IsAsked
  <1> QED
    BY <1>1, <1>2, <1>3, <1>4, <1>5, <1>6 DEF ChatNext

\* Questions, runs, lists and cancellations fit together in every reachable state, whether or not a
\* worker outlives its lease.
THEOREM ChatInvariance == ChatSpec => []ChatIInv
  <1>1. ChatInit => ChatIInv
    BY ChatStarts
  <1>2. ChatIInv /\ [ChatNext]_chatVars => ChatIInv'
    BY ChatSteps
  <1> QED
    BY <1>1, <1>2, PTL DEF ChatSpec

\* A question that was not answered when its cancellation finished is never answered.
THEOREM DroppedUnanswered == ChatSpec => []DroppedNeverAnswered
  <1>1. ChatIInv => DroppedNeverAnswered
    BY DEF ChatIInv, ChatShape, Executed, DroppedKept, DroppedNeverAnswered
  <1> QED
    BY <1>1, ChatInvariance, PTL

-----------------------------------------------------------------------------
(* Turns, when no worker outlives the lease of its run. *)

\* A list of candidates is one that was just read, or what is left of an earlier one.
Remains(w) ==
    \/ \A r \in Questions : run'[r].state = "queued" => r \in tick'[w].todo
    \/ /\ tick[w].at \in {"lock", "take"} /\ tick'[w].todo \subseteq tick[w].todo
       /\ \A q \in tick'[w].todo, r \in Questions : Together(q, r) /\ r \in tick[w].todo => r \in tick'[w].todo

\* A question at work, or one that has a run, is in a conversation.
LEMMA Placed ==
    ASSUME ChatIInv, NEW q \in Questions, run[q].state # "none" \/ Busy(q)
    PROVE  IsAsked(q) /\ message[q].conversation \in Conversations /\ run[q].state # "none"
    BY DEF ChatIInv, ChatShape, AskedFirst, Executed, IsAsked, Busy, Message

\* The order of a list outlives everything but the start of a run.
LEMMA OrderStays ==
    ASSUME ChatIInv, InTurn,
           \A q \in Questions : IsAsked(q) => message'[q].conversation = message[q].conversation,
           \A q \in Questions :
              /\ run[q].state # "none" => run'[q].born = run[q].born
              /\ run'[q].state = "queued" /\ run[q].state # "queued" =>
                    IsAsked(q) /\ \A p \in Questions : run[p].state # "none" => run[p].born <= run'[q].born,
           \A v \in Replicas : tick'[v] = tick[v] \/ (tick'[v].at # "take" /\ (tick'[v].at = "lock" => Remains(v)))
    PROVE  InTurn'
  <1>1. ASSUME NEW r \in Questions, run'[r].state = "queued" PROVE IsAsked(r)
    BY <1>1, Placed
  <1>2. ASSUME NEW w \in Replicas, tick'[w].at \in {"lock", "take"}, NEW q \in tick'[w].todo, NEW r \in Questions,
               run'[r].state = "queued", Together(q, r)', r \notin tick'[w].todo
        PROVE  run'[q].born <= run'[r].born
    <2>1. q \in tick[w].todo /\ tick[w].at \in {"lock", "take"} /\ (Together(q, r) => r \notin tick[w].todo)
      BY <1>2 DEF Remains
    <2>2. q \in Questions /\ IsAsked(q) /\ run[q].state # "none"
      BY <2>1, Listing
    <2>3. Together(q, r)
      BY <1>1, <1>2, <2>2 DEF Together
    <2>4. CASE run[r].state = "queued"
      BY <1>2, <2>1, <2>2, <2>3, <2>4 DEF InTurn
    <2>5. CASE run[r].state # "queued"
      BY <1>2, <2>2, <2>5
    <2> QED
      BY <2>4, <2>5
  <1>3. ASSUME NEW w \in Replicas, tick'[w].at = "take", NEW q, q = tick'[w].q, NEW r \in Questions,
               run'[r].state = "queued", Together(q, r)'
        PROVE  run'[q].born <= run'[r].born
    <2>1. tick'[w] = tick[w]
      BY <1>3
    <2>2. q = tick[w].q /\ tick[w].at = "take"
      BY <1>3, <2>1
    <2>3. q \in Questions /\ run[q].state # "none"
      BY <2>2, Listing
    <2>4. IsAsked(q)
      BY <2>3, Placed
    <2>5. Together(q, r)
      BY <1>1, <1>3, <2>3, <2>4 DEF Together
    <2>6. CASE run[r].state = "queued"
      BY <1>3, <2>2, <2>3, <2>5, <2>6 DEF InTurn
    <2>7. CASE run[r].state # "queued"
      BY <1>3, <2>3, <2>7
    <2> QED
      BY <2>6, <2>7
  <1> QED
    BY <1>2, <1>3 DEF InTurn, Together

\* Locks that stay keep those who hold them, unless a run starts.
LEMMA LocksStay ==
    ASSUME ChatIInv, LockKept, UNCHANGED lock,
           \A q \in Questions : IsAsked(q) => message'[q].conversation = message[q].conversation,
           \A q \in Questions :
              /\ Busy(q)' => Busy(q)
              /\ run'[q].state = "queued" => run[q].state \in {"none", "queued"}
              /\ run'[q].state = "running" /\ ~run'[q].live => ~Busy(q)',
           \A v \in Replicas : \/ tick'[v] = tick[v]
                               \/ tick'[v].at \notin {"take", "unlock"}
                               \/ tick'[v].at = "unlock" /\ exec'[tick'[v].q] \in {"none", "over"}
    PROVE  LockKept'
  <1>1. ASSUME NEW q \in Questions, Busy(q)' PROVE Holds(q)'
    <2>1. Busy(q) /\ IsAsked(q)
      BY <1>1, Placed
    <2> QED
      BY <2>1 DEF LockKept, Holds
  <1>2. ASSUME NEW w \in Replicas, tick'[w].at = "take"
        PROVE  /\ tick'[w] = tick[w] /\ tick[w].at = "take" /\ tick[w].q \in Questions
               /\ IsAsked(tick[w].q) /\ run[tick[w].q].state # "none"
    <2>1. tick'[w] = tick[w]
      BY <1>2
    <2>2. tick[w].q \in Questions /\ run[tick[w].q].state # "none"
      BY <1>2, <2>1, Listing
    <2> QED
      BY <1>2, <2>1, <2>2, Placed
  <1>3. ASSUME NEW w \in Replicas, tick'[w].at \in {"take", "unlock"}
        PROVE  exec'[tick'[w].q] \in {"none", "over"}
    <2>1. CASE tick'[w] = tick[w]
      <3>1. tick[w].q \in Questions /\ ~Busy(tick[w].q)
        BY <1>3, <2>1, Listing DEF LockKept
      <3> QED
        BY <2>1, <3>1 DEF Busy
    <2>2. CASE tick'[w] # tick[w]
      BY <1>3, <2>2
    <2> QED
      BY <2>1, <2>2
  <1>4. ASSUME NEW w \in Replicas, tick'[w].at = "take", NEW q, q = tick'[w].q, run'[q].state = "queued"
        PROVE  Holds(q)' /\ q = tick[w].q /\ run[q].state = "queued"
    <2>1. q = tick[w].q /\ tick[w].at = "take" /\ q \in Questions /\ IsAsked(q) /\ run[q].state # "none"
      BY <1>2, <1>4
    <2>2. run[q].state = "queued"
      BY <1>4, <2>1
    <2>3. Holds(q)
      BY <2>1, <2>2 DEF LockKept
    <2> QED
      BY <2>1, <2>2, <2>3 DEF Holds
  <1>5. ASSUME NEW v \in Replicas, NEW w \in Replicas, tick'[v].at = "take", tick'[w].at = "take",
               tick'[v].q = tick'[w].q, v # w
        PROVE  run'[tick'[w].q].state # "queued"
    <2>1. tick'[v] = tick[v] /\ tick'[w] = tick[w]
      BY <1>2, <1>5
    <2>2. run[tick[w].q].state # "queued"
      BY <1>5, <2>1 DEF LockKept
    <2> QED
      BY <1>4, <1>5, <2>1, <2>2
  <1>6. \A q \in Questions : run'[q].state = "running" /\ ~run'[q].live => ~Busy(q)'
    OBVIOUS
  <1> QED
    BY <1>1, <1>3, <1>4, <1>5, <1>6 DEF LockKept, Busy, Holds

\* A lock that is taken away is one nobody relies on.
LEMMA UnlockStep ==
    ASSUME ChatIInv, LockKept, NEW q \in Questions, run[q].state # "queued", ~Busy(q)', UNCHANGED <<message, run>>,
           lock' = Unlocked(message[q].conversation, q),
           \A r \in Questions : r # q => exec'[r] = exec[r],
           \A v \in Replicas : tick'[v] = tick[v] \/ tick'[v].at \notin {"take", "unlock"}
    PROVE  LockKept'
  <1>1. \A k \in Conversations : lock'[k] = lock[k] \/ lock[k].run = q
    BY UnlockedFacts DEF ChatIInv, ChatShape
  <1>2. ASSUME NEW r \in Questions, r # q, Holds(r), run[r].state # "none" PROVE Holds(r)'
    <2>1. message[r].conversation \in Conversations /\ lock[message[r].conversation].run = r
      BY <1>2, Placed DEF Holds
    <2> QED
      BY <1>1, <1>2, <2>1 DEF Holds
  <1>3. ASSUME NEW r \in Questions, Busy(r)' PROVE Holds(r)'
    <2>1. r # q /\ Busy(r)
      BY <1>3 DEF Busy
    <2>2. Holds(r) /\ run[r].state # "none"
      BY <2>1, Placed DEF LockKept
    <2> QED
      BY <1>2, <2>1, <2>2
  <1>4. ASSUME NEW w \in Replicas, tick'[w].at \in {"take", "unlock"}, NEW r, r = tick'[w].q
        PROVE  /\ tick'[w] = tick[w] /\ r \in Questions /\ exec'[r] \in {"none", "over"}
               /\ tick[w].at = "take" /\ run[r].state = "queued" => Holds(r)'
    <2>1. tick'[w] = tick[w]
      BY <1>4
    <2>2. r \in Questions /\ ~Busy(r) /\ r = tick[w].q
      BY <1>4, <2>1, Listing DEF LockKept
    <2>3. exec'[r] \in {"none", "over"}
      BY <2>2 DEF Busy
    <2>4. ASSUME tick[w].at = "take", run[r].state = "queued" PROVE Holds(r)'
      <3>1. Holds(r) /\ r # q /\ run[r].state # "none"
        BY <2>2, <2>4 DEF LockKept
      <3> QED
        BY <1>2, <2>2, <3>1
    <2> QED
      BY <2>1, <2>2, <2>3, <2>4
  <1>5. \A v, w \in Replicas :
           tick'[v].at = "take" /\ tick'[w].at = "take" /\ tick'[v].q = tick'[w].q /\ v # w =>
              run'[tick'[w].q].state # "queued"
    BY <1>4 DEF LockKept
  <1>6. \A r \in Questions : run'[r].state = "running" /\ ~run'[r].live => ~Busy(r)'
    BY DEF LockKept, Busy
  <1> QED
    BY <1>3, <1>4, <1>5, <1>6 DEF LockKept, Busy, Holds

LEMMA UsersKeepTurns ==
    ASSUME TurnsIInv,
           \/ \E q \in Questions, k \in Conversations : Ask(q, k)
           \/ \E k \in Conversations : ChangeMembers(k) \/ FindOpenRuns(k)
           \/ CancelQuestions \/ CancelRuns
    PROVE  LockKept' /\ InTurn'
  <1>1. message \in [Questions -> Message] /\ run \in [Questions -> Run]
    BY DEF TurnsIInv, ChatIInv, ChatShape
  <1>2. \A q \in Questions : IsAsked(q) => message'[q].conversation = message[q].conversation
    <2>1. CASE \E q \in Questions, k \in Conversations : Ask(q, k)
      BY <1>1, <2>1 DEF Ask, IsAsked, Message
    <2>2. CASE \E k \in Conversations : ChangeMembers(k)
      BY <1>1, <2>2 DEF ChangeMembers, Message
    <2>3. CASE CancelQuestions
      BY <1>1, <2>3 DEF CancelQuestions, Message
    <2>4. CASE CancelRuns \/ \E k \in Conversations : FindOpenRuns(k)
      BY <2>4 DEF CancelRuns, FindOpenRuns
    <2> QED
      BY <2>1, <2>2, <2>3, <2>4
  <1>3. \A q \in Questions : run'[q].born = run[q].born /\ (run'[q] = run[q] \/ run'[q].state = "cancelled")
    <2>1. CASE CancelRuns
      BY ZenonT(60), <1>1, <2>1 DEF CancelRuns, Ended, Run
    <2>2. CASE ~CancelRuns
      BY <2>2 DEF Ask, ChangeMembers, FindOpenRuns, CancelQuestions
    <2> QED
      BY <2>1, <2>2
  <1>4. UNCHANGED <<lock, exec, tick>>
    BY DEF Ask, ChangeMembers, FindOpenRuns, CancelQuestions, CancelRuns
  <1>5. InTurn'
    BY <1>2, <1>3, <1>4, OrderStays DEF TurnsIInv
  <1>6. LockKept'
    <2>1. \A q \in Questions :
             /\ Busy(q)' => Busy(q)
             /\ run'[q].state = "queued" => run[q].state \in {"none", "queued"}
             /\ run'[q].state = "running" /\ ~run'[q].live => ~Busy(q)'
      BY <1>3, <1>4 DEF Busy, TurnsIInv, LockKept
    <2> QED
      BY <1>2, <1>4, <2>1, LocksStay DEF TurnsIInv
  <1> QED
    BY <1>5, <1>6

\* A run goes on under its lock.
LEMMA ExecKeepsTurns ==
    ASSUME TurnsIInv, NEW q \in Questions, UNCHANGED <<message, lock, tick>>, Busy(q) \/ exec'[q] = exec[q],
           run' = run \/ \E state \in {"completed", "failed", "cancelled"} : run' = End(q, state),
           \A r \in Questions : r # q => exec'[r] = exec[r]
    PROVE  LockKept' /\ InTurn'
  <1>1. \A r \in Questions :
           /\ run'[r].born = run[r].born
           /\ run'[r] = run[r] \/ run'[r].state \in {"completed", "failed", "cancelled"}
    BY EndFacts DEF TurnsIInv, ChatIInv, ChatShape
  <1>2. InTurn'
    BY <1>1, OrderStays DEF TurnsIInv
  <1>3. \A r \in Questions : Busy(r)' => Busy(r)
    BY DEF Busy
  <1>4. LockKept'
    <2>1. \A r \in Questions :
             /\ run'[r].state = "queued" => run[r].state \in {"none", "queued"}
             /\ run'[r].state = "running" /\ ~run'[r].live => ~Busy(r)'
      BY <1>1, <1>3 DEF TurnsIInv, LockKept
    <2> QED
      BY <1>3, <2>1, LocksStay DEF TurnsIInv
  <1> QED
    BY <1>2, <1>4

LEMMA RunsKeepTurns ==
    ASSUME TurnsIInv, NEW q \in Questions,
           \/ GuardRun(q) \/ ReadTrigger(q) \/ ReserveBudget(q) \/ Analyze(q) \/ CheckAgain(q)
           \/ CompleteRun(q) \/ Refund(q) \/ FailRun(q) \/ Die(q)
    PROVE  LockKept' /\ InTurn'
  <1>1. Busy(q)
    BY DEF Busy, GuardRun, ReadTrigger, ReserveBudget, Analyze, CheckAgain, CompleteRun, Refund, FailRun, Die
  <1>2. UNCHANGED <<message, lock, tick>>
    BY DEF GuardRun, ReadTrigger, ReserveBudget, Analyze, CheckAgain, CompleteRun, Refund, FailRun, Die
  <1>3. run' = run \/ \E state \in {"completed", "failed", "cancelled"} : run' = End(q, state)
    BY DEF GuardRun, ReadTrigger, ReserveBudget, Analyze, CheckAgain, CompleteRun, Refund, FailRun, Die
  <1>4. \E at : Goes(q, at)
    BY DEF GuardRun, ReadTrigger, ReserveBudget, Analyze, CheckAgain, CompleteRun, Refund, FailRun, Die
  <1>5. \A r \in Questions : r # q => exec'[r] = exec[r]
    BY <1>4 DEF Goes, TurnsIInv, ChatIInv, ChatShape
  <1> QED
    BY <1>1, <1>2, <1>3, <1>5, ExecKeepsTurns

LEMMA ReleaseKeepsTurns ==
    ASSUME TurnsIInv, NEW q \in Questions, ReleaseConversation(q)
    PROVE  LockKept' /\ InTurn'
  <1> USE DEF ReleaseConversation
  <1>1. /\ exec'[q] = "over"
        /\ \A r \in Questions : r # q => exec'[r] = exec[r]
    BY GoesFacts DEF TurnsIInv, ChatIInv, ChatShape, Exec
  <1>2. run[q].state # "queued" /\ ~Busy(q)'
    BY <1>1 DEF TurnsIInv, ChatIInv, Executed, Busy
  <1>3. LockKept'
    BY <1>1, <1>2, UnlockStep DEF TurnsIInv
  <1>4. InTurn'
    BY OrderStays DEF TurnsIInv
  <1> QED
    BY <1>3, <1>4

\* A lease runs out only on a run whose replica is gone.
LEMMA LapseRunKeepsTurns ==
    ASSUME TurnsIInv, ~WorkersStall, NEW q \in Questions, LapseRun(q)
    PROVE  LockKept' /\ InTurn'
  <1> USE DEF LapseRun
  <1>1. /\ \A r \in Questions : run'[r].born = run[r].born /\ run'[r].state = run[r].state
        /\ \A r \in Questions : r # q => run'[r] = run[r]
    BY ExpireFacts DEF TurnsIInv, ChatIInv, ChatShape
  <1>2. InTurn'
    BY <1>1, OrderStays DEF TurnsIInv
  <1>3. LockKept'
    <2>1. ~Busy(q)
      BY DEF Outlived, Busy
    <2>2. \A r \in Questions : run'[r].state = "running" /\ ~run'[r].live => ~Busy(r)'
      BY <1>1, <2>1 DEF TurnsIInv, LockKept, Busy
    <2>3. \A r \in Questions : Busy(r)' => Busy(r)
      BY DEF Busy
    <2> QED
      BY <1>1, <2>2, <2>3, LocksStay DEF TurnsIInv
  <1> QED
    BY <1>2, <1>3

LEMMA LapseLockKeepsTurns ==
    ASSUME TurnsIInv, ~WorkersStall, NEW k \in Conversations, LapseLock(k)
    PROVE  LockKept' /\ InTurn'
  <1> USE DEF LapseLock
  <1>1. InTurn'
    BY OrderStays DEF TurnsIInv
  <1>2. \A m \in Conversations : m # k => lock'[m] = lock[m]
    BY DEF TurnsIInv, ChatIInv, ChatShape
  <1>3. ASSUME NEW r \in Questions, Holds(r), run[r].state # "none",
               Busy(r) \/ \E w \in Replicas : tick[w].at = "take" /\ tick[w].q = r
        PROVE  Holds(r)'
    <2>1. message[r].conversation \in Conversations /\ lock[message[r].conversation].run = r
      BY <1>3, Placed DEF Holds, TurnsIInv
    <2>2. message[r].conversation # k
      BY <1>3, <2>1 DEF Outlived, Busy
    <2> QED
      BY <1>2, <1>3, <2>1, <2>2 DEF Holds
  <1>4. \A r \in Questions : Busy(r)' => Holds(r)'
    <2>1. \A r \in Questions : Busy(r)' => Busy(r)
      BY DEF Busy
    <2> QED
      BY <1>3, <2>1, Placed DEF TurnsIInv, LockKept
  <1>5. ASSUME NEW w \in Replicas, tick[w].at = "take", NEW r, r = tick[w].q, run[r].state = "queued"
        PROVE  Holds(r)'
    <2>1. r \in Questions /\ Holds(r)
      BY <1>5, Listing DEF TurnsIInv, LockKept
    <2> QED
      BY <1>3, <1>5, <2>1
  <1>6. LockKept'
    BY <1>4, <1>5 DEF TurnsIInv, LockKept, Busy, Holds
  <1> QED
    BY <1>1, <1>6

\* Housekeeping that leaves the locks alone.
LEMMA TickKeepsTurns ==
    ASSUME TurnsIInv, NEW w \in Replicas, UNCHANGED <<lock, exec>>,
           \A v \in Replicas : v # w => tick'[v] = tick[v],
           \/ tick'[w].at \notin {"lock", "take", "unlock"}
           \/ tick'[w].at = "lock" /\ Remains(w)
           \/ tick'[w].at = "unlock" /\ exec[tick'[w].q] \in {"none", "over"},
           \A q \in Questions :
              /\ message'[q].conversation = message[q].conversation
              /\ run[q].state # "none" => run'[q].born = run[q].born
              /\ run'[q].state = "queued" /\ run[q].state # "queued" =>
                    /\ run[q].state = "none" /\ IsAsked(q)
                    /\ \A p \in Questions : run[p].state # "none" => run[p].born <= run'[q].born
              /\ run'[q].state = "running" => run[q].state = "running" /\ run'[q].live = run[q].live
    PROVE  LockKept' /\ InTurn'
  <1>1. InTurn'
    BY OrderStays DEF TurnsIInv
  <1>2. \A q \in Questions : Busy(q)' => Busy(q)
    BY DEF Busy
  <1>3. \A q \in Questions : run'[q].state = "running" /\ ~run'[q].live => ~Busy(q)'
    BY <1>2 DEF TurnsIInv, LockKept
  <1>4. LockKept'
    BY <1>2, <1>3, LocksStay DEF TurnsIInv
  <1> QED
    BY <1>1, <1>4

LEMMA AppendAnswerKeepsTurns ==
    ASSUME TurnsIInv, NEW w \in Replicas, NEW q \in Questions, AppendAnswer(w, q)
    PROVE  LockKept' /\ InTurn'
  <1>1. tick'[w].at = "mark" /\ \A v \in Replicas : v # w => tick'[v] = tick[v]
    BY StepFacts DEF AppendAnswer, TurnsIInv, ChatIInv, ChatShape
  <1> QED
    BY <1>1, TickKeepsTurns DEF AppendAnswer

LEMMA MarkPublishedKeepsTurns ==
    ASSUME TurnsIInv, NEW w \in Replicas, MarkPublished(w)
    PROVE  LockKept' /\ InTurn'
  <1>1. tick'[w].at = "idle" /\ \A v \in Replicas : v # w => tick'[v] = tick[v]
    BY Idles DEF MarkPublished, TurnsIInv
  <1>2. \A r \in Questions : /\ run'[r].born = run[r].born /\ run'[r].state = run[r].state
                             /\ run'[r].live = run[r].live
    BY DEF MarkPublished, TurnsIInv, ChatIInv, ChatShape, Run
  <1> QED
    BY <1>1, <1>2, TickKeepsTurns DEF MarkPublished

LEMMA FailExpiredKeepsTurns ==
    ASSUME TurnsIInv, NEW w \in Replicas, NEW q \in Questions, FailExpired(w, q)
    PROVE  LockKept' /\ InTurn'
  <1>1. /\ tick'[w].at = "unlock" /\ tick'[w].q = q
        /\ \A v \in Replicas : v # w => tick'[v] = tick[v]
    BY StepFacts DEF FailExpired, TurnsIInv, ChatIInv, ChatShape
  <1>2. /\ \A r \in Questions : run'[r].born = run[r].born
        /\ run'[q].state = "failed"
        /\ \A r \in Questions : r # q => run'[r] = run[r]
    BY EndFacts DEF FailExpired, TurnsIInv, ChatIInv, ChatShape
  <1>3. exec[q] \in {"none", "over"}
    BY DEF FailExpired, TurnsIInv, LockKept, Busy
  <1> QED
    BY <1>1, <1>2, <1>3, TickKeepsTurns DEF FailExpired

LEMMA FindRequestsKeepsTurns ==
    ASSUME TurnsIInv, NEW w \in Replicas, FindRequests(w)
    PROVE  LockKept' /\ InTurn'
  <1>1. tick'[w].at = "insert" /\ \A v \in Replicas : v # w => tick'[v] = tick[v]
    BY DEF FindRequests, Look, TurnsIInv, ChatIInv, ChatShape
  <1> QED
    BY <1>1, TickKeepsTurns DEF FindRequests, Look

\* A run that is made has the highest number.
LEMMA InsertRunKeepsTurns ==
    ASSUME TurnsIInv, NEW w \in Replicas, InsertRun(w)
    PROVE  LockKept' /\ InTurn'
  <1> USE DEF InsertRun
  <1>1. PICK q \in tick[w].todo :
           /\ run' = IF run[q].state # "none" THEN run
                     ELSE [run EXCEPT ![q] = [@ EXCEPT !.state = "queued", !.born = Born + 1]]
           /\ Step(w, "unset", q)
    OBVIOUS
  <1>2. q \in Questions /\ IsAsked(q)
    BY Listing DEF TurnsIInv
  <1>3. tick'[w].at = "unset" /\ \A v \in Replicas : v # w => tick'[v] = tick[v]
    BY <1>1, <1>2, StepFacts DEF TurnsIInv, ChatIInv, ChatShape
  <1>4. CASE run[q].state # "none"
    BY <1>1, <1>3, <1>4, TickKeepsTurns
  <1>5. CASE run[q].state = "none"
    <2>1. run[q].born = 0
      BY <1>2, <1>5 DEF TurnsIInv, ChatIInv, BornInOrder
    <2>2. /\ run'[q].state = "queued" /\ run'[q].born = Born + 1
          /\ \A r \in Questions : r # q => run'[r] = run[r]
      BY <1>1, <1>2, <1>5, <2>1, InsertedFacts DEF TurnsIInv, ChatIInv, ChatShape
    <2>3. \A p \in Questions : run[p].born <= run'[q].born
      <3>1. Born \in Nat /\ Cardinality(Questions) \in Nat
        BY <1>2, <2>1, BornRoom
      <3>2. \A p \in Questions : run[p].born <= Born /\ run[p].born \in Nat
        BY <3>1 DEF TurnsIInv, ChatIInv, ChatShape, BornInOrder, Run
      <3> QED
        BY <2>2, <3>1, <3>2
    <2> QED
      BY <1>2, <1>3, <1>5, <2>2, <2>3, TickKeepsTurns
  <1> QED
    BY <1>4, <1>5

LEMMA UnsetRequestKeepsTurns ==
    ASSUME TurnsIInv, NEW w \in Replicas, UnsetRequest(w)
    PROVE  LockKept' /\ InTurn'
  <1> USE DEF UnsetRequest
  <1>1. tick[w].q \in Questions /\ message \in [Questions -> Message]
    BY Listing DEF TurnsIInv, ChatIInv, ChatShape
  <1>2. \A r \in Questions : message'[r].conversation = message[r].conversation
    BY <1>1, UnsetFacts
  <1> DEFINE left == tick[w].todo \ {tick[w].q}
  <1>3. left \subseteq Questions /\ GoOn(w, "insert", left)
    BY Listing DEF TurnsIInv
  <1> HIDE DEF left
  <1>4. tick'[w].at \in {"idle", "insert"} /\ \A v \in Replicas : v # w => tick'[v] = tick[v]
    BY <1>3, GoOnFacts DEF TurnsIInv, ChatIInv, ChatShape
  <1> QED
    BY <1>2, <1>4, TickKeepsTurns

LEMMA FindQueuedKeepsTurns ==
    ASSUME TurnsIInv, NEW w \in Replicas, FindQueued(w)
    PROVE  LockKept' /\ InTurn'
  <1> USE DEF FindQueued, Look
  <1>1. /\ tick'[w].at = "lock" /\ tick'[w].todo = {q \in Questions : run[q].state = "queued"}
        /\ \A v \in Replicas : v # w => tick'[v] = tick[v]
    BY DEF TurnsIInv, ChatIInv, ChatShape
  <1>2. Remains(w)
    BY <1>1 DEF Remains
  <1> QED
    BY <1>1, <1>2, TickKeepsTurns

LEMMA FailTickKeepsTurns ==
    ASSUME TurnsIInv, NEW w \in Replicas, FailTick(w)
    PROVE  LockKept' /\ InTurn'
  <1>1. GoOn(w, "idle", {})
    BY DEF FailTick, GoOn
  <1>2. tick'[w].at = "idle" /\ \A v \in Replicas : v # w => tick'[v] = tick[v]
    BY <1>1, Idles DEF TurnsIInv
  <1> QED
    BY <1>2, TickKeepsTurns DEF FailTick

LEMMA UnlockExpiredKeepsTurns ==
    ASSUME TurnsIInv, NEW w \in Replicas, UnlockExpired(w)
    PROVE  LockKept' /\ InTurn'
  <1> USE DEF UnlockExpired
  <1>1. PICK q : q = tick[w].q
    OBVIOUS
  <1>2. q \in Questions /\ run[q].state # "queued" /\ ~Busy(q)
    BY <1>1, Listing DEF TurnsIInv, LockKept
  <1>3. tick'[w].at = "idle" /\ \A v \in Replicas : v # w => tick'[v] = tick[v]
    BY Idles DEF TurnsIInv
  <1>4. lock' = Unlocked(message[q].conversation, q) /\ ~Busy(q)'
    BY <1>1, <1>2 DEF Busy
  <1>5. LockKept'
    BY <1>2, <1>3, <1>4, UnlockStep DEF TurnsIInv
  <1>6. InTurn'
    BY <1>3, OrderStays DEF TurnsIInv
  <1> QED
    BY <1>5, <1>6

\* Only a conversation whose last turn is over is locked, and for the oldest that waits in it.
LEMMA LockConversationKeepsTurns ==
    ASSUME TurnsIInv, NEW w \in Replicas, LockConversation(w)
    PROVE  LockKept' /\ InTurn'
  <1> USE DEF LockConversation
  <1>1. PICK q \in tick[w].todo :
           LET k == message[q].conversation
               left == tick[w].todo \ Asked(k)
           IN  /\ IsOldest(q, tick[w].todo)
               /\ IF IsFree(k)
                  THEN /\ lock' = [lock EXCEPT ![k] = [run |-> q, live |-> TRUE]]
                       /\ tick' = [tick EXCEPT ![w] = [at |-> "take", todo |-> left, q |-> q]]
                  ELSE GoOn(w, "lock", left) /\ UNCHANGED lock
    OBVIOUS
  <1> DEFINE k == message[q].conversation
             left == tick[w].todo \ Asked(k)
  <1>2. /\ q \in Questions /\ run[q].state # "none" /\ left \subseteq Questions
        /\ \A r \in tick[w].todo : r \in Questions
    BY Listing DEF TurnsIInv
  <1>3. k \in Conversations
    BY <1>2, Placed DEF TurnsIInv
  <1>4. \A p \in left, r \in Questions : Together(p, r) /\ r \in tick[w].todo => r \in left
    BY <1>2 DEF Together, Asked
  <1>5. CASE ~IsFree(k)
    <2>1. GoOn(w, "lock", left) /\ UNCHANGED lock
      BY <1>1, <1>5
    <2>2. left \subseteq tick[w].todo
      OBVIOUS
    <2> HIDE DEF left
    <2>3. /\ tick'[w].at \in {"idle", "lock"} /\ tick'[w].todo = left
          /\ \A v \in Replicas : v # w => tick'[v] = tick[v]
      BY <1>2, <2>1, GoOnFacts DEF TurnsIInv, ChatIInv, ChatShape
    <2>4. Remains(w)
      BY <1>4, <2>2, <2>3 DEF Remains
    <2> QED
      BY <2>1, <2>3, <2>4, TickKeepsTurns
  <1>6. CASE IsFree(k)
    <2> DEFINE mine == [run |-> q, live |-> TRUE]
               next == [at |-> "take", todo |-> left, q |-> q]
    <2>1. lock' = [lock EXCEPT ![k] = mine] /\ tick' = [tick EXCEPT ![w] = next]
      BY <1>1, <1>6
    <2>2. next.at = "take" /\ next.todo = left /\ next.q = q
      OBVIOUS
    <2> HIDE DEF next
    <2>3. /\ tick'[w] = next /\ \A v \in Replicas : v # w => tick'[v] = tick[v]
          /\ lock'[k] = mine /\ \A m \in Conversations : m # k => lock'[m] = lock[m]
      BY <1>3, <2>1 DEF TurnsIInv, ChatIInv, ChatShape
    <2>4. ASSUME NEW r \in Questions, Holds(r), run[r].state # "none"
          PROVE  message[r].conversation # k /\ Holds(r)' /\ r # q
      <3>1. message[r].conversation \in Conversations
        BY <2>4, Placed DEF TurnsIInv
      <3>2. message[r].conversation # k
        BY <1>6, <2>4, ChatAssumption DEF Holds, IsFree, NoQuestion
      <3> QED
        BY <2>3, <2>4, <3>1, <3>2 DEF Holds
    <2>5. Holds(q)'
      BY <2>3 DEF Holds
    <2>6. LockKept'
      <3>1. \A r \in Questions : Busy(r)' => Busy(r) /\ Holds(r)' /\ r # q
        <4>1. \A r \in Questions : Busy(r)' => Busy(r)
          BY DEF Busy
        <4> QED
          BY <2>4, <4>1, Placed DEF TurnsIInv, LockKept
      <3>2. ASSUME NEW v \in Replicas, tick'[v].at \in {"take", "unlock"}, NEW r, r = tick'[v].q
            PROVE  /\ exec'[r] \in {"none", "over"}
                   /\ tick'[v].at = "take" /\ run'[r].state = "queued" => Holds(r)'
                   /\ v # w /\ tick'[v].at = "take" /\ run'[r].state = "queued" => r # q
        <4>1. CASE v = w
          BY <1>2, <2>2, <2>3, <2>5, <3>1, <3>2, <4>1 DEF Busy
        <4>2. CASE v # w
          <5>1. r = tick[v].q /\ tick'[v] = tick[v] /\ r \in Questions /\ ~Busy(r)
            BY <2>3, <3>2, <4>2, Listing DEF TurnsIInv, LockKept
          <5>2. exec'[r] \in {"none", "over"}
            BY <5>1 DEF Busy
          <5>3. tick'[v].at = "take" /\ run'[r].state = "queued" => Holds(r)
            BY <5>1 DEF TurnsIInv, LockKept
          <5> QED
            BY <2>4, <5>1, <5>2, <5>3
        <4> QED
          BY <4>1, <4>2
      <3>3. ASSUME NEW u \in Replicas, NEW v \in Replicas, tick'[u].at = "take", tick'[v].at = "take",
                   tick'[u].q = tick'[v].q, u # v, run'[tick'[v].q].state = "queued"
            PROVE  FALSE
        <4>1. u # w /\ v # w
          BY <2>2, <2>3, <3>2, <3>3
        <4> QED
          BY <2>3, <3>3, <4>1 DEF TurnsIInv, LockKept
      <3>4. \A r \in Questions : run'[r].state = "running" /\ ~run'[r].live => ~Busy(r)'
        BY <3>1 DEF TurnsIInv, LockKept
      <3> QED
        BY <3>1, <3>2, <3>3, <3>4 DEF LockKept, Busy, Holds
    <2>7. InTurn'
      <3>1. ASSUME NEW r \in Questions, run[r].state = "queued", Together(q, r) PROVE run[q].born <= run[r].born
        BY <1>1, <1>2, <3>1 DEF IsOldest, TurnsIInv, InTurn
      <3>2. ASSUME NEW p \in left, NEW r \in Questions, run[r].state = "queued", Together(p, r), r \notin left
            PROVE  run[p].born <= run[r].born
        BY <1>4, <3>2 DEF TurnsIInv, InTurn
      <3> HIDE DEF left
      <3>3. ASSUME NEW v \in Replicas, v # w
            PROVE  /\ tick'[v].at \in {"lock", "take"} =>
                        \A p \in tick'[v].todo, r \in Questions :
                           run'[r].state = "queued" /\ Together(p, r) /\ r \notin tick'[v].todo =>
                              run'[p].born <= run'[r].born
                   /\ tick'[v].at = "take" =>
                        \A r \in Questions :
                           run'[r].state = "queued" /\ Together(tick'[v].q, r) =>
                              run'[tick'[v].q].born <= run'[r].born
        BY <2>3, <3>3 DEF TurnsIInv, InTurn
      <3> QED
        BY <2>2, <2>3, <3>1, <3>2, <3>3 DEF InTurn, Together
    <2> QED
      BY <2>6, <2>7
  <1> QED
    BY <1>5, <1>6

LEMMA TakeRunKeepsTurns ==
    ASSUME TurnsIInv, NEW w \in Replicas, TakeRun(w)
    PROVE  LockKept' /\ InTurn'
  <1> USE DEF TakeRun
  <1>1. PICK q : q = tick[w].q
    OBVIOUS
  <1>2. q \in Questions /\ tick[w].todo \subseteq Questions /\ ~Busy(q)
    BY <1>1, Listing DEF TurnsIInv, LockKept
  <1>3. CASE run[q].state = "queued"
    <2>1. /\ \A r \in Questions : run'[r].born = run[r].born
          /\ run'[q].state = "running" /\ run'[q].live
          /\ \A r \in Questions : r # q => run'[r] = run[r]
      BY <1>1, <1>2, <1>3, TakenFacts DEF TurnsIInv, ChatIInv, ChatShape
    <2>2. /\ exec'[q] = "guard"
          /\ \A r \in Questions : r # q => exec'[r] = exec[r]
      BY <1>1, <1>2, <1>3 DEF TurnsIInv, ChatIInv, ChatShape
    <2>3. tick'[w].at = "idle" /\ \A v \in Replicas : v # w => tick'[v] = tick[v]
      BY <1>1, <1>3, Idles DEF TurnsIInv
    <2>4. UNCHANGED <<message, lock>>
      BY <1>1, <1>3
    <2>5. InTurn'
      BY <2>1, <2>3, <2>4, OrderStays DEF TurnsIInv
    <2>6. Holds(q)
      BY <1>1, <1>3 DEF TurnsIInv, LockKept
    <2>7. \A r \in Questions : Busy(r)' => Holds(r)'
      <3>1. \A r \in Questions : Busy(r)' => Holds(r)
        BY <2>2, <2>6 DEF TurnsIInv, LockKept, Busy
      <3> QED
        BY <2>4, <3>1 DEF Holds
    <2>8. ASSUME NEW v \in Replicas, tick'[v].at \in {"take", "unlock"}, NEW r, r = tick'[v].q
          PROVE  /\ tick'[v] = tick[v] /\ r # q /\ r \in Questions
                 /\ exec'[r] \in {"none", "over"}
                 /\ tick'[v].at = "take" /\ run'[r].state = "queued" => Holds(r)'
      <3>1. v # w /\ tick'[v] = tick[v] /\ r \in Questions /\ ~Busy(r)
        BY <2>3, <2>8, Listing DEF TurnsIInv, LockKept
      <3>2. r # q
        <4>1. CASE tick[v].at = "take"
          BY <1>1, <1>3, <2>8, <3>1, <4>1 DEF TurnsIInv, LockKept
        <4>2. CASE tick[v].at = "unlock"
          BY <1>3, <2>8, <3>1, <4>2, Listing DEF TurnsIInv
        <4> QED
          BY <2>8, <3>1, <4>1, <4>2
      <3>3. tick'[v].at = "take" /\ run'[r].state = "queued" => Holds(r)
        BY <2>1, <2>8, <3>1, <3>2 DEF TurnsIInv, LockKept
      <3> QED
        BY <2>2, <2>4, <3>1, <3>2, <3>3 DEF Busy, Holds
    <2>9. ASSUME NEW u \in Replicas, NEW v \in Replicas, tick'[u].at = "take", tick'[v].at = "take",
                 tick'[u].q = tick'[v].q, u # v
          PROVE  run'[tick'[v].q].state # "queued"
      <3>1. tick'[u] = tick[u] /\ tick'[v] = tick[v] /\ tick[v].q # q /\ tick[v].q \in Questions
        BY <2>8, <2>9
      <3> QED
        BY <2>1, <2>9, <3>1 DEF TurnsIInv, LockKept
    <2>10. \A r \in Questions : run'[r].state = "running" /\ ~run'[r].live => ~Busy(r)'
      BY <2>1, <2>2 DEF TurnsIInv, LockKept, Busy
    <2> QED
      BY <2>5, <2>7, <2>8, <2>9, <2>10 DEF LockKept, Busy, Holds
  <1>4. CASE run[q].state # "queued"
    <2>1. lock' = Unlocked(message[q].conversation, q) /\ ~Busy(q)'
      BY <1>1, <1>2, <1>4 DEF Busy
    <2>2. /\ tick'[w].at \in {"idle", "lock"} /\ tick'[w].todo = tick[w].todo
          /\ \A v \in Replicas : v # w => tick'[v] = tick[v]
      BY <1>1, <1>2, <1>4, GoOnFacts DEF TurnsIInv, ChatIInv, ChatShape
    <2>3. Remains(w)
      BY <2>2 DEF Remains
    <2>4. UNCHANGED <<message, run, exec>>
      BY <1>1, <1>4
    <2>5. LockKept'
      BY <1>2, <1>4, <2>1, <2>2, <2>4, UnlockStep DEF TurnsIInv
    <2>6. InTurn'
      BY <2>2, <2>3, <2>4, OrderStays DEF TurnsIInv
    <2> QED
      BY <2>5, <2>6
  <1> QED
    BY <1>3, <1>4

-----------------------------------------------------------------------------
LEMMA TurnsStart == ChatInit => TurnsIInv
  <1> SUFFICES ASSUME ChatInit PROVE TurnsIInv
    OBVIOUS
  <1>1. ChatIInv
    BY ChatStarts
  <1>2. \A w \in Replicas : tick[w].at = "idle"
    BY DEF ChatInit, NewTick
  <1>3. LockKept
    BY <1>2 DEF ChatInit, LockKept, Busy, NoRun
  <1>4. InTurn
    BY <1>2 DEF InTurn
  <1> QED
    BY <1>1, <1>3, <1>4 DEF TurnsIInv

LEMMA TurnsSteps == ~WorkersStall /\ TurnsIInv /\ [ChatNext]_chatVars => TurnsIInv'
  <1> SUFFICES ASSUME ~WorkersStall, TurnsIInv, [ChatNext]_chatVars PROVE TurnsIInv'
    OBVIOUS
  <1>1. ChatIInv'
    BY ChatSteps DEF TurnsIInv
  <1>2. LockKept' /\ InTurn'
    <2>1. CASE \/ \E q \in Questions, k \in Conversations : Ask(q, k)
               \/ \E k \in Conversations : ChangeMembers(k) \/ FindOpenRuns(k)
               \/ CancelQuestions \/ CancelRuns
      BY <2>1, UsersKeepTurns
    <2>2. CASE \E k \in Conversations : LapseLock(k)
      BY <2>2, LapseLockKeepsTurns
    <2>3. ASSUME NEW w \in Replicas, Housekeeping(w) \/ FailTick(w) PROVE LockKept' /\ InTurn'
      BY <2>3, AppendAnswerKeepsTurns, FailExpiredKeepsTurns, MarkPublishedKeepsTurns, UnlockExpiredKeepsTurns,
         FindRequestsKeepsTurns, InsertRunKeepsTurns, UnsetRequestKeepsTurns, FindQueuedKeepsTurns,
         LockConversationKeepsTurns, TakeRunKeepsTurns, FailTickKeepsTurns DEF Housekeeping
    <2>4. ASSUME NEW q \in Questions, Execute(q) \/ Die(q) \/ LapseRun(q) PROVE LockKept' /\ InTurn'
      BY <2>4, RunsKeepTurns, ReleaseKeepsTurns, LapseRunKeepsTurns DEF Execute
    <2>5. CASE UNCHANGED chatVars
      <3>1. UNCHANGED <<message, run, exec, lock, tick>>
        BY <2>5 DEF chatVars
      <3>2. InTurn'
        BY <3>1, OrderStays DEF TurnsIInv
      <3>3. LockKept'
        BY <3>1 DEF TurnsIInv, LockKept, Busy, Holds
      <3> QED
        BY <3>2, <3>3
    <2> QED
      BY <2>1, <2>2, <2>3, <2>4, <2>5 DEF ChatNext
  <1> QED
    BY <1>1, <1>2 DEF TurnsIInv

\* Whoever is at work on a run holds its conversation, in every reachable state, if workers end
\* before the leases of their runs do.
THEOREM TurnsInvariance == ~WorkersStall /\ ChatSpec => []TurnsIInv
  <1> SUFFICES ASSUME ~WorkersStall PROVE ChatSpec => []TurnsIInv
    OBVIOUS
  <1>1. ChatInit => TurnsIInv
    BY TurnsStart
  <1>2. TurnsIInv /\ [ChatNext]_chatVars => TurnsIInv'
    BY TurnsSteps
  <1> QED
    BY <1>1, <1>2, PTL DEF ChatSpec

\* A run only ever starts by being taken.
LEMMA OnlyTaken ==
    ASSUME ChatIInv, [ChatNext]_chatVars, NEW q \in Questions, run[q].state = "queued", run'[q].state = "running"
    PROVE  \E w \in Replicas : TakeRun(w) /\ tick[w].q = q
  <1>1. run \in [Questions -> Run]
    BY DEF ChatIInv, ChatShape
  <1>2. run' # run
    OBVIOUS
  <1>3. ASSUME NEW r \in Questions, NEW state \in {"completed", "failed", "cancelled"}, run' = End(r, state)
        PROVE  FALSE
    BY <1>1, <1>3, EndFacts
  <1>4. ASSUME NEW r \in Questions, Execute(r) \/ Die(r) \/ LapseRun(r)
        PROVE  FALSE
    <2>1. CASE LapseRun(r)
      BY <1>1, <2>1, ExpireFacts DEF LapseRun
    <2>2. CASE ~LapseRun(r)
      BY <1>2, <1>3, <1>4, <2>2 DEF Execute, GuardRun, ReadTrigger, ReserveBudget, Analyze, CheckAgain,
         CompleteRun, Refund, FailRun, ReleaseConversation, Die
    <2> QED
      BY <2>1, <2>2
  <1>5. CASE CancelRuns
    BY <1>1, <1>5 DEF CancelRuns, Ended, Run
  <1>6. ASSUME NEW w \in Replicas, Housekeeping(w) \/ FailTick(w)
        PROVE  TakeRun(w) /\ tick[w].q = q
    <2>1. CASE MarkPublished(w)
      BY <1>1, <2>1 DEF MarkPublished, Run
    <2>2. CASE InsertRun(w)
      <3>1. PICK r \in tick[w].todo : run' = IF run[r].state # "none" THEN run
               ELSE [run EXCEPT ![r] = [@ EXCEPT !.state = "queued", !.born = Born + 1]]
        BY <2>2 DEF InsertRun
      <3> QED
        BY <1>1, <3>1 DEF Run
    <2>3. CASE TakeRun(w)
      BY <1>1, <2>3 DEF TakeRun
    <2>4. CASE \E r \in Questions : FailExpired(w, r)
      BY <1>3, <2>4 DEF FailExpired
    <2> QED
      BY <1>2, <1>6, <2>1, <2>2, <2>3, <2>4 DEF Housekeeping, FailTick, AppendAnswer, UnlockExpired,
         FindRequests, FindQueued, Look, UnsetRequest, LockConversation
  <1> QED
    BY <1>2, <1>4, <1>5, <1>6 DEF ChatNext, Ask, ChangeMembers, FindOpenRuns, LapseLock, CancelQuestions, chatVars

\* The turns of a conversation neither overlap nor overtake each other, for any number of replicas
\* and whatever lists they read, if workers end before the leases of their runs do.
THEOREM TurnsTaken == ~WorkersStall /\ ChatSpec => TurnsInOrder
  <1> SUFFICES ASSUME ~WorkersStall PROVE ChatSpec => TurnsInOrder
    OBVIOUS
  <1> DEFINE Turn == \A q \in Questions :
               run[q].state = "queued" /\ run'[q].state = "running" =>
                  \A r \in Asked(message[q].conversation) :
                     /\ run[r].state = "running" => exec[r] = "over"
                     /\ run[r].state = "queued" => run[q].born <= run[r].born
  <1>1. TurnsIInv /\ [ChatNext]_chatVars => Turn
    <2> SUFFICES ASSUME TurnsIInv, [ChatNext]_chatVars, NEW q \in Questions,
                        run[q].state = "queued", run'[q].state = "running",
                        NEW r \in Asked(message[q].conversation)
                 PROVE  /\ run[r].state = "running" => exec[r] = "over"
                        /\ run[r].state = "queued" => run[q].born <= run[r].born
      OBVIOUS
    <2>1. PICK w \in Replicas : tick[w].at = "take" /\ tick[w].q = q
      BY OnlyTaken DEF TurnsIInv, TakeRun
    <2>2. r \in Questions /\ Together(q, r)
      BY DEF Asked, Together
    <2>3. Holds(q)
      BY <2>1 DEF TurnsIInv, LockKept
    <2>4. run[r].state = "running" => exec[r] = "over"
      <3>1. ASSUME Busy(r) PROVE r = q
        <4>1. Holds(r)
          BY <2>2, <3>1 DEF TurnsIInv, LockKept
        <4>2. [run |-> q, live |-> TRUE] = [run |-> r, live |-> TRUE]
          BY <2>2, <2>3, <4>1 DEF Holds, Together
        <4>3. [run |-> q, live |-> TRUE].run = [run |-> r, live |-> TRUE].run
          BY <4>2
        <4> QED
          BY <4>3
      <3>2. run[r].state = "running" => exec[r] # "none" /\ r # q
        BY <2>2 DEF TurnsIInv, ChatIInv, Executed
      <3> QED
        BY <3>1, <3>2 DEF Busy
    <2>5. run[r].state = "queued" => run[q].born <= run[r].born
      BY <2>1, <2>2 DEF TurnsIInv, InTurn
    <2> QED
      BY <2>4, <2>5
  <1> QED
    BY <1>1, TurnsInvariance, PTL DEF ChatSpec, TurnsInOrder

-----------------------------------------------------------------------------
(* The budget of a day.  What replicas may still use of their reservations  *)
(* is counted in units, so that it is the size of a set and no sum.         *)

Amount == [Questions -> 0..RESERVATION]
Units(p) == {x \in Questions \X (1..RESERVATION) : x[2] <= p[x[1]]}
Total(p) == Cardinality(Units(p))
OthersUnits(p, q) == {x \in Units(p) : x[1] # q}

\* What each question's run may use or give back: all it reserved until it was analysed, then the rest.
Pledged == [q \in Questions |-> IF exec[q] = "analyze" THEN RESERVATION ELSE budget.unused[q]]

BudgetKept ==
    /\ budget \in [reserved : Nat, used : Nat, unused : Amount]
    /\ budget.used + Total(Pledged) <= budget.reserved
    /\ budget.reserved <= LIMIT

BudgetIInv == ChatIInv /\ BudgetKept /\ faults \in 0..MaxChatFaults

LEMMA IntervalSize ==
    ASSUME NEW n \in Nat
    PROVE  IsFiniteSet(1..n) /\ Cardinality(1..n) = n
  <1>1. 1 \in Int /\ n \in Int
    OBVIOUS
  <1>2. IsFiniteSet(1..n) /\ Cardinality(1..n) = IF 1 > n THEN 0 ELSE n - 1 + 1
    BY <1>1, FS_Interval, Zenon
  <1> QED
    BY <1>2

LEMMA ProductSize ==
    ASSUME NEW S, NEW T, IsFiniteSet(S), IsFiniteSet(T)
    PROVE  IsFiniteSet(S \X T) /\ Cardinality(S \X T) = Cardinality(S) * Cardinality(T)
  BY FS_Product, Zenon

LEMMA UnitsFinite ==
    ASSUME NEW p
    PROVE  IsFiniteSet(Units(p))
  <1>1. RESERVATION \in Nat /\ IsFiniteSet(Questions)
    BY ChatAssumption
  <1>2. IsFiniteSet(1..RESERVATION)
    BY <1>1, IntervalSize, Zenon
  <1>3. IsFiniteSet(Questions \X (1..RESERVATION))
    BY <1>1, <1>2, ProductSize, Zenon
  <1>4. Units(p) \in SUBSET (Questions \X (1..RESERVATION))
    BY DEF Units
  <1> QED
    BY <1>3, <1>4, FS_Subset, Zenon

\* The units of one question, and those of the others.
LEMMA TotalFacts ==
    ASSUME NEW p \in Amount, NEW q \in Questions
    PROVE  /\ Total(p) \in Nat /\ p[q] \in Nat
           /\ Cardinality(OthersUnits(p, q)) \in Nat
           /\ Total(p) = Cardinality(OthersUnits(p, q)) + p[q]
  <1> DEFINE n == p[q]
             Own == {q} \X (1..n)
             Rest == OthersUnits(p, q)
  <1>1. n \in Nat /\ n <= RESERVATION /\ RESERVATION \in Nat
    BY ChatAssumption DEF Amount
  <1>2. Units(p) = Rest \cup Own /\ Rest \cap Own = {}
    BY <1>1 DEF Units, OthersUnits
  <1>3. IsFiniteSet(Rest) /\ IsFiniteSet(Units(p))
    BY UnitsFinite, FS_Subset DEF OthersUnits
  <1> HIDE DEF n
  <1>4. IsFiniteSet(Own) /\ Cardinality(Own) = n
    <2>1. IsFiniteSet(1..n) /\ Cardinality(1..n) = n
      BY <1>1, IntervalSize, Zenon
    <2>2. IsFiniteSet({q}) /\ Cardinality({q}) = 1
      BY FS_Singleton, Zenon
    <2>3. IsFiniteSet(Own) /\ Cardinality(Own) = Cardinality({q}) * Cardinality(1..n)
      BY <2>1, <2>2, ProductSize, Zenon
    <2> QED
      BY <1>1, <2>1, <2>2, <2>3
  <1> HIDE DEF Own, Rest
  <1>5. Cardinality(Rest \cup Own) = Cardinality(Rest) + Cardinality(Own) - Cardinality(Rest \cap Own)
    BY <1>3, <1>4, FS_Union, Zenon
  <1>6. Cardinality(Rest) \in Nat /\ Cardinality(Rest \cap Own) = 0
    BY <1>2, <1>3, FS_CardinalityType, FS_EmptySet
  <1>7. Total(p) = Cardinality(Rest) + n
    BY <1>1, <1>2, <1>4, <1>5, <1>6 DEF Total
  <1> QED
    BY <1>1, <1>6, <1>7 DEF n, Rest

LEMMA TotalChanges ==
    ASSUME NEW p \in Amount, NEW r \in Amount, NEW q \in Questions,
           \A z \in Questions : z # q => r[z] = p[z]
    PROVE  /\ Total(p) \in Nat /\ Total(r) \in Nat /\ p[q] \in Nat /\ r[q] \in Nat
           /\ p[q] <= Total(p) /\ r[q] <= Total(r)
           /\ Total(r) + p[q] = Total(p) + r[q]
  <1>1. OthersUnits(p, q) = OthersUnits(r, q)
    BY DEF Units, OthersUnits
  <1>2. /\ Total(p) \in Nat /\ p[q] \in Nat
        /\ Cardinality(OthersUnits(p, q)) \in Nat
        /\ Total(p) = Cardinality(OthersUnits(p, q)) + p[q]
    BY TotalFacts
  <1>3. /\ Total(r) \in Nat /\ r[q] \in Nat
        /\ Total(r) = Cardinality(OthersUnits(r, q)) + r[q]
    BY TotalFacts
  <1> QED
    BY <1>1, <1>2, <1>3

\* A run that moves on accounts for what it reserves, uses and gives back.
LEMMA Accounted ==
    ASSUME BudgetKept, NEW q \in Questions,
           \A r \in Questions : r # q => exec'[r] = exec[r] /\ budget'.unused[r] = budget.unused[r],
           budget' \in [reserved : Int, used : Nat, unused : Amount],
           budget'.used + Pledged'[q] + budget.reserved <= budget.used + Pledged[q] + budget'.reserved,
           budget'.reserved <= LIMIT
    PROVE  BudgetKept'
  <1>1. Pledged \in Amount /\ Pledged' \in Amount
    <2>1. budget.unused \in Amount /\ budget'.unused \in Amount /\ RESERVATION \in 0..RESERVATION
      BY ChatAssumption DEF BudgetKept
    <2> QED
      BY <2>1 DEF Pledged, Amount
  <1>2. \A z \in Questions : z # q => Pledged'[z] = Pledged[z]
    BY DEF Pledged
  <1>3. /\ Total(Pledged) \in Nat /\ Total(Pledged') \in Nat /\ Pledged[q] \in Nat /\ Pledged'[q] \in Nat
        /\ Total(Pledged') + Pledged[q] = Total(Pledged) + Pledged'[q]
    BY <1>1, <1>2, TotalChanges
  <1>4. budget'.used + Total(Pledged') <= budget'.reserved
    BY <1>3 DEF BudgetKept
  <1>5. budget'.reserved \in Nat
    BY <1>3, <1>4
  <1>6. budget' \in [reserved : Nat, used : Nat, unused : Amount]
    BY <1>5
  <1> QED
    BY <1>4, <1>6 DEF BudgetKept

\* Whatever ends or moves on without a look at the budget leaves it sufficient.
LEMMA Unaccounted ==
    ASSUME BudgetKept, NEW q \in Questions, UNCHANGED budget,
           \A r \in Questions : r # q => exec'[r] = exec[r], exec'[q] # "analyze"
    PROVE  BudgetKept'
  <1>1. /\ budget \in [reserved : Nat, used : Nat, unused : Amount] /\ budget.reserved <= LIMIT
        /\ budget.unused[q] \in 0..RESERVATION /\ RESERVATION \in Nat
    BY ChatAssumption DEF BudgetKept, Amount
  <1>2. Pledged[q] \in Nat /\ Pledged'[q] \in Nat /\ Pledged'[q] <= Pledged[q]
    BY <1>1 DEF Pledged
  <1> QED
    BY <1>1, <1>2, Accounted

LEMMA BudgetRests ==
    ASSUME BudgetKept, UNCHANGED <<exec, budget>>
    PROVE  BudgetKept'
  BY DEF BudgetKept, Pledged

LEMMA BudgetActs ==
    ASSUME ChatIInv, BudgetKept, NEW q \in Questions, Execute(q) \/ Die(q)
    PROVE  BudgetKept'
  <1>1. /\ exec \in [Questions -> Exec]
        /\ budget \in [reserved : Nat, used : Nat, unused : Amount] /\ budget.reserved <= LIMIT
        /\ budget.unused \in [Questions -> 0..RESERVATION]
        /\ budget.reserved \in Nat /\ budget.used \in Nat
        /\ budget.unused[q] \in Nat /\ budget.unused[q] <= RESERVATION
        /\ RESERVATION \in Nat /\ LIMIT \in Nat
    BY ChatAssumption DEF ChatIInv, ChatShape, BudgetKept, Amount
  <1>2. ASSUME NEW at, Goes(q, at)
        PROVE  exec'[q] = at /\ \A r \in Questions : r # q => exec'[r] = exec[r]
    BY <1>1, <1>2 DEF Goes
  <1>3. CASE GuardRun(q) \/ ReadTrigger(q) \/ CheckAgain(q) \/ CompleteRun(q) \/ ReleaseConversation(q) \/ Die(q)
    <2>1. UNCHANGED budget
      BY <1>3 DEF GuardRun, ReadTrigger, CheckAgain, CompleteRun, ReleaseConversation, Die
    <2>2. \E at \in {"trigger", "release", "reserve", "complete", "refund", "over"} : Goes(q, at)
      BY <1>3 DEF GuardRun, ReadTrigger, CheckAgain, CompleteRun, ReleaseConversation, Die
    <2>3. exec'[q] # "analyze" /\ \A r \in Questions : r # q => exec'[r] = exec[r]
      BY <1>2, <2>2
    <2> QED
      BY <2>1, <2>3, Unaccounted
  <1>4. CASE ReserveBudget(q)
    <2>1. /\ budget' = [budget EXCEPT !.reserved = @ + RESERVATION]
          /\ budget.reserved + RESERVATION <= LIMIT /\ Goes(q, "analyze") /\ exec[q] = "reserve"
      BY <1>4 DEF ReserveBudget
    <2>2. /\ budget' \in [reserved : Int, used : Nat, unused : Amount]
          /\ budget'.reserved = budget.reserved + RESERVATION /\ budget'.used = budget.used
          /\ budget'.unused = budget.unused
      BY <1>1, <2>1
    <2>3. exec'[q] = "analyze" /\ \A r \in Questions : r # q => exec'[r] = exec[r]
      BY <1>2, <2>1
    <2>4. Pledged[q] = budget.unused[q] /\ Pledged'[q] = RESERVATION
      BY <2>1, <2>3 DEF Pledged
    <2>5. budget'.used + Pledged'[q] + budget.reserved <= budget.used + Pledged[q] + budget'.reserved
      BY <1>1, <2>2, <2>4
    <2> QED
      BY <2>1, <2>2, <2>3, <2>5, Accounted
  <1>5. CASE Analyze(q)
    <2>1. PICK n \in 0..RESERVATION :
             budget' = [budget EXCEPT !.used = @ + n, !.unused[q] = RESERVATION - n]
      BY <1>5 DEF Analyze
    <2>2. Goes(q, "finish") /\ exec[q] = "analyze"
      BY <1>5 DEF Analyze
    <2>3. n \in Nat /\ n <= RESERVATION /\ RESERVATION - n \in 0..RESERVATION
      BY <1>1
    <2>4. /\ budget' \in [reserved : Int, used : Nat, unused : Amount]
          /\ budget'.reserved = budget.reserved /\ budget'.used = budget.used + n
          /\ budget'.unused[q] = RESERVATION - n
          /\ \A r \in Questions : r # q => budget'.unused[r] = budget.unused[r]
      <3>1. budget' = [reserved |-> budget.reserved, used |-> budget.used + n,
                       unused |-> [budget.unused EXCEPT ![q] = RESERVATION - n]]
        BY <1>1, <2>1
      <3>2. [budget.unused EXCEPT ![q] = RESERVATION - n] \in Amount /\ budget.used + n \in Nat
        BY <1>1, <2>3 DEF Amount
      <3> QED
        BY <1>1, <3>1, <3>2
    <2>5. exec'[q] = "finish" /\ \A r \in Questions : r # q => exec'[r] = exec[r]
      BY <1>2, <2>2
    <2>6. Pledged[q] = RESERVATION /\ Pledged'[q] = RESERVATION - n
      BY <2>2, <2>4, <2>5 DEF Pledged
    <2>7. budget'.used + Pledged'[q] + budget.reserved <= budget.used + Pledged[q] + budget'.reserved
      BY <1>1, <2>3, <2>4, <2>6
    <2> QED
      BY <1>1, <2>4, <2>5, <2>7, Accounted
  <1>6. CASE Refund(q)
    <2>1. /\ budget' = [budget EXCEPT !.reserved = @ - budget.unused[q], !.unused[q] = 0]
          /\ Goes(q, "release") /\ exec[q] = "refund"
      BY <1>6 DEF Refund
    <2>2. /\ budget' \in [reserved : Int, used : Nat, unused : Amount]
          /\ budget'.reserved = budget.reserved - budget.unused[q] /\ budget'.used = budget.used
          /\ budget'.unused[q] = 0
          /\ \A r \in Questions : r # q => budget'.unused[r] = budget.unused[r]
      <3>1. budget' = [reserved |-> budget.reserved - budget.unused[q], used |-> budget.used,
                       unused |-> [budget.unused EXCEPT ![q] = 0]]
        BY <1>1, <2>1
      <3>2. [budget.unused EXCEPT ![q] = 0] \in Amount /\ budget.reserved - budget.unused[q] \in Int
        BY <1>1 DEF Amount
      <3> QED
        BY <1>1, <3>1, <3>2
    <2>3. exec'[q] = "release" /\ \A r \in Questions : r # q => exec'[r] = exec[r]
      BY <1>2, <2>1
    <2>4. Pledged[q] = budget.unused[q] /\ Pledged'[q] = 0
      BY <2>1, <2>2, <2>3 DEF Pledged
    <2>5. budget'.used + Pledged'[q] + budget.reserved <= budget.used + Pledged[q] + budget'.reserved
      BY <1>1, <2>2, <2>4
    <2>6. budget'.reserved <= LIMIT
      BY <1>1, <2>2
    <2> QED
      BY <2>2, <2>3, <2>5, <2>6, Accounted
  <1>7. CASE FailRun(q)
    <2>1. budget' = [budget EXCEPT !.unused[q] = 0] /\ Goes(q, "release")
      BY <1>7 DEF FailRun
    <2>2. /\ budget' \in [reserved : Int, used : Nat, unused : Amount]
          /\ budget'.reserved = budget.reserved /\ budget'.used = budget.used
          /\ budget'.unused[q] = 0
          /\ \A r \in Questions : r # q => budget'.unused[r] = budget.unused[r]
      BY <1>1, <2>1 DEF Amount
    <2>3. exec'[q] = "release" /\ \A r \in Questions : r # q => exec'[r] = exec[r]
      BY <1>2, <2>1
    <2>4. Pledged[q] \in Nat /\ Pledged'[q] = 0
      BY <1>1, <2>2, <2>3 DEF Pledged
    <2>5. budget'.used + Pledged'[q] + budget.reserved <= budget.used + Pledged[q] + budget'.reserved
      BY <1>1, <2>2, <2>4
    <2> QED
      BY <1>1, <2>2, <2>3, <2>5, Accounted
  <1> QED
    BY <1>3, <1>4, <1>5, <1>6, <1>7 DEF Execute

LEMMA BudgetStarts == ChatInit => BudgetIInv
  <1> SUFFICES ASSUME ChatInit PROVE BudgetIInv
    OBVIOUS
  <1>1. /\ budget = [reserved |-> 0, used |-> 0, unused |-> [q \in Questions |-> 0]]
        /\ exec = [q \in Questions |-> "none"] /\ faults = 0
    BY DEF ChatInit
  <1>2. budget \in [reserved : Nat, used : Nat, unused : Amount] /\ budget.reserved <= LIMIT
    BY <1>1, ChatAssumption DEF Amount
  <1>3. \A q \in Questions : Pledged[q] = 0
    BY <1>1 DEF Pledged
  <1>4. Units(Pledged) = {}
    <2>1. ASSUME NEW x \in Units(Pledged)
          PROVE  FALSE
      <3>1. x \in Questions \X (1..RESERVATION) /\ x[2] <= Pledged[x[1]]
        BY <2>1 DEF Units
      <3>2. x[1] \in Questions /\ x[2] \in 1..RESERVATION
        BY <3>1
      <3>3. x[2] <= 0
        BY <1>3, <3>1, <3>2, Zenon
      <3>4. RESERVATION \in Nat
        BY ChatAssumption
      <3> QED
        BY <3>2, <3>3, <3>4
    <2> QED
      BY <2>1
  <1>5. Total(Pledged) = 0
    BY <1>4, FS_EmptySet DEF Total
  <1>6. BudgetKept
    BY <1>1, <1>2, <1>5 DEF BudgetKept
  <1>7. faults \in 0..MaxChatFaults
    BY <1>1, ChatAssumption
  <1> QED
    BY <1>6, <1>7, ChatStarts DEF BudgetIInv

LEMMA BudgetSteps == BudgetIInv /\ [ChatNext]_chatVars => BudgetIInv'
  <1> SUFFICES ASSUME BudgetIInv, [ChatNext]_chatVars PROVE BudgetIInv'
    OBVIOUS
  <1>1. ChatIInv' /\ ChatIInv /\ BudgetKept /\ faults \in 0..MaxChatFaults /\ MaxChatFaults \in Nat
    BY ChatSteps, ChatAssumption DEF BudgetIInv
  <1>2. ASSUME NEW w \in Replicas, TakeRun(w)
        PROVE  BudgetKept'
    <2>1. tick[w].q \in Questions
      BY <1>1, <1>2, Listing DEF TakeRun
    <2>2. UNCHANGED budget
      BY <1>2 DEF TakeRun
    <2>3. CASE UNCHANGED exec
      BY <1>1, <2>2, <2>3, BudgetRests
    <2>4. CASE exec' = [exec EXCEPT ![tick[w].q] = "guard"]
      <3>1. exec'[tick[w].q] = "guard" /\ \A r \in Questions : r # tick[w].q => exec'[r] = exec[r]
        BY <1>1, <2>1, <2>4 DEF ChatIInv, ChatShape
      <3> QED
        BY <1>1, <2>1, <2>2, <3>1, Unaccounted
    <2> QED
      BY <1>2, <2>3, <2>4 DEF TakeRun
  <1>3. ASSUME NEW q \in Questions, Execute(q) \/ Die(q)
        PROVE  BudgetKept'
    BY <1>1, <1>3, BudgetActs
  <1>4. ASSUME NEW w \in Replicas, Housekeeping(w), ~TakeRun(w)
        PROVE  UNCHANGED <<exec, budget>>
    BY <1>4 DEF Housekeeping, AppendAnswer, FailExpired, MarkPublished, UnlockExpired, FindRequests,
                InsertRun, UnsetRequest, FindQueued, LockConversation, Look
  <1>5. ASSUME \/ \E q \in Questions, k \in Conversations : Ask(q, k)
               \/ \E k \in Conversations : ChangeMembers(k) \/ FindOpenRuns(k) \/ LapseLock(k)
               \/ CancelQuestions \/ CancelRuns
               \/ \E w \in Replicas : FailTick(w)
               \/ \E q \in Questions : LapseRun(q)
               \/ UNCHANGED chatVars
        PROVE  UNCHANGED <<exec, budget>>
    BY <1>5 DEF Ask, ChangeMembers, FindOpenRuns, LapseLock, CancelQuestions, CancelRuns, FailTick, LapseRun,
                chatVars
  <1>6. BudgetKept'
    <2>1. CASE UNCHANGED <<exec, budget>>
      BY <1>1, <2>1, BudgetRests
    <2> QED
      BY <1>2, <1>3, <1>4, <1>5, <2>1 DEF ChatNext
  <1>7. faults' \in 0..MaxChatFaults
    <2>1. \/ UNCHANGED faults
          \/ faults < MaxChatFaults /\ faults' = faults + 1
      BY DEF ChatNext, Housekeeping, Execute, AppendAnswer, FailExpired, MarkPublished, UnlockExpired,
             FindRequests, InsertRun, UnsetRequest, FindQueued, LockConversation, Look, TakeRun, Ask,
             ChangeMembers, FindOpenRuns, LapseLock, CancelQuestions, CancelRuns, FailTick, LapseRun, chatVars,
             GuardRun, ReadTrigger, ReserveBudget, Analyze, CheckAgain, CompleteRun, Refund, FailRun,
             ReleaseConversation, Die
    <2> QED
      BY <1>1, <2>1
  <1> QED
    BY <1>1, <1>6, <1>7 DEF BudgetIInv

\* The state of the assistant's runs is well formed; that what is reserved never becomes negative needs
\* the account of what the replicas may still give back.
THEOREM ChatTyping == ChatSpec => []ChatTypeOK
  <1>1. ChatInit => BudgetIInv
    BY BudgetStarts
  <1>2. BudgetIInv /\ [ChatNext]_chatVars => BudgetIInv'
    BY BudgetSteps
  <1>3. BudgetIInv => ChatTypeOK
    BY DEF BudgetIInv, ChatIInv, ChatShape, BudgetKept, Amount, ChatTypeOK
  <1> QED
    BY <1>1, <1>2, <1>3, PTL DEF ChatSpec

\* What the analyses of a day use stays within the user's limit, with any number of replicas that
\* reserve at once, fail, stall or die: a reservation is given back only by the run that holds it, and
\* only what is left of it.
THEOREM LimitKept == ChatSpec => []WithinDailyLimit
  <1>1. ChatInit => BudgetIInv
    BY BudgetStarts
  <1>2. BudgetIInv /\ [ChatNext]_chatVars => BudgetIInv'
    BY BudgetSteps
  <1>3. BudgetIInv => WithinDailyLimit
    <2> SUFFICES ASSUME BudgetIInv PROVE WithinDailyLimit
      OBVIOUS
    <2>1. IsFiniteSet(Units(Pledged))
      BY UnitsFinite
    <2>2. Total(Pledged) \in Nat
      BY <2>1, FS_CardinalityType DEF Total
    <2> QED
      BY <2>2, ChatAssumption DEF BudgetIInv, BudgetKept, WithinDailyLimit
  <1> QED
    BY <1>1, <1>2, <1>3, PTL DEF ChatSpec
=============================================================================
