------------------------------ MODULE ChatRuns -------------------------------
(***************************************************************************)
(* chat-service: questions to the assistant.  A question is a message that  *)
(* asks for a run; every replica's worker turns requests into runs, claims  *)
(* them under a lock per conversation, publishes what they answered and     *)
(* ends what a dead replica left behind (services/worker.ts), while the     *)
(* user cancels (services/runService.ts) and members come and go.           *)
(*                                                                          *)
(* A call of MongoDB is a step.  A run is claimed once in its life, so what *)
(* the replica does with it is kept with the run.                           *)
(***************************************************************************)
EXTENDS Integers, FiniteSets

CONSTANTS Questions,      \* 1..n, in the order they are asked, all by one user
          Conversations,
          Replicas,
          LIMIT,          \* dailyTokenLimit
          RESERVATION,    \* the most one analysis uses
          ChatOps,        \* bound: what users do in an instance, besides asking
          WorkersStall,   \* whether a worker may outlive the lease of its run
          MaxChatFaults       \* bound: replicas and ticks that fail

ASSUME ChatAssumption ==
    /\ Questions \subseteq Nat \ {0} /\ IsFiniteSet(Questions) /\ "none" \notin Conversations
    /\ LIMIT \in Nat /\ RESERVATION \in Nat \ {0}
    /\ WorkersStall \in BOOLEAN /\ ChatOps \subseteq {"members", "cancel"} /\ MaxChatFaults \in Nat

VARIABLES message,   \* the question
          run,       \* the AssistantRun of each question
          exec,      \* what a replica does with the run it claimed
          lock,      \* workerRunId and workerUntil of each conversation
          budget,    \* what the user has reserved today, and used
          answers,   \* assistant messages, per question
          tick,      \* the tick of each replica
          cancel,    \* the user's cancel request
          dropped,   \* history: questions a finished cancel found unanswered
          faults     \* faults so far

chatVars == <<message, run, exec, lock, budget, answers, tick, cancel, dropped, faults>>

-----------------------------------------------------------------------------
NoQuestion == 0
NoConversation == "none"

\* `allowed`: the members and the assistant are still those the question was put to.
Message == [conversation : Conversations \cup {NoConversation}, request : BOOLEAN,
            cancelled : BOOLEAN, allowed : BOOLEAN]
Unasked == [conversation |-> NoConversation, request |-> FALSE, cancelled |-> FALSE, allowed |-> TRUE]

Open == {"queued", "running"}
Run == [state : {"none", "completed", "failed", "cancelled"} \cup Open, born : 0..Cardinality(Questions),
        live : BOOLEAN, published : BOOLEAN]
NoRun == [state |-> "none", born |-> 0, live |-> FALSE, published |-> FALSE]

Exec == {"none", "guard", "trigger", "reserve", "analyze", "finish", "complete", "refund", "release",
         "over"}

Lock == [run : Questions \cup {NoQuestion}, live : BOOLEAN]
NoLock == [run |-> NoQuestion, live |-> FALSE]

\* `todo` is what the tick read for the phase it is in.
Tick == [at : {"idle", "mark", "unlock", "insert", "unset", "lock", "take"},
         todo : SUBSET Questions, q : Questions \cup {NoQuestion}]
NewTick == [at |-> "idle", todo |-> {}, q |-> NoQuestion]

Cancel == [at : {"idle", "mark", "runs"}, conversation : Conversations \cup {NoConversation},
           open : SUBSET Questions]
NoCancel == [at |-> "idle", conversation |-> NoConversation, open |-> {}]

Asked(k) == {q \in Questions : message[q].conversation = k}
IsOldest(q, S) == \A r \in S : run[q].born <= run[r].born
Born == Cardinality({q \in Questions : run[q].born > 0})
IsFree(k) == lock[k].run = NoQuestion \/ ~lock[k].live
Unlocked(k, q) == [lock EXCEPT ![k] = IF @.run = q THEN NoLock ELSE @]
Ended(r, state) == [r EXCEPT !.state = state, !.live = FALSE]
End(q, state) == [run EXCEPT ![q] = IF @.state = "running" THEN Ended(@, state) ELSE @]

-----------------------------------------------------------------------------
(* Users. *)

Ask(q, k) ==
    /\ message[q].conversation = NoConversation
    /\ \A r \in Questions : r < q => message[r].conversation # NoConversation
    /\ message' = [message EXCEPT ![q] = [@ EXCEPT !.conversation = k, !.request = TRUE]]
    /\ UNCHANGED <<run, exec, lock, budget, answers, tick, cancel, dropped, faults>>

\* Somebody joins or leaves, or the assistant is taken away: what was asked before is not answered.
ChangeMembers(k) ==
    /\ "members" \in ChatOps /\ \E q \in Asked(k) : message[q].allowed
    /\ message' = [q \in Questions |-> IF q \in Asked(k) THEN [message[q] EXCEPT !.allowed = FALSE]
                                       ELSE message[q]]
    /\ UNCHANGED <<run, exec, lock, budget, answers, tick, cancel, dropped, faults>>

\* cancelRuns looks for open runs, ...
FindOpenRuns(k) ==
    /\ "cancel" \in ChatOps /\ cancel.at = "idle" /\ Asked(k) # {}
    /\ cancel' = [at |-> "mark", conversation |-> k,
                  open |-> {q \in Asked(k) : run[q].state \in Open}]
    /\ UNCHANGED <<message, run, exec, lock, budget, answers, tick, dropped, faults>>

\* ... marks their questions, and those that have no run yet, ...
CancelQuestions ==
    /\ cancel.at = "mark"
    /\ message' = [q \in Questions |->
          IF q \in Asked(cancel.conversation) /\ (message[q].request \/ q \in cancel.open)
          THEN [message[q] EXCEPT !.request = FALSE, !.cancelled = TRUE] ELSE message[q]]
    /\ cancel' = [cancel EXCEPT !.at = "runs"]
    /\ UNCHANGED <<run, exec, lock, budget, answers, tick, dropped, faults>>

\* ... and ends the runs that are open by now.
CancelRuns ==
    /\ cancel.at = "runs"
    /\ run' = [q \in Questions |->
          IF q \in Asked(cancel.conversation) /\ run[q].state \in Open
          THEN Ended(run[q], "cancelled") ELSE run[q]]
    /\ dropped' = dropped \cup {q \in Asked(cancel.conversation) :
                                   \/ run[q].state \in Open
                                   \/ message[q].cancelled /\ run[q].state # "completed"}
    /\ cancel' = NoCancel
    /\ UNCHANGED <<message, exec, lock, budget, answers, tick, faults>>

-----------------------------------------------------------------------------
(* A tick: housekeeping, then claims.  A phase works through the list it read.  The phases that *)
(* publish and expire repeat the condition of their list in every write, so an entry is read     *)
(* when its turn comes; a phase without work is no step.                                         *)

\* Replica w reads S, if there is anything in it.
Look(w, S, at) ==
    /\ tick[w].at = "idle" /\ S # {}
    /\ tick' = [tick EXCEPT ![w] = [at |-> at, todo |-> S, q |-> NoQuestion]]
    /\ UNCHANGED <<message, run, exec, lock, budget, answers, cancel, dropped, faults>>

\* Replica w is done with its entry; what is left goes on at `at`.
GoOn(w, at, left) ==
    tick' = [tick EXCEPT ![w] = IF left = {} THEN NewTick ELSE [at |-> at, todo |-> left, q |-> NoQuestion]]

Step(w, at, q) == tick' = [tick EXCEPT ![w] = [@ EXCEPT !.at = at, !.q = q]]

\* Mutant of AppendAnswer: an answer whose conversation changed is passed over and not dropped.
AppendAllowed(w, q) ==
    /\ tick[w].at = "idle" /\ run[q].state = "completed" /\ ~run[q].published
    /\ message[q].allowed
    /\ answers' = [answers EXCEPT ![q] = 1]
    /\ Step(w, "mark", q)
    /\ UNCHANGED <<message, run, exec, lock, budget, cancel, dropped, faults>>

\* The answer goes out under the name of its question, once; if the members changed it is dropped.
AppendAnswer(w, q) ==
    /\ tick[w].at = "idle" /\ run[q].state = "completed" /\ ~run[q].published
    /\ answers' = [answers EXCEPT ![q] = IF message[q].allowed /\ @ = 0 THEN 1 ELSE @]
    /\ Step(w, "mark", q)
    /\ UNCHANGED <<message, run, exec, lock, budget, cancel, dropped, faults>>

MarkPublished(w) ==
    /\ tick[w].at = "mark"
    /\ run' = [run EXCEPT ![tick[w].q].published = TRUE]
    /\ GoOn(w, "idle", {})
    /\ UNCHANGED <<message, exec, lock, budget, answers, cancel, dropped, faults>>

\* A run whose lease is over has failed; it is not repeated.
FailExpired(w, q) ==
    /\ tick[w].at = "idle" /\ run[q].state = "running" /\ ~run[q].live
    /\ run' = End(q, "failed")
    /\ Step(w, "unlock", q)
    /\ UNCHANGED <<message, exec, lock, budget, answers, cancel, dropped, faults>>

UnlockExpired(w) ==
    LET q == tick[w].q
    IN  /\ tick[w].at = "unlock"
        /\ lock' = Unlocked(message[q].conversation, q)
        /\ GoOn(w, "idle", {})
        /\ UNCHANGED <<message, run, exec, budget, answers, cancel, dropped, faults>>

FindRequests(w) == Look(w, {q \in Questions : message[q].request /\ ~message[q].cancelled}, "insert")

\* The oldest question first: it gets a run if it has none, ...
InsertRun(w) ==
    /\ tick[w].at = "insert"
    /\ \E q \in tick[w].todo :
         /\ \A r \in tick[w].todo : q <= r
         /\ run' = IF run[q].state # "none" THEN run
                   ELSE [run EXCEPT ![q] = [@ EXCEPT !.state = "queued", !.born = Born + 1]]
         /\ Step(w, "unset", q)
    /\ UNCHANGED <<message, exec, lock, budget, answers, cancel, dropped, faults>>

\* ... and then stops asking for one.
UnsetRequest(w) ==
    LET q == tick[w].q
    IN  /\ tick[w].at = "unset"
        /\ message' = [message EXCEPT ![q].request = FALSE]
        /\ GoOn(w, "insert", tick[w].todo \ {q})
        /\ UNCHANGED <<run, exec, lock, budget, answers, cancel, dropped, faults>>

FindQueued(w) == Look(w, {q \in Questions : run[q].state = "queued"}, "lock")

\* Mutant of LockConversation: the lock is written without asking whether it is free.
SeizeConversation(w) ==
    /\ tick[w].at = "lock"
    /\ \E q \in tick[w].todo :
         LET k == message[q].conversation
         IN  /\ IsOldest(q, tick[w].todo)
             /\ lock' = [lock EXCEPT ![k] = [run |-> q, live |-> TRUE]]
             /\ tick' = [tick EXCEPT ![w] = [at |-> "take", todo |-> tick[w].todo \ Asked(k), q |-> q]]
    /\ UNCHANGED <<message, run, exec, budget, answers, cancel, dropped, faults>>

\* The oldest candidate's conversation is locked for it; one that cannot be is skipped as a whole.
LockConversation(w) ==
    /\ tick[w].at = "lock"
    /\ \E q \in tick[w].todo :
         LET k == message[q].conversation
             left == tick[w].todo \ Asked(k)
         IN  /\ IsOldest(q, tick[w].todo)
             /\ IF IsFree(k)
                THEN /\ lock' = [lock EXCEPT ![k] = [run |-> q, live |-> TRUE]]
                     /\ tick' = [tick EXCEPT ![w] = [at |-> "take", todo |-> left, q |-> q]]
                ELSE GoOn(w, "lock", left) /\ UNCHANGED lock
    /\ UNCHANGED <<message, run, exec, budget, answers, cancel, dropped, faults>>

\* The run starts if it is still queued, and the replica claims again; else it tries the next candidate.
TakeRun(w) ==
    LET q == tick[w].q
        left == tick[w].todo
    IN  /\ tick[w].at = "take"
        /\ IF run[q].state = "queued"
           THEN /\ run' = [run EXCEPT ![q] = [@ EXCEPT !.state = "running", !.live = TRUE]]
                /\ exec' = [exec EXCEPT ![q] = "guard"]
                /\ GoOn(w, "idle", {})
                /\ UNCHANGED lock
           ELSE /\ lock' = Unlocked(message[q].conversation, q)
                /\ GoOn(w, "lock", left)
                /\ UNCHANGED <<run, exec>>
        /\ UNCHANGED <<message, budget, answers, cancel, dropped, faults>>

\* A tick that fails, or a replica that restarts, begins again.
FailTick(w) ==
    /\ tick[w].at # "idle" /\ faults < MaxChatFaults
    /\ faults' = faults + 1
    /\ tick' = [tick EXCEPT ![w] = NewTick]
    /\ UNCHANGED <<message, run, exec, lock, budget, answers, cancel, dropped>>

-----------------------------------------------------------------------------
(* Executing a run. *)

Goes(q, at) == exec' = [exec EXCEPT ![q] = at]

\* guard: what the run was started for still stands.
Stands(q) == message[q].allowed /\ run[q].state = "running"

GuardRun(q) ==
    /\ exec[q] = "guard" /\ Stands(q)
    /\ Goes(q, "trigger")
    /\ UNCHANGED <<message, run, lock, budget, answers, tick, cancel, dropped, faults>>

\* Mutant of ReadTrigger: whether the question was cancelled is not looked at again.
SkipTrigger(q) ==
    /\ exec[q] = "trigger"
    /\ Goes(q, "reserve")
    /\ UNCHANGED <<message, run, lock, budget, answers, tick, cancel, dropped, faults>>

\* A run that was made from a request read before the question was cancelled ends here.
ReadTrigger(q) ==
    /\ exec[q] = "trigger"
    /\ run' = IF message[q].cancelled THEN End(q, "cancelled") ELSE run
    /\ Goes(q, IF message[q].cancelled THEN "release" ELSE "reserve")
    /\ UNCHANGED <<message, lock, budget, answers, tick, cancel, dropped, faults>>

\* The most a turn can use is reserved before it starts.
ReserveBudget(q) ==
    /\ exec[q] = "reserve" /\ budget.reserved + RESERVATION <= LIMIT
    /\ budget' = [budget EXCEPT !.reserved = @ + RESERVATION]
    /\ Goes(q, "analyze")
    /\ UNCHANGED <<message, run, lock, answers, tick, cancel, dropped, faults>>

Analyze(q) ==
    /\ exec[q] = "analyze"
    /\ \E n \in 0..RESERVATION :
         budget' = [budget EXCEPT !.used = @ + n, !.unused[q] = RESERVATION - n]
    /\ Goes(q, "finish")
    /\ UNCHANGED <<message, run, lock, answers, tick, cancel, dropped, faults>>

CheckAgain(q) ==
    /\ exec[q] = "finish" /\ Stands(q)
    /\ Goes(q, "complete")
    /\ UNCHANGED <<message, run, lock, budget, answers, tick, cancel, dropped, faults>>

CompleteRun(q) ==
    /\ exec[q] = "complete" /\ run[q].state = "running"
    /\ run' = End(q, "completed")
    /\ Goes(q, "refund")
    /\ UNCHANGED <<message, lock, budget, answers, tick, cancel, dropped, faults>>

\* What was not used is given back; a run that failed gives nothing back.
Refund(q) ==
    /\ exec[q] = "refund"
    /\ budget' = [budget EXCEPT !.reserved = @ - budget.unused[q], !.unused[q] = 0]
    /\ Goes(q, "release")
    /\ UNCHANGED <<message, run, lock, answers, tick, cancel, dropped, faults>>

\* Mutant of FailRun: a run that fails gives its reservation back.
FailRunForFree(q) ==
    /\ exec[q] \in {"guard", "trigger", "reserve", "analyze", "finish", "complete", "refund"}
    /\ run' = End(q, "failed")
    /\ budget' = [budget EXCEPT !.reserved = @ - RESERVATION, !.unused[q] = 0]
    /\ Goes(q, "release")
    /\ UNCHANGED <<message, lock, answers, tick, cancel, dropped, faults>>

\* Anything that goes wrong, in time or by a guard that does not hold, ends the run.
FailRun(q) ==
    /\ exec[q] \in {"guard", "trigger", "reserve", "analyze", "finish", "complete", "refund"}
    /\ run' = End(q, "failed")
    /\ budget' = [budget EXCEPT !.unused[q] = 0]
    /\ Goes(q, "release")
    /\ UNCHANGED <<message, lock, answers, tick, cancel, dropped, faults>>

ReleaseConversation(q) ==
    /\ exec[q] = "release"
    /\ lock' = Unlocked(message[q].conversation, q)
    /\ Goes(q, "over")
    /\ UNCHANGED <<message, run, budget, answers, tick, cancel, dropped, faults>>

\* The replica dies under it.
Die(q) ==
    /\ exec[q] \notin {"none", "over"} /\ faults < MaxChatFaults
    /\ faults' = faults + 1
    /\ Goes(q, "over")
    /\ UNCHANGED <<message, run, lock, budget, answers, tick, cancel, dropped>>

\* Time passes: five minutes.  A replica that lives is done by then, unless WorkersStall.
Outlived(q) == WorkersStall \/ exec[q] \in {"none", "over"}

LapseLock(k) ==
    /\ lock[k].live
    /\ Outlived(lock[k].run)
    /\ \A w \in Replicas : ~(tick[w].at = "take" /\ tick[w].q = lock[k].run)
    /\ lock' = [lock EXCEPT ![k].live = FALSE]
    /\ UNCHANGED <<message, run, exec, budget, answers, tick, cancel, dropped, faults>>

LapseRun(q) ==
    /\ run[q].live /\ run[q].state = "running"
    /\ Outlived(q)
    /\ run' = [run EXCEPT ![q].live = FALSE]
    /\ UNCHANGED <<message, exec, lock, budget, answers, tick, cancel, dropped, faults>>

-----------------------------------------------------------------------------
ChatInit ==
    /\ message = [q \in Questions |-> Unasked]
    /\ run = [q \in Questions |-> NoRun]
    /\ exec = [q \in Questions |-> "none"]
    /\ lock = [k \in Conversations |-> NoLock]
    /\ budget = [reserved |-> 0, used |-> 0, unused |-> [q \in Questions |-> 0]]
    /\ answers = [q \in Questions |-> 0]
    /\ tick = [w \in Replicas |-> NewTick]
    /\ cancel = NoCancel
    /\ dropped = {}
    /\ faults = 0

Housekeeping(w) ==
    \/ \E q \in Questions : AppendAnswer(w, q) \/ FailExpired(w, q)
    \/ MarkPublished(w) \/ UnlockExpired(w)
    \/ FindRequests(w) \/ InsertRun(w) \/ UnsetRequest(w)
    \/ FindQueued(w) \/ LockConversation(w) \/ TakeRun(w)

Execute(q) ==
    \/ GuardRun(q) \/ ReadTrigger(q) \/ ReserveBudget(q) \/ Analyze(q) \/ CheckAgain(q)
    \/ CompleteRun(q) \/ Refund(q) \/ FailRun(q) \/ ReleaseConversation(q)

ChatNext ==
    \/ \E q \in Questions, k \in Conversations : Ask(q, k)
    \/ \E k \in Conversations : ChangeMembers(k) \/ FindOpenRuns(k) \/ LapseLock(k)
    \/ CancelQuestions \/ CancelRuns
    \/ \E w \in Replicas : Housekeeping(w) \/ FailTick(w)
    \/ \E q \in Questions : Execute(q) \/ Die(q) \/ LapseRun(q)

ChatSpec == ChatInit /\ [][ChatNext]_chatVars

\* Ticks come every second, an analysis ends or is aborted, five minutes pass.
ChatFairness ==
    /\ \A w \in Replicas : WF_chatVars(Housekeeping(w))
    /\ \A q \in Questions : WF_chatVars(Execute(q)) /\ WF_chatVars(LapseRun(q))
    /\ \A k \in Conversations : WF_chatVars(LapseLock(k))
    /\ WF_chatVars(CancelQuestions) /\ WF_chatVars(CancelRuns)

-----------------------------------------------------------------------------
(* Properties. *)

ChatTypeOK ==
    /\ message \in [Questions -> Message]
    /\ run \in [Questions -> Run]
    /\ exec \in [Questions -> Exec]
    /\ lock \in [Conversations -> Lock]
    /\ budget \in [reserved : Nat, used : Nat, unused : [Questions -> 0..RESERVATION]]
    /\ answers \in [Questions -> 0..1]
    /\ tick \in [Replicas -> Tick]
    /\ cancel \in Cancel
    /\ dropped \subseteq Questions
    /\ faults \in 0..MaxChatFaults

\* A conversation's turns never overlap and never overtake: a run starts when the one before is over,
\* and no older one is waiting, with several replicas, dead ones and locks that ran out (claim).
TurnsInOrder ==
    [][\A q \in Questions :
          run[q].state = "queued" /\ run'[q].state = "running" =>
             \A r \in Asked(message[q].conversation) :
                /\ run[r].state = "running" => exec[r] = "over"
                /\ run[r].state = "queued" => run[q].born <= run[r].born]_chatVars

\* A question that was not answered when its cancellation finished is never answered, whatever a
\* replica had read of it before (cancelRuns, the trigger check of execute).
DroppedNeverAnswered ==
    \A q \in dropped : run[q].state # "completed" /\ answers[q] = 0

\* What the analyses of a day use stays within the user's limit, also when they fail or run at once.
WithinDailyLimit == budget.used <= LIMIT

\* Every question is settled: its run ends, and what it completed is published or dropped for good.
EveryQuestionSettles ==
    \A q \in Questions :
        (message[q].request /\ ~message[q].cancelled) ~>
            \/ message[q].cancelled
            \/ run[q].state \in {"failed", "cancelled"}
            \/ run[q].state = "completed" /\ run[q].published
=============================================================================
