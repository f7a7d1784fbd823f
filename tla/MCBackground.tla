----------------------------- MODULE MCBackground ----------------------------
(***************************************************************************)
(* The background work of two services, the sweeps of label-service and the *)
(* worker of chat-service, under the fairness their timers give them.  They *)
(* share nothing, so an instance picks one.                                 *)
(***************************************************************************)
EXTENDS ChatRuns, LabelJobs

VARIABLE part    \* the service that runs

backgroundVars == <<part, chatVars, jobVars>>

BackgroundNext ==
    /\ UNCHANGED part
    /\ \/ part = "chat" /\ UNCHANGED jobVars /\ ChatNext
       \/ part = "jobs" /\ UNCHANGED chatVars /\ LabelJobsNext

BackgroundInit == part \in {"chat", "jobs"} /\ ChatInit /\ LabelJobsInit

\* The service that does not run has nothing to do, so its fairness asks for nothing.
BackgroundSpec ==
    /\ BackgroundInit
    /\ [][BackgroundNext]_backgroundVars
    /\ ChatFairness /\ LabelJobsFairness
=============================================================================
