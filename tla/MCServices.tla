------------------------------ MODULE MCServices -----------------------------
(***************************************************************************)
(* The services around dataset-service.  They share no state with each      *)
(* other, so an instance picks one of them and lets it run alone: what is   *)
(* checked is the sum of their state spaces and not the product.            *)
(***************************************************************************)
EXTENDS UploadStore, OAuthGrants, Groups, ChatRuns, LabelJobs, LabelTasks, TLC

VARIABLE part    \* the service that runs

Parts == {"upload", "oauth", "groups", "chat", "jobs", "tasks"}

servicesVars == <<part, uploadVars, oauthVars, groupVars, chatVars, jobVars, taskVars>>

\* A service that does not run starts from nothing.
ServicesInit ==
    /\ part \in Parts
    /\ UploadInit /\ OAuthInit /\ GroupsInit /\ ChatInit /\ LabelJobsInit /\ LabelTasksInit
    /\ part # "upload" => plain = {} /\ \A f \in UploadFiles : upload[f].state = NoProgress

Alone(p, others) == part = p /\ UNCHANGED <<part, others>>

ServicesNext ==
    \/ Alone("upload", <<oauthVars, groupVars, chatVars, jobVars, taskVars>>) /\ UploadNext
    \/ Alone("oauth", <<uploadVars, groupVars, chatVars, jobVars, taskVars>>) /\ OAuthNext
    \/ Alone("groups", <<uploadVars, oauthVars, chatVars, jobVars, taskVars>>) /\ GroupsNext
    \/ Alone("chat", <<uploadVars, oauthVars, groupVars, jobVars, taskVars>>) /\ ChatNext
    \/ Alone("jobs", <<uploadVars, oauthVars, groupVars, chatVars, taskVars>>) /\ LabelJobsNext
    \/ Alone("tasks", <<uploadVars, oauthVars, groupVars, chatVars, jobVars>>) /\ LabelTasksNext

ServicesSpec == ServicesInit /\ [][ServicesNext]_servicesVars

-----------------------------------------------------------------------------
\* The state of the service that runs, which is all that tells two states apart.
Running ==
    CASE part = "upload" -> uploadVars
      [] part = "oauth" -> oauthVars
      [] part = "groups" -> groupVars
      [] part = "chat" -> chatVars
      [] part = "jobs" -> jobVars
      [] part = "tasks" -> taskVars
View == <<part, Running>>

\* Whatever is in flight twice is interchangeable, and so are the users of a group.
Interchangeable == Permutations(UploadClients) \cup Permutations(GroupUsers)

\* Each service's variables have their types.
ServicesTypeOK ==
    CASE part = "upload" -> UploadTypeOK
      [] part = "oauth" -> OAuthTypeOK
      [] part = "groups" -> GroupsTypeOK
      [] part = "chat" -> ChatTypeOK
      [] part = "jobs" -> LabelJobsTypeOK
      [] part = "tasks" -> LabelTasksTypeOK
=============================================================================
