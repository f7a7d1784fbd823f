--------------------------- MODULE Services_proofs ---------------------------
(***************************************************************************)
(* What is proved of each model holds of all of them at work side by side. *)
(* They share no variable, as each has what it notices of the others among *)
(* its own choices (the pause of a job in LabelTasks): a step of the       *)
(* composition is a step of one of them and a stutter of the others, so    *)
(* that it behaves as each does alone.  An instance of MCServices, in      *)
(* which one runs and the others rest, is one of its behaviours.           *)
(***************************************************************************)
EXTENDS MCServices, UploadStore_proofs, Access_proofs, ChatRuns_proofs, Label_proofs

-----------------------------------------------------------------------------
(* The composition. *)

allVars == <<uploadVars, oauthVars, groupVars, chatVars, jobVars, taskVars>>

JointInit ==
    UploadInit /\ OAuthInit /\ GroupsInit /\ ChatInit /\ LabelJobsInit /\ LabelTasksInit

\* The services answer their requests in any order, each on collections of its own.
JointNext ==
    \/ UploadNext /\ UNCHANGED <<oauthVars, groupVars, chatVars, jobVars, taskVars>>
    \/ OAuthNext /\ UNCHANGED <<uploadVars, groupVars, chatVars, jobVars, taskVars>>
    \/ GroupsNext /\ UNCHANGED <<uploadVars, oauthVars, chatVars, jobVars, taskVars>>
    \/ ChatNext /\ UNCHANGED <<uploadVars, oauthVars, groupVars, jobVars, taskVars>>
    \/ LabelJobsNext /\ UNCHANGED <<uploadVars, oauthVars, groupVars, chatVars, taskVars>>
    \/ LabelTasksNext /\ UNCHANGED <<uploadVars, oauthVars, groupVars, chatVars, jobVars>>

JointSpec == JointInit /\ [][JointNext]_allVars

\* Every service starts, and goes on, as it does alone: no step of another one's code touches what
\* it keeps in its collections and on its volume.
THEOREM ServicesCompose ==
    JointSpec => /\ UploadSpec /\ OAuthSpec /\ GroupsSpec
                 /\ ChatSpec /\ LabelJobsSpec /\ LabelTasksSpec
<1>1. JointInit => /\ UploadInit /\ OAuthInit /\ GroupsInit
                   /\ ChatInit /\ LabelJobsInit /\ LabelTasksInit
  BY DEF JointInit
<1>2. [JointNext]_allVars => /\ [UploadNext]_uploadVars /\ [OAuthNext]_oauthVars
                             /\ [GroupsNext]_groupVars /\ [ChatNext]_chatVars
                             /\ [LabelJobsNext]_jobVars /\ [LabelTasksNext]_taskVars
  BY DEF JointNext, allVars
<1>. QED
  BY <1>1, <1>2, PTL DEF JointSpec, UploadSpec, OAuthSpec, GroupsSpec, ChatSpec, LabelJobsSpec,
                         LabelTasksSpec

\* What TLC runs, one service at a time, is what the services may do together.
THEOREM AloneIsJoint == ServicesSpec => JointSpec
<1>1. ServicesInit => JointInit
  BY DEF ServicesInit, JointInit
<1>2. [ServicesNext]_servicesVars => [JointNext]_allVars
  BY DEF ServicesNext, servicesVars, Alone, JointNext, allVars
<1>. QED BY <1>1, <1>2, PTL DEF ServicesSpec, JointSpec

\* Whichever service runs is well typed.
THEOREM ServicesTyping == ServicesSpec => []ServicesTypeOK
<1>1. OAuthIInv => OAuthTypeOK
  BY DEF OAuthIInv
<1>2. GroupsIInv => GroupsTypeOK
  BY DEF GroupsIInv
<1>3. LabelJobsIInv => LabelJobsTypeOK
  BY DEF LabelJobsIInv
<1>4. LabelTasksIInv => LabelTasksTypeOK
  BY DEF LabelTasksIInv
<1>5. ServicesInit => part \in Parts
  BY DEF ServicesInit
<1>6. part \in Parts /\ [ServicesNext]_servicesVars => (part \in Parts)'
  BY DEF ServicesNext, servicesVars, Alone
<1>7. /\ part \in Parts /\ UploadTypeOK /\ OAuthTypeOK /\ GroupsTypeOK
      /\ ChatTypeOK /\ LabelJobsTypeOK /\ LabelTasksTypeOK
      => ServicesTypeOK
  BY DEF Parts, ServicesTypeOK
<1>8. ServicesSpec => [](part \in Parts)
  BY <1>5, <1>6, PTL DEF ServicesSpec
<1>9. ServicesSpec => [](UploadTypeOK /\ OAuthTypeOK /\ GroupsTypeOK)
  BY <1>1, <1>2, AloneIsJoint, ServicesCompose, UploadTyping, OAuthInvariance, GroupsInvariance, PTL
<1>10. ServicesSpec => [](ChatTypeOK /\ LabelJobsTypeOK /\ LabelTasksTypeOK)
  BY <1>3, <1>4, AloneIsJoint, ServicesCompose, ChatTyping, LabelJobsInvariance, LabelTasksInvariance, PTL
<1>. QED BY <1>7, <1>8, <1>9, <1>10, PTL

\* Side by side the services keep every promise that is proved of one alone: about codes and tokens
\* (redeemRefreshToken), owners and invitations (saveGroup), dropped questions and the daily limit
\* (worker.ts), holds, sets of tasks (jobLifecycleService) and finished tasks (recordTaskCompletion).
THEOREM ServicesKeepPromises ==
    JointSpec => /\ []ExchangedOnce /\ []ReplayIsNoticed /\ []NoFalseAlarm
                 /\ []AlwaysOwned /\ []SpentStaysSpent /\ OwnersMakeOwners /\ JoinsAreInvited
                 /\ []DroppedNeverAnswered /\ []WithinDailyLimit
                 /\ []HoldFollowsJob /\ []PublishedIsWhole /\ []CompletedMeansAnswered
<1>1. JointSpec => []ExchangedOnce /\ []ReplayIsNoticed /\ []NoFalseAlarm
  BY ServicesCompose, OneExchange, ReplayEndsConnection, NoAlarmWithoutReplay
<1>2. JointSpec => []AlwaysOwned /\ []SpentStaysSpent /\ OwnersMakeOwners /\ JoinsAreInvited
  BY ServicesCompose, OwnerRemains, InvitationsUsedOnce, OwnersByOwners, JoiningIsInvited
<1>3. JointSpec => []DroppedNeverAnswered /\ []WithinDailyLimit
  BY ServicesCompose, DroppedUnanswered, LimitKept
<1>4. JointSpec => []HoldFollowsJob /\ []PublishedIsWhole /\ []CompletedMeansAnswered
  BY ServicesCompose, HoldFollows, PublishedWhole, CompletedIsAnswered
<1>. QED BY <1>1, <1>2, <1>3, <1>4

\* And those that speak of time, as long as no bulk deletion, chat worker, lifecycle of a job or call
\* made for it outlives its lease: stored bytes, readers (uploadStore.ts), the turns of a conversation
\* (worker.ts) and holds nobody could release (jobLifecycleService.ts).
THEOREM LeasesKeepPromises ==
    ASSUME ~BulkStalls, ~WorkersStall, ~CallsLinger, ~RequestsPause
    PROVE  JointSpec => []CommittedIsStored /\ []ReadersFind /\ TurnsInOrder /\ []HoldEndsWithJob
BY ServicesCompose, CommittedStays, ReadersAreServed, TurnsTaken, HoldsEnd

=============================================================================
