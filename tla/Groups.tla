------------------------------- MODULE Groups --------------------------------
(***************************************************************************)
(* group-service: members, invitations, trash and deletion of a group.      *)
(*                                                                          *)
(* A change of a group reads the document, checks the caller's rights on    *)
(* that copy, changes it and saves what changed if the version is still the *)
(* same.  Declining an invitation changes the document without a version.   *)
(***************************************************************************)
EXTENDS Integers, FiniteSets

CONSTANTS GroupIds, GroupUsers,
          Invitations,   \* bound: invitations ever made
          MAX_PENDING,   \* invitations pending in one group
          GroupCallers,  \* requests in flight at once
          MaxVersion     \* bound: saves of one group

ASSUME GroupsAssumption ==
    /\ MAX_PENDING \in Nat /\ MaxVersion \in Nat
    /\ GroupIds # {} /\ "none" \notin Invitations

VARIABLES group,       \* the Group document of each group id
          invitation,  \* what each invitation says
          requests,    \* requests in flight
          spent        \* history: invitations used or revoked

groupVars == <<group, invitation, requests, spent>>

-----------------------------------------------------------------------------
Roles == {"owner", "admin", "member"}
NoRole == "none"
Nobody == "nobody"
AnyUser == "link"        \* an invitation by link: whoever holds it
NoInvitation == "none"

Group == [status : {"none", "live", "trashed", "gone"}, version : 0..MaxVersion,
          members : [GroupUsers -> Roles \cup {NoRole}], invitations : SUBSET Invitations]
NoGroup == [status |-> "none", version |-> 0, members |-> [u \in GroupUsers |-> NoRole],
            invitations |-> {}]

Invitation == [user : GroupUsers \cup {AnyUser, Nobody}, role : Roles \cup {NoRole},
               createdBy : GroupUsers \cup {Nobody}, expired : BOOLEAN]
NoInvite == [user |-> Nobody, role |-> NoRole, createdBy |-> Nobody, expired |-> FALSE]

\* `doc` is the request's copy of a group as it will save it, `changed` the members it writes, and
\* `invites` what it writes to the list of invitations: the whole list if `replaces`, additions
\* otherwise.  It saves only while `needs` is pending.
GroupRequest == [at : {"idle", "save", "purge"},
                 actor : GroupUsers \cup {Nobody}, group : GroupIds, doc : Group,
                 changed : SUBSET GroupUsers, replaces : BOOLEAN, invites : SUBSET Invitations,
                 needs : Invitations \cup {NoInvitation}]
NoRequest == [at |-> "idle", actor |-> Nobody, group |-> CHOOSE g \in GroupIds : TRUE, doc |-> NoGroup,
              changed |-> {}, replaces |-> FALSE, invites |-> {}, needs |-> NoInvitation]

-----------------------------------------------------------------------------
(* Rights, as a copy of the group gives them. *)

CanAssignRole(actingRole, role, previous) == actingRole = "owner" \/ "owner" \notin {role, previous}

CanInvite(doc, u, role) ==
    /\ doc.members[u] \in {"owner", "admin"}
    /\ CanAssignRole(doc.members[u], role, NoRole)

HasOwner(doc) == \E u \in GroupUsers : doc.members[u] = "owner"

Pending(doc) == {i \in doc.invitations : ~invitation[i].expired}

-----------------------------------------------------------------------------
(* Operations on a group.  Each reads a document and prepares the one to save. *)

\* The copy with another role of a member, or another status.
WithRole(doc, u, role) == [doc EXCEPT !.members[u] = role]
WithStatus(doc, status) == [doc EXCEPT !.status = status]

CreateGroup(g, u) ==
    /\ group[g].status = "none"
    /\ group' = [group EXCEPT ![g] = WithRole(WithStatus(NoGroup, "live"), u, "owner")]
    /\ UNCHANGED <<invitation, requests, spent>>

\* Request c of user u goes on to save `doc`, which it read of group g and changed.
Prepare(c, u, g, doc, changed, replaces, invites, needs) ==
    requests' = [requests EXCEPT ![c] =
                   [at |-> "save", actor |-> u, group |-> g, doc |-> doc, changed |-> changed,
                    replaces |-> replaces, invites |-> invites, needs |-> needs]]

\* createInvitation and inviteAccount.  Expired ones are dropped first: only then is the list replaced.
Invite(c, u, g, i, to, role) ==
    LET doc == group[g]
        kept == Pending(doc)
    IN  /\ requests[c].at = "idle" /\ doc.status = "live"
        /\ CanInvite(doc, u, role)
        /\ to # AnyUser => doc.members[to] = NoRole /\ \A j \in kept : invitation[j].user # to
        /\ Cardinality(kept) < MAX_PENDING
        /\ invitation[i].role = NoRole
        /\ invitation' = [invitation EXCEPT ![i] =
                             [user |-> to, role |-> role, createdBy |-> u, expired |-> FALSE]]
        /\ IF kept = doc.invitations THEN Prepare(c, u, g, doc, {}, FALSE, {i}, NoInvitation)
           ELSE Prepare(c, u, g, doc, {}, TRUE, kept \cup {i}, NoInvitation)
        /\ UNCHANGED <<group, spent>>

RevokeInvitations(c, u, g) ==
    LET doc == group[g]
    IN  /\ requests[c].at = "idle" /\ doc.status = "live"
        /\ CanInvite(doc, u, "member")
        /\ Prepare(c, u, g, doc, {}, TRUE, {}, NoInvitation)
        /\ UNCHANGED <<group, invitation, spent>>

\* acceptInvitation and acceptAccountInvitation: joining and using the invitation up are one save, and
\* whoever invited must still be allowed to.
Accept(c, u, g, i) ==
    LET doc == group[g]
        said == invitation[i]
    IN  /\ requests[c].at = "idle" /\ doc.status = "live"
        /\ i \in Pending(doc)
        /\ said.user \in {AnyUser, u}
        /\ CanInvite(doc, said.createdBy, said.role)
        /\ doc.members[u] = NoRole
        /\ Prepare(c, u, g, WithRole(doc, u, said.role), {u}, TRUE, doc.invitations \ {i}, i)
        /\ UNCHANGED <<group, invitation, spent>>

UpdateMemberRole(c, u, g, v, role) ==
    LET doc == group[g]
        next == WithRole(doc, v, role)
    IN  /\ requests[c].at = "idle" /\ doc.status = "live"
        /\ doc.members[u] \in {"owner", "admin"}
        /\ doc.members[v] \notin {NoRole, role}      \* else there is nothing to save
        /\ CanAssignRole(doc.members[u], role, doc.members[v])
        /\ HasOwner(next)
        /\ Prepare(c, u, g, next, {v}, FALSE, {}, NoInvitation)
        /\ UNCHANGED <<group, invitation, spent>>

RemoveMember(c, u, g, v) ==
    LET doc == group[g]
        next == WithRole(doc, v, NoRole)
    IN  /\ requests[c].at = "idle" /\ doc.status = "live"
        /\ doc.members[u] # NoRole /\ doc.members[v] # NoRole
        /\ u # v => doc.members[u] # "member" /\ (doc.members[v] = "owner" => doc.members[u] = "owner")
        /\ HasOwner(next)
        /\ Prepare(c, u, g, next, GroupUsers, FALSE, {}, NoInvitation)
        /\ UNCHANGED <<group, invitation, spent>>

\* updateGroup: the name and the public page are not part of the model, but the save raises the version.
UpdateGroup(c, u, g) ==
    LET doc == group[g]
    IN  /\ requests[c].at = "idle" /\ doc.status = "live"
        /\ doc.members[u] \in {"owner", "admin"}
        /\ Prepare(c, u, g, doc, {}, FALSE, {}, NoInvitation)
        /\ UNCHANGED <<group, invitation, spent>>

\* deleteGroup and restoreGroup.
DeleteOrRestoreGroup(c, u, g) ==
    LET doc == group[g]
    IN  /\ requests[c].at = "idle" /\ doc.status \in {"live", "trashed"}
        /\ doc.members[u] = "owner"
        /\ Prepare(c, u, g, WithStatus(doc, IF doc.status = "live" THEN "trashed" ELSE "live"),
                   {}, FALSE, {}, NoInvitation)
        /\ UNCHANGED <<group, invitation, spent>>

\* The list of invitations that request w leaves of `list`.
Left(w, list) == IF w.replaces THEN w.invites ELSE list \cup w.invites

\* What was changed of the copy is written to the document.
Merged(now, w) ==
    [status |-> w.doc.status, version |-> now.version + 1, invitations |-> Left(w, now.invitations),
     members |-> [u \in GroupUsers |-> IF u \in w.changed THEN w.doc.members[u] ELSE now.members[u]]]

\* Mutant of SaveGroup: what was changed is written, whatever was saved since.
MergeGroup(c) ==
    LET w == requests[c]
        now == group[w.group]
    IN  /\ w.at = "save" /\ now.status \notin {"none", "gone"} /\ w.doc.version < MaxVersion
        /\ group' = [group EXCEPT ![w.group] = Merged(now, w)]
        /\ spent' = spent \cup (now.invitations \ Left(w, now.invitations))
        /\ requests' = [requests EXCEPT ![c] = NoRequest]
        /\ UNCHANGED invitation

\* Mutant of SaveGroup: the whole copy replaces the document, whatever was saved since.
OverwriteGroup(c) ==
    LET w == requests[c]
        now == group[w.group]
        left == Left(w, w.doc.invitations)
    IN  /\ w.at = "save" /\ now.status \notin {"none", "gone"} /\ w.doc.version < MaxVersion
        /\ group' = [group EXCEPT ![w.group] = [w.doc EXCEPT !.version = @ + 1, !.invitations = left]]
        /\ spent' = spent \cup (now.invitations \ left)
        /\ requests' = [requests EXCEPT ![c] = NoRequest]
        /\ UNCHANGED invitation

\* Mutant of SaveGroup: the version decides alone, which declining does not raise.
SaveByVersion(c) ==
    LET w == requests[c]
        now == group[w.group]
        fits == now.status \notin {"none", "gone"} /\ now.version = w.doc.version
    IN  /\ w.at = "save" /\ w.doc.version < MaxVersion
        /\ group' = IF fits THEN [group EXCEPT ![w.group] = Merged(now, w)] ELSE group
        /\ spent' = IF fits THEN spent \cup (now.invitations \ Left(w, now.invitations)) ELSE spent
        /\ requests' = [requests EXCEPT ![c] = NoRequest]
        /\ UNCHANGED invitation

\* saveGroup: only the version that was read is written to.
SaveGroup(c) ==
    LET w == requests[c]
        now == group[w.group]
        fits == /\ now.status \notin {"none", "gone"} /\ now.version = w.doc.version
                /\ w.needs = NoInvitation \/ w.needs \in now.invitations
    IN  /\ w.at = "save" /\ w.doc.version < MaxVersion
        /\ group' = IF fits THEN [group EXCEPT ![w.group] = Merged(now, w)] ELSE group
        /\ spent' = IF fits THEN spent \cup (now.invitations \ Left(w, now.invitations)) ELSE spent
        /\ requests' = [requests EXCEPT ![c] = NoRequest]
        /\ UNCHANGED invitation

\* declineAccountInvitation pulls the invitation out, in any state of the group and without a version.
DeclineAccountInvitation(u, g, i) ==
    /\ group[g].status \in {"live", "trashed"}
    /\ i \in group[g].invitations /\ invitation[i].user = u
    /\ group' = [group EXCEPT ![g].invitations = @ \ {i}]
    /\ UNCHANGED <<invitation, requests, spent>>

\* Time passes: seven days.
ExpireInvitation(i) ==
    /\ invitation[i].role # NoRole /\ ~invitation[i].expired
    /\ invitation' = [invitation EXCEPT ![i].expired = TRUE]
    /\ UNCHANGED <<group, requests, spent>>

-----------------------------------------------------------------------------
(* Deleting a group for good (permanentlyDeleteGroup): it is read, other services are asked what  *)
(* it owns, which must be nothing, and it is deleted if it is still the one that was read.        *)

BeginPurge(c, u, g) ==
    /\ requests[c].at = "idle"
    /\ group[g].status = "trashed" /\ group[g].members[u] = "owner"
    /\ requests' = [requests EXCEPT ![c] = [NoRequest EXCEPT !.at = "purge", !.actor = u, !.group = g,
                                               !.doc = group[g]]]
    /\ UNCHANGED <<group, invitation, spent>>

PurgeGroup(c) ==
    LET w == requests[c]
        now == group[w.group]
    IN  /\ w.at = "purge"
        /\ group' = IF now.status = "trashed" /\ now.version = w.doc.version
                    THEN [group EXCEPT ![w.group] = [NoGroup EXCEPT !.status = "gone"]] ELSE group
        /\ requests' = [requests EXCEPT ![c] = NoRequest]
        /\ UNCHANGED <<invitation, spent>>

\* A request is refused, fails or dies with its process.
DropRequest(c) ==
    /\ requests[c].at # "idle"
    /\ requests' = [requests EXCEPT ![c] = NoRequest]
    /\ UNCHANGED <<group, invitation, spent>>

-----------------------------------------------------------------------------
GroupsInit ==
    /\ group = [g \in GroupIds |-> NoGroup]
    /\ invitation = [i \in Invitations |-> NoInvite]
    /\ requests = [c \in GroupCallers |-> NoRequest]
    /\ spent = {}

GroupsNext ==
    \/ \E g \in GroupIds, u \in GroupUsers :
         \/ CreateGroup(g, u)
         \/ \E i \in Invitations : DeclineAccountInvitation(u, g, i)
         \/ \E c \in GroupCallers :
              \/ RevokeInvitations(c, u, g) \/ UpdateGroup(c, u, g)
              \/ DeleteOrRestoreGroup(c, u, g) \/ BeginPurge(c, u, g)
              \/ \E i \in Invitations : Accept(c, u, g, i)
              \/ \E i \in Invitations, to \in GroupUsers \cup {AnyUser}, role \in Roles :
                    Invite(c, u, g, i, to, role)
              \/ \E v \in GroupUsers : RemoveMember(c, u, g, v)
              \/ \E v \in GroupUsers, role \in Roles : UpdateMemberRole(c, u, g, v, role)
    \/ \E c \in GroupCallers : SaveGroup(c) \/ PurgeGroup(c) \/ DropRequest(c)
    \/ \E i \in Invitations : ExpireInvitation(i)

GroupsSpec == GroupsInit /\ [][GroupsNext]_groupVars

-----------------------------------------------------------------------------
(* Properties. *)

GroupsTypeOK ==
    /\ group \in [GroupIds -> Group]
    /\ invitation \in [Invitations -> Invitation]
    /\ requests \in [GroupCallers -> GroupRequest]
    /\ spent \subseteq Invitations

\* Whatever two members do at once, a group never loses its last owner (assertHasOwner).
AlwaysOwned ==
    \A g \in GroupIds : group[g].status \in {"live", "trashed"} => HasOwner(group[g])

\* An invitation that was used, or revoked by the group, is never pending again, whatever is saved
\* from an older copy of the group (saveGroup).
SpentStaysSpent ==
    \A g \in GroupIds : group[g].invitations \cap spent = {}

\* A member becomes an owner of a group only while somebody who owns it wants so: its request's actor
\* or the author of the invitation, at the moment of the save and not only when it began.
OwnersMakeOwners ==
    [][\A g \in GroupIds, u \in GroupUsers :
          group[g].status = "live" /\ group[g].members[u] # "owner" /\ group'[g].members[u] = "owner" =>
             \E c \in GroupCallers :
                LET w == requests[c]
                    grantor == IF w.needs = NoInvitation THEN w.actor ELSE invitation[w.needs].createdBy
                IN  /\ w.at = "save" /\ w.group = g /\ w.doc.members[u] = "owner"
                    /\ group[g].members[grantor] = "owner"]_groupVars

\* Nobody joins by an invitation that was withdrawn, used or declined meanwhile, nor a group that was
\* deleted: at the save the invitation still waits in a live group, it is used up by it, and whoever
\* wrote it may still invite to that role.
JoinsAreInvited ==
    [][\A g \in GroupIds, u \in GroupUsers :
          group[g].status # "none" /\ group[g].members[u] = NoRole /\ group'[g].members[u] # NoRole =>
             /\ group[g].status = "live"
             /\ \E i \in group[g].invitations \ group'[g].invitations :
                   /\ invitation[i].user \in {AnyUser, u}
                   /\ invitation[i].role = group'[g].members[u]
                   /\ CanInvite(group[g], invitation[i].createdBy, invitation[i].role)]_groupVars
=============================================================================
