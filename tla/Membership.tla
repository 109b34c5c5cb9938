------------------------------- MODULE Membership ------------------------------
(***************************************************************************)
(* The members and invitations of one workspace.  Every request is one     *)
(* transaction that first takes the workspace's row lock, then reads what  *)
(* it decides by, then writes; it may be rolled back at any point.         *)
(***************************************************************************)
EXTENDS Naturals, FiniteSets

CONSTANTS
  User,
  Founder,     \* who created the workspace
  Role,        \* the roles modelled, "owner" among them
  Invitation,
  Session      \* the transactions open at once

\* What the constants may be.
ConstantsFit == Founder \in User /\ {"owner", "admin"} \subseteq Role

VARIABLES
  role,       \* workspace_members: each user's role, or "none"
  invitation, \* workspace_invitations: role, accepted_by and revoked_at
  lock,       \* the sessions that hold the workspace's row
  tx,         \* the request of each session and how far it is
  admitted    \* what accepting did: who joined by each invitation

vars == <<role, invitation, lock, tx, admitted>>

NoInvitation == [role |-> "none", accepted |-> {}, revoked |-> FALSE]

Request ==
  [kind : {"invite"}, actor : User, on : Invitation, to : Role \ {"owner"}]
  \cup [kind : {"accept", "revoke"}, actor : User, on : Invitation]
  \cup [kind : {"change"}, actor : User, on : User, to : Role \cup {"none"}]
  \cup [kind : {"transfer"}, actor : User, on : User]

Idle == [pc |-> "idle"]

\* createWorkspace.
Init ==
  /\ role = [u \in User |-> IF u = Founder THEN "owner" ELSE "none"]
  /\ invitation = [i \in Invitation |-> NoInvitation]
  /\ lock = {}
  /\ tx = [s \in Session |-> Idle]
  /\ admitted = [i \in Invitation |-> {}]

-------------------------------------------------------------------------------
\* A request waits for the workspace's row before it reads anything else that changes.
Lock(s) ==
  /\ tx[s] = Idle /\ lock = {}
  /\ \E r \in Request : tx' = [tx EXCEPT ![s] = [pc |-> "locked", req |-> r]]
  /\ lock' = {s}
  /\ UNCHANGED <<role, invitation, admitted>>

Actor(r) == role[r.actor]

\* canManageMember
CanManage(actor, target, next) == actor = "owner" /\ target # "owner" /\ next # "owner"

\* An invitation that has expired refuses as an error does.
Open(i) == invitation[i].role # "none" /\ invitation[i].accepted = {} /\ ~invitation[i].revoked

\* What lockRole and each operation read before they write.
Allowed(r) ==
  CASE r.kind = "invite"   -> CanManage(Actor(r), r.to, r.to) /\ invitation[r.on] = NoInvitation
    [] r.kind = "accept"   -> Open(r.on)
    [] r.kind = "revoke"   -> Actor(r) = "owner" /\ invitation[r.on] # NoInvitation
    [] r.kind = "change"   -> /\ r.on # r.actor /\ role[r.on] # "none"
                              /\ CanManage(Actor(r), role[r.on], r.to)
    [] r.kind = "transfer" -> Actor(r) = "owner" /\ r.on # r.actor /\ role[r.on] # "none"

\* The reads; a refusal is a WorkspaceAccessError, which rolls back.
Check(s) ==
  /\ tx[s].pc = "locked" /\ Allowed(tx[s].req)
  /\ tx' = [tx EXCEPT ![s].pc = "allowed"]
  /\ UNCHANGED <<role, invitation, lock, admitted>>

\* A refusal, an error of the database, or a process that dies.
RollBack(s) ==
  /\ tx[s].pc # "idle"
  /\ tx' = [tx EXCEPT ![s] = Idle] /\ lock' = lock \ {s}
  /\ UNCHANGED <<role, invitation, admitted>>

-------------------------------------------------------------------------------
(***************************************************************************)
(* The writes, which a commit shows together.                              *)
(***************************************************************************)

CreateInvitation(r) ==
  /\ r.kind = "invite"
  /\ invitation' = [invitation EXCEPT ![r.on] = [NoInvitation EXCEPT !.role = r.to]]
  /\ UNCHANGED <<role, admitted>>

\* The insert gives way to a membership there is; the invitation is used up.
AcceptInvitation(r) ==
  /\ r.kind = "accept"
  /\ role' = [role EXCEPT ![r.actor] = IF @ = "none" THEN invitation[r.on].role ELSE @]
  /\ invitation' = [invitation EXCEPT ![r.on].accepted = {r.actor}]
  /\ admitted' = [admitted EXCEPT ![r.on] = @ \cup {r.actor}]

\* A slip: an accepted invitation is revoked too.
RevokeAnyway(r) ==
  /\ r.kind = "revoke"
  /\ invitation' = [invitation EXCEPT ![r.on].revoked = TRUE]
  /\ UNCHANGED <<role, admitted>>

RevokeInvitation(r) ==
  /\ r.kind = "revoke"
  /\ invitation' = [invitation EXCEPT ![r.on].revoked = @ \/ invitation[r.on].accepted = {}]
  /\ UNCHANGED <<role, admitted>>

ChangeMember(r) ==
  /\ r.kind = "change"
  /\ role' = [role EXCEPT ![r.on] = r.to]
  /\ UNCHANGED <<invitation, admitted>>

TransferOwnership(r) ==
  /\ r.kind = "transfer"
  /\ role' = [role EXCEPT ![r.on] = "owner", ![r.actor] = "admin"]
  /\ UNCHANGED <<invitation, admitted>>

Commit(s) ==
  /\ tx[s].pc = "allowed"
  /\ \/ CreateInvitation(tx[s].req) \/ AcceptInvitation(tx[s].req)
     \/ RevokeInvitation(tx[s].req) \/ ChangeMember(tx[s].req) \/ TransferOwnership(tx[s].req)
  /\ tx' = [tx EXCEPT ![s] = Idle] /\ lock' = lock \ {s}

Next == \E s \in Session : Lock(s) \/ Check(s) \/ Commit(s) \/ RollBack(s)

Spec == Init /\ [][Next]_vars

-------------------------------------------------------------------------------
\* The values the variables take; a transaction under way has the row's lock to itself.
TypeOK ==
  /\ role \in [User -> Role \cup {"none"}]
  /\ invitation \in [Invitation -> [role : (Role \cup {"none"}) \ {"owner"},
                                    accepted : SUBSET User, revoked : BOOLEAN]]
  /\ lock = {s \in Session : tx[s] # Idle} /\ Cardinality(lock) <= 1
  /\ admitted \in [Invitation -> SUBSET User]

\* The workspace has one owner, through any overlap of transfers, removals and
\* invitations (no constraint of the table says so).
OneOwner == Cardinality({u \in User : role[u] = "owner"}) = 1

\* An invitation admits one user at most, and none once it is revoked (revokeInvitation
\* and acceptInvitation race for it).
InvitationEndsOnce ==
  \A i \in Invitation :
    /\ Cardinality(admitted[i]) <= 1
    /\ invitation[i].revoked => admitted[i] = {}

\* A workspace has one owner, and an invitation admits one user or is revoked
\* (workspaces/store.ts).
TeamIsSound == TypeOK /\ OneOwner /\ InvitationEndsOnce
================================================================================
