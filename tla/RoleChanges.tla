----------------------------- MODULE RoleChanges ----------------------------
(***************************************************************************)
(* Role changes by concurrent requests of administrators: the session and  *)
(* its permission, the actor's role, the target's role and the UPDATE are  *)
(* separate statements; only the UPDATE and its receipt hold the lock.     *)
(***************************************************************************)
EXTENDS Naturals

CONSTANTS Changers, \* requests in progress
          Staff,    \* possible users
          NoRole    \* no such user

ASSUME RoleChangesAssumption == NoRole \notin {"viewer", "editor", "owner"}

VARIABLES role,   \* user -> its role, or NoRole
          told,   \* the receipts the last step committed
          change  \* what each request is doing

rolesVars == <<role, told, change>>

Roles == {"viewer", "editor", "owner"}
NoChange == [at |-> "rest"]
DropsChange(c) == change' = [change EXCEPT ![c] = NoChange]

\* get_session joins the user: the permission is the role of that moment. Nobody changes their own role.
StartChange(c, actor, target, new) ==
  /\ change[c] = NoChange /\ role[actor] = "owner" /\ target # actor
  /\ change' = [change EXCEPT ![c] = [at |-> "actor", actor |-> actor, target |-> target, new |-> new, old |-> new]]
  /\ UNCHANGED role /\ told' = {}

ReadActor(c) ==
  /\ change[c].at = "actor"
  /\ IF role[change[c].actor] = "owner" THEN change' = [change EXCEPT ![c].at = "target"] ELSE DropsChange(c)
  /\ UNCHANGED role /\ told' = {}

\* 404 for an unknown target, and nothing to do when it has the role already.
ReadTarget(c) ==
  /\ change[c].at = "target"
  /\ IF role[change[c].target] \in {NoRole, change[c].new} THEN DropsChange(c)
     ELSE change' = [change EXCEPT ![c].at = "update", ![c].old = role[change[c].target]]
  /\ UNCHANGED role /\ told' = {}

\* Operators that start with "Wrong" carry one mistake the properties must notice; no action uses them.
WrongMayUpdate(c) == role[change[c].target] = change[c].old
WrongMayUpdateAny(c) == role[change[c].actor] = "owner"
MayUpdate(c) == role[change[c].target] = change[c].old /\ role[change[c].actor] = "owner"
RoleReceipt(c) == [actor |-> change[c].actor, target |-> change[c].target, old |-> change[c].old, new |-> change[c].new]
NewRole(c) == change[c].new

\* One UPDATE names the old role and tests the actor's; a change that finds no row is refused.
UpdateRole(c) ==
  /\ change[c].at = "update"
  /\ IF MayUpdate(c)
     THEN role' = [role EXCEPT ![change[c].target] = NewRole(c)] /\ told' = {RoleReceipt(c)}
     ELSE UNCHANGED role /\ told' = {}
  /\ DropsChange(c)

ChangeFails(c) == change[c] # NoChange /\ DropsChange(c) /\ UNCHANGED role /\ told' = {}

CreateUser(u, r) ==
  /\ role[u] = NoRole /\ role' = [role EXCEPT ![u] = r]
  /\ UNCHANGED change /\ told' = {}

\* The installation has been given its first owner.
RolesInit ==
  /\ \E u \in Staff : role = [v \in Staff |-> IF v = u THEN "owner" ELSE NoRole]
  /\ told = {} /\ change = [c \in Changers |-> NoChange]

RolesNext ==
  \/ \E c \in Changers : ReadActor(c) \/ ReadTarget(c) \/ UpdateRole(c) \/ ChangeFails(c)
  \/ \E c \in Changers, u, v \in Staff, r \in Roles : StartChange(c, u, v, r)
  \/ \E u \in Staff, r \in Roles : CreateUser(u, r)

RolesSpec == RolesInit /\ [][RolesNext]_rolesVars

RolesTypeOK ==
  /\ role \in [Staff -> Roles \cup {NoRole}]
  /\ told \subseteq [actor : Staff, target : Staff, old : Roles, new : Roles]
  /\ change \in [Changers -> {NoChange} \cup
       [at : {"actor", "target", "update"}, actor : Staff, target : Staff, new : Roles, old : Roles]]
  /\ \A c \in Changers : change[c] # NoChange => role[change[c].actor] # NoRole /\ change[c].actor # change[c].target

\* Owners may demote each other at the same time, from requests that began while both were owners: the branch
\* never loses its last owner.
OwnerRemains == \E u \in Staff : role[u] = "owner"

\* Whatever happened since a role change began, it is made by somebody who is an owner at that moment, not about
\* oneself, and its receipt tells the role the target really had until then.
RoleChangesAreTold ==
  [][\A u \in Staff : role[u] # NoRole /\ role'[u] # role[u] =>
       \E a \in Staff \ {u} : /\ role[a] = "owner"
                              /\ told' = {[actor |-> a, target |-> u, old |-> role[u], new |-> role'[u]]}]_rolesVars
=============================================================================
