----------------------------- MODULE PartsProofs -----------------------------
(***************************************************************************)
(* The parts that share no state, for any number of requests, users, keys  *)
(* and processes: logins, roles, backups, the store of message receipts,   *)
(* the admission of requests, the panel, questions, price sheets and       *)
(* pages. The last section says why the run that checks them together is a *)
(* run of each.                                                            *)
(***************************************************************************)
EXTENDS MCParts, ToolLoopProofs, SequenceTheorems, FiniteSetTheorems, WellFoundedInduction

(***************************************************************************)
(* Logins. The bound on guesses is not inductive: the requests that are    *)
(* still going to check a password count as well, and they and the checked *)
(* ones were counted in this window's row or carried over (Counts).        *)
(***************************************************************************)

(* What the throttle rows say about the passwords that were or may be      *)
(* checked.                                                                *)
Counts ==
  \A key \in Keys : /\ guesses[key] + Cardinality(Admitted(key)) <= attempts[key] + carried[key]
                    /\ guesses[key] + Cardinality(Admitted(key)) <= LimitOf(key) + carried[key]

LoginsInv == LoginsTypeOK /\ Counts

LEMMA LimitTyped == \A key \in Keys : LimitOf(key) \in Nat
  BY LoginsAssumption DEF LimitOf

LEMMA AdmittedFinite == \A key : IsFiniteSet(Admitted(key)) /\ Cardinality(Admitted(key)) \in Nat
<1> SUFFICES ASSUME NEW key PROVE IsFiniteSet(Admitted(key)) /\ Cardinality(Admitted(key)) \in Nat
  OBVIOUS
<1>1. Admitted(key) \subseteq Calls
  BY DEF Admitted
<1> QED BY <1>1, LoginsAssumption, FS_Subset, FS_CardinalityType

(* login and get_session start with empty tables.                          *)
LEMMA LoginsStart == LoginsInit => LoginsInv
<1> SUFFICES ASSUME LoginsInit PROVE LoginsInv
  OBVIOUS
<1>1. LoginsTypeOK
  BY DEF LoginsInit, LoginsTypeOK
<1>2. \A key \in Keys : Admitted(key) = {}
  BY DEF LoginsInit, Admitted
<1>3. Counts
  BY <1>2, LimitTyped, FS_EmptySet DEF LoginsInit, Counts
<1> QED BY <1>1, <1>3 DEF LoginsInv

(* The first transaction of login counts before it lets a password be      *)
(* checked, and counts for the name only below the limit of the address.   *)
LEMMA CountKeeps ==
  ASSUME LoginsInv, NEW c \in Calls, NEW u \in Usernames, CountAttempt(c, u)
  PROVE  LoginsInv'
<1>1. /\ LoginsTypeOK /\ Counts /\ Peer \in Keys /\ u \in Keys /\ login[c] = AtRest
      /\ UNCHANGED <<guesses, carried, session>>
  BY DEF LoginsInv, Keys, CountAttempt
<1>2. attempts' \in [Keys -> Nat]
  BY <1>1 DEF CountAttempt, LoginsTypeOK, Bumped
<1>3. login' \in [Calls -> {AtRest} \cup [at : {"wait", "hash"}, user : Usernames]]
  BY <1>1 DEF CountAttempt, LoginsTypeOK
<1>4. LoginsTypeOK'
  BY <1>1, <1>2, <1>3 DEF LoginsTypeOK
<1>5. Counts'
  <2> SUFFICES ASSUME NEW key \in Keys
               PROVE  /\ guesses[key] + Cardinality(Admitted(key)') <= attempts'[key] + carried[key]
                      /\ guesses[key] + Cardinality(Admitted(key)') <= LimitOf(key) + carried[key]
    BY <1>1 DEF Counts, LimitOf
  <2> DEFINE n == Cardinality(Admitted(key))
             m == Cardinality(Admitted(key)')
  <2>1. /\ attempts[key] \in Nat /\ guesses[key] \in Nat /\ carried[key] \in Nat /\ LimitOf(key) \in Nat /\ n \in Nat
        /\ guesses[key] + n <= attempts[key] + carried[key] /\ guesses[key] + n <= LimitOf(key) + carried[key]
    BY <1>1, LimitTyped, AdmittedFinite DEF LoginsTypeOK, Counts
  <2>2. CASE key \in {Peer, u} /\ ~Limited(u)
    <3>1. attempts'[key] = attempts[key] + 1 /\ login' = [login EXCEPT ![c] = [at |-> "wait", user |-> u]]
      BY <2>2 DEF CountAttempt, Counted, Limited, Bumped
    <3>2. attempts[key] + 1 <= LimitOf(key)
      <4>1. ~(attempts[Peer] + 1 > PeerLimit) /\ ~(attempts[u] + 1 > UsernameLimit)
        BY <2>2 DEF Limited, PeerLimited, Bumped
      <4>2. attempts[Peer] \in Nat /\ attempts[u] \in Nat
        BY <1>1 DEF LoginsTypeOK
      <4> QED BY <2>1, <2>2, <4>1, <4>2, LoginsAssumption DEF LimitOf
    <3>3. Admitted(key)' = Admitted(key) \cup {c} /\ c \notin Admitted(key)
      BY <1>1, <2>2, <3>1 DEF Admitted, LoginsTypeOK, AtRest
    <3>4. m = n + 1
      BY <3>3, AdmittedFinite, FS_AddElement
    <3> QED BY <2>1, <3>1, <3>2, <3>4
  <2>3. CASE ~(key \in {Peer, u} /\ ~Limited(u))
    <3>1. attempts'[key] \in {attempts[key], attempts[key] + 1}
      BY DEF CountAttempt, Bumped
    <3>2. Admitted(key)' = Admitted(key)
      <4>1. login' = login \/ (login' = [login EXCEPT ![c] = [at |-> "wait", user |-> u]] /\ key \notin {Peer, u})
        BY <2>3 DEF CountAttempt
      <4> QED BY <1>1, <4>1 DEF Admitted, LoginsTypeOK
    <3> QED BY <2>1, <3>1, <3>2
  <2> QED BY <2>2, <2>3
<1> QED BY <1>4, <1>5 DEF LoginsInv

(* A request that ends is no longer going to check a password; it may just *)
(* have done so.                                                           *)
LEMMA RequestEndKeeps ==
  ASSUME LoginsInv, NEW c \in Calls, login[c] # AtRest, Rests(c), Guesses(c) \/ UNCHANGED guesses,
         UNCHANGED <<attempts, carried>>, session' \in [Cookies -> Registered \cup {Nobody}]
  PROVE  LoginsInv'
<1>1. LoginsTypeOK /\ Counts
  BY DEF LoginsInv
<1>2. LoginsTypeOK'
  BY <1>1 DEF LoginsTypeOK, Rests, Guesses
<1>3. Counts'
  <2> SUFFICES ASSUME NEW key \in Keys
               PROVE  /\ guesses'[key] + Cardinality(Admitted(key)') <= attempts[key] + carried[key]
                      /\ guesses'[key] + Cardinality(Admitted(key)') <= LimitOf(key) + carried[key]
    BY DEF Counts, LimitOf
  <2> DEFINE n == Cardinality(Admitted(key))
             m == Cardinality(Admitted(key)')
  <2>1. /\ attempts[key] \in Nat /\ guesses[key] \in Nat /\ carried[key] \in Nat /\ LimitOf(key) \in Nat /\ n \in Nat
        /\ guesses[key] + n <= attempts[key] + carried[key] /\ guesses[key] + n <= LimitOf(key) + carried[key]
    BY <1>1, LimitTyped, AdmittedFinite DEF LoginsTypeOK, Counts
  <2>2. Admitted(key)' = Admitted(key) \ {c}
    BY <1>1 DEF Admitted, Rests, LoginsTypeOK
  <2>3. CASE c \in Admitted(key)
    <3>1. m = n - 1
      BY <2>2, <2>3, AdmittedFinite, FS_RemoveElement
    <3>2. guesses'[key] \in {guesses[key], guesses[key] + 1}
      BY DEF Guesses
    <3> QED BY <2>1, <3>1, <3>2
  <2>4. CASE c \notin Admitted(key)
    <3>1. m = n
      BY <2>2, <2>4
    <3>2. guesses'[key] = guesses[key]
      BY <2>4 DEF Guesses, Admitted
    <3> QED BY <2>1, <3>1, <3>2
  <2> QED BY <2>3, <2>4
<1> QED BY <1>2, <1>3 DEF LoginsInv

(* The end of a window forgets attempts and guesses together, but not the  *)
(* requests in progress.                                                   *)
LEMMA WindowKeeps ==
  ASSUME LoginsInv, NEW key \in Keys, WindowPasses(key)
  PROVE  LoginsInv'
<1>1. LoginsTypeOK /\ Counts /\ UNCHANGED <<session, login>>
  BY DEF LoginsInv, WindowPasses
<1>2. LoginsTypeOK'
  BY <1>1, AdmittedFinite DEF LoginsTypeOK, WindowPasses
<1>3. ASSUME NEW other \in Keys
      PROVE  /\ guesses'[other] + Cardinality(Admitted(other)) <= attempts'[other] + carried'[other]
             /\ guesses'[other] + Cardinality(Admitted(other)) <= LimitOf(other) + carried'[other]
  <2>1. CASE other = key
    <3>1. guesses'[other] = 0 /\ attempts'[other] = 0 /\ carried'[other] = Cardinality(Admitted(other))
      BY <1>1, <2>1 DEF WindowPasses, LoginsTypeOK
    <3> QED BY <3>1, LimitTyped, AdmittedFinite
  <2>2. CASE other # key
    <3>1. guesses'[other] = guesses[other] /\ attempts'[other] = attempts[other] /\ carried'[other] = carried[other]
      BY <1>1, <2>2 DEF WindowPasses, LoginsTypeOK
    <3> QED BY <1>1, <3>1 DEF Counts
  <2> QED BY <2>1, <2>2
<1>4. \A other \in Keys : Admitted(other)' = Admitted(other)
  BY <1>1 DEF Admitted
<1> QED BY <1>2, <1>3, <1>4 DEF LoginsInv, Counts, LimitOf

(* Steps that move no request in or out.                                   *)
LEMMA StillAdmitted ==
  ASSUME LoginsInv, UNCHANGED <<attempts, guesses, carried>>, session' \in [Cookies -> Registered \cup {Nobody}],
         login' \in [Calls -> {AtRest} \cup [at : {"wait", "hash"}, user : Usernames]],
         \A key \in Keys : Admitted(key)' = Admitted(key)
  PROVE  LoginsInv'
<1>1. LoginsTypeOK'
  BY DEF LoginsInv, LoginsTypeOK
<1> QED BY <1>1 DEF LoginsInv, Counts, LimitOf

(* Every step of login, logout and revocation.                             *)
LEMMA LoginsStep == LoginsInv /\ [LoginsNext]_loginsVars => LoginsInv'
<1> SUFFICES ASSUME LoginsInv, [LoginsNext]_loginsVars PROVE LoginsInv'
  OBVIOUS
<1> USE LoginsAssumption
<1>0. LoginsTypeOK
  BY DEF LoginsInv
<1>1. ASSUME NEW c \in Calls, TakeHashSlot(c) PROVE LoginsInv'
  <2>1. /\ login[c].at = "wait" /\ login' = [login EXCEPT ![c].at = "hash"]
        /\ UNCHANGED <<attempts, guesses, carried, session>>
    BY <1>1 DEF TakeHashSlot
  <2>2. login[c] \in [at : {"wait", "hash"}, user : Usernames]
    BY <1>0, <2>1 DEF LoginsTypeOK, AtRest
  <2>3. login'[c] \in [at : {"wait", "hash"}, user : Usernames] /\ login'[c].user = login[c].user
    BY <1>0, <2>1, <2>2 DEF LoginsTypeOK
  <2>4. login' \in [Calls -> {AtRest} \cup [at : {"wait", "hash"}, user : Usernames]]
        /\ \A d \in Calls \ {c} : login'[d] = login[d]
    BY <1>0, <2>1, <2>3 DEF LoginsTypeOK
  <2>5. login[c] # AtRest /\ login'[c] # AtRest
    BY <2>2, <2>3 DEF AtRest
  <2>6. \A key \in Keys : Admitted(key)' = Admitted(key)
    BY <2>3, <2>4, <2>5 DEF Admitted
  <2>7. session' \in [Cookies -> Registered \cup {Nobody}]
    BY <1>0, <2>1 DEF LoginsTypeOK
  <2> QED BY <2>1, <2>4, <2>6, <2>7, StillAdmitted
<1>2. ASSUME NEW c \in Calls, HashSlotTimeout(c) \/ Verify(c) \/ LoginFails(c) PROVE LoginsInv'
  <2>1. login[c] # AtRest /\ Rests(c) /\ UNCHANGED <<attempts, carried>> /\ (Guesses(c) \/ UNCHANGED guesses)
    BY <1>2 DEF HashSlotTimeout, Verify, LoginFails, AtRest
  <2>2. session' \in [Cookies -> Registered \cup {Nobody}]
    BY <1>0, <1>2 DEF HashSlotTimeout, Verify, LoginFails, MayOpen, LoginsTypeOK
  <2> QED BY <2>1, <2>2, RequestEndKeeps
<1>3. ASSUME NEW c \in Calls, NEW u \in Usernames, CountAttempt(c, u) PROVE LoginsInv'
  BY <1>3, CountKeeps
<1>4. ASSUME NEW t \in Cookies, Logout(t) PROVE LoginsInv'
  BY <1>0, <1>4, StillAdmitted DEF Logout, LoginsTypeOK, Admitted
<1>5. CASE RevokeAllSessions
  BY <1>0, <1>5, StillAdmitted DEF RevokeAllSessions, LoginsTypeOK, Admitted
<1>6. ASSUME NEW key \in Keys, WindowPasses(key) PROVE LoginsInv'
  BY <1>6, WindowKeeps
<1>7. CASE UNCHANGED loginsVars
  BY <1>0, <1>7, StillAdmitted DEF loginsVars, LoginsTypeOK, Admitted
<1> QED BY <1>1, <1>2, <1>3, <1>4, <1>5, <1>6, <1>7 DEF LoginsNext

(* Types: in particular only a registered user ever owns a session.        *)
THEOREM LoginsTypeSafety == LoginsSpec => []LoginsTypeOK
<1>1. LoginsInv => LoginsTypeOK
  BY DEF LoginsInv
<1> QED BY <1>1, LoginsStart, LoginsStep, PTL DEF LoginsSpec

(* However many logins overlap, wait or stop half-way, no more passwords   *)
(* are checked for a name or an address in one window than its limit and   *)
(* the requests admitted before it allow (admin_auth_service.py: login).   *)
THEOREM GuessesAreBounded == LoginsSpec => []GuessesBounded
<1>1. LoginsInv => GuessesBounded
  <2> SUFFICES ASSUME LoginsInv, NEW key \in Keys PROVE guesses[key] <= LimitOf(key) + carried[key]
    BY DEF GuessesBounded
  <2>1. /\ guesses[key] \in Nat /\ carried[key] \in Nat
        /\ guesses[key] + Cardinality(Admitted(key)) <= LimitOf(key) + carried[key]
    BY DEF LoginsInv, LoginsTypeOK, Counts
  <2> QED BY <2>1, LimitTyped, AdmittedFinite
<1> QED BY <1>1, LoginsStart, LoginsStep, PTL DEF LoginsSpec

-----------------------------------------------------------------------------
(***************************************************************************)
(* Roles. Types and the owner are inductive together: the UPDATE tests     *)
(* that its actor is an owner, and the type invariant says that the actor  *)
(* is not the target.                                                      *)
(***************************************************************************)

(* What each step of change_role and create_user preserves.                *)
LEMMA RolesStep == RolesTypeOK /\ [RolesNext]_rolesVars => RolesTypeOK'
<1> SUFFICES ASSUME RolesTypeOK, [RolesNext]_rolesVars PROVE RolesTypeOK'
  OBVIOUS
<1> USE RoleChangesAssumption
<1>1. ASSUME NEW c \in Changers, ReadActor(c) PROVE RolesTypeOK'
  BY <1>1 DEF ReadActor, RolesTypeOK, NoChange, Roles, DropsChange
<1>2. ASSUME NEW c \in Changers, ReadTarget(c) PROVE RolesTypeOK'
  BY <1>2 DEF ReadTarget, RolesTypeOK, NoChange, Roles, DropsChange
<1>3. ASSUME NEW c \in Changers, UpdateRole(c) PROVE RolesTypeOK'
  BY <1>3 DEF UpdateRole, MayUpdate, RoleReceipt, NewRole, RolesTypeOK, NoChange, Roles, DropsChange
<1>4. ASSUME NEW c \in Changers, ChangeFails(c) PROVE RolesTypeOK'
  BY <1>4 DEF ChangeFails, RolesTypeOK, NoChange, Roles, DropsChange
<1>5. ASSUME NEW c \in Changers, NEW u \in Staff, NEW v \in Staff, NEW r \in Roles, StartChange(c, u, v, r)
      PROVE  RolesTypeOK'
  BY <1>5 DEF StartChange, RolesTypeOK, NoChange, Roles
<1>6. ASSUME NEW u \in Staff, NEW r \in Roles, CreateUser(u, r) PROVE RolesTypeOK'
  BY <1>6 DEF CreateUser, RolesTypeOK, NoChange, Roles
<1>7. CASE UNCHANGED rolesVars
  BY <1>7 DEF rolesVars, RolesTypeOK
<1> QED BY <1>1, <1>2, <1>3, <1>4, <1>5, <1>6, <1>7 DEF RolesNext

(* create_admin_user gave the installation its first owner.                *)
LEMMA RolesStart == RolesInit => RolesTypeOK /\ OwnerRemains
  BY RoleChangesAssumption DEF RolesInit, RolesTypeOK, OwnerRemains, NoChange, Roles

(* Requests of change_role always have a user as actor and another as      *)
(* target, in admin_users and in the receipts.                             *)
THEOREM RolesTypeSafety == RolesSpec => []RolesTypeOK
  BY RolesStep, RolesStart, PTL DEF RolesSpec

(* The UPDATE of change_role takes the role of no owner but from another.  *)
LEMMA OwnerStep == RolesTypeOK /\ OwnerRemains /\ [RolesNext]_rolesVars => OwnerRemains'
<1> SUFFICES ASSUME RolesTypeOK, OwnerRemains, [RolesNext]_rolesVars PROVE OwnerRemains'
  OBVIOUS
<1>1. PICK o \in Staff : role[o] = "owner"
  BY DEF OwnerRemains
<1>2. ASSUME NEW c \in Changers, UpdateRole(c) PROVE OwnerRemains'
  <2>1. CASE MayUpdate(c)
    <3>1. change[c] # NoChange /\ change[c].actor # change[c].target /\ change[c].actor \in Staff
      BY <1>2, <2>1 DEF UpdateRole, RolesTypeOK, NoChange
    <3>2. role'[change[c].actor] = "owner"
      BY <1>2, <2>1, <3>1 DEF UpdateRole, MayUpdate, RolesTypeOK
    <3> QED BY <3>1, <3>2 DEF OwnerRemains
  <2>2. CASE ~MayUpdate(c)
    BY <1>1, <1>2, <2>2 DEF UpdateRole, OwnerRemains
  <2> QED BY <2>1, <2>2
<1>3. ASSUME NEW u \in Staff, NEW r \in Roles, CreateUser(u, r) PROVE OwnerRemains'
  <2>1. o # u
    BY <1>1, <1>3, RoleChangesAssumption DEF CreateUser
  <2> QED BY <1>1, <1>3, <2>1 DEF CreateUser, OwnerRemains, RolesTypeOK
<1>4. ASSUME UNCHANGED role PROVE OwnerRemains'
  BY <1>1, <1>4 DEF OwnerRemains
<1> QED BY <1>2, <1>3, <1>4 DEF RolesNext, rolesVars, ReadActor, ReadTarget, ChangeFails, StartChange

(* The branch never loses its last owner (admin_auth_service.py:           *)
(* change_role), however many owners demote each other at once.            *)
THEOREM OwnerStays == RolesSpec => []OwnerRemains
<1>1. RolesTypeOK /\ OwnerRemains /\ [RolesNext]_rolesVars => (RolesTypeOK /\ OwnerRemains)'
  BY RolesStep, OwnerStep
<1> QED BY <1>1, RolesStart, PTL DEF RolesSpec

(* Whoever changes a role is an owner then, and the receipt tells the role *)
(* the target had (admin_auth_service.py: the UPDATE and its audit row).   *)
THEOREM ChangesAreTold == RolesSpec => RoleChangesAreTold
<1> DEFINE Told(u) ==
      role[u] # NoRole /\ role'[u] # role[u] =>
        \E a \in Staff \ {u} : /\ role[a] = "owner"
                               /\ told' = {[actor |-> a, target |-> u, old |-> role[u], new |-> role'[u]]}
<1>1. RolesTypeOK /\ [RolesNext]_rolesVars => \A u \in Staff : Told(u)
  <2> SUFFICES ASSUME RolesTypeOK, [RolesNext]_rolesVars, NEW u \in Staff PROVE Told(u)
    OBVIOUS
  <2>1. ASSUME NEW c \in Changers, UpdateRole(c) PROVE Told(u)
    <3>1. CASE MayUpdate(c) /\ u = change[c].target
      <4>1. change[c] # NoChange /\ change[c].actor \in Staff \ {u}
        BY <2>1, <3>1 DEF UpdateRole, RolesTypeOK, NoChange
      <4>2. role[change[c].actor] = "owner" /\ role[u] = change[c].old
        BY <3>1 DEF MayUpdate
      <4>3. role'[u] = change[c].new /\ told' = {RoleReceipt(c)}
        BY <2>1, <3>1 DEF UpdateRole, NewRole, RolesTypeOK
      <4> QED BY <3>1, <4>1, <4>2, <4>3 DEF RoleReceipt
    <3>2. CASE ~(MayUpdate(c) /\ u = change[c].target)
      BY <2>1, <3>2 DEF UpdateRole, RolesTypeOK
    <3> QED BY <3>1, <3>2
  <2>2. ASSUME NEW v \in Staff, NEW r \in Roles, CreateUser(v, r) PROVE Told(u)
    BY <2>2 DEF CreateUser, RolesTypeOK
  <2>3. ASSUME UNCHANGED role PROVE Told(u)
    BY <2>3
  <2> QED BY <2>1, <2>2, <2>3 DEF RolesNext, rolesVars, ReadActor, ReadTarget, ChangeFails, StartChange
<1>2. RolesTypeOK /\ [RolesNext]_rolesVars => [\A u \in Staff : Told(u)]_rolesVars
  BY <1>1
<1> QED BY <1>2, RolesTypeSafety, PTL DEF RolesSpec, RoleChangesAreTold

-----------------------------------------------------------------------------
(***************************************************************************)
(* Backups. Between its creation and its report a file is its maker's:     *)
(* nobody else touches it, and it is not reported yet.                     *)
(***************************************************************************)
Copies == [by : Processes, content : {"partial", "whole"}]
Started == [at : {"create", "copy", "verify", "report"}, path : Paths, kind : {"backup", "restore"}]
Making(p) == process[p].at \in {"copy", "verify", "report"}

BackupsTypes ==
  process \in [Processes -> {Ended} \cup Started] /\ disk \in [Paths -> {NoFile} \cup Copies] /\ reported \subseteq Paths

Makers ==
  \A p \in Processes : Making(p) =>
    /\ disk[process[p].path] \in Copies /\ disk[process[p].path].by = p
    /\ process[p].at # "copy" => disk[process[p].path].content = "whole"
    /\ process[p].path \notin reported

BackupsInv == BackupsTypes /\ Makers /\ ReportedIsWhole

LEMMA NoFileIsNoCopy == NoFile \notin Copies
  BY BackupsAssumption DEF Copies

LEMMA ReportedAreCopies == ReportedIsWhole => \A path \in reported : disk[path] \in Copies
<1>1. \A p \in Processes : [by |-> p, content |-> "whole"] \in Copies
  BY DEF Copies
<1> QED BY <1>1 DEF ReportedIsWhole

(* Only the maker of a file has it in hand.                                *)
LEMMA MakersDiffer ==
  ASSUME Makers, NEW p \in Processes, NEW q \in Processes, p # q, Making(p), Making(q)
  PROVE  process[p].path # process[q].path
<1>1. disk[process[p].path].by = p
  BY DEF Makers
<1>2. disk[process[q].path].by = q
  BY DEF Makers
<1> QED BY <1>1, <1>2

LEMMA AtWork ==
  ASSUME BackupsTypes, NEW p \in Processes, process[p].at # "none"
  PROVE  process[p] \in Started /\ process[p].path \in Paths
<1>1. process[p] \in Started
  BY DEF BackupsTypes, Ended
<1> QED BY <1>1 DEF Started

(* A process that ends, by itself or killed, leaves the files of others.   *)
LEMMA EndKeeps ==
  ASSUME BackupsInv, NEW p \in Processes, EndsProcess(p), UNCHANGED reported,
         disk' = disk \/ (Making(p) /\ disk' = [disk EXCEPT ![process[p].path] = NoFile])
  PROVE  BackupsInv'
<1>1. process' = [process EXCEPT ![p] = Ended] /\ process \in [Processes -> {Ended} \cup Started]
  BY DEF EndsProcess, BackupsInv, BackupsTypes
<1>2. BackupsTypes'
  BY <1>1 DEF BackupsInv, BackupsTypes
<1>3. ~Making(p)'
  BY <1>1 DEF Making, Ended
<1>4. ASSUME NEW q \in Processes, Making(q)'
      PROVE  Making(q) /\ process'[q] = process[q] /\ disk'[process[q].path] = disk[process[q].path]
  <2>1. q # p
    BY <1>3, <1>4
  <2>2. Making(q) /\ process'[q] = process[q]
    BY <1>1, <1>4, <2>1 DEF Making
  <2>3. Making(p) => process[p].path # process[q].path
    BY <2>1, <2>2, MakersDiffer DEF BackupsInv
  <2>4. process[q].path \in Paths
    BY <2>2, AtWork DEF Making, BackupsInv
  <2> QED BY <2>2, <2>3, <2>4 DEF BackupsInv, BackupsTypes
<1>5. Makers'
  BY <1>4 DEF BackupsInv, Makers
<1>6. \A path \in reported : disk'[path] = disk[path]
  BY DEF BackupsInv, BackupsTypes, Makers
<1>7. ReportedIsWhole'
  BY <1>6 DEF BackupsInv, ReportedIsWhole
<1> QED BY <1>2, <1>5, <1>7 DEF BackupsInv

(* A process that writes its file, or goes on, leaves the files of others. *)
LEMMA WriteKeeps ==
  ASSUME BackupsInv, NEW p \in Processes, NEW next \in {"copy", "verify", "report"}, process[p].at # "none",
         Making(p) \/ disk[process[p].path] = NoFile, Reaches(p, next), UNCHANGED reported,
         NEW content \in {"partial", "whole"}, next # "copy" => content = "whole",
         disk' = [disk EXCEPT ![process[p].path] = [by |-> p, content |-> content]]
  PROVE  BackupsInv'
<1>1. process[p] \in Started /\ process[p].path \in Paths
  BY AtWork DEF BackupsInv
<1>2. process' = [process EXCEPT ![p] = [process[p] EXCEPT !.at = next]] /\ process \in [Processes -> {Ended} \cup Started]
  BY DEF Reaches, BackupsInv, BackupsTypes
<1>3. process'[p] \in Started /\ process'[p].path = process[p].path /\ process'[p].at = next
  BY <1>1, <1>2 DEF Started
<1>4. disk'[process[p].path] = [by |-> p, content |-> content]
  BY <1>1 DEF BackupsInv, BackupsTypes
<1>5. BackupsTypes'
  <2>1. process' \in [Processes -> {Ended} \cup Started]
    BY <1>2, <1>3
  <2>2. [by |-> p, content |-> content] \in Copies
    BY DEF Copies
  <2> QED BY <2>1, <2>2 DEF BackupsInv, BackupsTypes
<1>6. process[p].path \notin reported
  <2>1. CASE Making(p)
    BY <2>1 DEF BackupsInv, Makers
  <2>2. CASE disk[process[p].path] = NoFile
    BY <2>2, NoFileIsNoCopy, ReportedAreCopies DEF BackupsInv
  <2> QED BY <2>1, <2>2
<1>7. ASSUME NEW q \in Processes, Making(q)', q # p
      PROVE  Making(q) /\ process'[q] = process[q] /\ disk'[process[q].path] = disk[process[q].path]
  <2>1. Making(q) /\ process'[q] = process[q]
    BY <1>2, <1>7 DEF Making
  <2>2. process[p].path # process[q].path
    <3>1. CASE Making(p)
      BY <1>7, <2>1, <3>1, MakersDiffer DEF BackupsInv
    <3>2. CASE disk[process[p].path] = NoFile
      BY <2>1, <3>2, NoFileIsNoCopy DEF BackupsInv, Makers
    <3> QED BY <3>1, <3>2
  <2>3. process[q].path \in Paths
    BY <2>1, AtWork DEF Making, BackupsInv
  <2> QED BY <2>1, <2>2, <2>3 DEF BackupsInv, BackupsTypes
<1>8. Makers'
  <2>1. SUFFICES ASSUME NEW q \in Processes, Making(q)'
                 PROVE  /\ disk'[process'[q].path] \in Copies /\ disk'[process'[q].path].by = q
                        /\ process'[q].at # "copy" => disk'[process'[q].path].content = "whole"
                        /\ process'[q].path \notin reported'
    BY DEF Makers
  <2>2. CASE q = p
    BY <1>3, <1>4, <1>6, <2>2 DEF Copies
  <2>3. CASE q # p
    BY <1>7, <2>1, <2>3 DEF BackupsInv, Makers
  <2> QED BY <2>2, <2>3
<1>9. \A path \in reported : disk'[path] = disk[path]
  BY <1>6 DEF BackupsInv, BackupsTypes
<1>10. ReportedIsWhole'
  BY <1>9 DEF BackupsInv, ReportedIsWhole
<1> QED BY <1>5, <1>8, <1>10 DEF BackupsInv

LEMMA BackupsStep == BackupsInv /\ [BackupsNext]_backupVars => BackupsInv'
<1> SUFFICES ASSUME BackupsInv, [BackupsNext]_backupVars PROVE BackupsInv'
  OBVIOUS
<1>1. ASSUME NEW p \in Processes, NEW path \in Paths, NEW kind \in {"backup", "restore"}, StartCopy(p, path, kind)
      PROVE  BackupsInv'
  <2>1. /\ process' = [process EXCEPT ![p] = [at |-> "create", path |-> path, kind |-> kind]]
        /\ UNCHANGED <<disk, reported>>
    BY <1>1 DEF StartCopy
  <2>2. BackupsTypes'
    BY <2>1 DEF BackupsInv, BackupsTypes, Started
  <2>3. \A q \in Processes : Making(q)' => q # p /\ Making(q) /\ process'[q] = process[q]
    BY <2>1 DEF BackupsInv, BackupsTypes, Making
  <2>4. Makers' /\ ReportedIsWhole'
    BY <2>1, <2>3 DEF BackupsInv, Makers, ReportedIsWhole
  <2> QED BY <2>2, <2>4 DEF BackupsInv
<1>2. ASSUME NEW p \in Processes, CreateFile(p) PROVE BackupsInv'
  BY <1>2, WriteKeeps DEF CreateFile, FreePath, Mine
<1>3. ASSUME NEW p \in Processes, CopySnapshot(p) PROVE BackupsInv'
  BY <1>3, WriteKeeps DEF CopySnapshot, Making, Mine
<1>4. ASSUME NEW p \in Processes, VerifyCopy(p) PROVE BackupsInv'
  <2>1. /\ Making(p) /\ process[p].at = "verify" /\ Reaches(p, "report") /\ UNCHANGED <<disk, reported>>
    BY <1>4 DEF VerifyCopy, Making
  <2>2. /\ disk[process[p].path] \in Copies /\ disk[process[p].path].by = p
        /\ disk[process[p].path].content = "whole" /\ process[p].path \in Paths
    BY <2>1, AtWork DEF BackupsInv, Makers
  <2>3. disk[process[p].path] = [by |-> p, content |-> "whole"]
    BY <2>2 DEF Copies
  <2>4. disk' = [disk EXCEPT ![process[p].path] = [by |-> p, content |-> "whole"]]
    BY <2>1, <2>2, <2>3 DEF BackupsInv, BackupsTypes
  <2> QED BY <2>1, <2>4, WriteKeeps
<1>5. ASSUME NEW p \in Processes, CopyFails(p) PROVE BackupsInv'
  BY <1>5, EndKeeps DEF CopyFails, Removed, Making, Mine
<1>6. ASSUME NEW p \in Processes, Report(p) PROVE BackupsInv'
  <2>1. /\ Making(p) /\ process[p].at = "report" /\ process' = [process EXCEPT ![p] = Ended]
        /\ reported' = reported \cup {process[p].path} /\ UNCHANGED disk
    BY <1>6 DEF Report, Making, EndsProcess, Mine
  <2>2. process[p].path \in Paths
    BY <2>1, AtWork DEF BackupsInv
  <2>3. BackupsTypes'
    BY <2>1, <2>2 DEF BackupsInv, BackupsTypes
  <2>4. ASSUME NEW q \in Processes, Making(q)'
        PROVE  Making(q) /\ process'[q] = process[q] /\ process[q].path # process[p].path
    <3>1. q # p /\ Making(q) /\ process'[q] = process[q]
      BY <2>1, <2>4 DEF BackupsInv, BackupsTypes, Making, Ended
    <3> QED BY <2>1, <3>1, MakersDiffer DEF BackupsInv
  <2>5. Makers'
    BY <2>1, <2>4 DEF BackupsInv, Makers
  <2>6. /\ disk[process[p].path] \in Copies /\ disk[process[p].path].by = p
        /\ disk[process[p].path].content = "whole"
    BY <2>1 DEF BackupsInv, Makers
  <2>7. disk[process[p].path] = [by |-> p, content |-> "whole"]
    BY <2>6 DEF Copies
  <2>8. ReportedIsWhole'
    BY <2>1, <2>7 DEF BackupsInv, ReportedIsWhole
  <2> QED BY <2>3, <2>5, <2>8 DEF BackupsInv
<1>7. ASSUME NEW p \in Processes, Killed(p) PROVE BackupsInv'
  BY <1>7, EndKeeps DEF Killed
<1>8. CASE UNCHANGED backupVars
  BY <1>8 DEF backupVars, BackupsInv, BackupsTypes, Makers, Making, ReportedIsWhole
<1> QED BY <1>1, <1>2, <1>3, <1>4, <1>5, <1>6, <1>7, <1>8 DEF BackupsNext

(* A backup reported as verified stays whole at its destination, however   *)
(* many processes are given the same one, fail or are killed (backup       *)
(* scripts: O_EXCL and the removal of a file one has made).                *)
THEOREM ReportsAreWhole == BackupsSpec => []ReportedIsWhole
<1>1. BackupsInit => BackupsInv
  BY DEF BackupsInit, BackupsInv, BackupsTypes, Makers, Making, Ended, ReportedIsWhole
<1>2. BackupsInv => ReportedIsWhole
  BY DEF BackupsInv
<1> QED BY <1>1, <1>2, BackupsStep, PTL DEF BackupsSpec

-----------------------------------------------------------------------------
(* Removing one element of a sequence: what stays, and in which order.     *)
LEMMA RemoveAtFacts ==
  ASSUME NEW S, NEW s \in Seq(S), NEW k \in 1..Len(s)
  PROVE  /\ RemoveAt(s, k) \in Seq(S) /\ Len(RemoveAt(s, k)) = Len(s) - 1
         /\ \A i \in 1..(k - 1) : RemoveAt(s, k)[i] = s[i]
         /\ \A i \in k..(Len(s) - 1) : RemoveAt(s, k)[i] = s[i + 1]
<1> DEFINE front == SubSeq(s, 1, k - 1)
           back == SubSeq(s, k + 1, Len(s))
<1>1. Len(s) \in Nat /\ k - 1 \in Int /\ k + 1 \in Int /\ \A i \in 1..Len(s) : s[i] \in S
  OBVIOUS
<1>2. front \in Seq(S) /\ Len(front) = k - 1 /\ \A i \in 1..(k - 1) : front[i] = s[i]
  <2>1. \A i \in 1..(k - 1) : s[i] \in S
    BY <1>1
  <2>2. /\ front \in Seq(S) /\ Len(front) = IF 1 <= k - 1 THEN (k - 1) - 1 + 1 ELSE 0
        /\ \A i \in 1..((k - 1) - 1 + 1) : front[i] = s[1 + i - 1]
    BY <1>1, <2>1, SubSeqProperties
  <2> HIDE DEF front
  <2> QED BY <1>1, <2>2
<1>3. back \in Seq(S) /\ Len(back) = Len(s) - k /\ \A i \in 1..(Len(s) - k) : back[i] = s[k + i]
  <2>1. \A i \in (k + 1)..Len(s) : s[i] \in S
    BY <1>1
  <2>2. /\ back \in Seq(S) /\ Len(back) = IF k + 1 <= Len(s) THEN Len(s) - (k + 1) + 1 ELSE 0
        /\ \A i \in 1..(Len(s) - (k + 1) + 1) : back[i] = s[(k + 1) + i - 1]
    BY <1>1, <2>1, SubSeqProperties
  <2> HIDE DEF back
  <2> QED BY <1>1, <2>2
<1>4. RemoveAt(s, k) = front \o back
  BY DEF RemoveAt
<1> HIDE DEF front, back
<1>5. /\ front \o back \in Seq(S) /\ Len(front \o back) = Len(front) + Len(back)
      /\ \A i \in 1..(Len(front) + Len(back)) : (front \o back)[i] = IF i <= Len(front) THEN front[i] ELSE back[i - Len(front)]
  BY <1>2, <1>3, ConcatProperties
<1>6. Len(front \o back) = Len(s) - 1
  BY <1>1, <1>2, <1>3, <1>5
<1>7. ASSUME NEW i \in 1..(k - 1) PROVE (front \o back)[i] = s[i]
  BY <1>1, <1>2, <1>3, <1>5
<1>8. ASSUME NEW i \in k..(Len(s) - 1) PROVE (front \o back)[i] = s[i + 1]
  <2>1. i \in 1..(Len(front) + Len(back)) /\ ~(i <= Len(front)) /\ i - Len(front) \in 1..(Len(s) - k)
    BY <1>1, <1>2, <1>3
  <2>2. (front \o back)[i] = back[i - Len(front)]
    BY <1>5, <2>1
  <2>3. back[i - Len(front)] = s[k + (i - Len(front))] /\ k + (i - Len(front)) = i + 1
    BY <1>1, <1>2, <1>3, <2>1
  <2> QED BY <2>2, <2>3
<1> QED BY <1>4, <1>5, <1>6, <1>7, <1>8

(***************************************************************************)
(* The store of receipts. A message that a batch has in hand, and one      *)
(* whose send may have reached the customer, has an entry that is not      *)
(* finished: neither the limit nor another batch takes that entry away.    *)
(***************************************************************************)
Receipted == [id : MessageIds, done : BOOLEAN]
InHand == [id : MessageIds \cup {NoMessage}, sent : BOOLEAN]
Distinct(s) == \A i, j \in 1..Len(s) : s[i].id = s[j].id => i = j
InProgress(s, id) == \E i \in 1..Len(s) : s[i].id = id /\ ~s[i].done

MemoryTypes ==
  /\ entry \in Seq(Receipted) /\ Len(entry) <= MaxEntries /\ Distinct(entry)
  /\ batch \in [Batches -> InHand] /\ pending \subseteq MessageIds

HandsInv ==
  /\ \A b \in Batches : batch[b].id # NoMessage => InProgress(entry, batch[b].id)
  /\ \A b, c \in Batches : b # c /\ batch[b].id # NoMessage => batch[b].id # batch[c].id
PendingInv ==
  /\ \A id \in pending : InProgress(entry, id)
  /\ \A b \in Batches : batch[b].id \in pending => batch[b].sent

MemoryInv == MemoryTypes /\ HandsInv /\ PendingInv

LEMMA ClaimedFacts ==
  ASSUME entry \in Seq(Receipted), NEW id
  PROVE  id \in Claimed <=> \E i \in 1..Len(entry) : entry[i].id = id
<1>1. DOMAIN entry = 1..Len(entry)
  OBVIOUS
<1> QED BY <1>1 DEF Claimed, ToSet

(* Without an id, the store holds all its other entries.                   *)
LEMMA WithoutFacts ==
  ASSUME MemoryTypes, NEW id \in Claimed
  PROVE  /\ Without(id) \in Seq(Receipted) /\ Len(Without(id)) = Len(entry) - 1
         /\ \A i \in 1..Len(entry) : entry[i].id # id => \E j \in 1..Len(Without(id)) : Without(id)[j] = entry[i]
         /\ \A j \in 1..Len(Without(id)) : \E i \in 1..Len(entry) : Without(id)[j] = entry[i] /\ entry[i].id # id
         /\ Distinct(Without(id))
<1>1. entry \in Seq(Receipted) /\ Distinct(entry) /\ Len(entry) \in Nat /\ DOMAIN entry = 1..Len(entry)
  BY DEF MemoryTypes
<1>2. PICK k \in 1..Len(entry) : k = PlaceOf(id) /\ entry[k].id = id
  BY <1>1, ClaimedFacts DEF PlaceOf
<1> DEFINE s == RemoveAt(entry, k)
<1>3. Without(id) = s
  BY <1>2 DEF Without
<1>4. /\ s \in Seq(Receipted) /\ Len(s) = Len(entry) - 1
      /\ \A i \in 1..(k - 1) : s[i] = entry[i]
      /\ \A i \in k..(Len(entry) - 1) : s[i] = entry[i + 1]
  BY <1>1, RemoveAtFacts
<1> HIDE DEF s
<1>5. ASSUME NEW i \in 1..Len(entry), entry[i].id # id
      PROVE  \E j \in 1..Len(s) : s[j] = entry[i]
  <2>1. CASE i < k
    <3>1. i \in 1..(k - 1) /\ i \in 1..Len(s)
      BY <1>1, <1>4, <2>1
    <3> QED BY <1>4, <3>1
  <2>2. CASE i > k
    <3>1. i - 1 \in k..(Len(entry) - 1) /\ i - 1 \in 1..Len(s) /\ (i - 1) + 1 = i
      BY <1>1, <1>4, <2>2
    <3>2. s[i - 1] = entry[i]
      BY <1>4, <3>1
    <3> QED BY <3>1, <3>2
  <2>3. i # k
    BY <1>2, <1>5
  <2> QED BY <2>1, <2>2, <2>3
<1> DEFINE old(j) == IF j < k THEN j ELSE j + 1
<1>6. \A j \in 1..Len(s) : old(j) \in 1..Len(entry) /\ old(j) # k /\ s[j] = entry[old(j)]
  <2> TAKE j \in 1..Len(s)
  <2>1. CASE j < k
    <3>1. j \in 1..(k - 1)
      BY <2>1
    <3> QED BY <1>1, <1>4, <2>1, <3>1
  <2>2. CASE ~(j < k)
    <3>1. j \in k..(Len(entry) - 1)
      BY <1>1, <1>4, <2>2
    <3> QED BY <1>1, <1>4, <2>2, <3>1
  <2> QED BY <2>1, <2>2
<1>7. \A i, j \in 1..Len(s) : old(i) = old(j) => i = j
  BY <1>1, <1>4
<1> HIDE DEF old
<1>8. \A j \in 1..Len(s) : \E i \in 1..Len(entry) : s[j] = entry[i] /\ entry[i].id # id
  BY <1>1, <1>2, <1>6 DEF Distinct
<1>9. Distinct(s)
  BY <1>1, <1>6, <1>7 DEF Distinct
<1> QED BY <1>3, <1>4, <1>5, <1>8, <1>9

(* Room for a message never costs an entry that is not finished.           *)
LEMMA RoomFacts ==
  ASSUME MemoryTypes, NEW room \in Room, NEW id, id \notin Claimed
  PROVE  /\ room \in Seq(Receipted) /\ Len(room) + 1 <= MaxEntries /\ Distinct(room)
         /\ \A j \in 1..Len(room) : room[j].id # id
         /\ \A x : InProgress(entry, x) => InProgress(room, x)
<1>1. entry \in Seq(Receipted) /\ Distinct(entry) /\ Len(entry) \in Nat /\ MaxEntries \in Nat \ {0} /\ Len(entry) <= MaxEntries
  BY MemoryAssumption DEF MemoryTypes
<1>2. \A j \in 1..Len(entry) : entry[j].id # id
  BY <1>1, ClaimedFacts
<1>3. CASE Len(entry) < MaxEntries
  BY <1>1, <1>2, <1>3 DEF Room
<1>4. CASE ~(Len(entry) < MaxEntries)
  <2>1. PICK i \in 1..Len(entry) : entry[i].done /\ room = Without(entry[i].id)
    BY <1>1, <1>4 DEF Room, Evictable, Processed
  <2>2. entry[i].id \in Claimed
    BY <1>1, ClaimedFacts
  <2>3. /\ room \in Seq(Receipted) /\ Len(room) = Len(entry) - 1 /\ Distinct(room)
        /\ \A k \in 1..Len(entry) : entry[k].id # entry[i].id => \E j \in 1..Len(room) : room[j] = entry[k]
    <3> DEFINE out == entry[i].id
    <3>1. room = Without(out) /\ out \in Claimed
      BY <2>1, <2>2
    <3> HIDE DEF out
    <3>2. /\ Without(out) \in Seq(Receipted) /\ Len(Without(out)) = Len(entry) - 1 /\ Distinct(Without(out))
          /\ \A k \in 1..Len(entry) : entry[k].id # out => \E j \in 1..Len(Without(out)) : Without(out)[j] = entry[k]
      BY <3>1, WithoutFacts, Zenon
    <3> QED BY <3>1, <3>2 DEF out
  <2>4. \A x : InProgress(entry, x) => InProgress(room, x)
    <3> SUFFICES ASSUME NEW x, NEW k \in 1..Len(entry), entry[k].id = x, ~entry[k].done PROVE InProgress(room, x)
      BY DEF InProgress
    <3>1. entry[k].id # entry[i].id
      BY <1>1, <2>1 DEF Distinct
    <3> QED BY <2>3, <3>1 DEF InProgress
  <2>5. \A j \in 1..Len(room) : room[j].id # id
    <3> SUFFICES ASSUME NEW j \in 1..Len(room) PROVE \E k \in 1..Len(entry) : room[j] = entry[k]
      BY <1>2
    <3> QED BY <2>1, <2>2, WithoutFacts
  <2> QED BY <1>1, <2>3, <2>4, <2>5
<1> QED BY <1>3, <1>4

LEMMA ClaimKeeps ==
  ASSUME MemoryInv, NEW b \in Batches, NEW id \in MessageIds, ClaimReceipt(b, id)
  PROVE  MemoryInv'
<1>1. CASE UNCHANGED <<entry, batch>>
  <2>1. UNCHANGED pending
    BY DEF ClaimReceipt
  <2> QED BY <1>1, <2>1 DEF MemoryInv, MemoryTypes, HandsInv, PendingInv
<1>2. CASE ~UNCHANGED <<entry, batch>>
  <2>1. /\ id \notin Claimed /\ batch' = [batch EXCEPT ![b] = [id |-> id, sent |-> FALSE]] /\ UNCHANGED pending
        /\ \E room \in Room : entry' = Append(room, [id |-> id, done |-> FALSE])
    BY <1>2 DEF ClaimReceipt
  <2>2. PICK room \in Room : entry' = Append(room, [id |-> id, done |-> FALSE])
    BY <2>1
  <2> DEFINE new == [id |-> id, done |-> FALSE]
  <2>3. /\ room \in Seq(Receipted) /\ Len(room) + 1 <= MaxEntries /\ Distinct(room)
        /\ \A j \in 1..Len(room) : room[j].id # id
        /\ \A x : InProgress(entry, x) => InProgress(room, x)
    BY <2>1, RoomFacts DEF MemoryInv
  <2>4. new \in Receipted /\ new.id = id /\ ~new.done
    BY DEF Receipted
  <2>5. /\ entry' \in Seq(Receipted) /\ Len(entry') = Len(room) + 1 /\ entry'[Len(room) + 1] = new
        /\ \A i \in 1..Len(room) : entry'[i] = room[i]
    BY <2>2, <2>3, <2>4, AppendProperties
  <2> HIDE DEF new
  <2>6. Len(room) \in Nat
    BY <2>3
  <2>7. Distinct(entry')
    BY <2>3, <2>4, <2>5, <2>6 DEF Distinct
  <2>8. \A x : InProgress(entry, x) => InProgress(entry', x)
    BY <2>3, <2>5, <2>6 DEF InProgress
  <2>9. InProgress(entry', id)
    BY <2>4, <2>5, <2>6 DEF InProgress
  <2>10. ~InProgress(entry, id)
    BY <2>1, ClaimedFacts DEF MemoryInv, MemoryTypes, InProgress
  <2>11. batch' \in [Batches -> InHand] /\ batch'[b].id = id /\ \A c \in Batches \ {b} : batch'[c] = batch[c]
    BY <2>1 DEF MemoryInv, MemoryTypes, InHand
  <2>12. MemoryTypes'
    BY <2>1, <2>3, <2>5, <2>7, <2>11 DEF MemoryInv, MemoryTypes
  <2>13. HandsInv'
    <3>1. \A c \in Batches \ {b} : batch[c].id # NoMessage => batch[c].id # id
      BY <2>10 DEF MemoryInv, HandsInv
    <3>2. \A c \in Batches : batch'[c].id # NoMessage => InProgress(entry', batch'[c].id)
      BY <2>8, <2>9, <2>11 DEF MemoryInv, HandsInv
    <3>3. \A c, d \in Batches : c # d /\ batch'[c].id # NoMessage => batch'[c].id # batch'[d].id
      BY <2>11, <3>1 DEF MemoryInv, HandsInv
    <3> QED BY <3>2, <3>3 DEF HandsInv
  <2>14. PendingInv'
    <3>1. id \notin pending
      BY <2>10 DEF MemoryInv, PendingInv
    <3> QED BY <2>1, <2>8, <2>11, <3>1 DEF MemoryInv, PendingInv
  <2> QED BY <2>12, <2>13, <2>14 DEF MemoryInv
<1> QED BY <1>1, <1>2

LEMMA SendKeeps ==
  ASSUME MemoryInv, NEW b \in Batches, BeginSend(b)
  PROVE  MemoryInv'
<1>1. /\ batch[b].id # NoMessage /\ batch' = [batch EXCEPT ![b] = [batch[b] EXCEPT !.sent = TRUE]]
      /\ pending' = pending \cup {batch[b].id} /\ UNCHANGED entry
  BY DEF BeginSend
<1>2. batch[b] \in InHand /\ batch \in [Batches -> InHand]
  BY DEF MemoryInv, MemoryTypes
<1>3. /\ batch'[b] \in InHand /\ batch'[b].id = batch[b].id /\ batch'[b].sent /\ \A c \in Batches \ {b} : batch'[c] = batch[c]
      /\ batch[b].id \in MessageIds
  BY <1>1, <1>2 DEF InHand
<1>4. MemoryTypes'
  BY <1>1, <1>2, <1>3 DEF MemoryInv, MemoryTypes
<1>5. \A c \in Batches : batch'[c].id = batch[c].id
  BY <1>3
<1>6. HandsInv'
  BY <1>1, <1>5 DEF MemoryInv, HandsInv
<1>7. \A x \in pending' : InProgress(entry, x)
  BY <1>1 DEF MemoryInv, HandsInv, PendingInv
<1>8. ASSUME NEW c \in Batches, batch'[c].id \in pending' PROVE batch'[c].sent
  <2>1. CASE c = b
    BY <1>3, <2>1
  <2>2. CASE c # b
    BY <1>1, <1>3, <1>8, <2>2 DEF MemoryInv, HandsInv, PendingInv
  <2> QED BY <2>1, <2>2
<1> QED BY <1>1, <1>4, <1>6, <1>7, <1>8 DEF MemoryInv, PendingInv

(* A batch that has done with its message: every other entry stays.        *)
LEMMA DoneKeeps ==
  ASSUME MemoryInv, NEW b \in Batches, batch[b].id # NoMessage, batch' = [batch EXCEPT ![b] = Rest],
         entry' \in Seq(Receipted), Len(entry') <= MaxEntries, Distinct(entry'), pending' \subseteq pending,
         \A x : x # batch[b].id /\ InProgress(entry, x) => InProgress(entry', x),
         batch[b].id \in pending' => InProgress(entry', batch[b].id)
  PROVE  MemoryInv'
<1>1. batch \in [Batches -> InHand] /\ pending \subseteq MessageIds
  BY DEF MemoryInv, MemoryTypes
<1>2. batch' \in [Batches -> InHand] /\ batch'[b].id = NoMessage /\ \A c \in Batches \ {b} : batch'[c] = batch[c]
  BY <1>1 DEF InHand, Rest
<1>3. MemoryTypes'
  BY <1>1, <1>2 DEF MemoryTypes
<1>4. HandsInv'
  <2>1. \A c \in Batches : batch'[c].id # NoMessage => InProgress(entry', batch'[c].id)
    BY <1>2 DEF MemoryInv, HandsInv
  <2>2. \A c, d \in Batches : c # d /\ batch'[c].id # NoMessage => batch'[c].id # batch'[d].id
    BY <1>2 DEF MemoryInv, HandsInv
  <2> QED BY <2>1, <2>2 DEF HandsInv
<1>5. PendingInv'
  <2>1. NoMessage \notin pending
    BY <1>1, MemoryAssumption
  <2>2. \A x \in pending' : InProgress(entry', x)
    BY DEF MemoryInv, PendingInv
  <2>3. \A c \in Batches : batch'[c].id \in pending' => batch'[c].sent
    BY <1>2, <2>1 DEF MemoryInv, PendingInv
  <2> QED BY <2>2, <2>3 DEF PendingInv
<1> QED BY <1>3, <1>4, <1>5 DEF MemoryInv

LEMMA MarkKeeps ==
  ASSUME MemoryInv, NEW b \in Batches, MarkProcessed(b)
  PROVE  MemoryInv'
<1> DEFINE id == batch[b].id
<1>1. /\ id # NoMessage /\ batch' = [batch EXCEPT ![b] = Rest] /\ pending' = pending \ {id}
      /\ entry' = [i \in DOMAIN entry |-> IF entry[i].id = id THEN [entry[i] EXCEPT !.done = TRUE] ELSE entry[i]]
  BY DEF MarkProcessed
<1> HIDE DEF id
<1>2. entry \in Seq(Receipted) /\ Len(entry) <= MaxEntries /\ Distinct(entry) /\ DOMAIN entry = 1..Len(entry)
  BY DEF MemoryInv, MemoryTypes
<1>3. \A i \in 1..Len(entry) : /\ entry'[i] \in Receipted /\ entry'[i].id = entry[i].id
                               /\ entry[i].id # id => entry'[i] = entry[i]
  <2> TAKE i \in 1..Len(entry)
  <2>1. entry[i] \in Receipted
    BY <1>2
  <2>2. entry'[i] = IF entry[i].id = id THEN [entry[i] EXCEPT !.done = TRUE] ELSE entry[i]
    BY <1>1, <1>2, SMT
  <2> QED BY <2>1, <2>2 DEF Receipted
<1>4. entry' \in Seq(Receipted) /\ Len(entry') = Len(entry)
  <2>1. entry' \in [1..Len(entry) -> Receipted]
    BY <1>1, <1>2, <1>3, SMT
  <2>2. Len(entry) \in Nat
    BY <1>2
  <2> QED BY <2>1, <2>2
<1>5. Distinct(entry')
  BY <1>2, <1>3, <1>4 DEF Distinct
<1>6. \A x : x # id /\ InProgress(entry, x) => InProgress(entry', x)
  BY <1>3, <1>4 DEF InProgress
<1> QED BY <1>1, <1>2, <1>4, <1>5, <1>6, DoneKeeps DEF id

LEMMA FailKeeps ==
  ASSUME MemoryInv, NEW b \in Batches, MessageFails(b)
  PROVE  MemoryInv'
<1> DEFINE id == batch[b].id
<1>1. /\ id # NoMessage /\ batch' = [batch EXCEPT ![b] = Rest] /\ UNCHANGED pending
      /\ entry' = IF Releases(b) THEN Without(id) ELSE entry
  BY DEF MessageFails
<1>2. entry \in Seq(Receipted) /\ Len(entry) <= MaxEntries /\ Distinct(entry) /\ MemoryTypes
  BY DEF MemoryInv, MemoryTypes
<1>3. CASE Releases(b)
  <2>1. id \notin pending
    BY <1>3 DEF MemoryInv, PendingInv, Releases
  <2>2. id \in Claimed
    BY <1>1, <1>2, ClaimedFacts DEF MemoryInv, HandsInv, InProgress
  <2> HIDE DEF id
  <2>3. entry' = Without(id)
    BY <1>1, <1>3
  <2>4. /\ entry' \in Seq(Receipted) /\ Len(entry') = Len(entry) - 1 /\ Distinct(entry')
        /\ \A i \in 1..Len(entry) : entry[i].id # id => \E j \in 1..Len(entry') : entry'[j] = entry[i]
    BY <1>2, <2>2, <2>3, WithoutFacts
  <2>5. \A x : x # id /\ InProgress(entry, x) => InProgress(entry', x)
    BY <2>4 DEF InProgress
  <2>6. Len(entry') <= MaxEntries
    BY <1>2, <2>4, MemoryAssumption
  <2> QED BY <1>1, <2>1, <2>4, <2>5, <2>6, DoneKeeps DEF id
<1>4. CASE ~Releases(b)
  <2>1. InProgress(entry, id)
    BY <1>1 DEF MemoryInv, HandsInv
  <2> QED BY <1>1, <1>2, <1>4, <2>1, DoneKeeps
<1> QED BY <1>3, <1>4

LEMMA MemoryStep == MemoryInv /\ [MemoryNext]_memoryVars => MemoryInv'
<1>1. CASE UNCHANGED memoryVars
  BY <1>1 DEF memoryVars, MemoryInv, MemoryTypes, HandsInv, PendingInv
<1> QED BY <1>1, ClaimKeeps, SendKeeps, MarkKeeps, FailKeeps DEF MemoryNext

(* However small the store, a message is in the hands of one batch at a    *)
(* time, and one whose send may have reached the customer keeps its entry  *)
(* and is never claimed again (idempotency_store.py, message_service.py).  *)
THEOREM MessagesAreTriedOnce == MemorySpec => []NoSecondAttempt
<1>1. MemoryInit => MemoryInv
  <2> SUFFICES ASSUME MemoryInit PROVE MemoryInv
    OBVIOUS
  <2>1. entry = <<>> /\ batch = [b \in Batches |-> Rest] /\ pending = {} /\ entry \in Seq(Receipted) /\ Len(entry) = 0
    BY DEF MemoryInit
  <2>2. MemoryTypes
    BY <2>1, MemoryAssumption DEF MemoryTypes, Distinct, InHand, Rest
  <2> QED BY <2>1, <2>2 DEF MemoryInv, HandsInv, PendingInv, Rest
<1>2. MemoryInv => NoSecondAttempt
  <2> SUFFICES ASSUME MemoryInv PROVE NoSecondAttempt
    OBVIOUS
  <2>1. \A x : InProgress(entry, x) => x \in Claimed
    BY ClaimedFacts DEF MemoryInv, MemoryTypes, InProgress
  <2> QED BY <2>1 DEF MemoryInv, MemoryTypes, HandsInv, PendingInv, NoSecondAttempt
<1> QED BY <1>1, <1>2, MemoryStep, PTL DEF MemorySpec

(***************************************************************************)
(* Admission. The table is kept in the order of the last requests          *)
(* (InOrder), and what a bucket holds and what it gave away never exceed   *)
(* its burst and the time that it replenished (Spends).                    *)
(***************************************************************************)
OneEach(s) == \A i, j \in 1..Len(s) : s[i] = s[j] => i = j
InOrder(s) == \A i, j \in 1..Len(s) : i < j => entries[s[i]].at <= entries[s[j]].at

Spends ==
  \A p \in Peers : Known(p) =>
    admitted[p] + entries[p].tokens <= Capacity + (entries[p].at - since[p]) /\ since[p] <= entries[p].at

Buckets == [tokens : 0..Capacity, at : 0..clock]
BodyTypes ==
  /\ body \in {NoBody} \cup [at : {"read", "route"}, length : 0..MaxBytes + 1, size : 0..MaxBytes]
  /\ body.at = "route" => body.size = body.length
TableTypes ==
  /\ clock \in Nat /\ clock <= LastTick /\ entries \in [Peers -> {NoEntry} \cup Buckets]
  /\ order \in Seq(Peers) /\ OneEach(order) /\ Len(order) <= MaxKeys
  /\ \A p \in Peers : Known(p) <=> \E i \in 1..Len(order) : order[i] = p
  /\ admitted \in [Peers -> Nat] /\ since \in [Peers -> 0..clock]

AdmissionInv == TableTypes /\ BodyTypes /\ InOrder(order) /\ Spends

LEMMA AdmissionConstants == Capacity \in Nat \ {0} /\ MaxKeys \in Nat \ {0} /\ MaxBytes \in Nat \ {0} /\ LastTick \in Nat
  BY AdmissionAssumption

LEMMA BucketFacts ==
  ASSUME TableTypes, NEW p \in Peers
  PROVE  /\ clock \in Nat /\ admitted[p] \in Nat /\ since[p] \in Nat /\ since[p] <= clock
         /\ Known(p) => /\ entries[p] \in Buckets /\ entries[p].tokens \in 0..Capacity
                        /\ entries[p].at \in Nat /\ entries[p].at <= clock
<1>1. Known(p) => entries[p] \in Buckets
  BY DEF TableTypes, Known
<1> QED BY <1>1 DEF TableTypes, Buckets

(* The order without the peer at a place, as Tail and RemoveAt make it.    *)
Drops(s, k) ==
  /\ s \in Seq(Peers) /\ Len(s) = Len(order) - 1
  /\ \A i \in 1..Len(s) : s[i] = order[IF i < k THEN i ELSE i + 1]

LEMMA DropsFacts ==
  ASSUME TableTypes, InOrder(order), NEW k \in 1..Len(order), NEW s, Drops(s, k)
  PROVE  /\ OneEach(s) /\ InOrder(s)
         /\ \A q \in Peers : (\E i \in 1..Len(s) : s[i] = q) <=> (Known(q) /\ q # order[k])
<1> DEFINE old(i) == IF i < k THEN i ELSE i + 1
<1>1. order \in Seq(Peers) /\ Len(order) \in Nat /\ Len(s) = Len(order) - 1 /\ k \in 1..Len(order)
  BY DEF TableTypes, Drops
<1>2. \A i \in 1..Len(s) : old(i) \in 1..Len(order) /\ old(i) # k
  BY <1>1
<1>3. \A i, j \in 1..Len(s) : (i < j => old(i) < old(j)) /\ (old(i) = old(j) => i = j)
  BY <1>1
<1>4. \A n \in 1..Len(order) : n # k => \E i \in 1..Len(s) : old(i) = n
  <2> TAKE n \in 1..Len(order)
  <2>1. CASE n < k
    <3>1. n \in 1..Len(s) /\ old(n) = n
      BY <1>1, <2>1
    <3> QED BY <3>1
  <2>2. CASE n > k
    <3>1. n - 1 \in 1..Len(s) /\ old(n - 1) = n
      BY <1>1, <2>2
    <3> QED BY <3>1
  <2> QED BY <1>1, <2>1, <2>2
<1>5. \A i \in 1..Len(s) : s[i] = order[old(i)]
  BY DEF Drops
<1> HIDE DEF old
<1>6. OneEach(s)
  <2>1. OneEach(order)
    BY DEF TableTypes
  <2>2. ASSUME NEW i \in 1..Len(s), NEW j \in 1..Len(s), s[i] = s[j] PROVE i = j
    <3>1. old(i) = old(j)
      BY <1>2, <1>5, <2>1, <2>2 DEF OneEach
    <3> QED BY <1>3, <3>1
  <2> QED BY <2>2 DEF OneEach
<1>7. InOrder(s)
  BY <1>2, <1>3, <1>5 DEF InOrder
<1>8. ASSUME NEW q \in Peers
      PROVE  (\E i \in 1..Len(s) : s[i] = q) <=> (Known(q) /\ q # order[k])
  <2>1. Known(q) <=> \E i \in 1..Len(order) : order[i] = q
    BY DEF TableTypes
  <2>2. ASSUME NEW i \in 1..Len(s), s[i] = q PROVE Known(q) /\ q # order[k]
    BY <1>2, <1>5, <2>1, <2>2 DEF TableTypes, OneEach
  <2>3. ASSUME Known(q), q # order[k] PROVE \E i \in 1..Len(s) : s[i] = q
    <3>1. PICK n \in 1..Len(order) : order[n] = q
      BY <2>1, <2>3
    <3>2. PICK i \in 1..Len(s) : old(i) = n
      BY <1>4, <2>3, <3>1
    <3> QED BY <1>5, <3>1, <3>2
  <2> QED BY <2>2, <2>3
<1> QED BY <1>6, <1>7, <1>8

(* What is left of the order when a request of p takes its place at the end. *)
LEMMA PoppedFacts ==
  ASSUME TableTypes, InOrder(order), NEW p \in Peers
  PROVE  /\ Popped(p) \in Seq(Peers) /\ Len(Popped(p)) + 1 <= MaxKeys
         /\ OneEach(Popped(p)) /\ InOrder(Popped(p))
         /\ \A q \in Peers : (\E i \in 1..Len(Popped(p)) : Popped(p)[i] = q) <=> (Known(q) /\ q # p /\ q \notin Evicted(p))
<1>1. /\ order \in Seq(Peers) /\ Len(order) \in Nat /\ Len(order) <= MaxKeys /\ DOMAIN order = 1..Len(order)
      /\ MaxKeys \in Nat \ {0} /\ OneEach(order)
  BY AdmissionConstants DEF TableTypes
<1>2. CASE Known(p)
  <2>1. PICK k \in 1..Len(order) : order[k] = p /\ Popped(p) = RemoveAt(order, k)
    <3>1. \E i \in 1..Len(order) : order[i] = p
      BY <1>2 DEF TableTypes
    <3> QED BY <1>1, <1>2, <3>1 DEF Popped
  <2>2. Drops(Popped(p), k)
    <3> DEFINE s == RemoveAt(order, k)
    <3>1. /\ s \in Seq(Peers) /\ Len(s) = Len(order) - 1
          /\ \A i \in 1..(k - 1) : s[i] = order[i]
          /\ \A i \in k..(Len(order) - 1) : s[i] = order[i + 1]
      BY <1>1, RemoveAtFacts
    <3>2. Popped(p) = s
      BY <2>1
    <3> HIDE DEF s
    <3>3. \A i \in 1..Len(s) : s[i] = order[IF i < k THEN i ELSE i + 1]
      <4> TAKE i \in 1..Len(s)
      <4>1. CASE i < k
        BY <1>1, <3>1, <4>1
      <4>2. CASE ~(i < k)
        BY <1>1, <3>1, <4>2
      <4> QED BY <4>1, <4>2
    <3> QED BY <3>1, <3>2, <3>3 DEF Drops
  <2>3. Evicted(p) = {}
    BY <1>2 DEF Evicted
  <2>4. Len(Popped(p)) = Len(order) - 1
    BY <2>2 DEF Drops
  <2>5. /\ OneEach(Popped(p)) /\ InOrder(Popped(p))
        /\ \A q \in Peers : (\E i \in 1..Len(Popped(p)) : Popped(p)[i] = q) <=> (Known(q) /\ q # p)
    BY <2>1, <2>2, DropsFacts
  <2>6. Popped(p) \in Seq(Peers) /\ Len(Popped(p)) + 1 <= MaxKeys
    BY <1>1, <2>2, <2>4 DEF Drops
  <2> QED BY <2>3, <2>5, <2>6
<1>3. CASE ~Known(p) /\ Len(order) >= MaxKeys
  <2>1. Evicted(p) = {Head(order)} /\ Popped(p) = Tail(order) /\ order # <<>>
    <3>1. Evicted(p) = {Head(order)}
      BY <1>3 DEF Evicted
    <3>2. Evicted(p) # {}
      BY <3>1
    <3>3. Popped(p) = Tail(order)
      BY <1>3, <3>2 DEF Popped
    <3>4. order # <<>>
      <4>1. Len(order) # 0
        BY <1>1, <1>3
      <4> QED BY <4>1
    <3> QED BY <3>1, <3>3, <3>4
  <2>2. Head(order) = order[1] /\ 1 \in 1..Len(order) /\ order[1] # p
    BY <1>1, <1>3, <2>1 DEF TableTypes
  <2>3. Drops(Popped(p), 1)
    BY <1>1, <2>1, HeadTailProperties DEF Drops
  <2>4. Len(Popped(p)) = Len(order) - 1
    BY <2>3 DEF Drops
  <2>5. /\ OneEach(Popped(p)) /\ InOrder(Popped(p))
        /\ \A q \in Peers : (\E i \in 1..Len(Popped(p)) : Popped(p)[i] = q) <=> (Known(q) /\ q # order[1])
    BY <2>2, <2>3, DropsFacts
  <2>6. Popped(p) \in Seq(Peers) /\ Len(Popped(p)) + 1 <= MaxKeys
    BY <1>1, <2>3, <2>4 DEF Drops
  <2> QED BY <1>3, <2>1, <2>2, <2>5, <2>6
<1>4. CASE ~Known(p) /\ ~(Len(order) >= MaxKeys)
  <2>1. Evicted(p) = {} /\ Popped(p) = order
    BY <1>4 DEF Evicted, Popped
  <2>2. \A q \in Peers : Known(q) <=> \E i \in 1..Len(order) : order[i] = q
    BY DEF TableTypes
  <2> QED BY <1>1, <1>4, <2>1, <2>2
<1> QED BY <1>2, <1>3, <1>4

(* A request of p: its bucket is replenished, charged and stamped, and p   *)
(* becomes the last of the order.                                          *)
LEMMA AllowKeeps ==
  ASSUME AdmissionInv, NEW p \in Peers, NEW length \in 0..MaxBytes + 1, NEW declared \in BOOLEAN,
         Allow(p, length, declared)
  PROVE  AdmissionInv'
<1> DEFINE allowed == Tokens(p) >= 1
           new == [tokens |-> IF allowed THEN Tokens(p) - 1 ELSE Tokens(p), at |-> clock]
<1>1. /\ entries' = [q \in Peers |-> IF q = p THEN new ELSE IF q \in Evicted(p) THEN NoEntry ELSE entries[q]]
      /\ order' = Append(Popped(p), p) /\ UNCHANGED clock
      /\ admitted' = [admitted EXCEPT ![p] = (IF Known(p) THEN admitted[p] ELSE 0) + (IF allowed THEN 1 ELSE 0)]
      /\ since' = [since EXCEPT ![p] = IF Known(p) THEN since[p] ELSE clock]
      /\ body' = IF allowed /\ (declared => length <= MaxBytes)
                 THEN [at |-> "read", length |-> length, size |-> 0] ELSE NoBody
  BY DEF Allow, Stamp, Reordered
<1>2. /\ Capacity \in Nat \ {0} /\ clock \in Nat /\ admitted[p] \in Nat /\ since[p] \in Nat /\ since[p] <= clock
      /\ Known(p) => entries[p].tokens \in 0..Capacity /\ entries[p].at \in Nat /\ entries[p].at <= clock
  BY BucketFacts, AdmissionConstants DEF AdmissionInv
<1>3. Tokens(p) \in 0..Capacity
  BY <1>2 DEF Tokens, Lesser
<1>4. new.at = clock /\ new.tokens = (IF allowed THEN Tokens(p) - 1 ELSE Tokens(p)) /\ new.tokens \in 0..Capacity
  BY <1>2, <1>3
<1>5. new \in Buckets /\ new # NoEntry
  <2>1. new \in Buckets
    BY <1>2, <1>4 DEF Buckets
  <2>2. new \in [tokens : Nat, at : Nat]
    BY <1>2, <1>4
  <2> QED BY <2>1, <2>2, AdmissionAssumption
<1> HIDE DEF new
<1>6. /\ entries'[p] = new /\ Known(p)'
      /\ \A q \in Peers \ {p} : entries'[q] = IF q \in Evicted(p) THEN NoEntry ELSE entries[q]
  BY <1>1, <1>5 DEF Known
<1>7. ASSUME NEW q \in Peers, q # p, Known(q)'
      PROVE  Known(q) /\ q \notin Evicted(p) /\ entries'[q] = entries[q] /\ admitted'[q] = admitted[q] /\ since'[q] = since[q]
  BY <1>1, <1>6, <1>7 DEF Known, AdmissionInv, TableTypes
<1>8. /\ Popped(p) \in Seq(Peers) /\ Len(Popped(p)) + 1 <= MaxKeys
      /\ OneEach(Popped(p)) /\ InOrder(Popped(p))
      /\ \A q \in Peers : (\E i \in 1..Len(Popped(p)) : Popped(p)[i] = q) <=> (Known(q) /\ q # p /\ q \notin Evicted(p))
  BY PoppedFacts DEF AdmissionInv
<1> DEFINE s == Popped(p)
<1>9. /\ order' \in Seq(Peers) /\ Len(order') = Len(s) + 1 /\ order'[Len(s) + 1] = p /\ Len(s) \in Nat
      /\ \A i \in 1..Len(s) : order'[i] = s[i] /\ s[i] \in Peers
  BY <1>1, <1>8, AppendProperties
<1>10. \A i \in 1..Len(s) : s[i] # p /\ Known(s[i]) /\ s[i] \notin Evicted(p) /\ entries'[s[i]] = entries[s[i]]
  BY <1>6, <1>8, <1>9
<1> HIDE DEF s
<1>11. OneEach(order')
  <2>1. OneEach(s)
    BY <1>8 DEF s
  <2> QED BY <1>9, <1>10, <2>1 DEF OneEach
<1>12. InOrder(order)'
  <2> SUFFICES ASSUME NEW i \in 1..Len(order'), NEW j \in 1..Len(order'), i < j
               PROVE  entries'[order'[i]].at <= entries'[order'[j]].at
    BY DEF InOrder
  <2>1. i \in 1..Len(s) /\ order'[i] = s[i] /\ s[i] \in Peers /\ Known(s[i]) /\ entries'[order'[i]] = entries[s[i]]
    BY <1>9, <1>10
  <2>2. entries[s[i]].at \in Nat /\ entries[s[i]].at <= clock
    BY <2>1, BucketFacts DEF AdmissionInv
  <2>3. CASE j = Len(s) + 1
    BY <1>4, <1>6, <1>9, <2>1, <2>2, <2>3
  <2>4. CASE j # Len(s) + 1
    <3>1. j \in 1..Len(s) /\ order'[j] = s[j] /\ entries'[order'[j]] = entries[s[j]]
      BY <1>9, <1>10, <2>4
    <3> QED BY <1>8, <2>1, <3>1 DEF InOrder, s
  <2> QED BY <2>3, <2>4
<1>13. \A q \in Peers : Known(q)' <=> \E i \in 1..Len(order') : order'[i] = q
  <2> TAKE q \in Peers
  <2>1. CASE q = p
    <3>1. Len(s) + 1 \in 1..Len(order')
      BY <1>9
    <3> QED BY <1>6, <1>9, <2>1, <3>1
  <2>2. CASE q # p
    <3>1. Known(q)' <=> Known(q) /\ q \notin Evicted(p)
      BY <1>6, <2>2 DEF Known
    <3>2. (\E i \in 1..Len(s) : s[i] = q) <=> (Known(q) /\ q # p /\ q \notin Evicted(p))
      BY <1>8 DEF s
    <3>3. (\E i \in 1..Len(order') : order'[i] = q) <=> \E i \in 1..Len(s) : s[i] = q
      BY <1>9, <2>2
    <3> QED BY <2>2, <3>1, <3>2, <3>3
  <2> QED BY <2>1, <2>2
<1>14. TableTypes'
  <2>1. entries' \in [Peers -> {NoEntry} \cup Buckets]
    BY <1>1, <1>5 DEF AdmissionInv, TableTypes
  <2>2. Buckets' = Buckets
    BY <1>1 DEF Buckets
  <2>3. admitted' \in [Peers -> Nat]
    BY <1>1, <1>2 DEF AdmissionInv, TableTypes
  <2>4. since' \in [Peers -> 0..clock]
    BY <1>1, <1>2 DEF AdmissionInv, TableTypes
  <2>5. Len(order') <= MaxKeys
    BY <1>8, <1>9 DEF s
  <2> QED BY <1>1, <1>9, <1>11, <1>13, <2>1, <2>2, <2>3, <2>4, <2>5 DEF AdmissionInv, TableTypes
<1>15. BodyTypes'
  BY <1>1, AdmissionConstants DEF BodyTypes, NoBody
<1>16. Spends'
  <2> SUFFICES ASSUME NEW q \in Peers, Known(q)'
               PROVE  /\ admitted'[q] + entries'[q].tokens <= Capacity + (entries'[q].at - since'[q])
                      /\ since'[q] <= entries'[q].at
    BY DEF Spends
  <2>1. CASE q = p
    <3>1. /\ admitted'[p] = (IF Known(p) THEN admitted[p] ELSE 0) + (IF allowed THEN 1 ELSE 0)
          /\ since'[p] = IF Known(p) THEN since[p] ELSE clock
      BY <1>1 DEF AdmissionInv, TableTypes
    <3>2. admitted'[p] + new.tokens = (IF Known(p) THEN admitted[p] ELSE 0) + Tokens(p)
      BY <1>2, <1>3, <1>4, <3>1
    <3>3. CASE Known(p)
      <4>1. admitted[p] + entries[p].tokens <= Capacity + (entries[p].at - since[p]) /\ since[p] <= entries[p].at
        BY <3>3 DEF AdmissionInv, Spends
      <4>2. Tokens(p) <= entries[p].tokens + (clock - entries[p].at)
        BY <1>2, <3>3 DEF Tokens, Lesser
      <4>3. admitted[p] + Tokens(p) <= Capacity + (clock - since[p])
        BY <1>2, <1>3, <3>3, <4>1, <4>2
      <4> QED BY <1>2, <1>4, <1>6, <2>1, <3>1, <3>2, <3>3, <4>1, <4>3
    <3>4. CASE ~Known(p)
      <4>1. since'[p] = clock /\ admitted'[p] + new.tokens <= Capacity
        BY <1>3, <3>1, <3>2, <3>4
      <4> QED BY <1>2, <1>4, <1>6, <2>1, <4>1
    <3> QED BY <3>3, <3>4
  <2>2. CASE q # p
    BY <1>7, <2>2 DEF AdmissionInv, Spends
  <2> QED BY <2>1, <2>2
<1> QED BY <1>12, <1>14, <1>15, <1>16 DEF AdmissionInv

(* Reading a body touches the body only, and the clock only goes on.       *)
LEMMA RestKeeps ==
  ASSUME AdmissionInv, UNCHANGED <<entries, order, admitted, since>>, BodyTypes', clock' \in Nat, clock <= clock', clock' <= LastTick
  PROVE  AdmissionInv'
<1>1. TableTypes'
  <2>1. clock \in Nat /\ Buckets \subseteq Buckets' /\ 0..clock \subseteq 0..clock'
    BY DEF AdmissionInv, TableTypes, Buckets
  <2>2. /\ entries' \in [Peers -> {NoEntry} \cup Buckets'] /\ since' \in [Peers -> 0..clock']
        /\ \A q \in Peers : Known(q)' <=> Known(q)
    BY <2>1 DEF AdmissionInv, TableTypes, Known
  <2> QED BY <2>2 DEF AdmissionInv, TableTypes
<1>2. InOrder(order)' /\ Spends'
  BY DEF AdmissionInv, InOrder, Spends, Known
<1> QED BY <1>1, <1>2 DEF AdmissionInv

LEMMA AdmissionStep == AdmissionInv /\ [AdmissionNext]_admissionVars => AdmissionInv'
<1> SUFFICES ASSUME AdmissionInv, [AdmissionNext]_admissionVars PROVE AdmissionInv'
  OBVIOUS
<1>1. clock \in Nat /\ clock <= LastTick /\ LastTick \in Nat /\ BodyTypes
  BY AdmissionConstants DEF AdmissionInv, TableTypes
<1>2. ASSUME NEW p \in Peers, NEW length \in 0..MaxBytes + 1, NEW declared \in BOOLEAN, Allow(p, length, declared)
      PROVE  AdmissionInv'
  BY <1>2, AllowKeeps
<1>3. ASSUME NEW n \in 1..MaxBytes + 1, ReadChunk(n) PROVE AdmissionInv'
  <2>1. CASE Fits(body.size + n)
    <3>1. body \in [at : {"read", "route"}, length : 0..MaxBytes + 1, size : 0..MaxBytes] /\ body.at = "read"
      BY <1>1, <1>3 DEF ReadChunk, BodyTypes, NoBody
    <3>2. body' = [body EXCEPT !.size = body.size + n] /\ body.size + n \in 0..MaxBytes
      BY <1>3, <2>1, <3>1, AdmissionConstants DEF ReadChunk, Fits
    <3>3. BodyTypes'
      BY <3>1, <3>2 DEF BodyTypes
    <3> QED BY <1>1, <1>3, <3>3, RestKeeps DEF ReadChunk
  <2>2. CASE ~Fits(body.size + n)
    <3>1. BodyTypes'
      BY <1>3, <2>2 DEF ReadChunk, BodyTypes, NoBody
    <3> QED BY <1>1, <1>3, <3>1, RestKeeps DEF ReadChunk
  <2> QED BY <2>1, <2>2
<1>4. CASE PassOn
  <2>1. body \in [at : {"read", "route"}, length : 0..MaxBytes + 1, size : 0..MaxBytes] /\ body.size = body.length
    BY <1>1, <1>4 DEF PassOn, BodyTypes, NoBody, Complete
  <2>2. BodyTypes'
    BY <1>4, <2>1 DEF PassOn, BodyTypes
  <2> QED BY <1>1, <1>4, <2>2, RestKeeps DEF PassOn
<1>5. CASE BodyEnds
  <2>1. BodyTypes'
    BY <1>5 DEF BodyEnds, BodyTypes, NoBody
  <2> QED BY <1>1, <1>5, <2>1, RestKeeps DEF BodyEnds
<1>6. CASE Tick
  <2>1. BodyTypes'
    BY <1>1, <1>6 DEF Tick, BodyTypes
  <2> QED BY <1>1, <1>6, <2>1, RestKeeps DEF Tick
<1>7. CASE UNCHANGED admissionVars
  <2>1. BodyTypes'
    BY <1>1, <1>7 DEF admissionVars, BodyTypes
  <2> QED BY <1>1, <1>7, <2>1, RestKeeps DEF admissionVars
<1> QED BY <1>2, <1>3, <1>4, <1>5, <1>6, <1>7 DEF AdmissionNext

LEMMA AdmissionStart == AdmissionInit => AdmissionInv
<1> SUFFICES ASSUME AdmissionInit PROVE AdmissionInv
  OBVIOUS
<1>1. /\ clock = 0 /\ order = <<>> /\ body = NoBody /\ entries = [p \in Peers |-> NoEntry]
      /\ admitted = [p \in Peers |-> 0] /\ since = [p \in Peers |-> 0] /\ order \in Seq(Peers) /\ Len(order) = 0
  BY DEF AdmissionInit
<1>2. TableTypes
  BY <1>1, AdmissionConstants DEF TableTypes, OneEach, Known
<1>3. BodyTypes /\ InOrder(order) /\ Spends
  BY <1>1 DEF BodyTypes, NoBody, InOrder, Spends, Known
<1> QED BY <1>2, <1>3 DEF AdmissionInv

LEMMA AdmissionAlways == AdmissionSpec => []AdmissionInv
  BY AdmissionStart, AdmissionStep, PTL DEF AdmissionSpec

(* The table never holds more peers than its limit and agrees with its     *)
(* order; the bytes that are kept never exceed the limit of a body, and    *)
(* what reaches the route is complete (resource_limits.py).                *)
THEOREM AdmissionTypeSafety == AdmissionSpec => []AdmissionTypeOK
<1>1. AdmissionInv => AdmissionTypeOK
  <2> SUFFICES ASSUME AdmissionInv PROVE AdmissionTypeOK
    OBVIOUS
  <2>1. TableTypes /\ BodyTypes /\ DOMAIN order = 1..Len(order)
    BY DEF AdmissionInv, TableTypes
  <2>2. IsInjective(order)
    BY <2>1 DEF TableTypes, OneEach, IsInjective
  <2>3. ToSet(order) = {p \in Peers : Known(p)}
    <3>1. \A i \in 1..Len(order) : order[i] \in Peers
      BY <2>1 DEF TableTypes
    <3> QED BY <2>1, <3>1 DEF TableTypes, ToSet
  <2>4. clock \in 0..LastTick
    BY <2>1, AdmissionConstants DEF TableTypes
  <2> QED BY <2>1, <2>2, <2>3, <2>4 DEF AdmissionTypeOK, TableTypes, BodyTypes, Buckets
<1> QED BY <1>1, AdmissionAlways, PTL

(* However its requests are spread, a peer that stays in the table is      *)
(* admitted no more often than its burst and the time since it came allow  *)
(* (TokenBucketLimiter.allow).                                             *)
THEOREM RateIsBounded == AdmissionSpec => []RateBounded
<1>1. AdmissionInv => RateBounded
  <2> SUFFICES ASSUME AdmissionInv, NEW p \in Peers, Known(p) PROVE admitted[p] <= Capacity + (clock - since[p])
    BY DEF RateBounded
  <2>1. /\ clock \in Nat /\ admitted[p] \in Nat /\ since[p] \in Nat /\ entries[p].tokens \in 0..Capacity
        /\ entries[p].at \in Nat /\ entries[p].at <= clock /\ Capacity \in Nat
    BY BucketFacts, AdmissionConstants DEF AdmissionInv
  <2>2. admitted[p] + entries[p].tokens <= Capacity + (entries[p].at - since[p])
    BY DEF AdmissionInv, Spends
  <2> QED BY <2>1, <2>2
<1> QED BY <1>1, AdmissionAlways, PTL

(* Only the peer that has been silent longest loses its place: the order   *)
(* that popitem follows is the order of the last requests.                 *)
THEOREM OldestIsEvicted == AdmissionSpec => EvictsOldest
<1> DEFINE Oldest == \A p \in Peers : Known(p) /\ entries'[p] = NoEntry =>
                       \A q \in Peers : Known(q) => entries[p].at <= entries[q].at
<1>1. ASSUME AdmissionInv, [AdmissionNext]_admissionVars PROVE [Oldest]_admissionVars
  <2> SUFFICES ASSUME AdmissionNext, NEW p \in Peers, Known(p), entries'[p] = NoEntry, NEW q \in Peers, Known(q)
               PROVE  entries[p].at <= entries[q].at
    BY <1>1 DEF admissionVars, Known
  <2>1. entries' # entries
    BY DEF Known
  <2>2. PICK r \in Peers, length \in 0..MaxBytes + 1, declared \in BOOLEAN : Allow(r, length, declared)
    BY <2>1 DEF AdmissionNext, ReadChunk, PassOn, BodyEnds, Tick
  <2>3. Known(r)'
    <3>1. Popped(r) \in Seq(Peers)
      BY <1>1, PoppedFacts DEF AdmissionInv
    <3>2. order' = Append(Popped(r), r)
      BY <2>2 DEF Allow, Reordered
    <3>3. Len(order') \in 1..Len(order') /\ order'[Len(order')] = r
      BY <3>1, <3>2, AppendProperties
    <3>4. TableTypes'
      BY <1>1, <2>2, AllowKeeps DEF AdmissionInv
    <3> QED BY <3>3, <3>4 DEF TableTypes
  <2>4. p \in Evicted(r)
    BY <2>2, <2>3 DEF Allow, Known
  <2>5. p = order[1] /\ Len(order) \in Nat /\ Len(order) >= 1
    <3>1. order \in Seq(Peers) /\ MaxKeys \in Nat \ {0}
      BY <1>1, AdmissionConstants DEF AdmissionInv, TableTypes
    <3> QED BY <2>4, <3>1 DEF Evicted
  <2>6. PICK j \in 1..Len(order) : order[j] = q
    BY <1>1 DEF AdmissionInv, TableTypes
  <2>7. entries[p].at \in Nat /\ entries[q].at \in Nat
    BY <1>1, BucketFacts DEF AdmissionInv
  <2>8. CASE j = 1
    BY <2>5, <2>6, <2>7, <2>8
  <2>9. CASE j # 1
    BY <1>1, <2>5, <2>6, <2>9 DEF AdmissionInv, InOrder
  <2> QED BY <2>8, <2>9
<1> QED BY <1>1, AdmissionAlways, PTL DEF AdmissionSpec, EvictsOldest

(***************************************************************************)
(* The panel. What is on the screen for confirmation is what the user      *)
(* reviewed, and a call that will replace the record shows no review.      *)
(***************************************************************************)
ChatPanel(d, f, v, k) == [tab |-> "conversations", detail |-> d, draft |-> f, preview |-> v, call |-> k]
AnswerPanel(d, f, k) == [tab |-> "unresolved", detail |-> d, draft |-> f, call |-> k]
ImportPanel(f, v, k) == [tab |-> "import", file |-> f, preview |-> v, call |-> k]
Review(tab, record, text) == [tab |-> tab, record |-> record, text |-> text]
ShownChats == [id : Numbers, state : States]

ReplyShown(d, v, k) == /\ d # Empty \/ k[1] \in {"mode", "send", "refresh"} => d \in ShownChats
                       /\ v # Empty => d \in ShownChats /\ reviewed = Review("conversations", d.id, v)
                       /\ k[1] = "show" => v = Empty
AnswerShown(d, f) == d # Empty /\ f # Empty => reviewed = Review("unresolved", d, f)
ImportShown(v, k) == /\ v # Empty /\ v.valid => reviewed = Review("import", v.file, Empty)
                     /\ k[1] = "confirm" => v = Empty

OnChats == \E d, f, v, k : panel = ChatPanel(d, f, v, k) /\ ReplyShown(d, v, k)
OnAnswers == \E d, f, k : panel = AnswerPanel(d, f, k) /\ AnswerShown(d, f)
OnImport == \E f, v, k : panel = ImportPanel(f, v, k) /\ ImportShown(v, k)
PanelInv == panel = Away \/ OnChats \/ OnAnswers \/ OnImport

(* The shapes of the panels, one for each tab.                             *)
LEMMA TabFacts ==
  ASSUME PanelInv
  PROVE  /\ On("away") => panel = Away
         /\ On("conversations") => OnChats
         /\ On("unresolved") => OnAnswers
         /\ On("import") => OnImport
         /\ On("away") \/ On("conversations") \/ On("unresolved") \/ On("import")
  BY DEF PanelInv, On, Away, OnChats, OnAnswers, OnImport, ChatPanel, AnswerPanel, ImportPanel

(* Every action of the inbox leaves the inbox with such a panel.           *)
LEMMA ChatKeeps ==
  ASSUME OnChats,
         \/ LoadChats \/ ReviewReply \/ CancelReview \/ ChangeMode \/ ModeArrives \/ SendManual \/ RefreshArrives
         \/ \E c \in Numbers : ShowChat(c) \/ ChatArrives(c)
         \/ \E text \in Words : TypeReply(text)
  PROVE  OnChats'
<1>1. PICK d, f, v, k : panel = ChatPanel(d, f, v, k) /\ ReplyShown(d, v, k)
  BY DEF OnChats
<1>2. /\ panel.tab = "conversations" /\ panel.detail = d /\ panel.draft = f /\ panel.preview = v /\ panel.call = k
  BY <1>1 DEF ChatPanel
<1>3. /\ \A w : [panel EXCEPT !.call = w] = ChatPanel(d, f, v, w)
      /\ \A w : [panel EXCEPT !.preview = w] = ChatPanel(d, f, w, k)
  BY <1>1 DEF ChatPanel
<1>4. SUFFICES \E d1, f1, v1, k1 : panel' = ChatPanel(d1, f1, v1, k1) /\ ReplyShown(d1, v1, k1)'
  BY DEF OnChats
<1>5. <<"none">>[1] = "none" /\ <<"mode">>[1] = "mode" /\ <<"refresh">>[1] = "refresh" /\ <<"send">>[1] = "send" /\ <<"list">>[1] = "list"
  OBVIOUS
<1>6. CASE LoadChats
  <2>1. panel' = ChatPanel(Empty, Empty, Empty, <<"list">>)
    BY <1>1, <1>6 DEF LoadChats, Cleared, ChatPanel
  <2> QED BY <1>5, <2>1 DEF ReplyShown
<1>7. CASE ReviewReply
  <2>1. panel' = ChatPanel(d, f, f, k) /\ k = <<"none">> /\ reviewed' = Review("conversations", d.id, f) /\ d # Empty
    BY <1>2, <1>3, <1>7 DEF ReviewReply, HasDetail, Free, Action, Review, Idle
  <2> QED BY <1>1, <1>5, <2>1 DEF ReplyShown
<1>8. CASE CancelReview
  <2>1. panel' = ChatPanel(d, f, Empty, k)
    BY <1>3, <1>8 DEF CancelReview
  <2> QED BY <1>1, <2>1 DEF ReplyShown
<1>9. CASE ChangeMode
  <2>1. panel' = ChatPanel(d, f, v, <<"mode">>) /\ UNCHANGED reviewed /\ d # Empty
    BY <1>2, <1>3, <1>9 DEF ChangeMode, HasDetail, Waits, Keeps
  <2> QED BY <1>1, <1>5, <2>1 DEF ReplyShown
<1>10. CASE ModeArrives
  <2>1. k = <<"mode">> /\ UNCHANGED reviewed /\ d \in ShownChats
    BY <1>1, <1>2, <1>5, <1>10 DEF ModeArrives, Awaits, Keeps, ReplyShown
  <2>2. PICK m \in {"AI", "mine"} : panel' = [ChatPanel(d, f, v, <<"refresh">>) EXCEPT !.detail.state.mode = m]
    BY <1>2, <1>3, <1>10 DEF ModeArrives, Waits
  <2> DEFINE e == [d EXCEPT !.state.mode = m]
  <2>3. e \in ShownChats /\ e.id = d.id
    BY <2>1 DEF ShownChats, States
  <2>4. panel' = ChatPanel(e, f, v, <<"refresh">>)
    BY <2>2 DEF ChatPanel
  <2> HIDE DEF e
  <2> QED BY <1>1, <1>5, <2>1, <2>3, <2>4 DEF ReplyShown
<1>11. CASE SendManual
  <2>1. panel' = ChatPanel(d, Empty, Empty, <<"send">>) /\ d # Empty
    BY <1>1, <1>2, <1>11 DEF SendManual, HasDetail, Sending, Cleared, ChatPanel
  <2> QED BY <1>1, <1>5, <2>1 DEF ReplyShown
<1>12. CASE RefreshArrives
  <2>1. k = <<"refresh">> /\ UNCHANGED reviewed /\ d \in ShownChats
    BY <1>1, <1>2, <1>5, <1>12 DEF RefreshArrives, Awaits, Keeps, ReplyShown
  <2>2. PICK state \in States : panel' = [ChatPanel(d, f, v, <<"none">>) EXCEPT !.detail.state = state]
    BY <1>3, <1>12 DEF RefreshArrives, Waits, Arrived, Idle
  <2> DEFINE e == [d EXCEPT !.state = state]
  <2>3. e \in ShownChats /\ e.id = d.id
    BY <2>1 DEF ShownChats
  <2>4. panel' = ChatPanel(e, f, v, <<"none">>)
    BY <2>2 DEF ChatPanel
  <2> HIDE DEF e
  <2> QED BY <1>1, <1>5, <2>1, <2>3, <2>4 DEF ReplyShown
<1>13. ASSUME NEW c \in Numbers, ShowChat(c) PROVE \E d1, f1, v1, k1 : panel' = ChatPanel(d1, f1, v1, k1) /\ ReplyShown(d1, v1, k1)'
  <2>1. panel' = ChatPanel(d, Empty, Empty, <<"show", c>>) /\ <<"show", c>>[1] = "show"
    BY <1>1, <1>13 DEF ShowChat, Cleared, ChatPanel
  <2> QED BY <1>1, <2>1 DEF ReplyShown
<1>14. ASSUME NEW c \in Numbers, ChatArrives(c) PROVE \E d1, f1, v1, k1 : panel' = ChatPanel(d1, f1, v1, k1) /\ ReplyShown(d1, v1, k1)'
  <2>1. v = Empty
    <3>1. k = <<"show", c>> /\ <<"show", c>>[1] = "show"
      BY <1>2, <1>14 DEF ChatArrives, Awaits
    <3> QED BY <1>1, <3>1 DEF ReplyShown
  <2>2. PICK state \in States : panel' = [ChatPanel(d, f, v, <<"none">>) EXCEPT !.detail = [id |-> c, state |-> state]]
    BY <1>3, <1>14 DEF ChatArrives, Waits, Arrived, Idle
  <2>3. panel' = ChatPanel([id |-> c, state |-> state], f, Empty, <<"none">>)
    BY <2>1, <2>2 DEF ChatPanel
  <2>4. [id |-> c, state |-> state] \in ShownChats
    BY DEF ShownChats
  <2> QED BY <1>5, <2>3, <2>4 DEF ReplyShown
<1>15. ASSUME NEW text \in Words, TypeReply(text) PROVE \E d1, f1, v1, k1 : panel' = ChatPanel(d1, f1, v1, k1) /\ ReplyShown(d1, v1, k1)'
  <2>1. panel' = ChatPanel(d, text, Empty, k)
    BY <1>1, <1>15 DEF TypeReply, ChatPanel
  <2> QED BY <1>1, <2>1 DEF ReplyShown
<1> QED BY <1>6, <1>7, <1>8, <1>9, <1>10, <1>11, <1>12, <1>13, <1>14, <1>15

(* Unresolved questions.                                                   *)
LEMMA AnswerKeeps ==
  ASSUME OnAnswers,
         \/ LoadQuestions \/ ResolveQuestion \/ Resolved
         \/ \E q \in Numbers : ShowQuestion(q) \/ QuestionArrives(q)
         \/ \E text \in Words : TypeAnswer(text)
  PROVE  OnAnswers'
<1>1. PICK d, f, k : panel = AnswerPanel(d, f, k) /\ AnswerShown(d, f)
  BY DEF OnAnswers
<1>2. /\ panel.tab = "unresolved" /\ panel.detail = d /\ panel.draft = f /\ panel.call = k
      /\ \A w : [panel EXCEPT !.call = w] = AnswerPanel(d, f, w)
  BY <1>1 DEF AnswerPanel
<1>3. SUFFICES \E d1, f1, k1 : panel' = AnswerPanel(d1, f1, k1) /\ AnswerShown(d1, f1)'
  BY DEF OnAnswers
<1>4. CASE LoadQuestions
  <2>1. panel' = AnswerPanel(Empty, f, <<"list">>)
    BY <1>1, <1>4 DEF LoadQuestions, AnswerPanel
  <2> QED BY <2>1 DEF AnswerShown
<1>5. CASE ResolveQuestion
  <2>1. panel' = AnswerPanel(d, f, <<"resolve">>) /\ UNCHANGED reviewed
    BY <1>2, <1>5 DEF ResolveQuestion, Waits
  <2> QED BY <1>1, <2>1 DEF AnswerShown
<1>6. CASE Resolved
  <2>1. panel' = AnswerPanel(Empty, Empty, <<"list">>)
    BY <1>2, <1>6 DEF Resolved, Waits, AnswerPanel
  <2> QED BY <2>1 DEF AnswerShown
<1>7. ASSUME NEW q \in Numbers, ShowQuestion(q) PROVE \E d1, f1, k1 : panel' = AnswerPanel(d1, f1, k1) /\ AnswerShown(d1, f1)'
  <2>1. panel' = AnswerPanel(d, f, <<"show", q>>) /\ UNCHANGED reviewed
    BY <1>2, <1>7 DEF ShowQuestion, Waits, Keeps
  <2> QED BY <1>1, <2>1 DEF AnswerShown
<1>8. ASSUME NEW q \in Numbers, QuestionArrives(q) PROVE \E d1, f1, k1 : panel' = AnswerPanel(d1, f1, k1) /\ AnswerShown(d1, f1)'
  <2>1. panel' = AnswerPanel(q, Empty, <<"none">>)
    BY <1>2, <1>8 DEF QuestionArrives, Arrived, Waits, Idle, AnswerPanel
  <2> QED BY <2>1 DEF AnswerShown
<1>9. ASSUME NEW text \in Words, TypeAnswer(text) PROVE \E d1, f1, k1 : panel' = AnswerPanel(d1, f1, k1) /\ AnswerShown(d1, f1)'
  <2>1. panel' = AnswerPanel(d, text, k) /\ reviewed' = Review("unresolved", d, text)
    BY <1>1, <1>2, <1>9 DEF TypeAnswer, Action, AnswerPanel, Review
  <2> QED BY <2>1 DEF AnswerShown
<1> QED BY <1>4, <1>5, <1>6, <1>7, <1>8, <1>9

(* Price import.                                                           *)
LEMMA ImportKeeps ==
  ASSUME OnImport,
         \/ SubmitPreview \/ ConfirmImport \/ ImportDone \/ \E valid \in BOOLEAN : PreviewArrives(valid)
         \/ \E chosen \in Workfiles \cup {Empty} : ChooseFile(chosen)
  PROVE  OnImport'
<1>1. PICK f, v, k : panel = ImportPanel(f, v, k) /\ ImportShown(v, k)
  BY DEF OnImport
<1>2. /\ panel.tab = "import" /\ panel.file = f /\ panel.preview = v /\ panel.call = k
      /\ \A w : [panel EXCEPT !.call = w] = ImportPanel(f, v, w)
  BY <1>1 DEF ImportPanel
<1>3. SUFFICES \E f1, v1, k1 : panel' = ImportPanel(f1, v1, k1) /\ ImportShown(v1, k1)'
  BY DEF OnImport
<1>4. <<"none">>[1] = "none" /\ <<"confirm">>[1] = "confirm" /\ <<"preview">>[1] = "preview"
  OBVIOUS
<1>5. CASE SubmitPreview
  <2>1. panel' = ImportPanel(f, Empty, <<"preview">>)
    BY <1>1, <1>5 DEF SubmitPreview, ImportPanel
  <2> QED BY <2>1 DEF ImportShown
<1>6. CASE ConfirmImport
  <2>1. panel' = ImportPanel(f, Empty, <<"confirm">>)
    BY <1>1, <1>6 DEF ConfirmImport, ImportPanel
  <2> QED BY <2>1 DEF ImportShown
<1>7. CASE ImportDone
  <2>1. v = Empty
    <3>1. k = <<"confirm">>
      BY <1>2, <1>7 DEF ImportDone, Awaits
    <3> QED BY <1>1, <1>4, <3>1 DEF ImportShown
  <2>2. panel' = ImportPanel(Empty, v, <<"none">>)
    BY <1>2, <1>7 DEF ImportDone, Arrived, Waits, Idle, ImportPanel
  <2> QED BY <2>1, <2>2 DEF ImportShown
<1>8. ASSUME NEW valid \in BOOLEAN, PreviewArrives(valid) PROVE \E f1, v1, k1 : panel' = ImportPanel(f1, v1, k1) /\ ImportShown(v1, k1)'
  <2> DEFINE new == [file |-> f, valid |-> valid]
  <2>1. panel' = ImportPanel(f, new, <<"none">>)
    BY <1>2, <1>8 DEF PreviewArrives, Arrived, Waits, Idle, ImportPanel
  <2>2. valid => reviewed' = Review("import", f, Empty)
    BY <1>2, <1>8 DEF PreviewArrives, Action, Review
  <2>3. new.file = f /\ new.valid = valid
    OBVIOUS
  <2> HIDE DEF new
  <2> QED BY <1>4, <2>1, <2>2, <2>3 DEF ImportShown
<1>9. ASSUME NEW chosen \in Workfiles \cup {Empty}, ChooseFile(chosen) PROVE \E f1, v1, k1 : panel' = ImportPanel(f1, v1, k1) /\ ImportShown(v1, k1)'
  <2>1. panel' = ImportPanel(chosen, Empty, k)
    BY <1>1, <1>9 DEF ChooseFile, Chosen, ImportPanel
  <2> QED BY <2>1 DEF ImportShown
<1> QED BY <1>5, <1>6, <1>7, <1>8, <1>9

(* What every tab may do.                                                  *)
LEMMA CallKeeps ==
  ASSUME PanelInv, CallEnds
  PROVE  PanelInv'
<1>1. /\ panel.tab # "away" /\ UNCHANGED reviewed
      /\ \/ panel' = [panel EXCEPT !.call = <<"none">>]
         \/ panel.call = <<"send">> /\ panel' = [panel EXCEPT !.call = <<"refresh">>]
  BY DEF CallEnds, Keeps, Waits, Arrived, Idle
<1>2. <<"none">>[1] = "none" /\ <<"refresh">>[1] = "refresh" /\ <<"send">>[1] = "send"
  OBVIOUS
<1>3. CASE OnChats
  <2>1. PICK d, f, v, k : panel = ChatPanel(d, f, v, k) /\ ReplyShown(d, v, k)
    BY <1>3 DEF OnChats
  <2>2. panel.call = k /\ \A w : [panel EXCEPT !.call = w] = ChatPanel(d, f, v, w)
    BY <2>1 DEF ChatPanel
  <2>3. \/ panel' = ChatPanel(d, f, v, <<"none">>)
        \/ panel' = ChatPanel(d, f, v, <<"refresh">>) /\ k = <<"send">>
    BY <1>1, <2>2
  <2>4. ReplyShown(d, v, <<"none">>)' /\ (k = <<"send">> => ReplyShown(d, v, <<"refresh">>)')
    BY <1>1, <1>2, <2>1 DEF ReplyShown
  <2> QED BY <2>3, <2>4 DEF PanelInv, OnChats
<1>4. CASE OnAnswers
  <2>1. PICK d, f, k : panel = AnswerPanel(d, f, k) /\ AnswerShown(d, f)
    BY <1>4 DEF OnAnswers
  <2>2. \A w : [panel EXCEPT !.call = w] = AnswerPanel(d, f, w)
    BY <2>1 DEF AnswerPanel
  <2>3. AnswerShown(d, f)'
    BY <1>1, <2>1 DEF AnswerShown
  <2> QED BY <1>1, <2>2, <2>3 DEF PanelInv, OnAnswers
<1>5. CASE OnImport
  <2>1. PICK f, v, k : panel = ImportPanel(f, v, k) /\ ImportShown(v, k)
    BY <1>5 DEF OnImport
  <2>2. \A w : [panel EXCEPT !.call = w] = ImportPanel(f, v, w)
    BY <2>1 DEF ImportPanel
  <2>3. ImportShown(v, <<"none">>)' /\ ImportShown(v, <<"refresh">>)'
    BY <1>1, <1>2, <2>1 DEF ImportShown
  <2> QED BY <1>1, <2>2, <2>3 DEF PanelInv, OnImport
<1> QED BY <1>1, <1>3, <1>4, <1>5 DEF PanelInv, Away

LEMMA MountKeeps ==
  ASSUME Mount(Chats0) \/ Mount(Questions0) \/ Mount(Import0) \/ Unmount
  PROVE  PanelInv'
<1>1. <<"list">>[1] = "list" /\ <<"none">>[1] = "none"
  OBVIOUS
<1>2. CASE Mount(Chats0)
  <2>1. panel' = ChatPanel(Empty, Empty, Empty, <<"list">>)
    BY <1>2 DEF Mount, Chats0, ChatPanel
  <2> QED BY <1>1, <2>1 DEF PanelInv, OnChats, ReplyShown
<1>3. CASE Mount(Questions0)
  <2>1. panel' = AnswerPanel(Empty, Empty, <<"list">>)
    BY <1>3 DEF Mount, Questions0, AnswerPanel
  <2> QED BY <2>1 DEF PanelInv, OnAnswers, AnswerShown
<1>4. CASE Mount(Import0)
  <2>1. panel' = ImportPanel(Empty, Empty, <<"none">>)
    BY <1>4 DEF Mount, Import0, ImportPanel, Idle
  <2> QED BY <1>1, <2>1 DEF PanelInv, OnImport, ImportShown
<1>5. CASE Unmount
  BY <1>5 DEF Unmount, PanelInv
<1> QED BY <1>2, <1>3, <1>4, <1>5

(* The actions of the three tabs.                                          *)
ChatActs ==
  \/ LoadChats \/ ReviewReply \/ CancelReview \/ ChangeMode \/ ModeArrives \/ SendManual \/ RefreshArrives
  \/ \E c \in Numbers : ShowChat(c) \/ ChatArrives(c)
  \/ \E text \in Words : TypeReply(text)
AnswerActs ==
  \/ LoadQuestions \/ ResolveQuestion \/ Resolved
  \/ \E q \in Numbers : ShowQuestion(q) \/ QuestionArrives(q)
  \/ \E text \in Words : TypeAnswer(text)
ImportActs ==
  \/ SubmitPreview \/ ConfirmImport \/ ImportDone \/ \E valid \in BOOLEAN : PreviewArrives(valid)
  \/ \E chosen \in Workfiles \cup {Empty} : ChooseFile(chosen)
TabActs == Mount(Chats0) \/ Mount(Questions0) \/ Mount(Import0) \/ Unmount

LEMMA ActsOfTabs ==
  /\ PanelNext => ChatActs \/ AnswerActs \/ ImportActs \/ TabActs \/ CallEnds
  /\ ChatActs => On("conversations")
  /\ AnswerActs => On("unresolved")
  /\ ImportActs => On("import")
<1>1. PanelNext => ChatActs \/ AnswerActs \/ ImportActs \/ TabActs \/ CallEnds
  BY DEF PanelNext, ChatActs, AnswerActs, ImportActs, TabActs
<1>2. ChatActs => On("conversations")
  BY DEF ChatActs, LoadChats, ReviewReply, CancelReview, ChangeMode, ModeArrives, SendManual, RefreshArrives, ShowChat,
         ChatArrives, TypeReply, HasDetail, Free, Awaits
<1>3. AnswerActs => On("unresolved")
  BY DEF AnswerActs, LoadQuestions, ResolveQuestion, Resolved, ShowQuestion, QuestionArrives, TypeAnswer, Free, Awaits
<1>4. ImportActs => On("import")
  BY DEF ImportActs, SubmitPreview, ConfirmImport, ImportDone, PreviewArrives, ChooseFile, Free, Awaits
<1> QED BY <1>1, <1>2, <1>3, <1>4

LEMMA PanelStep == PanelInv /\ [PanelNext]_panelVars => PanelInv'
<1> SUFFICES ASSUME PanelInv, [PanelNext]_panelVars PROVE PanelInv'
  OBVIOUS
<1>1. CASE ChatActs
  <2>1. OnChats
    BY <1>1, ActsOfTabs, TabFacts
  <2>2. OnChats'
    BY <1>1, <2>1, ChatKeeps DEF ChatActs
  <2> QED BY <2>2 DEF PanelInv
<1>2. CASE AnswerActs
  <2>1. OnAnswers
    BY <1>2, ActsOfTabs, TabFacts
  <2>2. OnAnswers'
    BY <1>2, <2>1, AnswerKeeps DEF AnswerActs
  <2> QED BY <2>2 DEF PanelInv
<1>3. CASE ImportActs
  <2>1. OnImport
    BY <1>3, ActsOfTabs, TabFacts
  <2>2. OnImport'
    BY <1>3, <2>1, ImportKeeps DEF ImportActs
  <2> QED BY <2>2 DEF PanelInv
<1>4. CASE TabActs
  BY <1>4, MountKeeps DEF TabActs
<1>5. CASE CallEnds
  BY <1>5, CallKeeps
<1>6. CASE UNCHANGED panelVars
  BY <1>6 DEF panelVars, PanelInv, OnChats, OnAnswers, OnImport, ReplyShown, AnswerShown, ImportShown
<1> QED BY <1>1, <1>2, <1>3, <1>4, <1>5, <1>6, ActsOfTabs

(* A confirmation submits what the user reviewed, for the record that was  *)
(* reviewed, and a reply only from a screen that shows the conversation as *)
(* one's own and not blocked (the panel's submit handlers).                *)
THEOREM ReviewedIsSubmitted == PanelSpec => SubmitsWhatWasReviewed
<1> DEFINE Confirms == submitted' # Empty => /\ submitted' = reviewed
                                             /\ On("conversations") => MayReply
<1>1. ASSUME PanelInv, [PanelNext]_panelVars PROVE [Confirms]_panelVars
  <2> SUFFICES ASSUME PanelNext, submitted' # Empty PROVE submitted' = reviewed /\ (On("conversations") => MayReply)
    BY <1>1
  <2>1. SendManual \/ ResolveQuestion \/ ConfirmImport
    BY DEF PanelNext, Mount, Unmount, CallEnds, LoadChats, ReviewReply, CancelReview, ChangeMode, ModeArrives,
           RefreshArrives, LoadQuestions, Resolved, SubmitPreview, ImportDone, PreviewArrives, ShowChat, ChatArrives,
           ShowQuestion, QuestionArrives, TypeReply, TypeAnswer, ChooseFile, Keeps, Leaves
  <2>2. CASE SendManual
    <3>1. PICK d, f, v, k : panel = ChatPanel(d, f, v, k) /\ ReplyShown(d, v, k)
      BY <1>1, <2>2, TabFacts DEF SendManual, HasDetail, Free, OnChats
    <3>2. /\ panel.tab = "conversations" /\ panel.detail = d /\ panel.preview = v
      BY <3>1 DEF ChatPanel
    <3>3. submitted' = Review("conversations", d.id, v) /\ v # Empty /\ MayReply
      BY <2>2, <3>2 DEF SendManual, MaySend, Submits, Action, Review
    <3> QED BY <3>1, <3>3 DEF ReplyShown
  <2>3. CASE ResolveQuestion
    <3>1. PICK d, f, k : panel = AnswerPanel(d, f, k) /\ AnswerShown(d, f)
      BY <1>1, <2>3, TabFacts DEF ResolveQuestion, Free, OnAnswers
    <3>2. /\ panel.tab = "unresolved" /\ panel.detail = d /\ panel.draft = f
      BY <3>1 DEF AnswerPanel
    <3>3. submitted' = Review("unresolved", d, f) /\ d # Empty /\ f # Empty
      BY <2>3, <3>2 DEF ResolveQuestion, Action, Review
    <3> QED BY <3>1, <3>2, <3>3 DEF AnswerShown, On
  <2>4. CASE ConfirmImport
    <3>1. PICK f, v, k : panel = ImportPanel(f, v, k) /\ ImportShown(v, k)
      BY <1>1, <2>4, TabFacts DEF ConfirmImport, Free, OnImport
    <3>2. /\ panel.tab = "import" /\ panel.preview = v
      BY <3>1 DEF ImportPanel
    <3>3. submitted' = Review("import", v.file, Empty) /\ v # Empty /\ v.valid
      BY <2>4, <3>2 DEF ConfirmImport, Submits, Action, Review
    <3> QED BY <3>1, <3>2, <3>3 DEF ImportShown, On
  <2> QED BY <2>1, <2>2, <2>3, <2>4
<1>2. PanelInit => PanelInv
  BY DEF PanelInit, PanelInv
<1> QED BY <1>1, <1>2, PanelStep, PTL DEF PanelSpec, SubmitsWhatWasReviewed

(***************************************************************************)
(* Questions. A request that is open knows a row that still exists, and    *)
(* one that resolves a question does not change the question of that row.  *)
(***************************************************************************)
Gaps == [question : Questions, reason : {"unknown", "ambiguous"}]
Saving == [at : {"save"}, id : FaqIds, seen : Rows, row : Rows]
Resolving == [at : {"resolve"}, gap : GapIds, row : Rows, id : FaqIds \cup {0}, seen : Rows \cup {NoRow}]

FaqInv == /\ faq \in [FaqIds -> Rows \cup {NoRow}]
          /\ \A f, g \in FaqRows : faq[f].question = faq[g].question => f = g
GapInv == gap \in [GapIds -> Gaps \cup {NoRow}] /\ \A f, g \in GapRows : gap[f] = gap[g] => f = g
AskInv == /\ ask = [c \in Customers |-> ask[c]]
          /\ \A c \in Customers : /\ ask[c].at \in {"none", "told", "record"}
                                  /\ ask[c].at = "record" => [question |-> ask[c].question, reason |-> ask[c].reason] \in Gaps
DeskInv ==
  /\ desk \in [Reviewers -> {NoDesk} \cup Saving \cup Resolving]
  /\ \A s \in Reviewers :
       /\ desk[s].at = "save" => desk[s].id \in FaqRows
       /\ desk[s].at = "resolve" /\ desk[s].id # 0 =>
            desk[s].id \in FaqRows /\ desk[s].seen \in Rows /\ desk[s].seen.question = desk[s].row.question
QuestionsInv == FaqInv /\ GapInv /\ AskInv /\ DeskInv

LEMMA QuestionConstants ==
  /\ 0 \notin FaqIds /\ FaqIds \subseteq Nat /\ GapIds \subseteq Nat /\ NoRow \notin Rows
  BY QuestionsAssumption DEF Rows

LEMMA WrittenFacts ==
  ASSUME NEW row \in Rows, NEW seen \in Rows, NEW new \in Rows
  PROVE  /\ Written(row, seen, new) \in Rows
         /\ Written(row, seen, new).question = IF new.question # seen.question THEN new.question ELSE row.question
         /\ Written(row, seen, new).active = IF new.active # seen.active THEN new.active ELSE row.active
<1>1. DOMAIN new = {"question", "text", "active"}
  BY DEF Rows
<1> DEFINE w == [column \in {"question", "text", "active"} |-> IF new[column] # seen[column] THEN new[column] ELSE row[column]]
<1>2. Written(row, seen, new) = w
  BY <1>1 DEF Written
<1>3. /\ w.question = IF new.question # seen.question THEN new.question ELSE row.question
      /\ w.text = IF new.text # seen.text THEN new.text ELSE row.text
      /\ w.active = IF new.active # seen.active THEN new.active ELSE row.active
  OBVIOUS
<1>4. w = [question |-> w.question, text |-> w.text, active |-> w.active]
  OBVIOUS
<1> HIDE DEF w
<1>5. w.question \in Questions /\ w.text \in Texts /\ w.active \in BOOLEAN
  BY <1>3 DEF Rows
<1>6. w \in Rows
  BY <1>4, <1>5 DEF Rows
<1> QED BY <1>2, <1>3, <1>6

(* A written row of the FAQ: only one row of its question, and no row is   *)
(* ever taken away.                                                        *)
LEMMA FaqKeeps ==
  ASSUME FaqInv, NEW f \in FaqIds, NEW row \in Rows, faq' = [faq EXCEPT ![f] = row],
         \A g \in FaqRows : faq[g].question = row.question => g = f
  PROVE  FaqInv' /\ FaqRows' = FaqRows \cup {f}
<1>1. faq' \in [FaqIds -> Rows \cup {NoRow}] /\ faq'[f] = row /\ row # NoRow /\ \A g \in FaqIds \ {f} : faq'[g] = faq[g]
  BY QuestionConstants DEF FaqInv
<1>2. FaqRows' = FaqRows \cup {f}
  BY <1>1 DEF FaqRows
<1>3. ASSUME NEW g \in FaqRows', NEW h \in FaqRows', faq'[g].question = faq'[h].question PROVE g = h
  <2>1. \A k \in FaqRows' : k # f => k \in FaqRows /\ faq'[k] = faq[k]
    BY <1>1, <1>2 DEF FaqRows
  <2> QED BY <1>1, <1>3, <2>1 DEF FaqInv
<1> QED BY <1>1, <1>2, <1>3 DEF FaqInv

(* Requests other than s, and s itself when it ended, know what they knew. *)
LEMMA DeskKeeps ==
  ASSUME DeskInv, FaqRows \subseteq FaqRows', NEW s \in Reviewers, desk' = [desk EXCEPT ![s] = NoDesk]
  PROVE  DeskInv'
<1>1. desk' \in [Reviewers -> {NoDesk} \cup Saving \cup Resolving]
  BY DEF DeskInv
<1>2. desk'[s] = NoDesk /\ NoDesk.at = "none" /\ \A t \in Reviewers \ {s} : desk'[t] = desk[t]
  BY DEF DeskInv, NoDesk
<1> QED BY <1>1, <1>2 DEF DeskInv

LEMMA AskKeeps ==
  ASSUME AskInv, NEW c \in Customers, ask' = [ask EXCEPT ![c] = NoAsk]
  PROVE  AskInv'
<1>1. ask'[c] = NoAsk /\ NoAsk.at = "none" /\ \A d \in Customers \ {c} : ask'[d] = ask[d]
  BY DEF AskInv, NoAsk
<1>2. ask' = [d \in Customers |-> ask'[d]]
  BY DEF AskInv
<1> QED BY <1>1, <1>2 DEF AskInv

LEMMA SearchKeeps ==
  ASSUME QuestionsInv, NEW c \in Customers, NEW q \in Questions, Search(c, q)
  PROVE  QuestionsInv'
<1>1. PICK shown \in Shown(q) : ask' = [ask EXCEPT ![c] = Reply(shown, q)] /\ UNCHANGED <<faq, gap, desk>>
  BY DEF Search
<1> DEFINE r == Reply(shown, q)
<1>2. /\ r.at \in {"none", "told", "record"}
      /\ r.at = "record" => [question |-> r.question, reason |-> r.reason] \in Gaps
  BY DEF Reply, Gaps
<1> HIDE DEF r
<1>3. ask'[c] = r /\ \A d \in Customers \ {c} : ask'[d] = ask[d]
  BY <1>1 DEF QuestionsInv, AskInv, r
<1>4. ask' = [d \in Customers |-> ask'[d]]
  BY <1>1 DEF QuestionsInv, AskInv
<1>5. AskInv'
  BY <1>2, <1>3, <1>4 DEF QuestionsInv, AskInv
<1> QED BY <1>1, <1>5 DEF QuestionsInv, FaqInv, GapInv, DeskInv, FaqRows, GapRows

(* A new id is an unused one.                                              *)
LEMMA NewIdFacts ==
  ASSUME NEW ids \in SUBSET Nat, NEW rows \in SUBSET ids, NEW i \in NewId(ids, rows)
  PROVE  i \in ids /\ i \notin rows
<1>1. i \in ids /\ i \in Nat /\ \A j \in rows : j < i
  BY DEF NewId
<1> QED BY <1>1

LEMMA RecordKeeps ==
  ASSUME QuestionsInv, NEW c \in Customers, RecordGap(c)
  PROVE  QuestionsInv'
<1> DEFINE row == [question |-> ask[c].question, reason |-> ask[c].reason]
<1>1. /\ ask' = [ask EXCEPT ![c] = NoAsk] /\ UNCHANGED <<faq, desk>> /\ row \in Gaps
      /\ IF HasGap(row) THEN UNCHANGED gap ELSE \E g \in NewId(GapIds, GapRows) : gap' = [gap EXCEPT ![g] = row]
  BY DEF RecordGap, QuestionsInv, AskInv
<1> HIDE DEF row
<1>2. FaqInv' /\ AskInv' /\ DeskInv'
  BY <1>1, AskKeeps DEF QuestionsInv, FaqInv, DeskInv, FaqRows
<1>3. CASE UNCHANGED gap
  BY <1>2, <1>3 DEF QuestionsInv, GapInv, GapRows
<1>4. CASE ~HasGap(row)
  <2>1. PICK g \in NewId(GapIds, GapRows) : gap' = [gap EXCEPT ![g] = row]
    BY <1>1, <1>4
  <2>2. g \in GapIds /\ g \notin GapRows
    BY <2>1, NewIdFacts, QuestionConstants DEF GapRows
  <2>3. gap' \in [GapIds -> Gaps \cup {NoRow}] /\ gap'[g] = row /\ \A h \in GapIds \ {g} : gap'[h] = gap[h]
    BY <1>1, <2>1, <2>2 DEF QuestionsInv, GapInv
  <2>4. GapRows' \subseteq GapRows \cup {g} /\ \A h \in GapRows : gap[h] # row
    BY <1>4, <2>3 DEF GapRows, HasGap
  <2>5. \A h \in GapRows' : h # g => h \in GapRows /\ gap'[h] = gap[h]
    BY <2>3, <2>4 DEF GapRows
  <2>6. ASSUME NEW h \in GapRows', NEW k \in GapRows', gap'[h] = gap'[k] PROVE h = k
    BY <2>3, <2>4, <2>5, <2>6 DEF QuestionsInv, GapInv
  <2>7. GapInv'
    BY <2>3, <2>6 DEF GapInv
  <2> QED BY <1>2, <2>2, <2>3, <2>7 DEF QuestionsInv, GapRows
<1> QED BY <1>1, <1>3, <1>4

LEMMA OpenFaqKeeps ==
  ASSUME QuestionsInv, NEW s \in Reviewers, NEW f \in FaqIds, NEW row \in Rows, OpenFaq(s, f, row)
  PROVE  QuestionsInv'
<1> DEFINE new == [at |-> "save", id |-> f, seen |-> faq[f], row |-> row]
<1>1. desk' = [desk EXCEPT ![s] = new] /\ f \in FaqRows /\ UNCHANGED <<faq, gap, ask>>
  BY DEF OpenFaq
<1>2. new \in Saving /\ new.at = "save" /\ new.id = f
  BY <1>1 DEF Saving, FaqRows, QuestionsInv, FaqInv
<1> HIDE DEF new
<1>3. desk' \in [Reviewers -> {NoDesk} \cup Saving \cup Resolving] /\ desk'[s] = new /\ \A t \in Reviewers \ {s} : desk'[t] = desk[t]
  BY <1>1, <1>2 DEF QuestionsInv, DeskInv
<1>4. FaqRows' = FaqRows
  BY <1>1 DEF FaqRows
<1>5. DeskInv'
  BY <1>1, <1>2, <1>3, <1>4 DEF QuestionsInv, DeskInv
<1> QED BY <1>1, <1>5 DEF QuestionsInv, FaqInv, GapInv, AskInv, FaqRows, GapRows

LEMMA OpenGapKeeps ==
  ASSUME QuestionsInv, NEW s \in Reviewers, NEW g \in GapIds, NEW q \in Questions, NEW text \in Texts, OpenGap(s, g, q, text)
  PROVE  QuestionsInv'
<1> DEFINE row == [question |-> q, text |-> text, active |-> TRUE]
           id == IF FaqOf(q) = {} THEN 0 ELSE CHOOSE f \in FaqOf(q) : TRUE
           seen == IF FaqOf(q) = {} THEN NoRow ELSE faq[CHOOSE f \in FaqOf(q) : TRUE]
           new == [at |-> "resolve", gap |-> g, row |-> row, id |-> id, seen |-> seen]
<1>1. desk' = [desk EXCEPT ![s] = new] /\ UNCHANGED <<faq, gap, ask>>
  BY DEF OpenGap
<1>2. row \in Rows /\ row.question = q /\ row.active
  BY DEF Rows
<1>3. /\ id \in FaqIds \cup {0} /\ seen \in Rows \cup {NoRow}
      /\ id # 0 => id \in FaqRows /\ seen \in Rows /\ seen.question = q /\ seen = faq[id]
  <2>1. CASE FaqOf(q) = {}
    BY <2>1
  <2>2. CASE FaqOf(q) # {}
    <3>1. id \in FaqOf(q) /\ seen = faq[id]
      BY <2>2
    <3> HIDE DEF id, seen
    <3>2. id \in FaqRows /\ faq[id].question = q /\ faq[id] \in Rows
      BY <3>1 DEF FaqOf, FaqRows, QuestionsInv, FaqInv
    <3> QED BY <3>1, <3>2 DEF FaqRows
  <2> QED BY <2>1, <2>2
<1> HIDE DEF row, id, seen
<1>4. new \in Resolving /\ new.at = "resolve" /\ new.gap = g /\ new.row = row /\ new.id = id /\ new.seen = seen
  BY <1>2, <1>3 DEF Resolving
<1> HIDE DEF new
<1>5. desk' \in [Reviewers -> {NoDesk} \cup Saving \cup Resolving] /\ desk'[s] = new /\ \A t \in Reviewers \ {s} : desk'[t] = desk[t]
  BY <1>1, <1>4 DEF QuestionsInv, DeskInv
<1>6. FaqRows' = FaqRows
  BY <1>1 DEF FaqRows
<1>7. DeskInv'
  BY <1>2, <1>3, <1>4, <1>5, <1>6 DEF QuestionsInv, DeskInv
<1> QED BY <1>1, <1>7 DEF QuestionsInv, FaqInv, GapInv, AskInv, FaqRows, GapRows

LEMMA SaveKeeps ==
  ASSUME QuestionsInv, NEW s \in Reviewers, SaveFaq(s)
  PROVE  QuestionsInv'
<1> DEFINE id == desk[s].id
           row == Written(faq[id], desk[s].seen, desk[s].row)
<1>1. /\ desk[s].at = "save" /\ FaqOf(row.question) \subseteq {id} /\ faq' = [faq EXCEPT ![id] = row]
      /\ desk' = [desk EXCEPT ![s] = NoDesk] /\ UNCHANGED <<gap, ask>>
  BY DEF SaveFaq
<1>2. desk[s] \in Saving /\ id \in FaqRows
  BY <1>1 DEF QuestionsInv, DeskInv, NoDesk, Resolving
<1>3. faq[id] \in Rows /\ id \in FaqIds /\ desk[s].seen \in Rows /\ desk[s].row \in Rows
  BY <1>2 DEF Saving, FaqRows, QuestionsInv, FaqInv
<1>4. row \in Rows
  BY <1>3, WrittenFacts
<1> HIDE DEF row, id
<1>5. FaqInv' /\ FaqRows' = FaqRows \cup {id}
  BY <1>1, <1>3, <1>4, FaqKeeps DEF QuestionsInv, FaqOf
<1>6. DeskInv'
  BY <1>1, <1>5, DeskKeeps DEF QuestionsInv
<1> QED BY <1>1, <1>5, <1>6 DEF QuestionsInv, GapInv, AskInv, GapRows

LEMMA CreateKeeps ==
  ASSUME QuestionsInv, NEW s \in Reviewers, NEW row \in Rows, CreateFaq(s, row)
  PROVE  QuestionsInv'
<1>1. PICK f \in NewId(FaqIds, FaqRows) : faq' = [faq EXCEPT ![f] = row]
  BY DEF CreateFaq
<1>2. FaqOf(row.question) = {} /\ UNCHANGED <<gap, ask, desk>>
  BY DEF CreateFaq
<1>3. f \in FaqIds
  BY DEF NewId
<1>4. FaqInv' /\ FaqRows' = FaqRows \cup {f}
  BY <1>1, <1>2, <1>3, FaqKeeps DEF QuestionsInv, FaqOf
<1>5. DeskInv'
  BY <1>2, <1>4 DEF QuestionsInv, DeskInv
<1> QED BY <1>2, <1>4, <1>5 DEF QuestionsInv, GapInv, AskInv, GapRows

(* A resolution leaves the row of a question what it was, and no second    *)
(* one of it.                                                              *)
LEMMA ResolveKeeps ==
  ASSUME QuestionsInv, NEW s \in Reviewers, ResolveFaq(s)
  PROVE  QuestionsInv'
<1>1. /\ desk[s].at = "resolve" /\ gap' = [gap EXCEPT ![desk[s].gap] = NoRow]
      /\ desk' = [desk EXCEPT ![s] = NoDesk] /\ UNCHANGED ask
  BY DEF ResolveFaq
<1>2. desk[s] \in Resolving
  BY <1>1 DEF QuestionsInv, DeskInv, NoDesk, Saving
<1>3. desk[s].gap \in GapIds /\ desk[s].row \in Rows /\ desk[s].id \in FaqIds \cup {0}
  BY <1>2 DEF Resolving
<1>4. GapInv'
  <2>1. gap' \in [GapIds -> Gaps \cup {NoRow}] /\ gap'[desk[s].gap] = NoRow
    BY <1>1, <1>3 DEF QuestionsInv, GapInv
  <2>2. \A h \in GapRows' : h \in GapRows /\ gap'[h] = gap[h]
    BY <1>1, <1>3, <2>1 DEF QuestionsInv, GapInv, GapRows
  <2> QED BY <2>1, <2>2 DEF QuestionsInv, GapInv
<1>5. \E f \in FaqIds, row \in Rows :
        faq' = [faq EXCEPT ![f] = row] /\ \A g \in FaqRows : faq[g].question = row.question => g = f
  <2>1. CASE desk[s].id = 0
    <3>1. FaqOf(desk[s].row.question) = {} /\ \E f \in NewId(FaqIds, FaqRows) : faq' = [faq EXCEPT ![f] = desk[s].row]
      BY <2>1 DEF ResolveFaq
    <3>2. PICK f \in NewId(FaqIds, FaqRows) : faq' = [faq EXCEPT ![f] = desk[s].row]
      BY <3>1
    <3>3. f \in FaqIds
      BY DEF NewId
    <3> QED BY <1>3, <3>1, <3>2, <3>3 DEF FaqOf
  <2>2. CASE desk[s].id # 0
    <3> DEFINE id == desk[s].id
               row == Written(faq[id], desk[s].seen, desk[s].row)
    <3>1. faq' = [faq EXCEPT ![id] = row]
      BY <2>2 DEF ResolveFaq
    <3>2. id \in FaqRows /\ desk[s].seen \in Rows /\ desk[s].seen.question = desk[s].row.question
      BY <1>1, <2>2 DEF QuestionsInv, DeskInv
    <3>3. id \in FaqIds /\ faq[id] \in Rows
      BY <3>2 DEF FaqRows, QuestionsInv, FaqInv
    <3>4. row \in Rows /\ row.question = faq[id].question
      BY <1>3, <3>2, <3>3, WrittenFacts
    <3> HIDE DEF row, id
    <3>5. \A g \in FaqRows : faq[g].question = row.question => g = id
      BY <3>2, <3>4 DEF QuestionsInv, FaqInv
    <3> QED BY <3>1, <3>3, <3>4, <3>5
  <2> QED BY <2>1, <2>2
<1>6. PICK f \in FaqIds, row \in Rows :
        faq' = [faq EXCEPT ![f] = row] /\ \A g \in FaqRows : faq[g].question = row.question => g = f
  BY <1>5
<1>7. FaqInv' /\ FaqRows' = FaqRows \cup {f}
  BY <1>6, FaqKeeps DEF QuestionsInv
<1>8. DeskInv'
  BY <1>1, <1>7, DeskKeeps DEF QuestionsInv
<1>9. AskInv'
  BY <1>1 DEF QuestionsInv, AskInv
<1> QED BY <1>4, <1>7, <1>8, <1>9 DEF QuestionsInv

LEMMA PurgeKeeps ==
  ASSUME QuestionsInv, NEW old \in SUBSET GapIds, PurgeGaps(old)
  PROVE  QuestionsInv'
<1>1. gap' = [g \in GapIds |-> IF g \in old THEN NoRow ELSE gap[g]] /\ UNCHANGED <<faq, ask, desk>>
  BY DEF PurgeGaps
<1>2. gap' \in [GapIds -> Gaps \cup {NoRow}] /\ \A g \in GapRows' : g \in GapRows /\ gap'[g] = gap[g]
  BY <1>1 DEF QuestionsInv, GapInv, GapRows
<1>3. GapInv'
  BY <1>2 DEF QuestionsInv, GapInv
<1> QED BY <1>1, <1>3 DEF QuestionsInv, FaqInv, AskInv, DeskInv, FaqRows

LEMMA QuestionsStep == QuestionsInv /\ [QuestionsNext]_questionVars => QuestionsInv'
<1> SUFFICES ASSUME QuestionsInv, [QuestionsNext]_questionVars PROVE QuestionsInv'
  OBVIOUS
<1>1. ASSUME NEW c \in Customers, EndSearch(c) PROVE QuestionsInv'
  <2>1. AskInv' /\ UNCHANGED <<faq, gap, desk>>
    BY <1>1, AskKeeps DEF EndSearch, QuestionsInv
  <2> QED BY <2>1 DEF QuestionsInv, FaqInv, GapInv, DeskInv, FaqRows, GapRows
<1>2. ASSUME NEW s \in Reviewers, DeskFails(s) PROVE QuestionsInv'
  <2>1. FaqRows' = FaqRows /\ desk' = [desk EXCEPT ![s] = NoDesk] /\ UNCHANGED <<faq, gap, ask>>
    BY <1>2 DEF DeskFails, FaqRows
  <2>2. DeskInv'
    BY <2>1, DeskKeeps DEF QuestionsInv
  <2> QED BY <2>1, <2>2 DEF QuestionsInv, FaqInv, GapInv, AskInv, FaqRows, GapRows
<1>3. CASE UNCHANGED questionVars
  BY <1>3 DEF questionVars, QuestionsInv, FaqInv, GapInv, AskInv, DeskInv, FaqRows, GapRows
<1> QED BY <1>1, <1>2, <1>3, SearchKeeps, RecordKeeps, OpenFaqKeeps, OpenGapKeeps, SaveKeeps, CreateKeeps, ResolveKeeps,
           PurgeKeeps DEF QuestionsNext

LEMMA QuestionsStart == QuestionsInit => QuestionsInv
<1> SUFFICES ASSUME QuestionsInit PROVE QuestionsInv
  OBVIOUS
<1>1. FaqRows = {} /\ GapRows = {}
  BY DEF QuestionsInit, FaqRows, GapRows
<1>2. FaqInv /\ GapInv
  BY <1>1 DEF QuestionsInit, FaqInv, GapInv
<1>3. AskInv /\ DeskInv
  BY DEF QuestionsInit, AskInv, DeskInv, NoAsk, NoDesk
<1> QED BY <1>2, <1>3 DEF QuestionsInv

LEMMA QuestionsAlways == QuestionsSpec => []QuestionsInv
  BY QuestionsStart, QuestionsStep, PTL DEF QuestionsSpec

(* One managed row for each question, whatever requests overlap, and one   *)
(* aggregate for each question and reason (the unique keys of the tables). *)
THEOREM QuestionsTypeSafety == QuestionsSpec => []QuestionsTypeOK
<1>1. QuestionsInv => QuestionsTypeOK
  <2> SUFFICES ASSUME QuestionsInv PROVE QuestionsTypeOK
    OBVIOUS
  <2>1. \A s \in Reviewers : desk[s].at \in {"none", "save", "resolve"}
    BY DEF QuestionsInv, DeskInv, NoDesk, Saving, Resolving
  <2> QED BY <2>1 DEF QuestionsInv, QuestionsTypeOK, FaqInv, GapInv, AskInv, Gaps
<1> QED BY <1>1, QuestionsAlways, PTL

(* The records a search may answer with are those that were approved.      *)
LEMMA ApprovedFacts ==
  ASSUME FaqInv, NEW q \in Questions
  PROVE  Exact(Matches(q), q) = Approved(q) /\ IsFiniteSet(Approved(q))
<1>1. <<q, q>> \in Contained
  BY QuestionsAssumption
<1>2. Exact(Matches(q), q) = Exact(Records, q)
  BY <1>1 DEF Exact, Matches
<1>3. CASE FaqOf(q) = {}
  <2>1. q \notin Overridden /\ \A r \in Managed : r.question # q
    BY <1>3 DEF FaqOf, Overridden, Managed
  <2>2. Exact(Records, q) = Exact(SourceFaq, q)
    BY <2>1 DEF Exact, Records
  <2>3. IsFiniteSet(Exact(SourceFaq, q))
    BY FS_Subset, QuestionsAssumption DEF Exact
  <2> QED BY <1>2, <1>3, <2>2, <2>3 DEF Approved
<1>4. CASE FaqOf(q) # {}
  <2>1. q \in Overridden
    BY <1>4 DEF FaqOf, Overridden
  <2>2. \A r \in Managed : r.question = q <=> r.id \in FaqOf(q)
    BY DEF Managed, FaqOf
  <2>3. Exact(Records, q) = {r \in Managed : r.id \in FaqOf(q)}
    BY <2>1, <2>2 DEF Exact, Records
  <2>4. PICK f \in FaqOf(q) : TRUE
    BY <1>4
  <2>5. FaqOf(q) = {f}
    BY <2>4 DEF FaqOf, FaqInv
  <2>6. {r \in Managed : r.id \in FaqOf(q)} \subseteq {[id |-> f, question |-> faq[f].question, text |-> faq[f].text]}
    BY <2>5 DEF Managed
  <2>7. IsFiniteSet({r \in Managed : r.id \in FaqOf(q)})
    <3>1. IsFiniteSet({[id |-> f, question |-> faq[f].question, text |-> faq[f].text]})
      BY FS_Singleton
    <3> QED BY ONLY <2>6, <3>1, FS_Subset, Zenon
  <2> QED BY <1>2, <1>4, <2>3, <2>7 DEF Approved
<1> QED BY <1>3, <1>4

(* The cut of a search never makes one exact record out of several.        *)
LEMMA CutFacts ==
  ASSUME FaqInv, NEW q \in Questions, NEW shown \in Shown(q)
  PROVE  IF Cardinality(Approved(q)) = 1 THEN Exact(shown, q) = Approved(q) ELSE Cardinality(Exact(shown, q)) # 1
<1> DEFINE all == Approved(q)
           some == Exact(shown, q)
<1>1. all = Exact(Matches(q), q) /\ IsFiniteSet(all)
  BY ApprovedFacts
<1>2. /\ shown \subseteq Matches(q) /\ (all \subseteq shown \/ shown \subseteq all)
      /\ Cardinality(shown) <= MaxShown
      /\ Cardinality(shown) < MaxShown => shown = Matches(q)
  BY <1>1 DEF Shown
<1>3. CASE all \subseteq shown
  <2>1. some = all
    BY <1>1, <1>2, <1>3 DEF Exact
  <2> QED BY <2>1
<1>4. CASE ~(all \subseteq shown)
  <2>1. shown \subseteq all /\ shown # Matches(q)
    BY <1>1, <1>2, <1>4 DEF Exact
  <2>2. some = shown
    BY <1>1, <2>1 DEF Exact
  <2>3. /\ IsFiniteSet(shown) /\ Cardinality(shown) <= Cardinality(all) /\ Cardinality(shown) \in Nat /\ Cardinality(all) \in Nat
    BY <1>1, <2>1, FS_Subset, FS_CardinalityType
  <2>4. Cardinality(shown) >= 2
    BY <1>2, <2>1, <2>3, QuestionsAssumption
  <2>5. Cardinality(some) # 1 /\ Cardinality(all) # 1
    BY <2>2, <2>3, <2>4
  <2> QED BY <2>5
<1> QED BY <1>3, <1>4

(* A search answers exactly when one approved text exists for its          *)
(* question, with that text (search_faq and FAQResponsePolicy).            *)
THEOREM ApprovedAreTold == QuestionsSpec => AnswersAreApproved
<1> DEFINE Tells == \A c \in Customers : ask[c] = NoAsk /\ ask'[c] # NoAsk =>
                      IF Cardinality(Approved(ask'[c].question)) = 1
                      THEN ask'[c].at = "told" /\ \E r \in Approved(ask'[c].question) : ask'[c].text = r.text
                      ELSE ask'[c].at = "record"
<1>1. ASSUME QuestionsInv, [QuestionsNext]_questionVars PROVE [Tells]_questionVars
  <2> SUFFICES ASSUME QuestionsNext, NEW c \in Customers, ask[c] = NoAsk, ask'[c] # NoAsk
               PROVE  IF Cardinality(Approved(ask'[c].question)) = 1
                      THEN ask'[c].at = "told" /\ \E r \in Approved(ask'[c].question) : ask'[c].text = r.text
                      ELSE ask'[c].at = "record"
    BY <1>1
  <2>1. PICK d \in Customers, q \in Questions : Search(d, q)
    <3>1. \A d \in Customers : ask' # [ask EXCEPT ![d] = NoAsk]
      BY <1>1 DEF QuestionsInv, AskInv
    <3> QED BY <3>1 DEF QuestionsNext, RecordGap, EndSearch, SaveFaq, ResolveFaq, DeskFails, CreateFaq, OpenFaq, OpenGap,
                        PurgeGaps
  <2>2. PICK shown \in Shown(q) : ask' = [ask EXCEPT ![d] = Reply(shown, q)]
    BY <2>1 DEF Search
  <2>3. ask'[c] = Reply(shown, q)
    <3>1. c = d
      BY <1>1, <2>2 DEF QuestionsInv, AskInv
    <3> QED BY <1>1, <2>2, <3>1 DEF QuestionsInv, AskInv
  <2>4. ask'[c].question = q
    BY <2>3 DEF Reply
  <2>5. FaqInv
    BY <1>1 DEF QuestionsInv
  <2>6. CASE Cardinality(Approved(q)) = 1
    <3>1. Exact(shown, q) = Approved(q) /\ IsFiniteSet(Approved(q))
      BY <2>5, <2>6, CutFacts, ApprovedFacts
    <3>2. PICK r \in Approved(q) : Approved(q) = {r}
      BY <2>6, <3>1, FS_Singleton
    <3>3. Reply(shown, q) = [at |-> "told", question |-> q, text |-> r.text]
      <4>1. (CHOOSE x \in Exact(shown, q) : TRUE) = r
        BY <3>1, <3>2
      <4> QED BY <2>6, <3>1, <4>1 DEF Reply
    <3> QED BY <2>3, <2>4, <2>6, <3>3
  <2>7. CASE Cardinality(Approved(q)) # 1
    <3>1. Cardinality(Exact(shown, q)) # 1
      BY <2>5, <2>7, CutFacts
    <3>2. Reply(shown, q).at = "record"
      BY <3>1 DEF Reply
    <3> QED BY <2>3, <2>4, <2>7, <3>2
  <2> QED BY <2>6, <2>7
<1> QED BY <1>1, QuestionsAlways, PTL DEF QuestionsSpec, AnswersAreApproved

(***************************************************************************)
(* The price parser. After the rows before step.next, a row that is filled *)
(* was kept or is blamed, and there is no issue exactly when those rows    *)
(* are sound together.                                                     *)
(***************************************************************************)
ReadRows(n) == {i \in Filled : i < n}
SoundRows(rows) == \A i \in rows : At(i).bad = {} /\ \A j \in rows \ {i} : At(i).key # At(j).key
Blamed(i) == \E issue \in issues : issue[1] = i
Ascending(s) == \A i, j \in 1..Len(s) : i < j => s[i] < s[j]

FileTypes == file = [rows |-> file.rows, flaw |-> file.flaw] /\ file.rows \in Seq(Contents)
NothingYet == kept = <<>> /\ issues = {}
Reading(n) ==
  /\ n \in Nat /\ n >= 1 /\ n <= Len(file.rows) + 1 /\ FileIssue = NoIssue
  /\ kept \in Seq(ReadRows(n)) /\ Ascending(kept)
  /\ \A i \in ToSet(kept) : At(i).bad = {}
  /\ \A i \in ReadRows(n) : i \in ToSet(kept) \/ Blamed(i)
  /\ (issues = {}) <=> SoundRows(ReadRows(n))

ParserInv ==
  /\ FileTypes
  /\ \/ step = [at |-> "write"] /\ NothingYet
     \/ step = [at |-> "rows", next |-> step.next] /\ Reading(step.next)
     \/ step = [at |-> "done"] /\ WholeOrNothing

LEMMA FilledFacts ==
  ASSUME FileTypes
  PROVE  /\ Len(file.rows) \in Nat /\ DOMAIN file.rows = 1..Len(file.rows) /\ Filled \subseteq 1..Len(file.rows)
         /\ \A n : ReadRows(n) \subseteq Filled
  BY DEF FileTypes, Filled, ReadRows

LEMMA FileIssueFacts ==
  FileIssue = NoIssue <=> (file.flaw = NoIssue /\ ~TooLong)
  BY PriceRowsAssumption DEF FileIssue, BeforePackage

LEMMA SoundFacts ==
  ASSUME FileTypes
  PROVE  Sound <=> (FileIssue = NoIssue /\ Filled # {} /\ SoundRows(Filled))
<1>1. Filled \subseteq 1..MaxRows <=> ~TooLong
  BY FilledFacts, PriceRowsAssumption DEF TooLong
<1> QED BY <1>1, FileIssueFacts DEF Sound, SoundRows

LEMMA CheckKeeps ==
  ASSUME ParserInv, CheckFile
  PROVE  ParserInv'
<1>1. FileTypes /\ NothingYet /\ UNCHANGED <<file, kept>> /\ FileTypes'
  BY DEF ParserInv, CheckFile, FileTypes
<1>2. Len(file.rows) \in Nat /\ DOMAIN file.rows = 1..Len(file.rows) /\ Filled \subseteq 1..Len(file.rows)
  BY <1>1, FilledFacts
<1>3. CASE FileIssue = NoIssue
  <2>1. step' = [at |-> "rows", next |-> 1] /\ UNCHANGED issues
    BY <1>3 DEF CheckFile
  <2>2. ReadRows(1) = {}
    <3>1. \A i \in Filled : ~(i < 1)
      BY <1>2
    <3> QED BY <3>1 DEF ReadRows
  <2>3. kept \in Seq({}) /\ Len(kept) = 0 /\ ToSet(kept) = {}
    BY <1>1 DEF NothingYet, ToSet
  <2>4. Reading(1)
    BY <1>1, <1>2, <1>3, <2>2, <2>3 DEF Reading, Ascending, SoundRows, NothingYet
  <2>5. Reading(1)'
    BY <1>1, <2>1, <2>4 DEF Reading, Ascending, SoundRows, ReadRows, Filled, At, Blamed, FileIssue, TooLong
  <2> QED BY <1>1, <2>1, <2>5 DEF ParserInv
<1>4. CASE FileIssue # NoIssue
  <2>1. step' = [at |-> "done"] /\ issues' = {<<0, FileIssue>>}
    BY <1>4 DEF CheckFile
  <2>2. ~Sound' /\ FileIssue' = FileIssue
    BY <1>1, <1>4, SoundFacts DEF Sound, Filled, At, FileIssue, TooLong
  <2>3. kept' = <<>> /\ issues' # {} /\ <<0, FileIssue'>> \in issues'
    BY <1>1, <2>1, <2>2 DEF NothingYet
  <2>4. WholeOrNothing'
    BY <2>2, <2>3 DEF WholeOrNothing
  <2> QED BY <1>1, <2>1, <2>4 DEF ParserInv
<1> QED BY <1>3, <1>4

LEMMA ReadKeeps ==
  ASSUME ParserInv, ReadPriceRow
  PROVE  ParserInv'
<1>1. PICK n \in Nat :
        /\ FileTypes /\ step = [at |-> "rows", next |-> n] /\ Reading(n) /\ n <= Len(file.rows)
        /\ UNCHANGED file /\ step' = [step EXCEPT !.next = n + 1]
  BY DEF ParserInv, ReadPriceRow, Reading
<1>2. step.next = n /\ step' = [at |-> "rows", next |-> n + 1] /\ step'.next = n + 1
  BY <1>1
<1>3. /\ n \in Nat /\ n >= 1 /\ FileIssue = NoIssue /\ kept \in Seq(ReadRows(n)) /\ Ascending(kept)
      /\ \A i \in ToSet(kept) : At(i).bad = {}
      /\ \A i \in ReadRows(n) : i \in ToSet(kept) \/ Blamed(i)
      /\ (issues = {}) <=> SoundRows(ReadRows(n))
  BY <1>1 DEF Reading
<1>4. /\ Len(file.rows) \in Nat /\ Filled \subseteq 1..Len(file.rows) /\ n \in 1..Len(file.rows)
      /\ n \in Filled <=> At(n) # Blank
      /\ ReadRows(n + 1) = IF n \in Filled THEN ReadRows(n) \cup {n} ELSE ReadRows(n)
  <2>1. Len(file.rows) \in Nat /\ DOMAIN file.rows = 1..Len(file.rows) /\ Filled \subseteq 1..Len(file.rows) /\ n \in 1..Len(file.rows)
    BY <1>1, <1>3, FilledFacts
  <2>2. ReadRows(n + 1) = IF n \in Filled THEN ReadRows(n) \cup {n} ELSE ReadRows(n)
    <3>1. \A i \in Filled : i \in Nat /\ (i < n + 1 <=> i < n \/ i = n)
      BY <1>3, <2>1
    <3> QED BY <3>1 DEF ReadRows
  <2> QED BY <2>1, <2>2 DEF Filled
<1>5. ToSet(kept) \subseteq ReadRows(n) /\ \A i \in ReadRows(n) : i < n /\ i \in Nat
  <2>1. \A i \in DOMAIN kept : kept[i] \in ReadRows(n)
    BY <1>3
  <2>2. \A i \in ReadRows(n) : i < n /\ i \in Nat
    BY <1>4 DEF ReadRows
  <2> QED BY <2>1, <2>2 DEF ToSet
<1> DEFINE After(k, old) == /\ k \in Seq(ReadRows(n + 1)) /\ Ascending(k)
                            /\ \A i \in ToSet(k) : At(i).bad = {}
                            /\ \A i \in ReadRows(n + 1) : i \in ToSet(k) \/ \E issue \in old : issue[1] = i
                            /\ (old = {}) <=> SoundRows(ReadRows(n + 1))
<1>6. SUFFICES After(kept', issues')
  <2>1. (After(kept', issues') /\ FileIssue = NoIssue) => Reading(n + 1)'
    <3>1. ReadRows(n + 1)' = ReadRows(n + 1) /\ FileIssue' = FileIssue /\ \A i : At(i)' = At(i)
      BY <1>1 DEF ReadRows, Filled, At, FileIssue, TooLong
    <3>2. \A rows : SoundRows(rows)' <=> SoundRows(rows)
      BY <3>1 DEF SoundRows
    <3>3. n + 1 \in Nat /\ n + 1 >= 1 /\ n + 1 <= Len(file'.rows) + 1
      BY <1>1, <1>3, <1>4
    <3>4. \A i : Blamed(i)' <=> \E issue \in issues' : issue[1] = i
      BY DEF Blamed
    <3> QED BY <3>1, <3>2, <3>3, <3>4 DEF Reading, Ascending
  <2>2. FileTypes'
    BY <1>1 DEF FileTypes
  <2> QED BY <1>2, <1>3, <2>1, <2>2 DEF ParserInv
<1>7. CASE n \notin Filled
  BY <1>2, <1>3, <1>4, <1>7 DEF ReadPriceRow, Blamed
<1>8. CASE n \in Filled /\ RowIssues(n) # {}
  <2>1. issues' = issues \cup RowIssues(n) /\ kept' = kept /\ ReadRows(n + 1) = ReadRows(n) \cup {n}
    BY <1>2, <1>4, <1>8 DEF ReadPriceRow
  <2>2. \E issue \in RowIssues(n) : issue[1] = n
    BY <1>8 DEF RowIssues
  <2>3. ~SoundRows(ReadRows(n) \cup {n})
    <3>1. CASE At(n).bad # {}
      BY <3>1 DEF SoundRows
    <3>2. CASE At(n).bad = {}
      <4>1. PICK i \in ToSet(kept) : At(i).key = At(n).key
        BY <1>8, <3>2 DEF RowIssues, KeysKept
      <4>2. i \in ReadRows(n) /\ i # n
        BY <1>3, <1>5, <4>1
      <4> QED BY <4>1, <4>2 DEF SoundRows
    <3> QED BY <3>1, <3>2
  <2>4. kept \in Seq(ReadRows(n) \cup {n})
    BY <1>3
  <2>5. issues' # {} /\ \A i \in ReadRows(n) \cup {n} : i \in ToSet(kept) \/ \E issue \in issues' : issue[1] = i
    BY <1>3, <2>1, <2>2 DEF Blamed
  <2> QED BY <1>3, <2>1, <2>3, <2>4, <2>5
<1>9. CASE n \in Filled /\ RowIssues(n) = {}
  <2>1. issues' = issues /\ kept' = Append(kept, n) /\ ReadRows(n + 1) = ReadRows(n) \cup {n}
    BY <1>2, <1>4, <1>9 DEF ReadPriceRow
  <2>2. At(n).bad = {} /\ \A i \in ToSet(kept) : At(i).key # At(n).key
    <3>1. At(n).bad = {}
      <4>1. \A field \in At(n).bad : <<n, field>> \in {<<n, other>> : other \in At(n).bad}
        OBVIOUS
      <4> QED BY <1>9, <4>1 DEF RowIssues
    <3>2. At(n).key \notin KeysKept
      BY <1>9, <3>1 DEF RowIssues
    <3> QED BY <3>1, <3>2 DEF KeysKept
  <2>3. kept \in Seq(ReadRows(n) \cup {n}) /\ n \in ReadRows(n) \cup {n}
    BY <1>3
  <2>4. /\ kept' \in Seq(ReadRows(n) \cup {n}) /\ Len(kept') = Len(kept) + 1 /\ kept'[Len(kept) + 1] = n
        /\ \A i \in 1..Len(kept) : kept'[i] = kept[i]
    BY <2>1, <2>3, AppendProperties
  <2>5. Len(kept) \in Nat /\ DOMAIN kept = 1..Len(kept) /\ DOMAIN kept' = 1..(Len(kept) + 1)
    BY <1>3, <2>4
  <2>6. ToSet(kept') = ToSet(kept) \cup {n}
    BY <2>4, <2>5 DEF ToSet
  <2>7. Ascending(kept')
    <3>1. \A i \in 1..Len(kept) : kept[i] < n
      BY <1>5, <2>5 DEF ToSet
    <3> QED BY <1>3, <2>4, <2>5, <3>1 DEF Ascending
  <2>8. (issues = {}) <=> SoundRows(ReadRows(n) \cup {n})
    <3>1. ASSUME issues = {} PROVE SoundRows(ReadRows(n) \cup {n})
      <4>1. \A i \in ReadRows(n) : i \in ToSet(kept)
        BY <1>3, <3>1 DEF Blamed
      <4> QED BY <1>3, <2>2, <3>1, <4>1 DEF SoundRows
    <3>2. ASSUME SoundRows(ReadRows(n) \cup {n}) PROVE issues = {}
      BY <1>3, <3>2 DEF SoundRows
    <3> QED BY <3>1, <3>2
  <2>9. \A i \in ReadRows(n) \cup {n} : i \in ToSet(kept') \/ \E issue \in issues' : issue[1] = i
    BY <1>3, <2>1, <2>6 DEF Blamed
  <2>10. \A i \in ToSet(kept') : At(i).bad = {}
    BY <1>3, <2>2, <2>6
  <2> QED BY <2>1, <2>4, <2>7, <2>8, <2>9, <2>10
<1> QED BY <1>7, <1>8, <1>9

LEMMA EndKeepsWhole ==
  ASSUME ParserInv, EndRows
  PROVE  ParserInv'
<1> DEFINE n == step.next
<1>1. /\ FileTypes /\ Reading(n) /\ UNCHANGED file /\ (n > Len(file.rows) \/ n > MaxRows) /\ step' = [at |-> "done"]
      /\ issues' = IF kept = <<>> /\ issues = {} THEN {<<0, "empty_data">>} ELSE issues
      /\ kept' = IF issues = {} THEN kept ELSE <<>>
  BY DEF ParserInv, EndRows, Result
<1>2. /\ n \in Nat /\ FileIssue = NoIssue /\ kept \in Seq(ReadRows(n)) /\ Ascending(kept)
      /\ \A i \in ToSet(kept) : At(i).bad = {}
      /\ \A i \in ReadRows(n) : i \in ToSet(kept) \/ Blamed(i)
      /\ (issues = {}) <=> SoundRows(ReadRows(n))
  BY <1>1 DEF Reading
<1> HIDE DEF n
<1>3. Len(file.rows) \in Nat /\ Filled \subseteq 1..Len(file.rows)
  BY <1>1, FilledFacts
<1>4. ReadRows(n) = Filled
  <2>1. \A i \in Filled : i < n
    BY <1>1, <1>2, <1>3, FileIssueFacts, PriceRowsAssumption DEF TooLong
  <2> QED BY <2>1 DEF ReadRows
<1>5. DOMAIN kept = 1..Len(kept) /\ Len(kept) \in Nat /\ ToSet(kept) \subseteq Filled
  BY <1>2, <1>4 DEF ToSet
<1>6. kept = <<>> <=> ToSet(kept) = {}
  <2>1. kept = <<>> => ToSet(kept) = {}
    BY DEF ToSet
  <2>2. kept # <<>> => 1 \in DOMAIN kept
    BY <1>2
  <2> QED BY <2>1, <2>2 DEF ToSet
<1>7. issues = {} => ToSet(kept) = Filled
  BY <1>2, <1>4, <1>5 DEF Blamed
<1>8. issues' = {} <=> Sound
  BY <1>1, <1>2, <1>4, <1>6, <1>7, SoundFacts
<1>9. IF Sound THEN ToSet(kept') = Filled /\ \A i, j \in DOMAIN kept' : i < j => kept'[i] < kept'[j] ELSE kept' = <<>>
  <2>1. CASE Sound
    BY <1>1, <1>2, <1>4, <1>5, <1>7, <2>1, SoundFacts DEF Ascending
  <2>2. CASE ~Sound
    BY <1>1, <1>2, <1>4, <1>6, <1>7, <2>2, SoundFacts
  <2> QED BY <2>1, <2>2
<1>10. ASSUME NEW i \in Filled PROVE At(i).bad = {} \/ \E issue \in issues' : issue[1] = i
  <2>1. i \in ToSet(kept) \/ \E issue \in issues : issue[1] = i
    BY <1>2, <1>4 DEF Blamed
  <2>2. issues \subseteq issues'
    BY <1>1
  <2> QED BY <1>2, <2>1, <2>2
<1>11. Sound' = Sound /\ Filled' = Filled /\ \A i : At(i)' = At(i)
  BY <1>1 DEF Sound, Filled, At
<1>12. WholeOrNothing'
  BY <1>8, <1>9, <1>10, <1>11 DEF WholeOrNothing
<1>13. FileTypes'
  BY <1>1 DEF FileTypes
<1> QED BY <1>1, <1>12, <1>13 DEF ParserInv

(* A workbook is imported whole, in the order of its rows, or not at all,  *)
(* and one that is refused names every row to blame (parse_price_import).  *)
THEOREM ImportsAreWhole == ParserSpec => []WholeOrNothing
<1>1. ParserInit => ParserInv
  BY DEF ParserInit, ParserInv, FileTypes, NothingYet
<1>2. ASSUME ParserInv, [ParserNext]_parserVars PROVE ParserInv'
  <2>1. ASSUME NEW row \in Contents, WriteRow(row) PROVE ParserInv'
    <3>1. FileTypes /\ file' = [file EXCEPT !.rows = Append(file.rows, row)] /\ UNCHANGED <<step, kept, issues>>
          /\ step = [at |-> "write"] /\ NothingYet
      BY <1>2, <2>1 DEF WriteRow, ParserInv
    <3>2. Append(file.rows, row) \in Seq(Contents)
      BY <3>1, AppendProperties DEF FileTypes
    <3>3. file' = [rows |-> Append(file.rows, row), flaw |-> file.flaw]
      BY <3>1 DEF FileTypes
    <3>4. FileTypes'
      BY <3>2, <3>3 DEF FileTypes
    <3> QED BY <3>1, <3>4 DEF ParserInv, NothingYet
  <2>2. CASE UNCHANGED parserVars
    BY <1>2, <2>2 DEF parserVars, ParserInv, FileTypes, NothingYet, Reading, WholeOrNothing, Ascending, SoundRows, ReadRows,
                      Filled, At, Blamed, FileIssue, TooLong, Sound
  <2> QED BY <1>2, <2>1, <2>2, CheckKeeps, ReadKeeps, EndKeepsWhole DEF ParserNext
<1>3. ParserInv => WholeOrNothing
  BY DEF ParserInv, WholeOrNothing
<1> QED BY <1>1, <1>2, <1>3, PTL DEF ParserSpec

(***************************************************************************)
(* Pages. Of the rows that were there when a walk began, those that were   *)
(* not shown yet stand behind the page that is shown, in the whole list    *)
(* (Owed); what a page shows of the whole list does not depend on how many *)
(* rows were fetched of each table.                                        *)
(***************************************************************************)
Triples == Nat \X Nat \X Nat
FrontOf(row, rows) == {other \in rows : Before(other, row)}
WholeList(list) == IF list = "inbox" THEN Inbox ELSE UNION {Receipts(t) : t \in Tables}

(* The least of a set of natural numbers.                                  *)
LEMMA LeastNumber ==
  ASSUME NEW T \in SUBSET Nat, T # {}
  PROVE  \E n \in T : \A m \in T : n <= m
<1>1. \E n \in T : \A m \in T : ~(<<m, n>> \in OpToRel(<, Nat))
  BY NatLessThanWellFounded, WFMin
<1>2. \A m, n \in Nat : <<m, n>> \in OpToRel(<, Nat) <=> m < n
  BY DEF OpToRel
<1>3. PICK n \in T : \A m \in T : ~(<<m, n>> \in OpToRel(<, Nat))
  BY <1>1
<1>4. n \in T /\ \A m \in T : ~(m < n)
  BY <1>2, <1>3, Zenon
<1> QED BY <1>4

LEMMA BeforeOrder ==
  ASSUME NEW a \in Triples, NEW b \in Triples, NEW c \in Triples
  PROVE  /\ ~Before(a, a)
         /\ Before(a, b) /\ Before(b, c) => Before(a, c)
         /\ Before(a, b) => ~Before(b, a)
  BY DEF Triples, Before

(* Places are numbers, and grow along the order.                           *)
LEMMA PlaceFacts ==
  ASSUME NEW rows \in SUBSET Triples, IsFiniteSet(rows), NEW row \in Triples
  PROVE  /\ IsFiniteSet(FrontOf(row, rows)) /\ Place(row, rows) = Cardinality(FrontOf(row, rows)) /\ Place(row, rows) \in Nat
         /\ row \in rows => Place(row, rows) < Cardinality(rows)
<1>1. FrontOf(row, rows) \subseteq rows
  BY DEF FrontOf
<1>2. IsFiniteSet(FrontOf(row, rows)) /\ Cardinality(FrontOf(row, rows)) \in Nat /\ Cardinality(rows) \in Nat
  BY <1>1, FS_Subset, FS_CardinalityType
<1>3. Place(row, rows) = Cardinality(FrontOf(row, rows))
  BY DEF Place, FrontOf
<1>4. ASSUME row \in rows PROVE Place(row, rows) < Cardinality(rows)
  <2>1. row \notin FrontOf(row, rows)
    BY BeforeOrder DEF FrontOf
  <2>2. Cardinality(FrontOf(row, rows)) <= Cardinality(rows) /\ Cardinality(FrontOf(row, rows)) # Cardinality(rows)
    BY <1>1, <1>4, <2>1, FS_Subset
  <2> QED BY <1>2, <1>3, <2>2
<1> QED BY <1>2, <1>3, <1>4

LEMMA PlaceGrows ==
  ASSUME NEW rows \in SUBSET Triples, IsFiniteSet(rows), NEW others \in SUBSET Triples, IsFiniteSet(others),
         NEW row \in Triples, NEW after \in Triples, FrontOf(row, rows) \subseteq FrontOf(after, others)
  PROVE  /\ Place(row, rows) <= Place(after, others)
         /\ FrontOf(row, rows) # FrontOf(after, others) => Place(row, rows) < Place(after, others)
<1>1. /\ IsFiniteSet(FrontOf(after, others)) /\ Place(row, rows) = Cardinality(FrontOf(row, rows))
      /\ Place(after, others) = Cardinality(FrontOf(after, others)) /\ Place(row, rows) \in Nat /\ Place(after, others) \in Nat
  BY PlaceFacts
<1>2. /\ Cardinality(FrontOf(row, rows)) <= Cardinality(FrontOf(after, others))
      /\ Cardinality(FrontOf(row, rows)) = Cardinality(FrontOf(after, others)) => FrontOf(row, rows) = FrontOf(after, others)
  BY <1>1, FS_Subset
<1> QED BY <1>1, <1>2

(* A table of which not all rows are among the first n + 1 has as many.    *)
LEMMA FirstRows ==
  ASSUME NEW rows \in SUBSET Triples, IsFiniteSet(rows), NEW n \in Nat, NEW first, first = {row \in rows : Place(row, rows) <= n},
         first # rows
  PROVE  IsFiniteSet(first) /\ Cardinality(first) > n
<1> DEFINE late == rows \ first
           places == {Place(row, rows) : row \in late}
<1>1. \A row \in rows : row \in Triples /\ Place(row, rows) \in Nat
  BY PlaceFacts
<1>2. PICK row \in late : \A other \in late : Place(row, rows) <= Place(other, rows)
  <2>1. places \in SUBSET Nat /\ places # {}
    BY <1>1
  <2>2. PICK k \in places : \A m \in places : k <= m
    BY <2>1, LeastNumber
  <2> QED BY <2>2
<1>3. FrontOf(row, rows) \subseteq first
  <2> SUFFICES ASSUME NEW other \in rows, Before(other, row), other \in late PROVE FALSE
    BY DEF FrontOf
  <2>1. FrontOf(other, rows) \subseteq FrontOf(row, rows) /\ other \in FrontOf(row, rows) /\ other \notin FrontOf(other, rows)
    BY <1>1, BeforeOrder DEF FrontOf
  <2>2. Place(other, rows) < Place(row, rows)
    BY <1>1, <2>1, PlaceGrows
  <2> QED BY <1>1, <1>2, <2>2
<1>4. IsFiniteSet(first) /\ Cardinality(first) \in Nat
  BY FS_Subset, FS_CardinalityType
<1>5. Cardinality(FrontOf(row, rows)) <= Cardinality(first)
  BY <1>3, <1>4, FS_Subset
<1>6. Place(row, rows) = Cardinality(FrontOf(row, rows)) /\ Place(row, rows) > n /\ Place(row, rows) \in Nat
  BY <1>1, PlaceFacts
<1> QED BY <1>4, <1>5, <1>6

Lists == {"receipts", "inbox"}
PagesTypes ==
  /\ now \in Nat /\ receipt \in [Tables \X AuditIds -> Nat]
  /\ thread \in [Threads -> {NoThread} \cup [help : Nat, active : 0..now]]
  /\ walk = [list |-> walk.list, offset |-> walk.offset, more |-> walk.more, due |-> walk.due, seen |-> walk.seen]
  /\ walk.list \in Lists /\ walk.offset \in Nat /\ walk.more \in BOOLEAN
  /\ \A list \in Lists : IsFiniteSet(WholeList(list))

(* Whoever is due and was not seen stands behind the page that is shown.   *)
Owed == \A name \in walk.due \ walk.seen : \E row \in WholeList(walk.list) :
          NameOf(walk.list, row) = name /\ Place(row, WholeList(walk.list)) >= walk.offset + PageSize

PagesInv == PagesTypes /\ Owed /\ WalkTellsAll

LEMMA PagesConstants ==
  /\ Tables \subseteq Nat /\ Conversation \in Tables /\ AuditIds \subseteq Nat /\ Threads \subseteq Nat
  /\ PageSize \in Nat /\ PageSize >= 1 /\ MaxOffset \in Nat /\ NoThread \notin [help : Nat, active : Nat]
  BY PagesAssumption

LEMMA RowFacts ==
  ASSUME PagesTypes
  PROVE  /\ \A list \in Lists : WholeList(list) \in SUBSET Triples
         /\ \A t \in Tables : Receipts(t) \subseteq WholeList("receipts")
         /\ WholeList("inbox") = Inbox /\ WholeList("receipts") = UNION {Receipts(t) : t \in Tables}
<1>1. \A t \in Tables : Receipts(t) \subseteq Triples
  <2> SUFFICES ASSUME NEW t \in Tables, NEW i \in AuditIds PROVE <<receipt[<<t, i>>], t, i>> \in Triples
    BY DEF Receipts
  <2>1. receipt[<<t, i>>] \in Nat /\ t \in Nat /\ i \in Nat
    BY PagesConstants DEF PagesTypes
  <2> QED BY <2>1 DEF Triples
<1>2. Inbox \subseteq Triples
  <2> SUFFICES ASSUME NEW c \in Threads, thread[c] # NoThread PROVE <<thread[c].help, thread[c].active, c>> \in Triples
    BY DEF Inbox
  <2>1. thread[c] \in [help : Nat, active : 0..now]
    BY DEF PagesTypes
  <2>2. thread[c].help \in Nat /\ thread[c].active \in Nat /\ c \in Nat
    BY <2>1, PagesConstants DEF PagesTypes
  <2> QED BY <2>2 DEF Triples
<1>3. WholeList("inbox") = Inbox /\ WholeList("receipts") = UNION {Receipts(t) : t \in Tables}
  BY DEF WholeList
<1> QED BY <1>1, <1>2, <1>3 DEF Lists

(* A row that is on the page's places of the whole list is on the page.    *)
LEMMA PageShows ==
  ASSUME PagesTypes, NEW list \in Lists, NEW o \in Nat, NEW row \in WholeList(list),
         Place(row, WholeList(list)) \in o..(o + PageSize - 1)
  PROVE  row \in Page(RowsOf(list, o), o)
<1> DEFINE whole == WholeList(list)
           rows == RowsOf(list, o)
<1>1. whole \in SUBSET Triples /\ IsFiniteSet(whole) /\ row \in Triples /\ PageSize \in Nat
  BY RowFacts, PagesConstants DEF PagesTypes
<1>2. CASE list = "inbox"
  BY <1>2 DEF WholeList, RowsOf, Page
<1>3. CASE list = "receipts"
  <2>1. \A t \in Tables : /\ Receipts(t) \in SUBSET Triples /\ IsFiniteSet(Receipts(t)) /\ Receipts(t) \subseteq whole
                          /\ Fetched(t, o) \subseteq Receipts(t)
    BY <1>1, <1>3, RowFacts, FS_Subset DEF Fetched
  <2>2. \A t \in Tables : \A other \in Receipts(t) : other = row \/ Before(other, row) => other \in Fetched(t, o)
    <3> SUFFICES ASSUME NEW t \in Tables, NEW other \in Receipts(t), other = row \/ Before(other, row)
                 PROVE  Place(other, Receipts(t)) <= o + PageSize
      BY DEF Fetched
    <3>1. FrontOf(other, Receipts(t)) \subseteq FrontOf(row, whole)
      <4> SUFFICES ASSUME NEW first \in Receipts(t), Before(first, other) PROVE Before(first, row)
        BY <2>1 DEF FrontOf
      <4> QED BY <1>1, <2>1, BeforeOrder
    <3>2. Place(other, Receipts(t)) <= Place(row, whole)
      BY <1>1, <2>1, <3>1, PlaceGrows
    <3>3. Place(other, Receipts(t)) \in Nat /\ Place(row, whole) \in Nat
      BY <1>1, <2>1, PlaceFacts
    <3> QED BY <1>1, <3>2, <3>3
  <2>3. rows = UNION {Fetched(t, o) : t \in Tables} /\ whole = UNION {Receipts(t) : t \in Tables}
    BY <1>3 DEF RowsOf, WholeList
  <2>4. row \in rows /\ FrontOf(row, rows) = FrontOf(row, whole)
    <3>1. rows \subseteq whole
      BY <2>1, <2>3
    <3>2. \A other \in whole : other = row \/ Before(other, row) => other \in rows
      BY <2>2, <2>3
    <3> QED BY <3>1, <3>2 DEF FrontOf
  <2>5. Place(row, rows) = Place(row, whole)
    BY <2>4 DEF Place, FrontOf
  <2> QED BY <2>4, <2>5 DEF Page
<1> QED BY <1>2, <1>3 DEF Lists

(* Where no more is found, no row stands behind the page.                  *)
LEMMA LastPage ==
  ASSUME PagesTypes, NEW list \in Lists, NEW o \in Nat, ~More(list, o), NEW row \in WholeList(list)
  PROVE  Place(row, WholeList(list)) < o + PageSize
<1> DEFINE whole == WholeList(list)
           rows == RowsOf(list, o)
<1>1. whole \in SUBSET Triples /\ IsFiniteSet(whole) /\ PageSize \in Nat
  BY RowFacts, PagesConstants DEF PagesTypes
<1>2. rows = whole
  <2>1. CASE list = "inbox"
    BY <2>1 DEF WholeList, RowsOf
  <2>2. CASE list = "receipts"
    <3>1. \A t \in Tables : /\ Receipts(t) \in SUBSET Triples /\ IsFiniteSet(Receipts(t)) /\ Receipts(t) \subseteq whole
                            /\ Fetched(t, o) \subseteq Receipts(t)
      BY <1>1, <2>2, RowFacts, FS_Subset DEF Fetched
    <3>2. rows = UNION {Fetched(t, o) : t \in Tables} /\ whole = UNION {Receipts(t) : t \in Tables}
      BY <2>2 DEF RowsOf, WholeList
    <3>3. IsFiniteSet(rows) /\ Cardinality(rows) \in Nat /\ Cardinality(rows) <= o + PageSize
      <4>1. rows \subseteq whole
        BY <3>1, <3>2
      <4>2. IsFiniteSet(rows) /\ Cardinality(rows) \in Nat
        BY <1>1, <4>1, FS_Subset, FS_CardinalityType
      <4> QED BY <1>1, <4>2 DEF More
    <3>4. \A t \in Tables : Fetched(t, o) = Receipts(t)
      <4> SUFFICES ASSUME NEW t \in Tables, Fetched(t, o) # Receipts(t) PROVE FALSE
        OBVIOUS
      <4>1. IsFiniteSet(Fetched(t, o)) /\ Cardinality(Fetched(t, o)) > o + PageSize
        <5>1. Fetched(t, o) = {r \in Receipts(t) : Place(r, Receipts(t)) <= o + PageSize} /\ o + PageSize \in Nat
          BY <1>1 DEF Fetched
        <5> QED BY <3>1, <5>1, FirstRows
      <4>2. Cardinality(Fetched(t, o)) <= Cardinality(rows) /\ Cardinality(Fetched(t, o)) \in Nat
        <5>1. Fetched(t, o) \subseteq rows
          BY <3>2
        <5> QED BY <3>3, <4>1, <5>1, FS_Subset, FS_CardinalityType
      <4> QED BY <1>1, <3>3, <4>1, <4>2
    <3> QED BY <3>2, <3>4
  <2> QED BY <2>1, <2>2 DEF Lists
<1>3. Place(row, whole) < Cardinality(whole) /\ Place(row, whole) \in Nat /\ Cardinality(whole) \in Nat
  BY <1>1, PlaceFacts, FS_CardinalityType
<1>4. Cardinality(whole) <= o + PageSize
  BY <1>1, <1>2, <1>3 DEF More
<1> QED BY <1>1, <1>3, <1>4

(* A page that begins where every name that is owed stands tells the names *)
(* that are on it, and owes the others.                                    *)
LEMMA TurnKeeps ==
  ASSUME PagesTypes, NEW o \in Nat, NEW due, NEW old, UNCHANGED <<now, receipt, thread>>,
         \A name \in due \ old : \E row \in WholeList(walk.list) :
            NameOf(walk.list, row) = name /\ Place(row, WholeList(walk.list)) >= o,
         walk' = [list |-> walk.list, offset |-> o, more |-> Offered(walk.list, o), due |-> due,
                  seen |-> old \cup Names(walk.list, Page(RowsOf(walk.list, o), o))]
  PROVE  PagesInv'
<1> DEFINE list == walk.list
           whole == WholeList(list)
           shown == Names(list, Page(RowsOf(list, o), o))
<1>1. /\ walk'.list = list /\ walk'.offset = o /\ walk'.more = Offered(list, o) /\ walk'.due = due
      /\ walk'.seen = old \cup shown /\ list \in Lists
  BY DEF PagesTypes
<1>2. \A l : WholeList(l)' = WholeList(l)
  BY DEF WholeList, Inbox, Receipts
<1>3. PagesTypes'
  <2>1. Offered(list, o) \in BOOLEAN
    BY DEF Offered, More
  <2> QED BY <1>1, <1>2, <2>1 DEF PagesTypes
<1>4. \A row \in whole : Place(row, whole) \in Nat
  BY <1>1, RowFacts, PlaceFacts DEF PagesTypes
<1>5. \A name \in due \ (old \cup shown) : \E row \in whole : NameOf(list, row) = name /\ Place(row, whole) >= o + PageSize
  <2> SUFFICES ASSUME NEW name \in due \ old, name \notin shown
               PROVE  \E row \in whole : NameOf(list, row) = name /\ Place(row, whole) >= o + PageSize
    OBVIOUS
  <2>1. PICK row \in whole : NameOf(list, row) = name /\ Place(row, whole) >= o
    OBVIOUS
  <2>2. row \notin Page(RowsOf(list, o), o)
    BY <2>1 DEF Names
  <2>3. Place(row, whole) \notin o..(o + PageSize - 1)
    BY <1>1, <2>2, PageShows
  <2> QED BY <1>4, <2>1, <2>3, PagesConstants
<1>6. Owed'
  BY <1>1, <1>2, <1>5 DEF Owed, NameOf, Place
<1>7. WalkTellsAll'
  <2> SUFFICES ASSUME ~Offered(list, o), o + PageSize <= MaxOffset, NEW name \in due \ (old \cup shown) PROVE FALSE
    BY <1>1 DEF WalkTellsAll
  <2>1. ~More(list, o)
    BY DEF Offered
  <2>2. PICK row \in whole : Place(row, whole) >= o + PageSize
    BY <1>5
  <2>3. Place(row, whole) < o + PageSize
    BY <1>1, <2>1, LastPage
  <2> QED BY <1>4, <2>2, <2>3, PagesConstants
<1> QED BY <1>3, <1>6, <1>7 DEF PagesInv

LEMMA RowsAreTriples == PagesTypes => \A list \in Lists : WholeList(list) \in SUBSET Triples
  BY RowFacts
LEMMA RowsStayTriples == (PagesTypes => \A list \in Lists : WholeList(list) \in SUBSET Triples)'
  BY RowsAreTriples, PTL
LEMMA NextRows ==
  ASSUME PagesTypes', NEW CONSTANT list \in Lists
  PROVE  WholeList(list)' \in SUBSET Triples /\ IsFiniteSet(WholeList(list)')
  BY RowsStayTriples DEF PagesTypes, Lists

(* The rows may change, if every row that is still due keeps a place that  *)
(* is no earlier.                                                          *)
LEMMA ChangeKeeps ==
  ASSUME NEW CONSTANT list \in Lists, walk.list = list, PagesInv, PagesTypes', NEW away,
         walk' = [walk EXCEPT !.due = @ \ away],
         \A row \in WholeList(list) : NameOf(list, row) \notin away =>
            \E later \in WholeList(list)' : /\ NameOf(list, later) = NameOf(list, row)
                                            /\ Place(row, WholeList(list)) <= Place(later, WholeList(list)')
  PROVE  PagesInv'
<1>1. /\ walk'.list = list /\ walk'.offset = walk.offset /\ walk'.more = walk.more /\ walk'.seen = walk.seen
      /\ walk'.due = walk.due \ away /\ walk.offset \in Nat /\ PageSize \in Nat
  BY PagesConstants DEF PagesInv, PagesTypes
<1>2. ASSUME NEW name \in walk'.due \ walk'.seen
      PROVE  \E row \in WholeList(list)' : NameOf(list, row) = name /\ Place(row, WholeList(list)') >= walk'.offset + PageSize
  <2>1. name \in walk.due \ walk.seen /\ name \notin away
    BY <1>1
  <2>2. PICK row \in WholeList(list) : NameOf(list, row) = name /\ Place(row, WholeList(list)) >= walk.offset + PageSize
    BY <2>1 DEF PagesInv, Owed
  <2>3. PICK later \in WholeList(list)' : /\ NameOf(list, later) = NameOf(list, row)
                                          /\ Place(row, WholeList(list)) <= Place(later, WholeList(list)')
    BY <2>1, <2>2
  <2>4. Place(row, WholeList(list)) \in Nat /\ Place(later, WholeList(list)') \in Nat
    <3>1. WholeList(list) \in SUBSET Triples /\ IsFiniteSet(WholeList(list))
      BY RowFacts DEF PagesInv, PagesTypes
    <3>2. WholeList(list)' \in SUBSET Triples /\ IsFiniteSet(WholeList(list)')
      BY NextRows
    <3> QED BY <3>1, <3>2, PlaceFacts
  <2> QED BY <1>1, <2>2, <2>3, <2>4
<1>3. Owed'
  BY <1>1, <1>2 DEF Owed
<1>4. WalkTellsAll'
  BY <1>1 DEF WalkTellsAll, PagesInv
<1> QED BY <1>3, <1>4 DEF PagesInv

(* A change of the rows that touches none in front of those still due.     *)
LEMMA FrontKeeps ==
  ASSUME NEW CONSTANT list \in Lists, walk.list = list, PagesInv, PagesTypes', NEW away,
         walk' = [walk EXCEPT !.due = @ \ away],
         \A row \in WholeList(list) : NameOf(list, row) \notin away =>
            row \in WholeList(list)' /\ FrontOf(row, WholeList(list)) \subseteq WholeList(list)'
  PROVE  PagesInv'
<1>1. WholeList(list) \in SUBSET Triples /\ IsFiniteSet(WholeList(list))
  BY RowFacts DEF PagesInv, PagesTypes
<1>2. WholeList(list)' \in SUBSET Triples /\ IsFiniteSet(WholeList(list)')
  BY NextRows
<1>3. ASSUME NEW row \in WholeList(list), NameOf(list, row) \notin away
      PROVE  Place(row, WholeList(list)) <= Place(row, WholeList(list)')
  <2>1. FrontOf(row, WholeList(list)) \subseteq FrontOf(row, WholeList(list)')
    BY <1>3 DEF FrontOf
  <2> QED BY <1>1, <1>2, <2>1, PlaceGrows
<1> QED BY <1>3, ChangeKeeps

LEMMA ReceiptRows ==
  \A row : row \in WholeList("receipts") <=>
             \E t \in Tables, i \in AuditIds : receipt[<<t, i>>] # 0 /\ row = <<receipt[<<t, i>>], t, i>>
<1>1. \A row : row \in WholeList("receipts") <=> \E t \in Tables : row \in Receipts(t)
  BY DEF WholeList
<1>2. \A t : \A row : row \in Receipts(t) <=> \E i \in AuditIds : receipt[<<t, i>>] # 0 /\ row = <<receipt[<<t, i>>], t, i>>
  BY DEF Receipts
<1> QED BY <1>1, <1>2, Zenon
LEMMA NextReceiptRows ==
  (\A row : row \in WholeList("receipts") <=>
              \E t \in Tables, i \in AuditIds : receipt[<<t, i>>] # 0 /\ row = <<receipt[<<t, i>>], t, i>>)'
  BY ReceiptRows, PTL
LEMMA InboxRows ==
  \A row : row \in WholeList("inbox") <=>
             \E c \in Threads : thread[c] # NoThread /\ row = <<thread[c].help, thread[c].active, c>>
  BY DEF WholeList, Inbox
LEMMA NextInboxRows ==
  \A row : row \in WholeList("inbox")' <=>
             \E c \in Threads : thread'[c] # NoThread /\ row = <<thread'[c].help, thread'[c].active, c>>
  BY DEF WholeList, Inbox

LEMMA AddKeeps ==
  ASSUME PagesInv, NEW t \in Tables, NEW i \in AuditIds, AddReceipt(t, i)
  PROVE  PagesInv'
<1> DEFINE rows == WholeList("receipts")
           new == <<now, t, i>>
<1>1. /\ PagesTypes /\ walk.list = "receipts" /\ UNCHANGED <<now, thread, walk>>
      /\ receipt' = [receipt EXCEPT ![<<t, i>>] = now]
  BY DEF PagesInv, AddReceipt, Reads
<1>2. receipt[<<t, i>>] = 0
  <2> SUFFICES ASSUME receipt[<<t, i>>] # 0 PROVE FALSE
    OBVIOUS
  <2>1. i < i /\ i \in Nat
    BY PagesConstants DEF AddReceipt, NextAudit
  <2> QED BY <2>1
<1>3. \A u \in Tables, j \in AuditIds : receipt'[<<u, j>>] = IF u = t /\ j = i THEN now ELSE receipt[<<u, j>>]
  BY <1>1 DEF PagesTypes
<1>4. rows \subseteq WholeList("receipts")' /\ WholeList("receipts")' \subseteq rows \cup {new}
  <2>1. ASSUME NEW row \in rows PROVE row \in WholeList("receipts")'
    <3>1. PICK u \in Tables, j \in AuditIds : receipt[<<u, j>>] # 0 /\ row = <<receipt[<<u, j>>], u, j>>
      BY ReceiptRows
    <3>2. receipt'[<<u, j>>] = receipt[<<u, j>>]
      BY <1>2, <1>3, <3>1
    <3> QED BY <3>1, <3>2, NextReceiptRows
  <2>2. ASSUME NEW row \in WholeList("receipts")' PROVE row \in rows \/ row = new
    <3>1. PICK u \in Tables, j \in AuditIds : receipt'[<<u, j>>] # 0 /\ row = <<receipt'[<<u, j>>], u, j>>
      BY NextReceiptRows
    <3>2. receipt'[<<u, j>>] = receipt[<<u, j>>] \/ row = new
      BY <1>3, <3>1
    <3> QED BY <3>1, <3>2, ReceiptRows
  <2> QED BY <2>1, <2>2
<1>5. WholeList("inbox")' = WholeList("inbox")
  BY <1>1 DEF WholeList, Inbox
<1>6. PagesTypes'
  <2>1. IsFiniteSet(WholeList("receipts")') /\ IsFiniteSet(WholeList("inbox")')
    <3>1. IsFiniteSet(rows) /\ IsFiniteSet(WholeList("inbox"))
      BY <1>1 DEF PagesTypes, Lists
    <3>2. IsFiniteSet(rows \cup {new})
      BY <3>1, FS_AddElement
    <3> QED BY <1>4, <1>5, <3>1, <3>2, FS_Subset
  <2>2. receipt' \in [Tables \X AuditIds -> Nat]
    BY <1>1 DEF PagesTypes
  <2> QED BY <1>1, <2>1, <2>2 DEF PagesTypes, Lists
<1>7. walk' = [walk EXCEPT !.due = @ \ {}]
  BY <1>1 DEF PagesTypes
<1>8. \A row \in rows : row \in WholeList("receipts")' /\ FrontOf(row, rows) \subseteq WholeList("receipts")'
  BY <1>4 DEF FrontOf
<1> QED BY <1>1, <1>6, <1>7, <1>8, FrontKeeps DEF Lists

(* A row that leaves, and all that stood behind it are due no more.        *)
LEMMA LeftKeeps ==
  ASSUME NEW CONSTANT list \in Lists, walk.list = list, PagesInv, PagesTypes', NEW gone \in WholeList(list),
         walk' = Disturb(list, Behind(gone, WholeList(list))),
         WholeList(list) \ {gone} \subseteq WholeList(list)'
  PROVE  PagesInv'
<1> DEFINE rows == WholeList(list)
           away == Names(list, Behind(gone, rows))
<1>1. rows \subseteq Triples
  BY RowFacts DEF PagesInv
<1>2. ASSUME NEW row \in rows, NameOf(list, row) \notin away
      PROVE  row \in WholeList(list)' /\ FrontOf(row, rows) \subseteq WholeList(list)'
  <2>1. Before(row, gone)
    BY <1>2 DEF Names, Behind
  <2>2. row # gone /\ ~Before(gone, row)
    BY <1>1, <2>1, BeforeOrder
  <2> QED BY <2>2 DEF FrontOf
<1>3. walk' = [walk EXCEPT !.due = @ \ away]
  BY DEF Disturb
<1> HIDE DEF away
<1> QED BY <1>2, <1>3, FrontKeeps

LEMMA EraseKeeps ==
  ASSUME PagesInv, NEW i \in AuditIds, EraseReceipt(i)
  PROVE  PagesInv'
<1> DEFINE rows == WholeList("receipts")
           gone == <<receipt[<<Conversation, i>>], Conversation, i>>
<1>1. /\ PagesTypes /\ walk.list = "receipts" /\ UNCHANGED <<now, thread>> /\ Conversation \in Tables
      /\ receipt' = [receipt EXCEPT ![<<Conversation, i>>] = 0] /\ receipt[<<Conversation, i>>] # 0
      /\ walk' = Disturb("receipts", Behind(gone, rows))
  BY PagesConstants DEF PagesInv, EraseReceipt, Reads, WholeList
<1>2. \A u \in Tables, j \in AuditIds : receipt'[<<u, j>>] = IF u = Conversation /\ j = i THEN 0 ELSE receipt[<<u, j>>]
  BY <1>1 DEF PagesTypes
<1>3. gone \in rows /\ rows \ {gone} \subseteq WholeList("receipts")' /\ WholeList("receipts")' \subseteq rows
  <2>1. gone \in rows
    BY <1>1, ReceiptRows
  <2>2. ASSUME NEW row \in rows PROVE row = gone \/ row \in WholeList("receipts")'
    <3>1. PICK u \in Tables, j \in AuditIds : receipt[<<u, j>>] # 0 /\ row = <<receipt[<<u, j>>], u, j>>
      BY ReceiptRows
    <3>2. receipt'[<<u, j>>] = receipt[<<u, j>>] \/ row = gone
      BY <1>2, <3>1
    <3> QED BY <3>1, <3>2, NextReceiptRows
  <2>3. ASSUME NEW row \in WholeList("receipts")' PROVE row \in rows
    <3>1. PICK u \in Tables, j \in AuditIds : receipt'[<<u, j>>] # 0 /\ row = <<receipt'[<<u, j>>], u, j>>
      BY NextReceiptRows
    <3>2. receipt'[<<u, j>>] = receipt[<<u, j>>]
      BY <1>2, <3>1
    <3> QED BY <3>1, <3>2, ReceiptRows
  <2> QED BY <2>1, <2>2, <2>3
<1>4. WholeList("inbox")' = WholeList("inbox")
  BY <1>1 DEF WholeList, Inbox
<1>5. PagesTypes'
  <2>1. IsFiniteSet(WholeList("receipts")') /\ IsFiniteSet(WholeList("inbox")')
    BY <1>1, <1>3, <1>4, FS_Subset DEF PagesTypes, Lists
  <2>2. receipt' \in [Tables \X AuditIds -> Nat]
    BY <1>1 DEF PagesTypes
  <2> QED BY <1>1, <2>1, <2>2 DEF PagesTypes, Lists, Disturb
<1> HIDE DEF gone
<1> QED BY <1>1, <1>3, <1>5, LeftKeeps DEF Lists

(* One conversation changes: every other keeps its row.                    *)
LEMMA OtherRows ==
  ASSUME NEW c \in Threads, PagesTypes, NEW value, thread' = [thread EXCEPT ![c] = value], UNCHANGED receipt,
         NEW row \in WholeList("inbox") \cup WholeList("inbox")', row[3] # c
  PROVE  row \in WholeList("inbox") /\ row \in WholeList("inbox")'
<1>1. PICK d \in Threads : \/ thread[d] # NoThread /\ row = <<thread[d].help, thread[d].active, d>>
                           \/ thread'[d] # NoThread /\ row = <<thread'[d].help, thread'[d].active, d>>
  BY InboxRows, NextInboxRows
<1>2. d # c /\ thread'[d] = thread[d]
  BY <1>1 DEF PagesTypes
<1> QED BY <1>1, <1>2, InboxRows, NextInboxRows

LEMMA InboxTypes ==
  ASSUME NEW c \in Threads, PagesTypes, NEW value, thread' = [thread EXCEPT ![c] = value], UNCHANGED <<now, receipt>>,
         value \in {NoThread} \cup [help : Nat, active : 0..now], NEW due, walk' = [walk EXCEPT !.due = due]
  PROVE  PagesTypes'
<1> DEFINE rows == WholeList("inbox")
           new == <<value.help, value.active, c>>
           old == <<thread[c].help, thread[c].active, c>>
<1>1. WholeList("receipts")' = WholeList("receipts")
  BY DEF WholeList, Receipts
<1>2. WholeList("inbox")' \subseteq rows \cup {new}
  <2> SUFFICES ASSUME NEW row \in WholeList("inbox")' PROVE row \in rows \/ row = new
    OBVIOUS
  <2>1. PICK d \in Threads : thread'[d] # NoThread /\ row = <<thread'[d].help, thread'[d].active, d>>
    BY NextInboxRows
  <2>2. thread'[d] = IF d = c THEN value ELSE thread[d]
    BY DEF PagesTypes
  <2> QED BY <2>1, <2>2, InboxRows
<1>3. IsFiniteSet(rows) /\ IsFiniteSet(WholeList("receipts"))
  BY DEF PagesTypes, Lists
<1>4. IsFiniteSet(rows \cup {new})
  BY <1>3, FS_AddElement
<1>5. IsFiniteSet(WholeList("inbox")')
  BY <1>2, <1>4, FS_Subset
<1>6. thread' \in [Threads -> {NoThread} \cup [help : Nat, active : 0..now]]
  BY DEF PagesTypes
<1> QED BY <1>1, <1>3, <1>5, <1>6 DEF PagesTypes, Lists

LEMMA RowOfThread ==
  ASSUME NEW c \in Threads, NEW row \in WholeList("inbox"), row[3] = c
  PROVE  thread[c] # NoThread /\ row = <<thread[c].help, thread[c].active, c>>
  BY InboxRows

LEMMA LeaveKeeps ==
  ASSUME PagesInv, NEW c \in Threads, Leave(c)
  PROVE  PagesInv'
<1> DEFINE rows == WholeList("inbox")
           gone == <<thread[c].help, thread[c].active, c>>
<1>1. /\ PagesTypes /\ walk.list = "inbox" /\ UNCHANGED <<now, receipt>> /\ thread[c] # NoThread
      /\ walk' = Disturb("inbox", Behind(gone, rows))
  BY DEF PagesInv, Leave, Reads, WholeList
<1>2. thread[c] \in [help : Nat, active : 0..now]
  BY <1>1 DEF PagesTypes
<1>3. \E value \in {NoThread} \cup [help : Nat, active : 0..now] : thread' = [thread EXCEPT ![c] = value]
  <2>1. CASE thread' = [thread EXCEPT ![c] = [help |-> 0, active |-> now]]
    <3>1. [help |-> 0, active |-> now] \in [help : Nat, active : 0..now]
      BY <1>1 DEF PagesTypes
    <3> QED BY <2>1, <3>1
  <2>2. CASE thread' = [thread EXCEPT ![c] = NoThread]
    BY <2>2
  <2> QED BY <2>1, <2>2 DEF Leave
<1>4. PICK value \in {NoThread} \cup [help : Nat, active : 0..now] : thread' = [thread EXCEPT ![c] = value]
  BY <1>3
<1>5. gone \in rows
  BY <1>1, InboxRows
<1>6. rows \ {gone} \subseteq WholeList("inbox")'
  <2> SUFFICES ASSUME NEW row \in rows, row # gone PROVE row \in WholeList("inbox")'
    OBVIOUS
  <2>1. row[3] # c
    BY RowOfThread
  <2> QED BY <1>1, <1>4, <2>1, OtherRows
<1>7. PagesTypes'
  BY <1>1, <1>4, InboxTypes DEF Disturb
<1> HIDE DEF gone
<1> QED BY <1>1, <1>5, <1>6, <1>7, LeftKeeps DEF Lists

LEMMA ActivityKeeps ==
  ASSUME PagesInv, NEW c \in Threads, NEW help \in BOOLEAN, Activity(c, help)
  PROVE  PagesInv'
<1> DEFINE rows == WholeList("inbox")
           o == IF thread[c] = NoThread THEN [help |-> 0, active |-> 0] ELSE thread[c]
           n == [help |-> IF help /\ o.help = 0 THEN now ELSE o.help, active |-> now]
           old == <<o.help, o.active, c>>
           new == <<n.help, n.active, c>>
<1>1. /\ PagesTypes /\ walk.list = "inbox" /\ UNCHANGED <<now, receipt>> /\ c \in Nat /\ now \in Nat
      /\ thread' = [thread EXCEPT ![c] = n] /\ walk' = Disturb("inbox", {old})
  BY PagesConstants DEF PagesInv, PagesTypes, Activity, Reads
<1>2. o \in [help : Nat, active : 0..now]
  BY <1>1 DEF PagesTypes
<1>3. n \in [help : Nat, active : 0..now] /\ n # NoThread
  <2>1. n \in [help : Nat, active : 0..now]
    BY <1>1, <1>2
  <2>2. n \in [help : Nat, active : Nat]
    BY <1>1, <1>2
  <2> HIDE DEF n
  <2> QED BY <2>1, <2>2, PagesConstants
<1>4. old \in Triples /\ new \in Triples /\ (new = old \/ Before(new, old))
  <2>1. o.help \in Nat /\ o.active \in 0..now /\ n.active = now /\ (n.help = o.help \/ (o.help = 0 /\ n.help = now))
    BY <1>2
  <2> HIDE DEF o, n
  <2> QED BY <1>1, <2>1 DEF Triples, Before
<1>5. \A row \in rows : row[3] = c => row = old
  BY RowOfThread
<1>6. new \in WholeList("inbox")'
  <2>1. thread'[c] = n
    BY <1>1 DEF PagesTypes
  <2> HIDE DEF n
  <2> QED BY <1>3, <2>1, NextInboxRows
<1>7. PagesTypes'
  <2> HIDE DEF n, old
  <2> QED BY <1>1, <1>3, InboxTypes DEF Disturb
<1> HIDE DEF n, o
<1>8. rows \in SUBSET Triples /\ IsFiniteSet(rows) /\ WholeList("inbox")' \in SUBSET Triples /\ IsFiniteSet(WholeList("inbox")')
  BY <1>1, <1>7, RowFacts, NextRows DEF PagesTypes, Lists
<1>9. ASSUME NEW row \in rows, row[3] # c
      PROVE  row \in WholeList("inbox")' /\ Place(row, rows) <= Place(row, WholeList("inbox")')
  <2> DEFINE front == FrontOf(row, rows)
             rest == front \ {old}
             after == FrontOf(row, WholeList("inbox")')
  <2>1. row \in WholeList("inbox")' /\ \A other \in rest : other \in WholeList("inbox")' /\ other[3] # c
    <3>1. \A other \in rest : other \in rows /\ other[3] # c
      BY <1>5 DEF FrontOf
    <3>2. \A other \in rows : other[3] # c => other \in WholeList("inbox")'
      BY <1>1, OtherRows
    <3> QED BY <1>9, <3>1, <3>2
  <2>2. rest \subseteq after
    BY <2>1 DEF FrontOf
  <2>3. CASE old \notin front
    BY <1>8, <2>1, <2>2, <2>3, PlaceGrows
  <2>4. CASE old \in front
    <3>1. Before(old, row)
      BY <2>4 DEF FrontOf
    <3>2. new \in after
      BY <1>4, <1>6, <1>8, <3>1, BeforeOrder DEF FrontOf
    <3>3. new \notin rest
      <4>1. new[3] = c
        OBVIOUS
      <4> HIDE DEF new
      <4> QED BY <2>1, <4>1
    <3>4. /\ IsFiniteSet(front) /\ IsFiniteSet(after) /\ Place(row, rows) = Cardinality(front)
          /\ Place(row, WholeList("inbox")') = Cardinality(after) /\ Cardinality(front) \in Nat
      BY <1>8, PlaceFacts
    <3>5. IsFiniteSet(rest) /\ Cardinality(rest) = Cardinality(front) - 1
      BY <2>4, <3>4, FS_RemoveElement
    <3>6. IsFiniteSet(rest \cup {new}) /\ Cardinality(rest \cup {new}) = Cardinality(rest) + 1
      BY <3>3, <3>5, FS_AddElement
    <3>7. Cardinality(rest \cup {new}) <= Cardinality(after)
      BY <2>2, <3>2, <3>4, FS_Subset
    <3> HIDE DEF rest, front, after
    <3> QED BY <2>1, <3>4, <3>5, <3>6, <3>7
  <2> QED BY <2>3, <2>4
<1> DEFINE away == Names("inbox", {old})
<1>10. \A row \in rows : NameOf("inbox", row) \notin away => row[3] # c
  <2> SUFFICES ASSUME NEW row \in rows, row[3] = c PROVE NameOf("inbox", row) \in away
    OBVIOUS
  <2>1. row = old
    BY <1>5
  <2> QED BY <2>1 DEF Names
<1>11. walk' = [walk EXCEPT !.due = @ \ away]
  BY <1>1 DEF Disturb
<1> HIDE DEF away
<1>12. \A row \in rows : NameOf("inbox", row) \notin away =>
         \E later \in WholeList("inbox")' : /\ NameOf("inbox", later) = NameOf("inbox", row)
                                            /\ Place(row, rows) <= Place(later, WholeList("inbox")')
  BY <1>9, <1>10
<1> QED BY <1>1, <1>7, <1>11, <1>12, ChangeKeeps DEF Lists

LEMMA FirstKeeps ==
  ASSUME PagesInv, NEW list \in Lists, FirstPage(list)
  PROVE  PagesInv'
<1> DEFINE due == AllNames(list)
<1>1. /\ PagesTypes /\ walk.list = list /\ UNCHANGED <<now, receipt, thread>>
      /\ walk' = [list |-> list, offset |-> 0, more |-> Offered(list, 0), due |-> due,
                  seen |-> {} \cup Names(list, Page(RowsOf(list, 0), 0))]
  BY DEF PagesInv, FirstPage, Reads
<1>2. \A name \in due \ {} : \E row \in WholeList(list) : NameOf(list, row) = name /\ Place(row, WholeList(list)) >= 0
  <2>1. due = Names(list, WholeList(list))
    BY DEF AllNames, WholeList
  <2>2. \A row \in WholeList(list) : Place(row, WholeList(list)) \in Nat
    BY <1>1, RowFacts, PlaceFacts DEF PagesTypes
  <2> QED BY <2>1, <2>2 DEF Names
<1> HIDE DEF due
<1> QED BY <1>1, <1>2, TurnKeeps

LEMMA NextKeeps ==
  ASSUME PagesInv, NextPage
  PROVE  PagesInv'
<1> DEFINE shown == Names(walk.list, Page(RowsOf(walk.list, NextOffset), NextOffset))
<1>1. /\ PagesTypes /\ UNCHANGED <<now, receipt, thread>> /\ NextOffset \in Nat
      /\ walk' = [list |-> walk.list, offset |-> NextOffset, more |-> Offered(walk.list, NextOffset), due |-> walk.due,
                  seen |-> walk.seen \cup shown]
  <2>1. PagesTypes /\ NextOffset \in Nat /\ UNCHANGED <<now, receipt, thread>>
    BY PagesConstants DEF PagesInv, PagesTypes, NextPage, NextOffset
  <2>2. walk' = [walk EXCEPT !.offset = NextOffset, !.more = Offered(walk.list, NextOffset), !.seen = @ \cup shown]
    BY DEF NextPage
  <2> HIDE DEF shown
  <2> QED BY <2>1, <2>2 DEF PagesTypes
<1>2. \A name \in walk.due \ walk.seen : \E row \in WholeList(walk.list) :
        NameOf(walk.list, row) = name /\ Place(row, WholeList(walk.list)) >= NextOffset
  BY DEF PagesInv, Owed, NextOffset
<1> QED BY <1>1, <1>2, TurnKeeps

LEMMA RestsKeeps ==
  ASSUME PagesInv, UNCHANGED <<receipt, thread, walk>>, now' \in Nat, now' >= now
  PROVE  PagesInv'
<1>1. \A l : WholeList(l)' = WholeList(l)
  BY DEF WholeList, Inbox, Receipts
<1>2. PagesTypes'
  <2>1. [help : Nat, active : 0..now] \subseteq [help : Nat, active : 0..now']
    BY DEF PagesInv, PagesTypes
  <2>2. thread' \in [Threads -> {NoThread} \cup [help : Nat, active : 0..now']]
    BY <2>1 DEF PagesInv, PagesTypes
  <2> QED BY <1>1, <2>2 DEF PagesInv, PagesTypes
<1>3. Owed' /\ WalkTellsAll'
  BY <1>1 DEF PagesInv, Owed, WalkTellsAll
<1> QED BY <1>2, <1>3 DEF PagesInv

LEMMA PagesStart == PagesInit => PagesInv
<1> SUFFICES ASSUME PagesInit PROVE PagesInv
  OBVIOUS
<1>1. PICK list \in Lists : walk = Opened(list)
  BY DEF PagesInit, Lists
<1>2. now = 1 /\ thread = [c \in Threads |-> NoThread] /\ receipt = [e \in Tables \X AuditIds |-> 0]
  BY DEF PagesInit
<1>3. WholeList("inbox") = {}
  BY <1>2, InboxRows
<1>4. WholeList("receipts") = {}
  BY <1>2, ReceiptRows
<1>5. PagesTypes
  BY <1>1, <1>2, <1>3, <1>4, FS_EmptySet DEF PagesTypes, Lists, Opened
<1>6. Owed /\ WalkTellsAll
  BY <1>1 DEF Owed, WalkTellsAll, Opened
<1> QED BY <1>5, <1>6 DEF PagesInv

LEMMA PagesStep == PagesInv /\ [PagesNext]_pageVars => PagesInv'
<1> SUFFICES ASSUME PagesInv, [PagesNext]_pageVars PROVE PagesInv'
  OBVIOUS
<1>1. ASSUME NEW list \in Lists, FirstPage(list) PROVE PagesInv'
  BY <1>1, FirstKeeps
<1>2. CASE NextPage
  BY <1>2, NextKeeps
<1>3. CASE TimePasses
  BY <1>3, RestsKeeps DEF TimePasses, PagesInv, PagesTypes
<1>4. ASSUME NEW i \in AuditIds, EraseReceipt(i) PROVE PagesInv'
  BY <1>4, EraseKeeps
<1>5. ASSUME NEW i \in AuditIds, NEW t \in Tables, AddReceipt(t, i) PROVE PagesInv'
  BY <1>5, AddKeeps
<1>6. ASSUME NEW c \in Threads, Leave(c) PROVE PagesInv'
  BY <1>6, LeaveKeeps
<1>7. ASSUME NEW c \in Threads, NEW help \in BOOLEAN, Activity(c, help) PROVE PagesInv'
  BY <1>7, ActivityKeeps
<1>8. CASE UNCHANGED pageVars
  BY <1>8, RestsKeeps DEF pageVars, PagesInv, PagesTypes
<1> QED BY <1>1, <1>2, <1>3, <1>4, <1>5, <1>6, <1>7, <1>8 DEF PagesNext, Lists

(* Whoever reads the receipts or the inbox to the end has seen every row   *)
(* that was there when they began and neither moved nor stood behind one   *)
(* that left, for any number of rows, any size of page and any list.       *)
THEOREM WalksTellAll == PagesSpec => []WalkTellsAll
<1>1. PagesInv => WalkTellsAll
  BY DEF PagesInv
<1> QED BY <1>1, PagesStart, PagesStep, PTL DEF PagesSpec

(***************************************************************************)
(* The run that checks the parts together lets one of them run: to every   *)
(* other its steps are stutters.                                           *)
(***************************************************************************)
LEMMA PartsStart ==
  PartsInit => /\ LoginsInit /\ RolesInit /\ ToolsInit /\ AdmissionInit /\ QuestionsInit /\ PagesInit /\ ParserInit
               /\ MemoryInit /\ BackupsInit /\ PanelInit
  BY DEF PartsInit

LEMMA PartsStep ==
  [PartsNext]_partsVars =>
    /\ [LoginsNext]_loginsVars /\ [RolesNext]_rolesVars /\ [ToolsNext]_toolVars /\ [AdmissionNext]_admissionVars
    /\ [QuestionsNext]_questionVars /\ [PagesNext]_pageVars /\ [ParserNext]_parserVars /\ [MemoryNext]_memoryVars
    /\ [BackupsNext]_backupVars /\ [PanelNext]_panelVars
<1>1. CASE PartsNext
  BY <1>1 DEF PartsNext, Still
<1>2. CASE UNCHANGED partsVars
  BY <1>2 DEF partsVars
<1> QED BY <1>1, <1>2

(* What is proved of a part holds in the run that checks them all.         *)
THEOREM PartsRunEach ==
  PartsSpec => /\ LoginsSpec /\ RolesSpec /\ ToolsSpec /\ AdmissionSpec /\ QuestionsSpec /\ PagesSpec /\ ParserSpec
               /\ MemorySpec /\ BackupsSpec /\ PanelSpec
  BY PartsStart, PartsStep, PTL DEF PartsSpec, LoginsSpec, RolesSpec, ToolsSpec, AdmissionSpec, QuestionsSpec, PagesSpec,
     ParserSpec, MemorySpec, BackupsSpec, PanelSpec

(* The parts that have types keep them: a session belongs to a registered  *)
(* user, a slot that is free was given back once, a table of buckets and   *)
(* its order agree, and a question is listed once for each reason.         *)
THEOREM PartsTypeSafety == PartsSpec => []PartsTypeOK
<1>1. LoginsTypeOK /\ RolesTypeOK /\ ToolsTypeOK /\ AdmissionTypeOK /\ QuestionsTypeOK => PartsTypeOK
  BY DEF PartsTypeOK
<1> QED BY <1>1, PartsRunEach, LoginsTypeSafety, RolesTypeSafety, ToolsTypeSafety, AdmissionTypeSafety,
           QuestionsTypeSafety, PTL
=============================================================================
