------------------------------- MODULE Logins -------------------------------
(***************************************************************************)
(* Logins of the administration panel: the attempt is counted under a      *)
(* throttle in its own transaction, the password is checked in one of a    *)
(* few slots, and a session is inserted. Sessions expire and are revoked.  *)
(* Passwords, tokens and CSRF values are left out: whether a password is   *)
(* right is a choice. A row past its window or expiry, or revoked, counts  *)
(* as no row: every statement treats both alike, and purges the former.    *)
(***************************************************************************)
EXTENDS Naturals, FiniteSets

CONSTANTS
  Calls,          \* requests in progress
  Usernames,      \* names that try to log in
  Registered,     \* those that have an active row in admin_users
  Cookies,         \* sessions that exist at a time
  UsernameLimit,  \* USERNAME_LIMIT
  PeerLimit,      \* PEER_LIMIT
  HashSlots,      \* permits of _HASH_SLOTS
  Nobody

ASSUME LoginsAssumption ==
  /\ IsFiniteSet(Calls) /\ UsernameLimit \in Nat /\ PeerLimit \in Nat /\ HashSlots \in Nat \ {0}
  /\ Registered \subseteq Usernames /\ Nobody \notin Usernames

VARIABLES
  attempts,  \* throttle key -> attempts of its row's window
  guesses,   \* throttle key -> passwords checked since that window began (history)
  carried,   \* throttle key -> requests that were in progress when it began (history)
  session,   \* token -> the user whose usable session it is, or Nobody
  login      \* what each request is doing

loginsVars == <<attempts, guesses, carried, session, login>>

Peer == "peer"  \* every request comes from the same address
Keys == Usernames \cup {Peer}
LimitOf(key) == IF key = Peer THEN PeerLimit ELSE UsernameLimit
AtRest == [at |-> "rest"]
Rests(c) == login' = [login EXCEPT ![c] = AtRest]
\* The requests whose attempt was counted for a key and allowed, and that are not answered yet.
Admitted(key) == {c \in Calls : login[c] # AtRest /\ key \in {Peer, login[c].user}}

\* The peer's attempt is counted first; one over its limit leaves the name's count alone.
\* Operators that start with "Wrong" carry one mistake the properties must notice; no action uses them.
Bumped(key) == attempts[key] + 1
PeerLimited == Bumped(Peer) > PeerLimit
WrongLimited(u) == PeerLimited \/ Bumped(u) > UsernameLimit + 1
Limited(u) == PeerLimited \/ Bumped(u) > UsernameLimit
Counted(u) == IF PeerLimited THEN {Peer} ELSE {Peer, u}

CountAttempt(c, u) ==
  /\ login[c] = AtRest
  /\ \A key \in Counted(u) : attempts[key] <= LimitOf(key)  \* bound of the model
  /\ attempts' = [key \in Keys |-> IF key \in Counted(u) THEN Bumped(key) ELSE attempts[key]]
  /\ IF Limited(u) THEN UNCHANGED login ELSE login' = [login EXCEPT ![c] = [at |-> "wait", user |-> u]]
  /\ UNCHANGED <<guesses, carried, session>>

Hashing == {c \in Calls : login[c].at = "hash"}

TakeHashSlot(c) ==
  /\ login[c].at = "wait" /\ Cardinality(Hashing) < HashSlots
  /\ login' = [login EXCEPT ![c].at = "hash"]
  /\ UNCHANGED <<attempts, guesses, carried, session>>

\* acquire(timeout=1) gives up only while every slot is taken.
HashSlotTimeout(c) ==
  /\ login[c].at = "wait" /\ Cardinality(Hashing) >= HashSlots
  /\ Rests(c) /\ UNCHANGED <<attempts, guesses, carried, session>>

\* The hash of the password is compared: one guess for the name and one for the address.
Guesses(c) == guesses' = [key \in Keys |-> IF key \in {Peer, login[c].user} THEN guesses[key] + 1 ELSE guesses[key]]

\* An unknown name is checked against a dummy hash and never gets a session.
MayOpen(c) == login[c].user \in Registered
Verify(c) ==
  /\ login[c].at = "hash"
  /\ \/ /\ MayOpen(c)
        /\ \E t \in Cookies : session[t] = Nobody /\ session' = [session EXCEPT ![t] = login[c].user]
     \/ UNCHANGED session
  /\ Guesses(c) /\ Rests(c) /\ UNCHANGED <<attempts, carried>>

\* A database failure or a crash ends a request, before its password is checked or after; the attempt stays counted.
LoginFails(c) ==
  /\ login[c] # AtRest /\ Rests(c)
  /\ \/ UNCHANGED guesses
     \/ login[c].at = "hash" /\ Guesses(c)
  /\ UNCHANGED <<attempts, carried, session>>

\* logout, or the end of the session's eight hours.
Logout(t) ==
  /\ session[t] # Nobody /\ session' = [session EXCEPT ![t] = Nobody]
  /\ UNCHANGED <<attempts, guesses, carried, login>>

RevokeAllSessions ==
  /\ session' = [t \in Cookies |-> Nobody]
  /\ UNCHANGED <<attempts, guesses, carried, login>>

WindowPasses(key) ==
  /\ attempts[key] > 0
  /\ attempts' = [attempts EXCEPT ![key] = 0] /\ guesses' = [guesses EXCEPT ![key] = 0]
  /\ carried' = [carried EXCEPT ![key] = Cardinality(Admitted(key))]
  /\ UNCHANGED <<session, login>>

LoginsInit ==
  /\ attempts = [key \in Keys |-> 0] /\ guesses = [key \in Keys |-> 0] /\ carried = [key \in Keys |-> 0]
  /\ session = [t \in Cookies |-> Nobody] /\ login = [c \in Calls |-> AtRest]

LoginsNext ==
  \/ \E c \in Calls :
       \/ TakeHashSlot(c) \/ HashSlotTimeout(c) \/ Verify(c) \/ LoginFails(c)
       \/ \E u \in Usernames : CountAttempt(c, u)
  \/ \E t \in Cookies : Logout(t)
  \/ RevokeAllSessions
  \/ \E key \in Keys : WindowPasses(key)

LoginsSpec == LoginsInit /\ [][LoginsNext]_loginsVars

LoginsTypeOK ==
  /\ attempts \in [Keys -> Nat] /\ guesses \in [Keys -> Nat] /\ carried \in [Keys -> Nat]
  /\ session \in [Cookies -> Registered \cup {Nobody}]
  /\ login \in [Calls -> {AtRest} \cup [at : {"wait", "hash"}, user : Usernames]]

\* However many logins run at once, however long each waits for a slot and wherever it stops: in one window no more
\* passwords are checked for a name, nor from an address, than its limit allows and than were admitted before the
\* window began and still waited then.
GuessesBounded == \A key \in Keys : guesses[key] <= LimitOf(key) + carried[key]
=============================================================================
