------------------------------ MODULE ReplyOnce ------------------------------
(***************************************************************************)
(* What the inbox of a branch promises, without rowids, receipts, workers  *)
(* or failures: messages are started in the order they were accepted, a    *)
(* message is answered at most once and only while it is started, and it   *)
(* leaves the inbox only after it was closed.  A started message may stay  *)
(* there for ever: that is the state an operator has to reconcile.         *)
(***************************************************************************)
EXTENDS Naturals

CONSTANT Msgs

VARIABLES waiting,  (* accepted and not started                            *)
          before,   (* pairs of waiting messages, the earlier one first    *)
          started,  (* taken by a worker and still in the inbox            *)
          closed,   (* their processing was recorded as completed          *)
          answers   (* answers[m]: answers sent to message m               *)

vars == <<waiting, before, started, closed, answers>>

Init ==
  /\ waiting = {} /\ before = {} /\ started = {} /\ closed = {}
  /\ answers = [m \in Msgs |-> 0]

(* A closed message may be accepted again when a redelivery overlaps with  *)
(* its processing; it is then started, not answered, and discarded.        *)
Accept(m) ==
  /\ m \notin waiting \cup started
  /\ waiting' = waiting \cup {m}
  /\ before'  = before \cup (waiting \X {m})
  /\ UNCHANGED <<started, closed, answers>>

Start(m) ==
  /\ m \in waiting
  /\ \A n \in waiting : <<n, m>> \notin before
  /\ waiting' = waiting \ {m}
  /\ before'  = {p \in before : m \notin {p[1], p[2]}}
  /\ started' = started \cup {m}
  /\ UNCHANGED <<closed, answers>>

Answer(m) ==
  /\ m \in started \ closed
  /\ answers[m] = 0
  /\ answers' = [answers EXCEPT ![m] = 1]
  /\ UNCHANGED <<waiting, before, started, closed>>

Close(m) ==
  /\ m \in started \ closed
  /\ closed' = closed \cup {m}
  /\ UNCHANGED <<waiting, before, started, answers>>

Discard(m) ==
  /\ m \in started \cap closed
  /\ started' = started \ {m}
  /\ UNCHANGED <<waiting, before, closed, answers>>

Next == \E m \in Msgs : Accept(m) \/ Start(m) \/ Answer(m) \/ Close(m) \/ Discard(m)

Spec == Init /\ [][Next]_vars
=============================================================================
