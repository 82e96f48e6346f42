-------------------------- MODULE StaffReplyInvariant --------------------------
(***************************************************************************)
(* The inductive invariant behind the theorems on StaffReply, in a module  *)
(* that TLC can check.  An erasure breaks it (ErasingSpec).                *)
(***************************************************************************)
EXTENDS StaffReply

(* Foreign keys, and blank rows for the ids not in use.                    *)
TablesAgree ==
  /\ \A c \in ChatIds \ Live : ~row[c].sendBlocked
  /\ \A r \in Stored : /\ receipt[r].chat \in Live
                       /\ receipt[r].req \in Requests /\ receipt[r].user \in Users
  /\ \A r \in ReceiptIds : receipt[r].chat = 0 <=> r \notin Stored

(* The unique constraint of manual_send_receipts.                          *)
RequestsUnique ==
  \A r1, r2 \in Stored :
    receipt[r1].chat = receipt[r2].chat /\ receipt[r1].req = receipt[r2].req => r1 = r2

(* Between reserve and settlement a request owns the pending receipt it    *)
(* stored, and no other request has the same one.                          *)
Holding == {d \in Desks : desk[d].at \in {"send", "check", "settle"}}

ReceiptOf(w) ==
  [chat |-> w.chat, user |-> w.user, req |-> w.req, status |-> "pending"]

DesksHold ==
  /\ \A d \in Holding : receipt[desk[d].id] = ReceiptOf(desk[d])
  /\ \A d1, d2 \in Holding : desk[d1].id = desk[d2].id => d1 = d2
  /\ \A d \in Desks :
       desk[d].at = "settle" =>
         desk[d].seen = [chat |-> desk[d].chat, user |-> desk[d].user]

(* The provider was called only for stored requests, not yet for those     *)
(* about to call it; an accepted outcome was answered.                     *)
SendsAgree ==
  /\ \A c \in ChatIds, q \in Requests : sent[c][q] > 0 => Reserved(c, q)
  /\ \A d \in Desks : desk[d].at = "send" => sent[desk[d].chat][desk[d].req] = 0
  /\ \A d \in Desks :
       desk[d].at \in {"check", "settle"} /\ desk[d].outcome = "accepted"
         => <<desk[d].chat, desk[d].req>> \in answered

(* Everything together.                                                    *)
StaffInv ==
  /\ TablesAgree /\ RequestsUnique /\ DesksHold /\ SendsAgree
  /\ BlockMatchesReceipts /\ OneSendPerRequest /\ AcceptedIsAnswered
=============================================================================
