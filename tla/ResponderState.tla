--------------------------- MODULE ResponderState ---------------------------
(***************************************************************************)
(* One row of conversation_responder_states and the guarded UPDATEs the    *)
(* services run on it.  "MayX(r)" is the WHERE clause of an UPDATE, "X(r)" *)
(* its SET clause.  SQLite runs such an UPDATE as one atomic step, so the  *)
(* modules that use this one apply a MayX / X pair within one action.      *)
(* The reason and the time of a help request are one Boolean: no guard     *)
(* tells more of them apart.                                               *)
(***************************************************************************)
EXTENDS Naturals

CONSTANTS Users,   (* administrative users of the branch                   *)
          NoUser   (* SQL NULL in assigned_admin_user_id                   *)

ASSUME NoUserAssumption == NoUser \notin Users

Rows == [mode : {"AI", "HUMAN"}, assignee : Users \cup {NoUser},
         aiReplies : Nat, help : BOOLEAN, sendBlocked : BOOLEAN]

(* The column defaults of a row inserted for a new conversation.           *)
NewRow == [mode |-> "AI", assignee |-> NoUser, aiReplies |-> 0,
           help |-> FALSE, sendBlocked |-> FALSE]

(* The table's CHECK on the owner of a conversation.                       *)
OwnerCheck(r) ==
  \/ r.mode = "AI" /\ r.assignee = NoUser
  \/ r.mode = "HUMAN" /\ r.assignee # NoUser /\ r.aiReplies = 0
-----------------------------------------------------------------------------
(* The AI side: reserve a reply, ask for human help, give the reply up.    *)

(* Wrong on purpose, for the sensitivity of the properties: the names that *)
(* start with "Wrong" are variants with one mistake, used by no action.    *)
WrongMayBegin(r) == r.mode = "AI"                     (* ignores the alert *)
WrongBegin(r)    == [r EXCEPT !.aiReplies = 1]        (* a flag, no counter*)
WrongFinish(r)   == r                                 (* never gives back  *)
WrongMayFinish(r) == r.mode = "AI"                    (* count unchecked   *)

MayBegin(r)   == r.mode = "AI" /\ ~r.help
Begin(r)      == [r EXCEPT !.aiReplies = @ + 1]

MayAskHelp(r) == r.mode = "AI" /\ r.aiReplies > 0 /\ ~r.help
AskHelp(r)    == [r EXCEPT !.help = TRUE]

MayFinish(r)  == r.mode = "AI" /\ r.aiReplies > 0
Finish(r)     == [r EXCEPT !.aiReplies = @ - 1]
-----------------------------------------------------------------------------
(* The human side: take an idle conversation over, give it back to the AI, *)
(* block it while a manual send has no known outcome.                      *)

WrongMayTake(r) == r.mode = "AI" /\ r.assignee = NoUser (* replies ignored *)
WrongMayBlock(r, u) == r.mode = "HUMAN" /\ r.assignee = u (* block ignored  *)

MayTake(r)    == r.mode = "AI" /\ r.aiReplies = 0 /\ r.assignee = NoUser
Take(r, u)    == [r EXCEPT !.mode = "HUMAN", !.assignee = u, !.help = FALSE]

MayRelease(r, u, isOwner) ==
  /\ r.mode = "HUMAN"
  /\ ~r.sendBlocked
  /\ r.assignee = u \/ isOwner
  /\ r.aiReplies = 0
Release(r)    == [r EXCEPT !.mode = "AI", !.assignee = NoUser]

MayBlock(r, u)   == r.mode = "HUMAN" /\ r.assignee = u /\ ~r.sendBlocked
Block(r)         == [r EXCEPT !.sendBlocked = TRUE]

MayUnblock(r, u) == r.mode = "HUMAN" /\ r.assignee = u /\ r.sendBlocked
Unblock(r)       == [r EXCEPT !.sendBlocked = FALSE]
=============================================================================
