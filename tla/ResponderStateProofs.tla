------------------------ MODULE ResponderStateProofs ------------------------
(***************************************************************************)
(* The guarded UPDATEs of conversation_responder_states keep its columns   *)
(* typed and never run into the table's CHECK on the owner.                *)
(***************************************************************************)
EXTENDS ResponderState, TLAPS

(* The defaults of a new row are typed and satisfy the CHECK.              *)
LEMMA NewRowIsRow == NewRow \in Rows /\ OwnerCheck(NewRow)
  BY DEF NewRow, Rows, OwnerCheck

(* The AI side of the table (conversation_mode_service.py: begin_ai_reply, *)
(* request_human_help, finish_ai_reply).                                   *)
LEMMA AiUpdates ==
  ASSUME NEW r \in Rows
  PROVE  /\ Begin(r) \in Rows /\ AskHelp(r) \in Rows
         /\ MayFinish(r) => Finish(r) \in Rows
         /\ OwnerCheck(r) =>
              /\ MayBegin(r) => OwnerCheck(Begin(r))
              /\ OwnerCheck(AskHelp(r))
              /\ MayFinish(r) => OwnerCheck(Finish(r))
<1>1. Begin(r) \in Rows
  BY DEF Rows, Begin
<1>2. AskHelp(r) \in Rows
  BY DEF Rows, AskHelp
<1>3. MayFinish(r) => Finish(r) \in Rows
  BY DEF Rows, Finish, MayFinish
<1>4. OwnerCheck(r) /\ MayBegin(r) => OwnerCheck(Begin(r))
  BY DEF Rows, Begin, MayBegin, OwnerCheck
<1>5. OwnerCheck(r) => OwnerCheck(AskHelp(r))
  BY DEF Rows, AskHelp, OwnerCheck
<1>6. OwnerCheck(r) /\ MayFinish(r) => OwnerCheck(Finish(r))
  BY DEF Rows, Finish, MayFinish, OwnerCheck
<1> QED
  BY <1>1, <1>2, <1>3, <1>4, <1>5, <1>6

(* The human side (take and release of conversation_mode_service.py,       *)
(* _reserve and _finish of manual_reply_service.py).                       *)
LEMMA HumanUpdates ==
  ASSUME NEW r \in Rows, NEW u \in Users
  PROVE  /\ Take(r, u) \in Rows /\ Release(r) \in Rows
         /\ Block(r) \in Rows /\ Unblock(r) \in Rows
         /\ OwnerCheck(r) =>
              /\ MayTake(r) => OwnerCheck(Take(r, u))
              /\ OwnerCheck(Release(r))
              /\ OwnerCheck(Block(r)) /\ OwnerCheck(Unblock(r))
  BY NoUserAssumption
     DEF Rows, Take, Release, Block, Unblock, MayTake, OwnerCheck
=============================================================================
