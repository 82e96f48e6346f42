--------------------------- MODULE StaffReplyProofs ---------------------------
(***************************************************************************)
(* Theorems on StaffReply for any number of senders, users, panel requests *)
(* and drafts.                                                             *)
(***************************************************************************)
EXTENDS StaffReplyInvariant, ResponderStateProofs
-----------------------------------------------------------------------------
(* Types.                                                                  *)

LEMMA IdleTyped == Idle \in Work /\ Knows(Idle)
  BY StaffAssumption DEF Idle, Work, Steps, Knows

(* A request that moves on leaves the others alone.                        *)
LEMMA MovesTyped ==
  ASSUME TypeOK, NEW d \in Desks, NEW next \in Work, Knows(next), Moves(d, next)
  PROVE  /\ desk' \in [Desks -> Work] /\ \A e \in Desks : Knows(desk'[e])
         /\ desk'[d] = next /\ \A e \in Desks \ {d} : desk'[e] = desk[e]
  BY DEF TypeOK, Moves

(* So does one that ends.                                                  *)
LEMMA EndsTyped ==
  ASSUME TypeOK, NEW d \in Desks, Ends(d)
  PROVE  /\ desk' \in [Desks -> Work] /\ \A e \in Desks : Knows(desk'[e])
         /\ desk'[d] = Idle /\ \A e \in Desks \ {d} : desk'[e] = desk[e]
  BY MovesTyped, IdleTyped DEF Ends

(* One row of the responder states replaced by a typed one.                *)
LEMMA RowTyped ==
  ASSUME TypeOK, NEW c \in ChatIds, NEW r \in Rows
  PROVE  /\ [row EXCEPT ![c] = r] \in [ChatIds -> Rows]
         /\ [row EXCEPT ![c] = r][c] = r
         /\ \A e \in ChatIds \ {c} : [row EXCEPT ![c] = r][e] = row[e]
  BY DEF TypeOK, TablesTyped

(* A deletion keeps the tables typed.                                      *)
LEMMA RemoveTyped ==
  ASSUME TypeOK, NEW gone \in SUBSET ChatIds, Remove(gone)
  PROVE  TablesTyped'
<1>1. owner' \in [ChatIds -> Senders \cup {NoSender}] /\ row' \in [ChatIds -> Rows]
  BY NewRowIsRow DEF TypeOK, TablesTyped, Remove
<1>2. old' \subseteq Live'
  BY DEF TypeOK, TablesTyped, Remove, Live
<1>3. NoReceipt \in Receipts
  BY DEF NoReceipt, Receipts, Statuses
<1>4. receipt' \in [ReceiptIds -> Receipts]
  BY <1>3 DEF TypeOK, TablesTyped, Remove
<1>5. sent' \in [ChatIds -> [Requests -> Nat]] /\ answered' \subseteq ChatIds \X Requests
  BY DEF TypeOK, TablesTyped, Remove
<1> QED
  BY <1>1, <1>2, <1>4, <1>5 DEF TablesTyped

LEMMA TypeInit == Init => TypeOK
<1> SUFFICES ASSUME Init PROVE TypeOK
  OBVIOUS
<1>1. NoReceipt \in Receipts
  BY DEF NoReceipt, Receipts, Statuses
<1>2. TablesTyped
  BY <1>1, NewRowIsRow DEF Init, TablesTyped
<1> QED
  BY <1>2, IdleTyped DEF Init, TypeOK

(* The steps of the environment and of privacy.                            *)
LEMMA TypeWorld ==
  ASSUME TypeOK,
         \/ \E s \in Senders : ResolveConversation(s)
         \/ \E c \in ChatIds : AiReply(c) \/ Age(c)
         \/ Purge
  PROVE  TypeOK'
<1>1. ASSUME NEW s \in Senders, ResolveConversation(s) PROVE TypeOK'
  <2>1. desk' = desk /\ UNCHANGED <<receipt, sent, answered>>
    BY <1>1 DEF ResolveConversation
  <2>2. TablesTyped'
    <3>1. CASE \E c \in Live : owner[c] = s /\ Touch(c) /\ UNCHANGED <<owner, row>>
      BY <2>1, <3>1 DEF TypeOK, TablesTyped, Touch, Live
    <3>2. CASE /\ \E c \in NextId(Live) \cap ChatIds :
                    /\ owner' = [owner EXCEPT ![c] = s]
                    /\ row'   = [row EXCEPT ![c] = NewRow]
               /\ UNCHANGED old
      BY <2>1, <3>2, NewRowIsRow, StaffAssumption DEF TypeOK, TablesTyped, Live
    <3> QED
      BY <1>1, <3>1, <3>2 DEF ResolveConversation
  <2> QED
    BY <2>1, <2>2 DEF TypeOK
<1>2. ASSUME NEW c \in ChatIds, AiReply(c) PROVE TypeOK'
  <2>1. row[c] \in Rows
    BY DEF TypeOK, TablesTyped
  <2>2. /\ Begin(row[c]) \in Rows /\ AskHelp(row[c]) \in Rows
        /\ MayFinish(row[c]) => Finish(row[c]) \in Rows
    BY <2>1, AiUpdates
  <2>3. row' \in [ChatIds -> Rows] /\ old' \subseteq old
    BY <1>2, <2>2 DEF AiReply, Touch, TypeOK, TablesTyped
  <2> QED
    BY <1>2, <2>3 DEF AiReply, TypeOK, TablesTyped, Live
<1>3. ASSUME NEW c \in ChatIds, Age(c) PROVE TypeOK'
  BY <1>3 DEF Age, TypeOK, TablesTyped, Live
<1>4. CASE Purge
  <2>1. Expired \in SUBSET ChatIds
    BY DEF Expired, TypeOK, TablesTyped, Live
  <2>2. TablesTyped'
    BY <1>4, <2>1, RemoveTyped DEF Purge
  <2> QED
    BY <1>4, <2>2 DEF TypeOK, Purge
<1> QED
  BY <1>1, <1>2, <1>3, <1>4

(* The steps of panel requests.                                            *)
LEMMA TypeDesk ==
  ASSUME TypeOK, NEW d \in Desks,
         \/ \E u \in Users, c \in ChatIds : Submit(d, u, c)
         \/ Serve(d) \/ Abandon(d)
  PROVE  TypeOK'
<1> DEFINE w == desk[d]
           c == w.chat
<1>0. w \in Work /\ Knows(w)
  BY DEF TypeOK
<1>1. ASSUME NEW u \in Users, NEW e \in ChatIds, Submit(d, u, e) PROVE TypeOK'
  <2>1. PICK next : Moves(d, next) /\ next \in Work /\ Knows(next)
    <3>1. CASE Moves(d, [Idle EXCEPT !.at = "take", !.user = u, !.chat = e])
      <4> DEFINE next == [Idle EXCEPT !.at = "take", !.user = u, !.chat = e]
      <4>1. next \in Work /\ Knows(next)
        BY IdleTyped DEF Work, Steps, Knows
      <4> QED
        BY <3>1, <4>1
    <3>2. ASSUME NEW b \in BOOLEAN, Moves(d, [Idle EXCEPT !.at = "release", !.user = u,
                                                 !.chat = e, !.isOwner = b])
          PROVE  \E next : Moves(d, next) /\ next \in Work /\ Knows(next)
      <4> DEFINE next == [Idle EXCEPT !.at = "release", !.user = u, !.chat = e,
                                      !.isOwner = b]
      <4>1. next \in Work /\ Knows(next)
        BY IdleTyped DEF Work, Steps, Knows
      <4> QED
        BY <3>2, <4>1
    <3>3. ASSUME NEW q \in Requests, Moves(d, [Idle EXCEPT !.at = "look", !.user = u,
                                                  !.chat = e, !.req = q])
          PROVE  \E next : Moves(d, next) /\ next \in Work /\ Knows(next)
      <4> DEFINE next == [Idle EXCEPT !.at = "look", !.user = u, !.chat = e, !.req = q]
      <4>1. next \in Work /\ Knows(next)
        BY IdleTyped DEF Work, Steps, Knows
      <4> QED
        BY <3>3, <4>1
    <3> QED
      BY <1>1, <3>1, <3>2, <3>3 DEF Submit
  <2> QED
    BY <1>1, <2>1, MovesTyped DEF Submit, TypeOK, TablesTyped, Live
<1>2. CASE TakeOver(d)
  <2>1. c \in Live => row[c] \in Rows /\ Take(row[c], w.user) \in Rows
    BY <1>0, <1>2, HumanUpdates DEF TakeOver, Knows, TypeOK, TablesTyped, Live
  <2>2. row' \in [ChatIds -> Rows] /\ old' \subseteq old
    BY <1>2, <2>1 DEF TakeOver, Touch, TypeOK, TablesTyped, Live
  <2> QED
    BY <1>2, <2>2, EndsTyped DEF TakeOver, TypeOK, TablesTyped, Live
<1>3. CASE GiveBack(d)
  <2>1. c \in Live => row[c] \in Rows /\ Release(row[c]) \in Rows
    BY <1>0, <1>3, HumanUpdates DEF GiveBack, Knows, TypeOK, TablesTyped, Live
  <2>2. row' \in [ChatIds -> Rows] /\ old' \subseteq old
    BY <1>3, <2>1 DEF GiveBack, Touch, TypeOK, TablesTyped, Live
  <2> QED
    BY <1>3, <2>2, EndsTyped DEF GiveBack, TypeOK, TablesTyped, Live
<1>4. CASE Look(d)
  <2>1. CASE Ends(d)
    BY <1>4, <2>1, EndsTyped DEF Look, TypeOK, TablesTyped, Live
  <2>2. CASE w.chat \in Live /\ Moves(d, [w EXCEPT !.at = "reserve", !.to = owner[w.chat]])
    <3> DEFINE next == [w EXCEPT !.at = "reserve", !.to = owner[w.chat]]
    <3>1. next \in Work /\ Knows(next)
      BY <1>0, <1>4, <2>2 DEF Look, Work, Steps, Knows, TypeOK, TablesTyped, Live
    <3> HIDE DEF next
    <3>2. Moves(d, next)
      BY <2>2 DEF next
    <3> QED
      BY <1>4, <3>1, <3>2, MovesTyped DEF Look, TypeOK, TablesTyped, Live
  <2> QED
    BY <1>4, <2>1, <2>2 DEF Look
<1>5. CASE Reserve(d)
  <2>1. CASE Ends(d) /\ UNCHANGED <<row, receipt>>
    BY <1>5, <2>1, EndsTyped DEF Reserve, TypeOK, TablesTyped, Live
  <2>2. ASSUME c \in Live, row' = [row EXCEPT ![c] = Block(@)],
               NEW r \in ReceiptIds,
               receipt' = [receipt EXCEPT ![r] =
                 [chat |-> c, user |-> w.user, req |-> w.req, status |-> "pending"]],
               Moves(d, [w EXCEPT !.at = "send", !.id = r])
        PROVE  TypeOK'
    <3> DEFINE next == [w EXCEPT !.at = "send", !.id = r]
    <3>1. next \in Work /\ Knows(next)
      BY <1>0, <1>5 DEF Reserve, Work, Steps, Knows
    <3> HIDE DEF next
    <3>2. Moves(d, next)
      BY <2>2 DEF next
    <3>3. [chat |-> c, user |-> w.user, req |-> w.req, status |-> "pending"] \in Receipts
      BY <1>0 DEF Receipts, Statuses, Work
    <3>4. receipt' \in [ReceiptIds -> Receipts]
      BY <2>2, <3>3 DEF TypeOK, TablesTyped
    <3>5. row[c] \in Rows /\ Block(row[c]) \in Rows
      BY <1>0, <1>5, <2>2, HumanUpdates DEF Reserve, Knows, TypeOK, TablesTyped, Live
    <3>6. row' \in [ChatIds -> Rows]
      BY <2>2, <3>5 DEF TypeOK, TablesTyped, Live
    <3> QED
      BY <1>5, <3>1, <3>2, <3>4, <3>6, MovesTyped DEF Reserve, TypeOK, TablesTyped, Live
  <2> QED
    BY <1>5, <2>1, <2>2 DEF Reserve
<1>6. CASE Send(d)
  <2>1. w.chat \in ChatIds /\ w.req \in Requests
    BY <1>0, <1>6 DEF Send, Knows
  <2>2. PICK next : Moves(d, next) /\ next \in Work /\ Knows(next)
    <3>1. \A o \in {"accepted", "uncertain"} :
             /\ [w EXCEPT !.at = "check", !.outcome = o] \in Work
             /\ Knows([w EXCEPT !.at = "check", !.outcome = o])
      BY <1>0, <1>6 DEF Send, Work, Steps, Knows
    <3> QED
      BY <1>6, <3>1 DEF Send
  <2>3. sent' \in [ChatIds -> [Requests -> Nat]]
    BY <1>6, <2>1 DEF Send, TypeOK, TablesTyped
  <2>4. answered' \subseteq ChatIds \X Requests
    BY <1>6, <2>1 DEF Send, TypeOK, TablesTyped
  <2> QED
    BY <1>6, <2>2, <2>3, <2>4, MovesTyped DEF Send, TypeOK, TablesTyped, Live
<1>7. CASE Check(d)
  <2>1. CASE Ends(d)
    BY <1>7, <2>1, EndsTyped DEF Check, TypeOK, TablesTyped, Live
  <2>2. ASSUME NEW r, r = receipt[w.id],
               Moves(d, [w EXCEPT !.at = "settle",
                                  !.seen = [chat |-> r.chat, user |-> r.user]])
        PROVE  TypeOK'
    <3> DEFINE next == [w EXCEPT !.at = "settle",
                                 !.seen = [chat |-> r.chat, user |-> r.user]]
    <3>0. r \in Receipts
      BY <1>0, <1>7, <2>2 DEF Check, Knows, TypeOK, TablesTyped
    <3>1. next \in Work /\ Knows(next)
      BY <1>0, <1>7, <3>0 DEF Check, Work, Steps, Knows, Receipts
    <3> HIDE DEF next
    <3>2. Moves(d, next)
      BY <2>2 DEF next
    <3> QED
      BY <1>7, <3>1, <3>2, MovesTyped DEF Check, TypeOK, TablesTyped, Live
  <2> QED
    BY <1>7, <2>1, <2>2 DEF Check
<1>8. CASE Settle(d)
  <2>1. CASE UNCHANGED <<receipt, row, old>>
    BY <1>8, <2>1, EndsTyped DEF Settle, TypeOK, TablesTyped, Live
  <2>2. CASE MaySettle(w) /\ receipt' = [receipt EXCEPT ![w.id].status = w.outcome]
    <3>1. receipt' \in [ReceiptIds -> Receipts]
      <4> DEFINE new == [receipt[w.id] EXCEPT !.status = w.outcome]
      <4>1. receipt[w.id] \in Receipts /\ w.outcome \in Statuses
        BY <1>0, <1>8 DEF Settle, Work, Knows, Statuses, TypeOK, TablesTyped
      <4>2. new \in Receipts
        BY <4>1 DEF Receipts
      <4>3. receipt' = [receipt EXCEPT ![w.id] = new]
        BY <2>2
      <4> HIDE DEF new
      <4> QED
        BY <4>2, <4>3 DEF TypeOK, TablesTyped
    <3>2. w.seen.chat \in Live
      BY <2>2 DEF MaySettle
    <3>3. row[w.seen.chat] \in Rows
      BY <3>2 DEF TypeOK, TablesTyped, Live
    <3>4. Unblock(row[w.seen.chat]) \in Rows
      BY <3>3 DEF Rows, Unblock
    <3>5. row' \in [ChatIds -> Rows] /\ old' \subseteq old
      BY <1>8, <3>2, <3>4 DEF Settle, Touch, TypeOK, TablesTyped, Live
    <3>6. Ends(d) /\ UNCHANGED <<owner, sent, answered>>
      BY <1>8 DEF Settle
    <3> QED
      BY <3>1, <3>5, <3>6, EndsTyped DEF TypeOK, TablesTyped, Live
  <2> QED
    BY <1>8, <2>1, <2>2 DEF Settle
<1>9. CASE Abandon(d)
  BY <1>9, EndsTyped DEF Abandon, TypeOK, TablesTyped, Live
<1> QED
  BY <1>1, <1>2, <1>3, <1>4, <1>5, <1>6, <1>7, <1>8, <1>9 DEF Serve

LEMMA TypeStep == TypeOK /\ [ErasingNext]_vars => TypeOK'
<1>1. TypeOK /\ UNCHANGED vars => TypeOK'
  BY DEF vars, TypeOK, TablesTyped, Live
<1>2. ASSUME TypeOK, NEW s \in Senders, EraseSender(s) PROVE TypeOK'
  <2>1. PICK c \in Live : Remove({c})
    BY <1>2 DEF EraseSender
  <2>2. TablesTyped'
    BY <1>2, <2>1, RemoveTyped DEF Live
  <2> QED
    BY <1>2, <2>2 DEF TypeOK, EraseSender
<1> QED
  BY <1>1, <1>2, TypeWorld, TypeDesk DEF ErasingNext, Next

(* The variables stay typed whatever happens, also when senders are erased.*)
THEOREM StaffTypeSafety == (Spec => []TypeOK) /\ (ErasingSpec => []TypeOK)
<1>1. [Next]_vars => [ErasingNext]_vars
  BY DEF ErasingNext
<1> QED
  BY <1>1, TypeInit, TypeStep, PTL DEF Spec, ErasingSpec
-----------------------------------------------------------------------------
(* Safety.                                                                 *)

(* The part of the invariant about the tables alone, and the part about    *)
(* the requests in progress.                                               *)
TablesInv == /\ TablesAgree /\ RequestsUnique /\ BlockMatchesReceipts
             /\ OneSendPerRequest /\ AcceptedIsAnswered
             /\ \A c \in ChatIds, q \in Requests : sent[c][q] > 0 => Reserved(c, q)

DeskInv(d) ==
  /\ d \in Holding => receipt[desk[d].id] = ReceiptOf(desk[d])
  /\ \A e \in Holding : d \in Holding /\ desk[d].id = desk[e].id => d = e
  /\ desk[d].at = "settle" =>
       desk[d].seen = [chat |-> desk[d].chat, user |-> desk[d].user]
  /\ desk[d].at = "send" => sent[desk[d].chat][desk[d].req] = 0
  /\ desk[d].at \in {"check", "settle"} /\ desk[d].outcome = "accepted"
       => <<desk[d].chat, desk[d].req>> \in answered

LEMMA InvParts == StaffInv <=> TablesInv /\ \A d \in Desks : DeskInv(d)
  BY DEF StaffInv, TablesInv, DeskInv, DesksHold, SendsAgree, Holding

LEMMA StaffInvInit == Init => StaffInv
<1> SUFFICES ASSUME Init PROVE StaffInv
  OBVIOUS
<1>1. Stored = {} /\ \A r \in ReceiptIds : receipt[r].chat = 0
  BY DEF Init, Stored, NoReceipt
<1>2. TablesAgree /\ RequestsUnique
  BY <1>1 DEF Init, TablesAgree, RequestsUnique, NewRow
<1>3. BlockMatchesReceipts /\ AcceptedIsAnswered
  BY <1>1 DEF Init, BlockMatchesReceipts, AcceptedIsAnswered, NewRow
<1>4. OneSendPerRequest /\ SendsAgree
  BY DEF Init, OneSendPerRequest, SendsAgree, Idle
<1>5. DesksHold
  BY DEF Init, DesksHold, Holding, Idle
<1> QED
  BY <1>2, <1>3, <1>4, <1>5 DEF StaffInv

(* A request that ends without touching receipts keeps its part.           *)
LEMMA EndKeeps ==
  ASSUME TypeOK, NEW d \in Desks, Ends(d), \A e \in Desks : DeskInv(e),
         UNCHANGED <<receipt, sent, answered>>
  PROVE  \A e \in Desks : DeskInv(e)'
<1>1. desk'[d] = Idle /\ \A e \in Desks \ {d} : desk'[e] = desk[e]
  BY EndsTyped
<1>2. Holding' \subseteq Holding \ {d}
  BY <1>1 DEF Holding, Idle
<1> QED
  BY <1>1, <1>2 DEF DeskInv, Idle, Holding, ReceiptOf

(* So does a change of anything else.                                      *)
LEMMA DesksUntouched ==
  ASSUME \A e \in Desks : DeskInv(e), UNCHANGED <<desk, receipt, sent, answered>>
  PROVE  \A e \in Desks : DeskInv(e)'
  BY DEF DeskInv, Holding, ReceiptOf

LEMMA TablesUntouched ==
  ASSUME TablesInv, UNCHANGED <<owner, row, receipt, sent, answered>>
  PROVE  TablesInv'
  BY DEF TablesInv, TablesAgree, RequestsUnique, BlockMatchesReceipts,
         OneSendPerRequest, AcceptedIsAnswered, Reserved, Live, Stored, Unsettled

(* A handoff or an AI reply changes one row, and not the mode or the       *)
(* assignee of a blocked one.                                              *)
LEMMA RowKeeps ==
  ASSUME TypeOK, TablesInv, NEW c \in Live, NEW r \in Rows,
         row' = [row EXCEPT ![c] = r], UNCHANGED <<owner, receipt, sent, answered>>,
         r.sendBlocked = row[c].sendBlocked,
         r.sendBlocked => r.mode = row[c].mode /\ r.assignee = row[c].assignee
  PROVE  TablesInv'
<1>1. row'[c] = r /\ \A e \in ChatIds \ {c} : row'[e] = row[e]
  BY RowTyped DEF Live
<1>2. Live' = Live /\ Stored' = Stored /\ \A e \in ChatIds : Unsettled(e)' = Unsettled(e)
  BY DEF Live, Stored, Unsettled
<1>3. TablesAgree' /\ RequestsUnique'
  BY <1>1, <1>2 DEF TablesInv, TablesAgree, RequestsUnique, Live
<1>4. BlockMatchesReceipts'
  <2>1. \A e \in ChatIds : row'[e].sendBlocked = row[e].sendBlocked
    BY <1>1
  <2>2. \A e \in ChatIds : row[e].sendBlocked =>
           row'[e].mode = row[e].mode /\ row'[e].assignee = row[e].assignee
    BY <1>1
  <2>3. \A s \in Stored : receipt[s].chat \in ChatIds
    BY DEF TablesInv, TablesAgree, Live
  <2> QED
    BY <1>2, <2>1, <2>2, <2>3 DEF TablesInv, BlockMatchesReceipts
<1>5. OneSendPerRequest' /\ AcceptedIsAnswered'
  BY <1>2 DEF TablesInv, OneSendPerRequest, AcceptedIsAnswered
<1> QED
  BY <1>2, <1>3, <1>4, <1>5 DEF TablesInv, Reserved

(* Deleting conversations without unsettled receipts.                      *)
LEMMA RemoveKeeps ==
  ASSUME TypeOK, TablesInv, \A e \in Desks : DeskInv(e), NEW gone \in SUBSET ChatIds,
         \A c \in gone : Unsettled(c) = {}, Remove(gone), UNCHANGED desk
  PROVE  TablesInv' /\ \A e \in Desks : DeskInv(e)'
<1>1. \A r \in ReceiptIds :
         /\ receipt[r].chat \in gone => receipt'[r] = NoReceipt
         /\ receipt[r].chat \notin gone => receipt'[r] = receipt[r]
  BY DEF Remove
<1>2. Stored' = {r \in Stored : receipt[r].chat \notin gone}
  BY <1>1 DEF Stored, NoReceipt
<1>3. Live' = Live \ gone
  BY DEF Remove, Live
<1>4. \A c \in ChatIds :
         /\ c \in gone => row'[c] = NewRow /\ sent'[c] = [q \in Requests |-> 0]
         /\ c \notin gone => row'[c] = row[c] /\ sent'[c] = sent[c]
  BY DEF Remove
<1>5. \A c \in ChatIds : Unsettled(c)' = Unsettled(c)
  <2>1. 0 \notin gone
    BY StaffAssumption
  <2>2. \A r \in ReceiptIds : receipt[r].status \in Open => receipt[r].chat \notin gone
    BY DEF Unsettled
  <2> QED
    BY <1>1, <2>2 DEF Unsettled, NoReceipt, Open
<1>6. TablesAgree'
  <2>1. ASSUME NEW r \in ReceiptIds PROVE receipt'[r].chat = 0 <=> r \notin Stored'
    <3>1. receipt[r].chat = 0 <=> r \notin Stored
      BY DEF TablesInv, TablesAgree
    <3>2. CASE receipt[r].chat \in gone
      BY <1>1, <1>2, <3>2 DEF NoReceipt
    <3>3. CASE receipt[r].chat \notin gone
      BY <1>1, <1>2, <3>1, <3>3
    <3> QED
      BY <3>2, <3>3
  <2>2. \A c \in ChatIds \ Live' : ~row'[c].sendBlocked
    BY <1>3, <1>4 DEF TablesInv, TablesAgree, NewRow
  <2>3. \A r \in Stored' : r \in Stored /\ receipt'[r] = receipt[r] /\ receipt[r].chat \notin gone
    BY <1>1, <1>2 DEF Stored
  <2>4. \A r \in Stored' : /\ receipt'[r].chat \in Live'
                           /\ receipt'[r].req \in Requests /\ receipt'[r].user \in Users
    BY <1>3, <2>3 DEF TablesInv, TablesAgree
  <2> QED
    BY <2>1, <2>2, <2>4 DEF TablesAgree
<1>7. RequestsUnique'
  BY <1>1, <1>2 DEF TablesInv, RequestsUnique, Stored
<1>8. BlockMatchesReceipts'
  <2>1. \A c \in ChatIds : row'[c].sendBlocked => Unsettled(c)' # {}
    BY <1>4, <1>5 DEF TablesInv, BlockMatchesReceipts, NewRow
  <2>2. \A r \in Stored' : /\ r \in Stored /\ receipt'[r] = receipt[r]
                           /\ receipt[r].chat \in ChatIds \ gone
    BY <1>1, <1>2 DEF TablesInv, TablesAgree, Stored, Live
  <2> QED
    BY <1>4, <1>5, <2>1, <2>2 DEF TablesInv, BlockMatchesReceipts
<1>9. OneSendPerRequest'
  BY <1>4 DEF TablesInv, OneSendPerRequest
<1>10. AcceptedIsAnswered'
  BY <1>1, <1>2 DEF Remove, TablesInv, AcceptedIsAnswered, Stored
<1>11. ASSUME NEW c \in ChatIds, NEW q \in Requests, sent'[c][q] > 0
       PROVE  Reserved(c, q)'
  <2>1. c \notin gone /\ sent'[c] = sent[c]
    BY <1>4, <1>11
  <2> QED
    BY <1>1, <1>2, <1>11, <2>1 DEF TablesInv, Reserved, Stored
<1>12. ASSUME NEW e \in Desks PROVE DeskInv(e)'
  <2>1. ASSUME e \in Holding
        PROVE  desk[e].chat \in ChatIds \ gone /\ receipt'[desk[e].id] = receipt[desk[e].id]
    <3>1. desk[e].id \in ReceiptIds /\ desk[e].chat \in ChatIds
      BY <2>1 DEF TypeOK, Knows, Holding
    <3>2. receipt[desk[e].id] = ReceiptOf(desk[e])
      BY <2>1 DEF DeskInv
    <3>3. desk[e].id \in Unsettled(desk[e].chat)
      BY <3>1, <3>2 DEF ReceiptOf, Unsettled, Open
    <3> QED
      BY <1>1, <3>1, <3>2, <3>3 DEF ReceiptOf
  <2>2. e \in Holding => /\ sent'[desk[e].chat] = sent[desk[e].chat]
                         /\ \A q : <<desk[e].chat, q>> \in answered
                                    => <<desk[e].chat, q>> \in answered'
    BY <1>4, <2>1 DEF Remove
  <2>3. Holding' = Holding /\ desk'[e] = desk[e]
    BY DEF Holding
  <2>4. CASE e \notin Holding
    BY <2>3, <2>4 DEF DeskInv, Holding
  <2>5. CASE e \in Holding
    <3>1. receipt'[desk[e].id] = ReceiptOf(desk[e])
      BY <2>1, <2>5 DEF DeskInv
    <3>2. desk[e].at = "send" => sent'[desk[e].chat][desk[e].req] = 0
      BY <2>2, <2>5 DEF DeskInv
    <3>3. desk[e].at \in {"check", "settle"} /\ desk[e].outcome = "accepted"
            => <<desk[e].chat, desk[e].req>> \in answered'
      BY <2>2, <2>5 DEF DeskInv
    <3> QED
      BY <2>3, <3>1, <3>2, <3>3 DEF DeskInv, ReceiptOf
  <2> QED
    BY <2>4, <2>5
<1> QED
  BY <1>6, <1>7, <1>8, <1>9, <1>10, <1>11, <1>12 DEF TablesInv

(* A blocked conversation is in human hands.                               *)
LEMMA BlockedIsHuman ==
  ASSUME TablesInv, NEW c \in ChatIds, row[c].sendBlocked
  PROVE  row[c].mode = "HUMAN"
<1>1. PICK r \in ReceiptIds : receipt[r].status \in Open /\ receipt[r].chat = c
  BY DEF TablesInv, BlockMatchesReceipts, Unsettled
<1>2. r \in Stored
  BY <1>1 DEF Stored, Open
<1> QED
  BY <1>1, <1>2 DEF TablesInv, BlockMatchesReceipts

(* A request that moves on but holds no receipt yet.                       *)
LEMMA MoveKeeps ==
  ASSUME TypeOK, NEW d \in Desks, NEW next \in Work, Moves(d, next),
         next.at \notin {"send", "check", "settle"}, \A e \in Desks : DeskInv(e),
         UNCHANGED <<receipt, sent, answered>>
  PROVE  \A e \in Desks : DeskInv(e)'
<1>1. desk'[d] = next /\ \A e \in Desks \ {d} : desk'[e] = desk[e]
  BY DEF TypeOK, Moves
<1>2. Holding' \subseteq Holding \ {d}
  BY <1>1 DEF Holding
<1> QED
  BY <1>1, <1>2 DEF DeskInv, Holding, ReceiptOf

(* The steps of the environment and of the purge.                          *)
LEMMA SafetyWorld ==
  ASSUME TypeOK, TablesInv, \A e \in Desks : DeskInv(e),
         \/ \E s \in Senders : ResolveConversation(s)
         \/ \E c \in ChatIds : AiReply(c) \/ Age(c)
         \/ Purge
  PROVE  TablesInv' /\ \A e \in Desks : DeskInv(e)'
<1>1. ASSUME NEW s \in Senders, ResolveConversation(s)
      PROVE  TablesInv' /\ \A e \in Desks : DeskInv(e)'
  <2>1. UNCHANGED <<receipt, desk, sent, answered>>
    BY <1>1 DEF ResolveConversation
  <2>2. CASE UNCHANGED <<owner, row>>
    BY <2>1, <2>2, TablesUntouched, DesksUntouched
  <2>3. ASSUME NEW c \in ChatIds \ Live, owner' = [owner EXCEPT ![c] = s],
               row' = [row EXCEPT ![c] = NewRow]
        PROVE  TablesInv'
    <3>1. /\ row'[c] = NewRow /\ Live' = Live \cup {c}
          /\ \A e \in ChatIds \ {c} : row'[e] = row[e]
      BY <2>3, StaffAssumption DEF TypeOK, TablesTyped, Live
    <3>2. Stored' = Stored /\ \A e \in ChatIds : Unsettled(e)' = Unsettled(e)
      BY <2>1 DEF Stored, Unsettled
    <3>3. TablesAgree' /\ RequestsUnique'
      BY <2>1, <3>1, <3>2 DEF TablesInv, TablesAgree, RequestsUnique
    <3>4. BlockMatchesReceipts'
      <4>1. \A e \in ChatIds : row'[e].sendBlocked => row[e].sendBlocked
        BY <3>1 DEF NewRow
      <4>2. \A r \in Stored : receipt[r].chat \in ChatIds \ {c}
        BY <2>3 DEF TablesInv, TablesAgree, Live
      <4> QED
        BY <2>1, <3>1, <3>2, <4>1, <4>2 DEF TablesInv, BlockMatchesReceipts
    <3> QED
      BY <2>1, <3>2, <3>3, <3>4
         DEF TablesInv, OneSendPerRequest, AcceptedIsAnswered, Reserved
  <2>4. \A c \in NextId(Live) : c \notin Live
    <3> SUFFICES ASSUME NEW c \in NextId(Live) PROVE \A n \in Live : n # c
      OBVIOUS
    <3>1. \A n \in Live : n \in Nat /\ n < c
      BY StaffAssumption DEF NextId, Live
    <3> QED
      BY <3>1
  <2> QED
    BY <1>1, <2>1, <2>2, <2>3, <2>4, DesksUntouched DEF ResolveConversation
<1>2. ASSUME NEW c \in ChatIds, AiReply(c)
      PROVE  TablesInv' /\ \A e \in Desks : DeskInv(e)'
  <2>1. c \in Live /\ row[c] \in Rows /\ UNCHANGED <<owner, receipt, desk, sent, answered>>
    BY <1>2 DEF AiReply, TypeOK, TablesTyped
  <2>2. /\ Begin(row[c]) \in Rows /\ AskHelp(row[c]) \in Rows
        /\ MayFinish(row[c]) => Finish(row[c]) \in Rows
    BY <2>1, AiUpdates
  <2>3. PICK r \in Rows : row' = [row EXCEPT ![c] = r]
                          /\ r \in {Begin(row[c]), AskHelp(row[c]), Finish(row[c])}
    BY <1>2, <2>2 DEF AiReply
  <2>4. /\ r.sendBlocked = row[c].sendBlocked /\ r.mode = row[c].mode
        /\ r.assignee = row[c].assignee
    BY <2>1, <2>3 DEF Begin, AskHelp, Finish, Rows
  <2>5. TablesInv'
    BY <2>1, <2>3, <2>4, RowKeeps
  <2> QED
    BY <2>1, <2>5, DesksUntouched
<1>3. ASSUME NEW c \in ChatIds, Age(c)
      PROVE  TablesInv' /\ \A e \in Desks : DeskInv(e)'
  BY <1>3, TablesUntouched, DesksUntouched DEF Age
<1>4. CASE Purge
  <2>1. Expired \in SUBSET ChatIds /\ \A c \in Expired : Unsettled(c) = {}
    BY DEF Expired, TypeOK, TablesTyped, Live
  <2> QED
    BY <1>4, <2>1, RemoveKeeps DEF Purge
<1> QED
  BY <1>1, <1>2, <1>3, <1>4

(* Taking over, giving back, and what does not write.                      *)
LEMMA SafetyHandoff ==
  ASSUME TypeOK, TablesInv, \A e \in Desks : DeskInv(e), NEW d \in Desks,
         \/ \E u \in Users, c \in ChatIds : Submit(d, u, c)
         \/ TakeOver(d) \/ GiveBack(d) \/ Look(d) \/ Abandon(d)
  PROVE  TablesInv' /\ \A e \in Desks : DeskInv(e)'
<1> DEFINE c == desk[d].chat
<1>0. desk[d] \in Work /\ Knows(desk[d])
  BY DEF TypeOK
<1>1. ASSUME NEW u \in Users, NEW e \in ChatIds, Submit(d, u, e)
      PROVE  TablesInv' /\ \A f \in Desks : DeskInv(f)'
  <2>1. UNCHANGED <<owner, row, old, receipt, sent, answered>>
    BY <1>1 DEF Submit
  <2>2. desk' = [desk EXCEPT ![d] = desk'[d]]
        /\ desk'[d].at \in {"take", "release", "look"}
    BY <1>1 DEF Submit, Moves, Idle, TypeOK
  <2>3. desk'[d] \in Work
    BY <1>1, TypeDesk DEF TypeOK
  <2>4. Moves(d, desk'[d])
    BY <2>2 DEF Moves
  <2>5. \A f \in Desks : DeskInv(f)'
    BY <2>1, <2>2, <2>3, <2>4, MoveKeeps
  <2> QED
    BY <2>1, <2>5, TablesUntouched
<1>2. CASE TakeOver(d)
  <2>1. Ends(d) /\ UNCHANGED <<owner, receipt, sent, answered>>
    BY <1>2 DEF TakeOver
  <2>2. CASE UNCHANGED <<row, old>>
    BY <2>1, <2>2, TablesUntouched, EndKeeps
  <2>3. CASE c \in Live /\ MayTake(row[c]) /\ row' = [row EXCEPT ![c] = Take(@, desk[d].user)]
    <3>1. c \in Live /\ row[c] \in Rows /\ Take(row[c], desk[d].user) \in Rows
      BY <1>0, <1>2, <2>3, HumanUpdates DEF TakeOver, Knows, TypeOK, TablesTyped, Live
    <3>2. ~row[c].sendBlocked
      BY <2>3, BlockedIsHuman DEF MayTake, Live
    <3>3. Take(row[c], desk[d].user).sendBlocked = row[c].sendBlocked
      BY <3>1 DEF Take, Rows
    <3>4. TablesInv'
      BY <2>1, <2>3, <3>1, <3>2, <3>3, RowKeeps
    <3> QED
      BY <2>1, <3>4, EndKeeps
  <2> QED
    BY <1>2, <2>2, <2>3 DEF TakeOver
<1>3. CASE GiveBack(d)
  <2>1. Ends(d) /\ UNCHANGED <<owner, receipt, sent, answered>>
    BY <1>3 DEF GiveBack
  <2>2. CASE UNCHANGED <<row, old>>
    BY <2>1, <2>2, TablesUntouched, EndKeeps
  <2>3. CASE /\ c \in Live /\ MayRelease(row[c], desk[d].user, desk[d].isOwner)
             /\ row' = [row EXCEPT ![c] = Release(@)]
    <3>1. c \in Live /\ row[c] \in Rows /\ Release(row[c]) \in Rows
      BY <1>0, <1>3, <2>3, HumanUpdates DEF GiveBack, Knows, TypeOK, TablesTyped, Live
    <3>2. ~row[c].sendBlocked
      BY <2>3 DEF MayRelease
    <3>3. Release(row[c]).sendBlocked = row[c].sendBlocked
      BY <3>1 DEF Release, Rows
    <3>4. TablesInv'
      BY <2>1, <2>3, <3>1, <3>2, <3>3, RowKeeps
    <3> QED
      BY <2>1, <3>4, EndKeeps
  <2> QED
    BY <1>3, <2>2, <2>3 DEF GiveBack
<1>4. CASE Look(d)
  <2>1. UNCHANGED <<owner, row, old, receipt, sent, answered>>
    BY <1>4 DEF Look
  <2>2. CASE Ends(d)
    BY <2>1, <2>2, TablesUntouched, EndKeeps
  <2>3. CASE Moves(d, [desk[d] EXCEPT !.at = "reserve", !.to = owner[desk[d].chat]])
    <3> DEFINE next == [desk[d] EXCEPT !.at = "reserve", !.to = owner[desk[d].chat]]
    <3>1. next.at = "reserve"
      BY <1>0 DEF Work
    <3>2. desk'[d] = next
      BY <2>3 DEF Moves, TypeOK
    <3>3. next \in Work
      BY <1>4, <3>2, TypeDesk DEF Serve, TypeOK
    <3> HIDE DEF next
    <3>4. Moves(d, next)
      BY <2>3 DEF next
    <3>5. \A f \in Desks : DeskInv(f)'
      BY <2>1, <3>1, <3>3, <3>4, MoveKeeps
    <3> QED
      BY <2>1, <3>5, TablesUntouched
  <2> QED
    BY <1>4, <2>2, <2>3 DEF Look
<1>5. CASE Abandon(d)
  BY <1>5, TablesUntouched, EndKeeps DEF Abandon
<1> QED
  BY <1>1, <1>2, <1>3, <1>4, <1>5

LEMMA NextIdIsNew ==
  ASSUME NEW used \in SUBSET ReceiptIds, NEW r \in NextId(used)
  PROVE  r \notin used
<1> SUFFICES ASSUME r \in used PROVE FALSE
  OBVIOUS
<1>1. r < r /\ r \in Nat
  BY StaffAssumption DEF NextId
<1> QED
  BY <1>1

LEMMA HoldersStored ==
  ASSUME TypeOK, \A e \in Desks : DeskInv(e), NEW e \in Holding
  PROVE  /\ e \in Desks /\ desk[e].id \in Stored
         /\ receipt[desk[e].id] = ReceiptOf(desk[e])
<1>1. e \in Desks /\ desk[e].id \in ReceiptIds
  BY DEF Holding, TypeOK, Knows
<1>2. DeskInv(e)
  BY <1>1
<1>3. receipt[desk[e].id] = ReceiptOf(desk[e])
  BY <1>2 DEF DeskInv
<1> QED
  BY <1>1, <1>3 DEF ReceiptOf, Stored

(* The reservation: a new pending receipt, and the conversation blocked.   *)
LEMMA SafetyReserve ==
  ASSUME TypeOK, TablesInv, \A e \in Desks : DeskInv(e), NEW d \in Desks, Reserve(d)
  PROVE  TablesInv' /\ \A e \in Desks : DeskInv(e)'
<1> DEFINE w == desk[d]
<1>0. PICK c \in ChatIds, q \in Requests, u \in Users :
        w \in Work /\ w.chat = c /\ w.req = q /\ w.user = u
  BY DEF TypeOK, Knows, Reserve
<1>1. UNCHANGED <<owner, old, sent, answered>>
  BY DEF Reserve
<1>2. CASE Ends(d) /\ UNCHANGED <<row, receipt>>
  BY <1>1, <1>2, TablesUntouched, EndKeeps
<1>3. ASSUME c \in Live, MayBlock(row[c], u), ~Reserved(c, q),
             row' = [row EXCEPT ![c] = Block(@)],
             NEW r \in NextId(Stored) \cap ReceiptIds,
             receipt' = [receipt EXCEPT ![r] =
               [chat |-> c, user |-> u, req |-> q, status |-> "pending"]],
             Moves(d, [w EXCEPT !.at = "send", !.id = r])
      PROVE  TablesInv' /\ \A e \in Desks : DeskInv(e)'
  <2> DEFINE new == [chat |-> c, user |-> u, req |-> q, status |-> "pending"]
             next == [w EXCEPT !.at = "send", !.id = r]
  <2>1. r \notin Stored
    BY <1>3, NextIdIsNew DEF Stored
  <2>2. receipt'[r] = new /\ \A s \in ReceiptIds \ {r} : receipt'[s] = receipt[s]
    BY <1>3 DEF TypeOK, TablesTyped
  <2>3. Stored' = Stored \cup {r} /\ Live' = Live
    BY <1>1, <2>2 DEF Stored, Live
  <2>4. /\ row'[c] = Block(row[c]) /\ \A e \in ChatIds \ {c} : row'[e] = row[e]
        /\ row[c] \in Rows
    BY <1>0, <1>3 DEF TypeOK, TablesTyped
  <2>5. /\ row'[c].sendBlocked /\ row'[c].mode = "HUMAN" /\ row'[c].assignee = u
        /\ ~row[c].sendBlocked
    BY <1>3, <2>4 DEF MayBlock, Block, Rows
  <2>6. Unsettled(c) = {}
    BY <2>5 DEF TablesInv, BlockMatchesReceipts, Unsettled, Stored, Open
  <2>7. Unsettled(c)' = {r}
    <3>1. r \in Unsettled(c)'
      BY <2>2 DEF Unsettled, Open
    <3>2. \A s \in Unsettled(c)' : s = r
      BY <2>2, <2>6 DEF Unsettled
    <3> QED
      BY <3>1, <3>2
  <2>8. \A e \in ChatIds \ {c} : Unsettled(e)' = Unsettled(e)
    BY <2>1, <2>2 DEF Unsettled, Open, Stored
  <2>9. TablesAgree'
    <3>1. \A s \in ReceiptIds : receipt'[s].chat = 0 <=> s \notin Stored'
      BY <1>0, <2>2, <2>3, StaffAssumption DEF TablesInv, TablesAgree
    <3>2. \A e \in ChatIds \ Live' : ~row'[e].sendBlocked
      BY <1>3, <2>3, <2>4 DEF TablesInv, TablesAgree
    <3>3. \A s \in Stored' : /\ receipt'[s].chat \in Live'
                             /\ receipt'[s].req \in Requests /\ receipt'[s].user \in Users
      BY <1>0, <1>3, <2>2, <2>3 DEF TablesInv, TablesAgree, Stored
    <3> QED
      BY <3>1, <3>2, <3>3 DEF TablesAgree
  <2>10. RequestsUnique'
    BY <1>3, <2>2, <2>3 DEF TablesInv, RequestsUnique, Reserved, Stored
  <2>11. BlockMatchesReceipts'
    <3>1. \A e \in ChatIds : row'[e].sendBlocked => Unsettled(e)' # {}
      BY <2>4, <2>7, <2>8 DEF TablesInv, BlockMatchesReceipts
    <3>2. ASSUME NEW s \in Stored', receipt'[s].status \in Open, s # r
          PROVE  s \in Stored /\ receipt'[s] = receipt[s] /\ receipt[s].chat \in ChatIds \ {c}
      <4>1. s \in Stored /\ receipt'[s] = receipt[s]
        BY <2>2, <2>3, <3>2 DEF Stored
      <4>2. receipt[s].chat # c
        BY <2>6, <3>2, <4>1 DEF Unsettled, Stored
      <4> QED
        BY <4>1, <4>2 DEF TablesInv, TablesAgree, Live
    <3>3. ASSUME NEW s \in Stored', receipt'[s].status \in Open,
                 NEW e \in ChatIds, receipt'[s].chat = e
          PROVE  /\ row'[e].sendBlocked /\ row'[e].mode = "HUMAN"
                 /\ row'[e].assignee = receipt'[s].user
                 /\ Unsettled(e)' = {s}
      <4>1. CASE s = r
        BY <2>2, <2>5, <2>7, <3>3, <4>1
      <4>2. CASE s # r
        <5>1. s \in Stored /\ receipt'[s] = receipt[s] /\ e # c
          BY <3>2, <3>3, <4>2
        <5>2. row'[e] = row[e] /\ Unsettled(e)' = Unsettled(e)
          BY <2>4, <2>8, <5>1
        <5> QED
          BY <3>3, <5>1, <5>2 DEF TablesInv, BlockMatchesReceipts
      <4> QED
        BY <4>1, <4>2
    <3>4. \A s \in Stored' : receipt'[s].chat \in ChatIds
      BY <2>9 DEF TablesAgree, Live
    <3> QED
      BY <3>1, <3>3, <3>4 DEF BlockMatchesReceipts, Unsettled
  <2>12. AcceptedIsAnswered' /\ OneSendPerRequest'
    BY <1>1, <2>2, <2>3 DEF TablesInv, AcceptedIsAnswered, OneSendPerRequest, Stored
  <2>13. \A e \in ChatIds, p \in Requests : sent'[e][p] > 0 => Reserved(e, p)'
    BY <1>1, <2>1, <2>2, <2>3 DEF TablesInv, Reserved, Stored
  <2>14. TablesInv'
    BY <2>9, <2>10, <2>11, <2>12, <2>13 DEF TablesInv
  <2>15. desk'[d] = next /\ \A e \in Desks \ {d} : desk'[e] = desk[e]
    BY <1>3 DEF Moves, TypeOK
  <2>16. next.at = "send" /\ next.id = r /\ ReceiptOf(next) = new /\ next.chat = c
         /\ next.req = q
    BY <1>0 DEF Work, ReceiptOf
  <2>17. sent[c][q] = 0
    BY <1>0, <1>3 DEF TablesInv, TypeOK, TablesTyped
  <2>18. \A e \in Holding : desk[e].id \in Stored
    BY HoldersStored
  <2> HIDE DEF new, next
  <2>19. Holding' = Holding \cup {d} /\ d \notin Holding
    BY <2>15, <2>16 DEF Holding, Reserve
  <2>20. DeskInv(d)'
    <3>1. receipt'[desk'[d].id] = ReceiptOf(desk'[d])
      BY <2>2, <2>15, <2>16
    <3>2. \A e \in Holding' : desk'[d].id = desk'[e].id => d = e
      BY <2>1, <2>15, <2>16, <2>18, <2>19 DEF Holding
    <3>3. sent'[desk'[d].chat][desk'[d].req] = 0
      BY <1>1, <2>15, <2>16, <2>17
    <3> QED
      BY <2>15, <2>16, <3>1, <3>2, <3>3 DEF DeskInv, ReceiptOf
  <2>21. ASSUME NEW e \in Desks \ {d} PROVE DeskInv(e)'
    <3>1. desk'[e] = desk[e] /\ DeskInv(e)
      BY <2>15
    <3>2. e \in Holding => receipt'[desk[e].id] = receipt[desk[e].id] /\ desk[e].id # r
      BY <2>1, <2>2, <2>18 DEF Stored
    <3>3. e \in Holding => receipt'[desk'[e].id] = ReceiptOf(desk'[e])
      BY <3>1, <3>2 DEF DeskInv
    <3>4. \A f \in Holding' : e \in Holding /\ desk'[e].id = desk'[f].id => e = f
      BY <2>15, <2>16, <2>19, <3>1, <3>2 DEF DeskInv, Holding
    <3>5. e \in Holding' <=> e \in Holding
      BY <2>19
    <3> QED
      BY <1>1, <3>1, <3>3, <3>4, <3>5 DEF DeskInv, ReceiptOf
  <2> QED
    BY <2>14, <2>20, <2>21
<1> QED
  BY <1>0, <1>2, <1>3 DEF Reserve

(* The provider call: the request was stored but not sent yet.             *)
LEMMA SafetySend ==
  ASSUME TypeOK, TablesInv, \A e \in Desks : DeskInv(e), NEW d \in Desks, Send(d)
  PROVE  TablesInv' /\ \A e \in Desks : DeskInv(e)'
<1> DEFINE w == desk[d]
<1>0. PICK c \in ChatIds, q \in Requests :
        /\ w \in Work /\ w.chat = c /\ w.req = q /\ w.id \in ReceiptIds
        /\ d \in Holding /\ w.at = "send"
  BY DEF TypeOK, Knows, Send, Holding
<1>1. UNCHANGED <<owner, row, old, receipt>> /\ answered \subseteq answered'
  BY DEF Send
<1>2. sent[c][q] = 0
  <2>1. DeskInv(d)
    OBVIOUS
  <2> QED
    BY <1>0, <2>1 DEF DeskInv
<1>3. /\ sent'[c][q] = 1
      /\ \A e \in ChatIds, p \in Requests : <<e, p>> # <<c, q>> => sent'[e][p] = sent[e][p]
  BY <1>0, <1>2 DEF Send, TypeOK, TablesTyped
<1>4. receipt[w.id] = ReceiptOf(w) /\ w.id \in Stored
  BY <1>0, HoldersStored
<1>5. Stored' = Stored /\ Live' = Live /\ \A e \in ChatIds : Unsettled(e)' = Unsettled(e)
  BY <1>1 DEF Stored, Live, Unsettled
<1>6. TablesInv'
  <2>1. TablesAgree' /\ RequestsUnique' /\ BlockMatchesReceipts'
    BY <1>1 DEF TablesInv, TablesAgree, RequestsUnique, BlockMatchesReceipts, Stored,
                Live, Unsettled
  <2>2. AcceptedIsAnswered'
    BY <1>1 DEF TablesInv, AcceptedIsAnswered, Stored
  <2>3. OneSendPerRequest'
    BY <1>3 DEF TablesInv, OneSendPerRequest
  <2>4. Reserved(c, q)
    BY <1>0, <1>4 DEF Reserved, ReceiptOf
  <2>5. \A e \in ChatIds, p \in Requests : sent'[e][p] > 0 => Reserved(e, p)
    BY <1>3, <2>4 DEF TablesInv
  <2>6. \A e, p : Reserved(e, p) <=> Reserved(e, p)'
    BY <1>1 DEF Reserved, Stored
  <2> QED
    BY <2>1, <2>2, <2>3, <2>5, <2>6 DEF TablesInv
<1>7. PICK o \in {"accepted", "uncertain"} :
        /\ Moves(d, [w EXCEPT !.at = "check", !.outcome = o])
        /\ o = "accepted" => <<c, q>> \in answered'
  BY <1>0 DEF Send
<1> DEFINE next == [w EXCEPT !.at = "check", !.outcome = o]
<1>8. desk'[d] = next /\ \A e \in Desks \ {d} : desk'[e] = desk[e]
  BY <1>7 DEF Moves, TypeOK
<1>9. /\ next.at = "check" /\ next.id = w.id /\ ReceiptOf(next) = ReceiptOf(w)
      /\ next.chat = c /\ next.req = q /\ next.outcome = o
  BY <1>0 DEF Work, ReceiptOf
<1> HIDE DEF next
<1>10. Holding' = Holding
  BY <1>0, <1>8, <1>9 DEF Holding
<1>11. \A e \in Holding : desk'[e].id = desk[e].id
  BY <1>8, <1>9 DEF Holding
<1>12. DeskInv(d)'
  <2>1. DeskInv(d)
    OBVIOUS
  <2>2. receipt'[next.id] = ReceiptOf(next)
    BY <1>1, <1>4, <1>9
  <2>3. \A e \in Holding' : desk'[d].id = desk'[e].id => d = e
    BY <1>0, <1>8, <1>9, <1>10, <1>11, <2>1 DEF DeskInv
  <2> QED
    BY <1>7, <1>8, <1>9, <2>2, <2>3 DEF DeskInv, ReceiptOf
<1>13. ASSUME NEW e \in Desks \ {d} PROVE DeskInv(e)'
  <2>1. desk'[e] = desk[e]
    BY <1>8
  <2>2. ASSUME desk[e].at = "send" PROVE sent'[desk[e].chat][desk[e].req] = 0
    <3>1. e \in Holding /\ desk[e].id \in ReceiptIds /\ desk[e].chat \in ChatIds
          /\ desk[e].req \in Requests
      BY <2>2 DEF Holding, TypeOK, Knows
    <3>2. DeskInv(e)
      OBVIOUS
    <3>3. desk[e].id # w.id
      BY <1>0, <3>1, <3>2 DEF DeskInv
    <3>4. desk[e].id \in Stored /\ receipt[desk[e].id] = ReceiptOf(desk[e])
      BY <3>1, HoldersStored
    <3>5. <<desk[e].chat, desk[e].req>> # <<c, q>>
      BY <1>0, <1>4, <3>3, <3>4 DEF TablesInv, RequestsUnique, ReceiptOf
    <3> QED
      BY <1>3, <2>2, <3>1, <3>2, <3>5 DEF DeskInv
  <2>3. e \in Holding => receipt'[desk[e].id] = ReceiptOf(desk[e])
    BY <1>1, HoldersStored
  <2>4. DeskInv(e)
    OBVIOUS
  <2> QED
    BY <1>1, <1>10, <1>11, <2>1, <2>2, <2>3, <2>4 DEF DeskInv, ReceiptOf, Holding
<1> QED
  BY <1>6, <1>12, <1>13

(* The first read of the settlement finds the request's own receipt.       *)
LEMMA SafetyCheck ==
  ASSUME TypeOK, TablesInv, \A e \in Desks : DeskInv(e), NEW d \in Desks, Check(d)
  PROVE  TablesInv' /\ \A e \in Desks : DeskInv(e)'
<1> DEFINE w == desk[d]
           next == [w EXCEPT !.at = "settle", !.seen = [chat |-> w.chat, user |-> w.user]]
<1>1. w \in Work /\ d \in Holding /\ w.at = "check" /\ DeskInv(d)
  BY DEF TypeOK, Check, Holding
<1>2. UNCHANGED <<owner, row, old, receipt, sent, answered>>
  BY DEF Check
<1>3. receipt[w.id] = ReceiptOf(w)
  BY <1>1, HoldersStored
<1>4. Moves(d, next)
  BY <1>3 DEF Check, ReceiptOf
<1>5. desk'[d] = next /\ \A e \in Desks \ {d} : desk'[e] = desk[e]
  BY <1>4 DEF Moves, TypeOK
<1>6. /\ next.at = "settle" /\ next.id = w.id /\ ReceiptOf(next) = ReceiptOf(w)
      /\ next.chat = w.chat /\ next.req = w.req /\ next.outcome = w.outcome
      /\ next.seen = [chat |-> next.chat, user |-> next.user]
  BY <1>1 DEF Work, ReceiptOf
<1> HIDE DEF next
<1>7. Holding' = Holding /\ \A e \in Holding : desk'[e].id = desk[e].id
  BY <1>1, <1>5, <1>6 DEF Holding
<1>8. DeskInv(d)'
  <2>1. receipt'[next.id] = ReceiptOf(next)
    BY <1>2, <1>3, <1>6
  <2>2. \A e \in Holding' : desk'[d].id = desk'[e].id => d = e
    BY <1>1, <1>5, <1>6, <1>7 DEF DeskInv
  <2>3. next.outcome = "accepted" => <<next.chat, next.req>> \in answered'
    BY <1>1, <1>2, <1>6 DEF DeskInv
  <2> QED
    BY <1>5, <1>6, <2>1, <2>2, <2>3 DEF DeskInv, ReceiptOf
<1>9. ASSUME NEW e \in Desks \ {d} PROVE DeskInv(e)'
  <2>1. desk'[e] = desk[e] /\ DeskInv(e)
    BY <1>5
  <2>2. \A f \in Holding' : e \in Holding /\ desk'[e].id = desk'[f].id => e = f
    BY <1>7, <2>1 DEF DeskInv
  <2> QED
    BY <1>2, <1>7, <2>1, <2>2 DEF DeskInv, ReceiptOf
<1> QED
  BY <1>2, <1>8, <1>9, TablesUntouched

(* The settlement: an accepted send unblocks the conversation, one whose   *)
(* outcome is uncertain keeps it.                                          *)
LEMMA SafetySettle ==
  ASSUME TypeOK, TablesInv, \A e \in Desks : DeskInv(e), NEW d \in Desks, Settle(d)
  PROVE  TablesInv' /\ \A e \in Desks : DeskInv(e)'
<1> DEFINE w == desk[d]
<1>0. PICK c \in ChatIds, q \in Requests, i \in ReceiptIds :
        /\ w \in Work /\ w.chat = c /\ w.req = q /\ w.id = i
        /\ d \in Holding /\ w.at = "settle" /\ w.outcome \in {"accepted", "uncertain"}
  BY DEF TypeOK, Knows, Settle, Holding, Work
<1>1. Ends(d) /\ UNCHANGED <<owner, sent, answered>> /\ DeskInv(d)
  BY DEF Settle
<1>2. receipt[i] = ReceiptOf(w) /\ i \in Stored /\ w.seen = [chat |-> c, user |-> w.user]
  BY <1>0, <1>1, HoldersStored DEF DeskInv
<1>3. CASE UNCHANGED <<receipt, row, old>>
  BY <1>1, <1>3, TablesUntouched, EndKeeps
<1>4. CASE /\ receipt' = [receipt EXCEPT ![w.id].status = w.outcome]
           /\ IF w.outcome = "accepted" THEN row' = [row EXCEPT ![c] = Unblock(@)]
                                        ELSE row' = row
  <2>1. /\ receipt'[i].chat = c /\ receipt'[i].req = q /\ receipt'[i].user = w.user
        /\ receipt'[i].status = w.outcome
        /\ \A s \in ReceiptIds \ {i} : receipt'[s] = receipt[s]
    <3>1. receipt' = [receipt EXCEPT ![i] = [receipt[i] EXCEPT !.status = w.outcome]]
      BY <1>0, <1>4
    <3>2. receipt'[i] = [receipt[i] EXCEPT !.status = w.outcome]
          /\ \A s \in ReceiptIds \ {i} : receipt'[s] = receipt[s]
      BY <3>1 DEF TypeOK, TablesTyped
    <3> QED
      BY <1>0, <1>2, <3>2 DEF ReceiptOf
  <2>2. receipt[i].chat = c /\ receipt[i].req = q /\ receipt[i].user = w.user
        /\ receipt[i].status \in Open /\ c # 0
    BY <1>0, <1>2, StaffAssumption DEF ReceiptOf, Open
  <2>3. Stored' = Stored /\ Live' = Live
    BY <1>0, <1>1, <1>2, <2>1, <2>2 DEF Stored, Live
  <2>4. /\ row[c].sendBlocked /\ row[c].mode = "HUMAN" /\ row[c].assignee = w.user
        /\ Unsettled(c) = {i}
    BY <1>2, <2>2 DEF TablesInv, BlockMatchesReceipts
  <2>5. /\ row[c] \in Rows /\ \A e \in ChatIds \ {c} : row'[e] = row[e]
        /\ row'[c] = IF w.outcome = "accepted" THEN Unblock(row[c]) ELSE row[c]
    BY <1>4 DEF TypeOK, TablesTyped
  <2>6. row'[c].sendBlocked = (w.outcome # "accepted")
        /\ row'[c].mode = "HUMAN" /\ row'[c].assignee = w.user
    BY <2>4, <2>5 DEF Unblock, Rows
  <2>7. Unsettled(c)' = IF w.outcome = "accepted" THEN {} ELSE {i}
    <3>1. \A s \in Unsettled(c)' : s = i
      BY <2>1, <2>4 DEF Unsettled
    <3>2. i \in Unsettled(c)' <=> w.outcome # "accepted"
      BY <1>0, <2>1 DEF Unsettled, Open
    <3> QED
      BY <3>1, <3>2
  <2>8. \A e \in ChatIds \ {c} : Unsettled(e)' = Unsettled(e)
    BY <2>1, <2>2 DEF Unsettled
  <2>9. TablesAgree'
    <3>1. \A s \in ReceiptIds : receipt'[s].chat = receipt[s].chat
             /\ receipt'[s].req = receipt[s].req /\ receipt'[s].user = receipt[s].user
      BY <2>1, <2>2
    <3>2. \A e \in ChatIds : row'[e].sendBlocked => row[e].sendBlocked
      BY <2>4, <2>5
    <3> QED
      BY <2>3, <3>1, <3>2 DEF TablesInv, TablesAgree, Stored
  <2>10. RequestsUnique' /\ OneSendPerRequest'
    BY <1>1, <2>1, <2>2, <2>3 DEF TablesInv, RequestsUnique, OneSendPerRequest, Stored
  <2>11. BlockMatchesReceipts'
    <3>1. \A e \in ChatIds : row'[e].sendBlocked => Unsettled(e)' # {}
      BY <2>5, <2>6, <2>7, <2>8 DEF TablesInv, BlockMatchesReceipts
    <3>2. ASSUME NEW s \in Stored', receipt'[s].status \in Open,
                 NEW e \in ChatIds, receipt'[s].chat = e
          PROVE  /\ row'[e].sendBlocked /\ row'[e].mode = "HUMAN"
                 /\ row'[e].assignee = receipt'[s].user
                 /\ Unsettled(e)' = {s}
      <4>1. CASE s = i
        BY <1>0, <2>1, <2>6, <2>7, <3>2, <4>1 DEF Open
      <4>2. CASE s # i
        <5>1. s \in Stored /\ receipt'[s] = receipt[s]
          BY <2>1, <2>3, <4>2 DEF Stored
        <5>2. e # c
          BY <2>4, <3>2, <4>2, <5>1 DEF Unsettled, Stored
        <5>3. row'[e] = row[e] /\ Unsettled(e)' = Unsettled(e)
          BY <2>5, <2>8, <5>2
        <5> QED
          BY <3>2, <5>1, <5>3 DEF TablesInv, BlockMatchesReceipts
      <4> QED
        BY <4>1, <4>2
    <3>3. \A s \in Stored' : receipt'[s].chat \in ChatIds
      BY <2>9 DEF TablesAgree, Live
    <3> QED
      BY <3>1, <3>2, <3>3 DEF BlockMatchesReceipts, Unsettled
  <2>12. AcceptedIsAnswered'
    <3>1. w.outcome = "accepted" => <<c, q>> \in answered
      BY <1>0, <1>1 DEF DeskInv
    <3> QED
      BY <1>1, <2>1, <2>3, <3>1 DEF TablesInv, AcceptedIsAnswered, Stored
  <2>13. \A e \in ChatIds, p \in Requests : sent'[e][p] > 0 => Reserved(e, p)'
    <3>1. \A e, p : Reserved(e, p) => Reserved(e, p)'
      BY <2>1, <2>2, <2>3 DEF Reserved, Stored
    <3> QED
      BY <1>1, <3>1 DEF TablesInv
  <2>14. TablesInv'
    BY <2>9, <2>10, <2>11, <2>12, <2>13 DEF TablesInv
  <2>15. desk'[d] = Idle /\ \A e \in Desks \ {d} : desk'[e] = desk[e]
    BY <1>1, EndsTyped
  <2>16. Holding' = Holding \ {d}
    BY <1>0, <2>15 DEF Holding, Idle
  <2>17. DeskInv(d)'
    BY <2>15, <2>16 DEF DeskInv, Idle
  <2>18. ASSUME NEW e \in Desks \ {d} PROVE DeskInv(e)'
    <3>1. desk'[e] = desk[e] /\ DeskInv(e)
      BY <2>15
    <3>2. e \in Holding => desk[e].id # i /\ desk[e].id \in ReceiptIds
      BY <1>0, <1>1, HoldersStored DEF DeskInv, Stored
    <3>3. e \in Holding => receipt'[desk'[e].id] = ReceiptOf(desk'[e])
      BY <2>1, <3>1, <3>2 DEF DeskInv
    <3>4. \A f \in Holding' : e \in Holding /\ desk'[e].id = desk'[f].id => e = f
      BY <2>15, <2>16, <3>1 DEF DeskInv, Holding
    <3> QED
      BY <1>1, <2>16, <3>1, <3>3, <3>4 DEF DeskInv, ReceiptOf
  <2> QED
    BY <2>14, <2>17, <2>18
<1>5. MaySettle(w) \/ UNCHANGED <<receipt, row, old>>
  BY DEF Settle
<1>6. MaySettle(w) => /\ receipt' = [receipt EXCEPT ![w.id].status = w.outcome]
                     /\ IF w.outcome = "accepted" THEN row' = [row EXCEPT ![c] = Unblock(@)]
                                                  ELSE row' = row
  BY <1>2 DEF Settle
<1> QED
  BY <1>3, <1>4, <1>5, <1>6
-----------------------------------------------------------------------------
(* Theorems.                                                               *)

LEMMA StaffInvStep == TypeOK /\ StaffInv /\ [Next]_vars => StaffInv'
<1> SUFFICES ASSUME TypeOK, StaffInv, [Next]_vars PROVE StaffInv'
  OBVIOUS
<1>1. TablesInv /\ \A d \in Desks : DeskInv(d)
  BY InvParts
<1>2. TablesInv' /\ \A d \in Desks : DeskInv(d)'
  <2>1. CASE \/ \E s \in Senders : ResolveConversation(s)
             \/ \E c \in ChatIds : AiReply(c) \/ Age(c)
             \/ Purge
    BY <1>1, <2>1, SafetyWorld
  <2>2. ASSUME NEW d \in Desks,
               \/ \E u \in Users, c \in ChatIds : Submit(d, u, c)
               \/ Serve(d) \/ Abandon(d)
        PROVE  TablesInv' /\ \A e \in Desks : DeskInv(e)'
    BY <1>1, <2>2, SafetyHandoff, SafetyReserve, SafetySend, SafetyCheck, SafetySettle
       DEF Serve
  <2>3. CASE UNCHANGED vars
    BY <1>1, <2>3, TablesUntouched, DesksUntouched DEF vars
  <2> QED
    BY <2>1, <2>2, <2>3 DEF Next
<1>3. StaffInv' <=> TablesInv' /\ \A d \in Desks : DeskInv(d)'
  BY DEF StaffInv, TablesInv, DeskInv, DesksHold, SendsAgree, Holding
<1> QED
  BY <1>2, <1>3

(* The inductive invariant holds, with any of the faults.                  *)
THEOREM StaffSafety == Spec => []StaffInv
<1>1. TypeOK /\ StaffInv /\ [Next]_vars => StaffInv'
  BY StaffInvStep
<1> QED
  BY <1>1, StaffTypeSafety, StaffInvInit, PTL DEF Spec

(* One draft, confirmed any number of times by any number of requests,     *)
(* reaches the provider once.                                              *)
THEOREM SentOnce == Spec => []OneSendPerRequest
<1>1. StaffInv => OneSendPerRequest
  BY DEF StaffInv
<1> QED
  BY <1>1, StaffSafety, PTL

(* A conversation is blocked exactly while its assignee has a send without *)
(* a known outcome.                                                        *)
THEOREM BlockedByReceipt == Spec => []BlockMatchesReceipts
<1>1. StaffInv => BlockMatchesReceipts
  BY DEF StaffInv
<1> QED
  BY <1>1, StaffSafety, PTL

(* An ambiguous outcome is never recorded as accepted, though receipt ids  *)
(* are reused after a purge and the settlement finds its receipt by id.    *)
THEOREM AcceptedWasAnswered == Spec => []AcceptedIsAnswered
<1>1. StaffInv => AcceptedIsAnswered
  BY DEF StaffInv
<1> QED
  BY <1>1, StaffSafety, PTL

(* What UnsettledHoldsChat says of one receipt and one conversation.       *)
Kept(r, c) == /\ owner'[c] = owner[c]
              /\ row'[c].mode = "HUMAN" /\ row'[c].assignee = row[c].assignee
              /\ receipt[r].status = "uncertain" => receipt'[r] = receipt[r]

LEMMA KeptWorld ==
  ASSUME TypeOK, StaffInv, NEW c \in Live, NEW r \in Unsettled(c),
         row[c].sendBlocked, row[c].mode = "HUMAN",
         \/ \E s \in Senders : ResolveConversation(s)
         \/ \E e \in ChatIds : AiReply(e) \/ Age(e)
         \/ Purge
  PROVE  Kept(r, c)
<1>0. c \in ChatIds /\ r \in ReceiptIds
  BY DEF Live, Unsettled
<1>1. ASSUME NEW s \in Senders, ResolveConversation(s) PROVE Kept(r, c)
  <2>1. \A e \in NextId(Live) : e # c
    BY <1>0, StaffAssumption DEF NextId
  <2> QED
    BY <1>0, <1>1, <2>1 DEF ResolveConversation, Kept, TypeOK, TablesTyped
<1>2. ASSUME NEW e \in ChatIds, AiReply(e) PROVE Kept(r, c)
  <2>1. row[e].mode = "AI"
    BY <1>2 DEF AiReply, MayBegin, MayAskHelp, MayFinish
  <2>2. row'[c] = row[c]
    BY <1>0, <1>2, <2>1 DEF AiReply, TypeOK, TablesTyped
  <2> QED
    BY <1>2, <2>2 DEF AiReply, Kept
<1>3. ASSUME NEW e \in ChatIds, Age(e) PROVE Kept(r, c)
  BY <1>3 DEF Age, Kept
<1>4. CASE Purge
  <2>1. c \notin Expired /\ receipt[r].chat \notin Expired
    BY DEF Expired, Unsettled
  <2> QED
    BY <1>0, <1>4, <2>1 DEF Purge, Remove, Kept
<1> QED
  BY <1>1, <1>2, <1>3, <1>4

LEMMA KeptDesk ==
  ASSUME TypeOK, StaffInv, NEW c \in Live, NEW r \in Unsettled(c),
         row[c].sendBlocked, row[c].mode = "HUMAN", NEW d \in Desks,
         \/ \E u \in Users, e \in ChatIds : Submit(d, u, e)
         \/ Serve(d) \/ Abandon(d)
  PROVE  Kept(r, c)
<1>0. c \in ChatIds /\ r \in ReceiptIds /\ r \in Stored /\ row[c] \in Rows
  BY DEF Live, Unsettled, Stored, Open, TypeOK, TablesTyped
<1>1. CASE UNCHANGED <<owner, row, receipt>>
  BY <1>1 DEF Kept
<1>2. CASE TakeOver(d)
  <2>1. row'[c] = row[c]
    BY <1>0, <1>2 DEF TakeOver, MayTake, TypeOK, TablesTyped
  <2> QED
    BY <1>2, <2>1 DEF TakeOver, Kept
<1>3. CASE GiveBack(d)
  <2>1. row'[c] = row[c]
    BY <1>0, <1>3 DEF GiveBack, MayRelease, TypeOK, TablesTyped
  <2> QED
    BY <1>3, <2>1 DEF GiveBack, Kept
<1>4. CASE Reserve(d)
  <2>1. row'[c] = row[c]
    BY <1>0, <1>4 DEF Reserve, MayBlock, TypeOK, TablesTyped
  <2>2. \A i \in NextId(Stored) : i # r
    BY <1>0, NextIdIsNew DEF Stored
  <2>3. receipt'[r] = receipt[r]
    BY <1>0, <1>4, <2>2 DEF Reserve, TypeOK, TablesTyped
  <2> QED
    BY <1>4, <2>1, <2>3 DEF Reserve, Kept
<1>5. CASE Settle(d)
  <2>1. desk[d].id \in ReceiptIds /\ receipt[desk[d].id].status = "pending"
    <3>1. d \in Holding /\ desk[d].id \in ReceiptIds
      BY <1>5 DEF Settle, Holding, TypeOK, Knows
    <3>2. receipt[desk[d].id] = ReceiptOf(desk[d])
      BY <3>1 DEF StaffInv, DesksHold
    <3> QED
      BY <3>1, <3>2 DEF ReceiptOf
  <2>2. receipt[r].status = "uncertain" => receipt'[r] = receipt[r]
    <3>1. receipt[r].status = "uncertain" => r # desk[d].id
      BY <2>1
    <3> QED
      BY <1>0, <1>5, <2>1, <3>1 DEF Settle, TypeOK, TablesTyped
  <2>3. row'[c].mode = "HUMAN" /\ row'[c].assignee = row[c].assignee
    <3> DEFINE e == desk[d].seen.chat
    <3>1. CASE row' = row
      BY <3>1
    <3>2. CASE row' = [row EXCEPT ![e] = Unblock(@)]
      BY <1>0, <3>2 DEF Unblock, Rows, TypeOK, TablesTyped
    <3> QED
      BY <1>5, <3>1, <3>2 DEF Settle
  <2> QED
    BY <1>5, <2>2, <2>3 DEF Settle, Kept
<1> QED
  BY <1>1, <1>2, <1>3, <1>4, <1>5 DEF Submit, Serve, Look, Send, Check, Abandon

(* While a send has no known outcome its conversation is not purged, not   *)
(* given back to the AI and not handed to anybody else.                    *)
THEOREM UnsettledKeepsChat == Spec => UnsettledHoldsChat
<1> DEFINE Holds == \A r \in Stored :
             receipt[r].status \in Open =>
               LET c == receipt[r].chat
               IN  /\ owner'[c] = owner[c]
                   /\ row'[c].mode = "HUMAN" /\ row'[c].assignee = row[c].assignee
                   /\ receipt[r].status = "uncertain" => receipt'[r] = receipt[r]
<1>1. ASSUME TypeOK, StaffInv, [Next]_vars PROVE Holds
  <2>1. ASSUME NEW r \in Stored, receipt[r].status \in Open, NEW c, c = receipt[r].chat
        PROVE  Kept(r, c)
    <3>1. /\ c \in Live /\ r \in Unsettled(c)
          /\ row[c].sendBlocked /\ row[c].mode = "HUMAN"
      BY <1>1, <2>1 DEF StaffInv, TablesAgree, BlockMatchesReceipts, Unsettled, Stored
    <3>2. CASE UNCHANGED vars
      BY <3>1, <3>2 DEF vars, Kept
    <3> QED
      BY <1>1, <3>1, <3>2, KeptWorld, KeptDesk DEF Next
  <2> QED
    BY <2>1 DEF Kept
<1>2. TypeOK /\ StaffInv /\ [Next]_vars => [Holds]_vars
  BY <1>1
<1> QED
  BY <1>2, StaffTypeSafety, StaffSafety, PTL DEF Spec, UnsettledHoldsChat
=============================================================================
