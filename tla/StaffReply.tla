------------------------------ MODULE StaffReply ------------------------------
(***************************************************************************)
(* The staff side of the conversations of one branch: panel requests that  *)
(* take a conversation over, give it back, or send a manual reply through  *)
(* GreenAPI, against the AI replies, the daily purge of expired metadata   *)
(* and the erasure of a sender.                                            *)
(*                                                                         *)
(* A manual reply is three transactions with a network call between them:  *)
(* "reserve" stores a pending receipt and blocks the conversation, then    *)
(* the text is sent, then the receipt is settled.  SELECTs that come       *)
(* before the first write of a transaction run on their own, so a reserve  *)
(* and a settlement are two steps each.  desk[d] is the request that panel *)
(* connection d serves.  A thread that outlives a cancelled request does   *)
(* what the request would have done, so it needs no state of its own.      *)
(***************************************************************************)
EXTENDS ResponderState, FiniteSets

CONSTANTS Senders,    (* WhatsApp senders                                  *)
          NoSender,   (* a conversation id that is not in use              *)
          ChatIds,    (* bound: ids of conversations                       *)
          ReceiptIds, (* bound: ids of manual_send_receipts                *)
          Requests,   (* request_id, the UUIDs of confirmed drafts         *)
          NoRequest,  (* a take or a release carries none                  *)
          Desks,      (* panel requests the backend serves at one time     *)
          MaxReplies, (* bound: AI replies in flight per conversation      *)
          Faults      (* what may happen besides normal operation          *)

ASSUME StaffAssumption ==
  /\ NoSender \notin Senders /\ NoRequest \notin Requests
  /\ ChatIds \subseteq Nat \ {0} /\ ReceiptIds \subseteq Nat \ {0}
  /\ Faults \subseteq {"provider", "fail", "purge"}

VARIABLES
  owner,    (* owner[c]: the sender whose conversation has id c            *)
  row,      (* row[c]: its responder state                                 *)
  old,      (* conversations whose updated_at is past the retention        *)
  receipt,  (* receipt[r]: row r of manual_send_receipts                   *)
  desk,     (* desk[d]: the request connection d serves                    *)
  sent,     (* sent[c][q]: provider calls for request q in conversation c  *)
  answered  (* <<c, q>> for which the provider returned an idMessage       *)

vars == <<owner, row, old, receipt, desk, sent, answered>>

Statuses == {"none", "pending", "accepted", "uncertain"}
Receipts == [chat : ChatIds \cup {0}, user : Users \cup {NoUser},
             req : Requests \cup {NoRequest}, status : Statuses]
NoReceipt == [chat |-> 0, user |-> NoUser, req |-> NoRequest, status |-> "none"]

(* "at" is the next step of a request, "to" the decrypted recipient, "id"  *)
(* its receipt, "outcome" what the provider said, "seen" the conversation  *)
(* and the actor of the receipt as the settlement read them.               *)
Steps == {"idle", "take", "release", "look", "reserve", "send", "check", "settle"}
Work  == [at : Steps, user : Users \cup {NoUser}, isOwner : BOOLEAN,
          chat : ChatIds \cup {0}, req : Requests \cup {NoRequest},
          to : Senders \cup {NoSender}, id : ReceiptIds \cup {0},
          outcome : {"accepted", "uncertain"},
          seen : [chat : ChatIds \cup {0}, user : Users \cup {NoUser}]]
Idle  == [at |-> "idle", user |-> NoUser, isOwner |-> FALSE, chat |-> 0,
          req |-> NoRequest, to |-> NoSender, id |-> 0, outcome |-> "uncertain",
          seen |-> [chat |-> 0, user |-> NoUser]]
-----------------------------------------------------------------------------
(* Tables.                                                                 *)

Live     == {c \in ChatIds : owner[c] # NoSender}
Stored   == {r \in ReceiptIds : receipt[r].status # "none"}
Open     == {"pending", "uncertain"}
Unsettled(c) == {r \in ReceiptIds : receipt[r].status \in Open /\ receipt[r].chat = c}

(* Neither table is AUTOINCREMENT: the id of a deleted last row is used    *)
(* again.                                                                  *)
NextId(used) == {i \in {1} \cup {n + 1 : n \in used} : \A n \in used : n < i}

(* Wrong: an accepted request may be stored again.                         *)
WrongReserved(c, q) ==
  \E r \in Stored : /\ receipt[r].chat = c /\ receipt[r].req = q
                    /\ receipt[r].status \in Open

(* The unique constraint on a request of a conversation.                   *)
Reserved(c, q) == \E r \in Stored : receipt[r].chat = c /\ receipt[r].req = q

(* UPDATE conversations SET updated_at = now.                              *)
Touch(c) == old' = old \ {c}

(* Conversations and what refers to them are deleted in one transaction;   *)
(* the history of a conversation ends with it.                             *)
Remove(gone) ==
  /\ owner'    = [c \in ChatIds |-> IF c \in gone THEN NoSender ELSE owner[c]]
  /\ row'      = [c \in ChatIds |-> IF c \in gone THEN NewRow ELSE row[c]]
  /\ receipt'  = [r \in ReceiptIds |->
                    IF receipt[r].chat \in gone THEN NoReceipt ELSE receipt[r]]
  /\ sent'     = [c \in ChatIds |->
                    IF c \in gone THEN [q \in Requests |-> 0] ELSE sent[c]]
  /\ answered' = {a \in answered : a[1] \notin gone}
  /\ old'      = old \ gone
-----------------------------------------------------------------------------
(* The environment: inbound messages, AI replies, the passing of time.     *)

(* An inbound message of s finds or creates the conversation of s.         *)
ResolveConversation(s) ==
  /\ \/ \E c \in Live :
          owner[c] = s /\ Touch(c) /\ UNCHANGED <<owner, row>>
     \/ /\ \A c \in Live : owner[c] # s
        /\ \E c \in NextId(Live) \cap ChatIds :
             /\ owner' = [owner EXCEPT ![c] = s]
             /\ row'   = [row EXCEPT ![c] = NewRow]
        /\ UNCHANGED old
  /\ UNCHANGED <<receipt, desk, sent, answered>>

AiReply(c) ==
  /\ c \in Live
  /\ \/ /\ MayBegin(row[c]) /\ row[c].aiReplies < MaxReplies
        /\ row' = [row EXCEPT ![c] = Begin(@)]
        /\ UNCHANGED old
     \/ /\ MayAskHelp(row[c])
        /\ row' = [row EXCEPT ![c] = AskHelp(@)]
        /\ Touch(c)
     \/ /\ MayFinish(row[c])
        /\ row' = [row EXCEPT ![c] = Finish(@)]
        /\ UNCHANGED old
  /\ UNCHANGED <<owner, receipt, desk, sent, answered>>

(* Thirty days pass without activity in c; no request lasts that long.     *)
Age(c) ==
  /\ "purge" \in Faults
  /\ c \in Live /\ \A d \in Desks : desk[d] = Idle
  /\ old' = old \cup {c}
  /\ UNCHANGED <<owner, row, receipt, desk, sent, answered>>
-----------------------------------------------------------------------------
(* Panel requests.                                                         *)

(* What a request does next, and its end.                                  *)
Moves(d, next) == desk' = [desk EXCEPT ![d] = next]
Ends(d)        == Moves(d, Idle)

(* A request of user u reads u's role, in a statement of its own: the role *)
(* may change before the rest runs.  Any user may be an editor or an owner *)
(* at that moment; a viewer's request ends here.                           *)
Submit(d, u, c) ==
  /\ desk[d].at = "idle"
  /\ \/ Moves(d, [Idle EXCEPT !.at = "take", !.user = u, !.chat = c])
     \/ \E isOwner \in BOOLEAN :
          Moves(d, [Idle EXCEPT !.at = "release", !.user = u, !.chat = c,
                                !.isOwner = isOwner])
     \/ \E q \in Requests :
          Moves(d, [Idle EXCEPT !.at = "look", !.user = u, !.chat = c, !.req = q])
  /\ UNCHANGED <<owner, row, old, receipt, sent, answered>>

TakeOver(d) ==
  LET c == desk[d].chat
  IN  /\ desk[d].at = "take"
      /\ IF c \in Live /\ MayTake(row[c])
         THEN row' = [row EXCEPT ![c] = Take(@, desk[d].user)] /\ Touch(c)
         ELSE UNCHANGED <<row, old>>
      /\ Ends(d)
      /\ UNCHANGED <<owner, receipt, sent, answered>>

GiveBack(d) ==
  LET c == desk[d].chat
  IN  /\ desk[d].at = "release"
      /\ IF c \in Live /\ MayRelease(row[c], desk[d].user, desk[d].isOwner)
         THEN row' = [row EXCEPT ![c] = Release(@)] /\ Touch(c)
         ELSE UNCHANGED <<row, old>>
      /\ Ends(d)
      /\ UNCHANGED <<owner, receipt, sent, answered>>

(* The reads of _reserve: a request that is stored already, a blocked      *)
(* conversation and one of another user end the request without a send.    *)
Look(d) ==
  LET w == desk[d]
  IN  /\ w.at = "look"
      /\ IF w.chat \in Live /\ MayBlock(row[w.chat], w.user) /\ ~Reserved(w.chat, w.req)
         THEN Moves(d, [w EXCEPT !.at = "reserve", !.to = owner[w.chat]])
         ELSE Ends(d)
      /\ UNCHANGED <<owner, row, old, receipt, sent, answered>>

(* The writes of _reserve: the guarded UPDATE again, and the INSERT that   *)
(* the unique constraint may refuse.                                       *)
Reserve(d) ==
  LET w == desk[d]
  IN  /\ w.at = "reserve"
      /\ \/ /\ w.chat \in Live /\ MayBlock(row[w.chat], w.user)
            /\ ~Reserved(w.chat, w.req)
            /\ row' = [row EXCEPT ![w.chat] = Block(@)]
            /\ \E r \in NextId(Stored) \cap ReceiptIds :
                 /\ receipt' = [receipt EXCEPT ![r] =
                      [chat |-> w.chat, user |-> w.user, req |-> w.req,
                       status |-> "pending"]]
                 /\ Moves(d, [w EXCEPT !.at = "send", !.id = r])
         \/ /\ ~(w.chat \in Live /\ MayBlock(row[w.chat], w.user))
               \/ Reserved(w.chat, w.req)
            /\ Ends(d)
            /\ UNCHANGED <<row, receipt>>
      /\ UNCHANGED <<owner, old, sent, answered>>

(* The provider answers with an idMessage, or the call raises although the *)
(* text may have reached the customer.                                     *)
Send(d) ==
  LET w == desk[d]
  IN  /\ w.at = "send"
      /\ sent' = [sent EXCEPT ![w.chat][w.req] = @ + 1]
      /\ \/ /\ answered' = answered \cup {<<w.chat, w.req>>}
            /\ Moves(d, [w EXCEPT !.at = "check", !.outcome = "accepted"])
         \/ /\ "provider" \in Faults
            /\ Moves(d, [w EXCEPT !.at = "check", !.outcome = "uncertain"])
            /\ UNCHANGED answered
      /\ UNCHANGED <<owner, row, old, receipt>>

(* _finish reads the receipt: gone or settled, it raises.                  *)
Check(d) ==
  LET w == desk[d]
      r == receipt[w.id]
  IN  /\ w.at = "check"
      /\ IF r.status = "pending"
         THEN Moves(d, [w EXCEPT !.at = "settle",
                                 !.seen = [chat |-> r.chat, user |-> r.user]])
         ELSE Ends(d)
      /\ UNCHANGED <<owner, row, old, receipt, sent, answered>>

(* What the writes of _finish need: the conversation, the receipt, and for *)
(* an accepted send the blocked conversation.  The receipt is updated by   *)
(* its id alone.  Without one of them the transaction is rolled back.      *)
MaySettle(w) ==
  /\ receipt[w.id].status # "none" /\ w.seen.chat \in Live
  /\ w.outcome = "accepted" => MayUnblock(row[w.seen.chat], w.seen.user)

(* Wrong: the conversation is unblocked after an uncertain send as well;   *)
(* or nothing is committed.                                                *)
WrongSettle(d) ==
  LET w == desk[d]
      c == w.seen.chat
  IN  /\ w.at = "settle"
      /\ IF MaySettle(w)
         THEN /\ receipt' = [receipt EXCEPT ![w.id].status = w.outcome]
              /\ row' = [row EXCEPT ![c] = Unblock(@)]
         ELSE UNCHANGED <<receipt, row>>
      /\ Ends(d)
      /\ UNCHANGED <<owner, old, sent, answered>>
WrongUnsaved(d) ==
  /\ desk[d].at = "settle"
  /\ Ends(d)
  /\ UNCHANGED <<owner, row, old, receipt, sent, answered>>

Settle(d) ==
  LET w == desk[d]
      c == w.seen.chat
  IN  /\ w.at = "settle"
      /\ IF MaySettle(w)
         THEN /\ receipt' = [receipt EXCEPT ![w.id].status = w.outcome]
              /\ IF w.outcome = "accepted"
                 THEN row' = [row EXCEPT ![c] = Unblock(@)] /\ Touch(c)
                 ELSE UNCHANGED <<row, old>>
         ELSE UNCHANGED <<receipt, row, old>>
      /\ Ends(d)
      /\ UNCHANGED <<owner, sent, answered>>

(* A transaction fails and the request is refused, or the backend dies.    *)
Abandon(d) ==
  /\ "fail" \in Faults
  /\ desk[d].at # "idle"
  /\ Ends(d)
  /\ UNCHANGED <<owner, row, old, receipt, sent, answered>>
-----------------------------------------------------------------------------
(* Privacy.                                                                *)

(* Wrong: manual sends are ignored; or only pending ones are looked at.    *)
WrongExpired == old
WrongPending == {c \in old : \A r \in Unsettled(c) : receipt[r].status # "pending"}

(* purge_expired --apply: expired conversations go with all that refers to *)
(* them, unless a manual send is pending or uncertain.                     *)
Expired == {c \in old : Unsettled(c) = {}}

Purge ==
  /\ "purge" \in Faults
  /\ Expired # {}
  /\ Remove(Expired)
  /\ UNCHANGED desk

(* erase_sender deletes the conversation of s whatever its receipts say.   *)
(* A job in process, to which a reserved AI reply belongs, refuses it.     *)
EraseSender(s) ==
  /\ \E c \in Live : owner[c] = s /\ row[c].aiReplies = 0 /\ Remove({c})
  /\ UNCHANGED desk
-----------------------------------------------------------------------------
Init ==
  /\ owner    = [c \in ChatIds |-> NoSender]
  /\ row      = [c \in ChatIds |-> NewRow]
  /\ old      = {}
  /\ receipt  = [r \in ReceiptIds |-> NoReceipt]
  /\ desk     = [d \in Desks |-> Idle]
  /\ sent     = [c \in ChatIds |-> [q \in Requests |-> 0]]
  /\ answered = {}

Serve(d) ==
  \/ TakeOver(d) \/ GiveBack(d) \/ Look(d) \/ Reserve(d)
  \/ Send(d) \/ Check(d) \/ Settle(d)

Next ==
  \/ \E s \in Senders : ResolveConversation(s)
  \/ \E c \in ChatIds : AiReply(c) \/ Age(c)
  \/ \E d \in Desks : \/ \E u \in Users, c \in ChatIds : Submit(d, u, c)
                      \/ Serve(d) \/ Abandon(d)
  \/ Purge

Spec == Init /\ [][Next]_vars

(* With the erasures an operator asks for.                                 *)
ErasingNext == Next \/ \E s \in Senders : EraseSender(s)
ErasingSpec == Init /\ [][ErasingNext]_vars
-----------------------------------------------------------------------------
(* Properties.                                                             *)

TablesTyped ==
  /\ owner \in [ChatIds -> Senders \cup {NoSender}] /\ row \in [ChatIds -> Rows]
  /\ old \subseteq Live
  /\ receipt \in [ReceiptIds -> Receipts]
  /\ sent \in [ChatIds -> [Requests -> Nat]]
  /\ answered \subseteq ChatIds \X Requests

(* What a request in progress knows.                                       *)
Knows(w) ==
  /\ w.at # "idle" => w.chat \in ChatIds /\ w.user \in Users
  /\ w.at \in {"look", "reserve", "send", "check", "settle"} => w.req \in Requests
  /\ w.at \in {"send", "check", "settle"} => w.id \in ReceiptIds

(* The types of the variables; only conversations that exist grow old, and *)
(* a request in progress knows its user, conversation, draft and receipt.  *)
TypeOK ==
  /\ TablesTyped
  /\ desk \in [Desks -> Work] /\ \A d \in Desks : Knows(desk[d])

(* A conversation is blocked exactly while one manual send of its assignee *)
(* has no known outcome: a lost unblock, a second reservation or a handoff *)
(* in between would leave staff or the AI with a chat they cannot use or   *)
(* must not use (manual_reply_service.py).                                 *)
BlockMatchesReceipts ==
  /\ \A c \in ChatIds : row[c].sendBlocked => Unsettled(c) # {}
  /\ \A r \in Stored :
       receipt[r].status \in Open =>
         /\ row[receipt[r].chat].sendBlocked
         /\ row[receipt[r].chat].mode = "HUMAN"
         /\ row[receipt[r].chat].assignee = receipt[r].user
         /\ Unsettled(receipt[r].chat) = {r}

(* However often a draft is confirmed, by several tabs at a time, and      *)
(* whatever fails in between: one request calls the provider once.         *)
OneSendPerRequest == \A c \in ChatIds, q \in Requests : sent[c][q] <= 1

(* A receipt is accepted only if the provider answered that request; a     *)
(* timeout or another ambiguous failure leaves it uncertain.               *)
AcceptedIsAnswered ==
  \A r \in Stored :
    receipt[r].status = "accepted" => <<receipt[r].chat, receipt[r].req>> \in answered

(* A send without a known outcome keeps its conversation: it is not purged,*)
(* not given back to the AI and not handed to another user; and an         *)
(* uncertain receipt stays as it is until an operator reconciles it.       *)
UnsettledHoldsChat ==
  [][\A r \in Stored :
       receipt[r].status \in Open =>
         LET c == receipt[r].chat
         IN  /\ owner'[c] = owner[c]
             /\ row'[c].mode = "HUMAN" /\ row'[c].assignee = row[c].assignee
             /\ receipt[r].status = "uncertain" => receipt'[r] = receipt[r]]_vars

(* Without crashes and failed transactions every reservation is settled.   *)
FairSpec == Spec /\ \A d \in Desks : WF_vars(Serve(d))

SendsSettle ==
  \A r \in ReceiptIds :
    receipt[r].status = "pending" ~> receipt[r].status # "pending"
-----------------------------------------------------------------------------
(* What a document of the repository says and the code does not do.        *)

(* docs/fase_9_respuesta_humana.md: the recipient "se valida contra el     *)
(* HMAC de la conversacion ... antes de enviar": a text goes to the sender *)
(* whose conversation it is recorded in.                                   *)
SentToOwner ==
  \A d \in Desks : desk[d].at = "send" => desk[d].to = owner[desk[d].chat]
=============================================================================
