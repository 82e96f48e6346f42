----------------------------- MODULE InboundFlow -----------------------------
(***************************************************************************)
(* The inbound WhatsApp flow of one branch: webhook requests store jobs in *)
(* the SQLite inbox, worker processes claim them, and the orchestrator     *)
(* claims the idempotency receipt, reserves the AI reply, asks the model,  *)
(* sends through GreenAPI and closes everything again.                     *)
(*                                                                         *)
(* A database call is one step: SQLite starts the write transaction at its *)
(* first INSERT, UPDATE or DELETE and no other writer interleaves until    *)
(* COMMIT.  SELECTs that precede that first statement run on their own, so *)
(* the webhook's three reads and its INSERT are four steps.                *)
(*                                                                         *)
(* pc[w] names the call worker w awaits.  asyncio.to_thread cannot be      *)
(* interrupted: when a task is cancelled in such a call, the coroutine     *)
(* unwinds at once while the thread runs on.  orphan[w] is that call.  An  *)
(* error raised while a cancelled task unwinds replaces the cancellation:  *)
(* run_forever then goes on, perhaps with the old thread still running.    *)
(***************************************************************************)
EXTENDS ResponderState, FiniteSets

CONSTANTS Msgs,      (* provider message ids                               *)
          NoMsg,     (* no message in hand                                 *)
          Senders,   (* WhatsApp senders, one conversation each            *)
          SenderOf,  (* the sender of each message                         *)
          Workers,   (* worker processes polling the inbox                 *)
          Hooks,     (* webhook requests the backend serves at one time    *)
          MaxJobs,   (* MAX_PENDING_JOBS                                   *)
          Faults     (* the kinds of failure that may happen               *)

ASSUME FlowAssumption ==
  /\ NoMsg \notin Msgs
  /\ SenderOf \in [Msgs -> Senders]
  /\ IsFiniteSet(Msgs) /\ IsFiniteSet(Hooks)
  /\ MaxJobs \in Nat \ {0}
  /\ Faults \subseteq {"db", "crash", "cancel", "chat", "provider", "decrypt"}

VARIABLES
  job,       (* job[m]: status of the inbox row of message m               *)
  jobId,     (* jobId[m]: its rowid, 0 when there is no row                *)
  receipt,   (* receipt[m]: status of the whatsapp_event_receipts row      *)
  known,     (* senders that have a conversation                           *)
  row,       (* row[s]: responder state of the conversation of s           *)
  pc,        (* pc[w]: the call worker w awaits                            *)
  held,      (* held[w]: message of the job w is processing                *)
  heldId,    (* heldId[w]: rowid of that job                               *)
  ack,       (* ack[w]: the answer of w is the fixed help acknowledgement  *)
  dying,     (* dying[w]: the task of w was cancelled                      *)
  orphan,    (* orphan[w]: call whose thread outlived the cancelled task   *)
  orphanMsg, (* orphanMsg[w]: the message that call is about               *)
  orphanId,  (* orphanId[w]: the rowid that call is about                  *)
  hookPc,    (* hookPc[h]: what webhook request h does next                *)
  hookMsg,   (* hookMsg[h]: the message it carries                         *)
  hookCount, (* hookCount[h]: the number of jobs it counted                *)
  acked,     (* messages GreenAPI saw an HTTP 200 for                      *)
  sends      (* sends[m]: sendMessage requests attempted in answer to m    *)

inboxVars    == <<job, jobId>>
convVars     == <<known, row>>
taskVars     == <<pc, held, heldId, ack, dying>>
threadVars   == <<orphan, orphanMsg, orphanId>>
workerVars   == <<taskVars, threadVars>>
hookVars     == <<hookPc, hookMsg, hookCount, acked>>
vars == <<inboxVars, receipt, convVars, workerVars, hookVars, sends>>

JobStatus == {"absent", "pending", "processing", "uncertain"}

(* The awaited calls.  All but "answer" and "send" are database calls made *)
(* in a thread; "idle" is claim_next or the sleep before it.               *)
DbCalls == {"claim", "resolve", "begin", "skip", "help", "confirm", "finish",
            "undo", "release", "complete", "mark"}
Calls   == DbCalls \cup {"answer", "send"}
-----------------------------------------------------------------------------
(* Tables.  Each operator is the effect of one transaction.                *)

Present == {m \in Msgs : job[m] # "absent"}
Pending == {m \in Msgs : job[m] = "pending"}

(* Wrong: last in, first out; or jobs a dead worker left are taken again.  *)
WrongNewest(m) == m \in Pending /\ \A n \in Pending : jobId[m] >= jobId[n]
WrongStuck(m)  == m \in Present /\ \A n \in Pending : jobId[m] <= jobId[n]

(* claim_next takes the pending row with the smallest rowid.               *)
Oldest(m) == m \in Pending /\ \A n \in Pending : jobId[m] <= jobId[n]

(* SQLite gives a new row the largest rowid in use plus one: the table is  *)
(* not AUTOINCREMENT, so the rowid of a deleted last row is used again.    *)
NextIds == {i \in {1} \cup {jobId[n] + 1 : n \in Present} :
              \A n \in Present : jobId[n] < i}

InsertJob(m) ==
  \E i \in NextIds : /\ job'   = [job EXCEPT ![m] = "pending"]
                     /\ jobId' = [jobId EXCEPT ![m] = i]

StartJob(m) == job' = [job EXCEPT ![m] = "processing"] /\ UNCHANGED jobId

InProcess(m, id) == jobId[m] = id /\ job[m] = "processing"

DeleteJob(id) ==
  /\ job'   = [m \in Msgs |-> IF InProcess(m, id) THEN "absent" ELSE job[m]]
  /\ jobId' = [m \in Msgs |-> IF InProcess(m, id) THEN 0 ELSE jobId[m]]

(* Wrong: put back for a retry; dropped; or never committed.               *)
WrongRetry(id) ==
  /\ job' = [m \in Msgs |-> IF InProcess(m, id) THEN "pending" ELSE job[m]]
  /\ UNCHANGED jobId
WrongUnsaved(id) == UNCHANGED inboxVars

MarkUncertain(id) ==
  /\ job' = [m \in Msgs |-> IF InProcess(m, id) THEN "uncertain" ELSE job[m]]
  /\ UNCHANGED jobId

ClaimReceipt(m) ==
  receipt' = [receipt EXCEPT ![m] = IF @ = "none" THEN "claimed" ELSE @]

MarkProcessed(m) ==
  receipt' = [receipt EXCEPT ![m] = IF @ = "claimed" THEN "completed" ELSE @]

ReleaseReceipt(m) ==
  receipt' = [receipt EXCEPT ![m] = IF @ = "claimed" THEN "none" ELSE @]

(* Create the conversation and its responder row unless they exist.        *)
ResolveConversation(s) ==
  /\ known' = known \cup {s}
  /\ row'   = [row EXCEPT ![s] = IF s \in known THEN @ ELSE NewRow]

BeginAiReply(s) ==
  /\ row' = [row EXCEPT ![s] = IF MayBegin(@) THEN Begin(@) ELSE @]
  /\ UNCHANGED known

RequestHumanHelp(s) ==
  /\ row' = [row EXCEPT ![s] = IF MayAskHelp(@) THEN AskHelp(@) ELSE @]
  /\ UNCHANGED known

FinishAiReply(s) ==
  /\ row' = [row EXCEPT ![s] = IF MayFinish(@) THEN Finish(@) ELSE @]
  /\ UNCHANGED known
-----------------------------------------------------------------------------
(* Webhook requests.                                                       *)

(* GreenAPI delivers m for the first time or again; the request passes     *)
(* authentication, parsing and the limits and counts the jobs.             *)
Deliver(h, m) ==
  /\ hookPc[h] = "idle"
  /\ hookPc'    = [hookPc EXCEPT ![h] = "existing"]
  /\ hookMsg'   = [hookMsg EXCEPT ![h] = m]
  /\ hookCount' = [hookCount EXCEPT ![h] = Cardinality(Present)]
  /\ UNCHANGED <<inboxVars, receipt, convVars, workerVars, acked, sends>>

EndRequest(h) ==
  /\ hookPc'    = [hookPc EXCEPT ![h] = "idle"]
  /\ hookMsg'   = [hookMsg EXCEPT ![h] = NoMsg]
  /\ hookCount' = [hookCount EXCEPT ![h] = 0]

(* The response: HTTP 200, which may be lost on its way to GreenAPI.       *)
Reply200(h) ==
  /\ EndRequest(h)
  /\ acked' \in {acked, acked \cup {hookMsg[h]}}

Reply503(h) == EndRequest(h) /\ UNCHANGED acked

Goes(h, next) ==
  /\ hookPc' = [hookPc EXCEPT ![h] = next]
  /\ UNCHANGED <<hookMsg, hookCount, acked>>

ReadExisting(h) ==
  /\ hookPc[h] = "existing"
  /\ IF job[hookMsg[h]] # "absent" THEN Reply200(h) ELSE Goes(h, "processed")
  /\ UNCHANGED <<inboxVars, receipt, convVars, workerVars, sends>>

(* Wrong: a full queue is acknowledged; or the limit is off by one.        *)
WrongDropping(h) ==
  /\ hookPc[h] = "processed"
  /\ \/ receipt[hookMsg[h]] # "none" /\ Reply200(h)
     \/ receipt[hookMsg[h]] = "none" /\ hookCount[h] >= MaxJobs /\ Reply200(h)
     \/ receipt[hookMsg[h]] = "none" /\ hookCount[h] < MaxJobs /\ Goes(h, "insert")
  /\ UNCHANGED <<inboxVars, receipt, convVars, workerVars, sends>>
WrongLimit(h) ==
  /\ hookPc[h] = "processed"
  /\ \/ receipt[hookMsg[h]] # "none" /\ Reply200(h)
     \/ receipt[hookMsg[h]] = "none" /\ hookCount[h] > MaxJobs /\ Reply503(h)
     \/ receipt[hookMsg[h]] = "none" /\ hookCount[h] <= MaxJobs /\ Goes(h, "insert")
  /\ UNCHANGED <<inboxVars, receipt, convVars, workerVars, sends>>

(* A known receipt is a duplicate (200); a full queue is refused (503).    *)
ReadProcessed(h) ==
  /\ hookPc[h] = "processed"
  /\ \/ receipt[hookMsg[h]] # "none" /\ Reply200(h)
     \/ receipt[hookMsg[h]] = "none" /\ hookCount[h] >= MaxJobs /\ Reply503(h)
     \/ receipt[hookMsg[h]] = "none" /\ hookCount[h] < MaxJobs /\ Goes(h, "insert")
  /\ UNCHANGED <<inboxVars, receipt, convVars, workerVars, sends>>

(* The unique constraint refuses a second row for the message (503).       *)
Insert(h) ==
  /\ hookPc[h] = "insert"
  /\ \/ /\ job[hookMsg[h]] = "absent"
        /\ InsertJob(hookMsg[h])
        /\ Reply200(h)
     \/ /\ job[hookMsg[h]] # "absent"
        /\ Reply503(h)
        /\ UNCHANGED inboxVars
  /\ UNCHANGED <<receipt, convVars, workerVars, sends>>

(* A database error, a dropped request or a dead backend: no effect, 503.  *)
HookFails(h) ==
  /\ Faults \cap {"db", "crash"} # {}
  /\ hookPc[h] # "idle"
  /\ Reply503(h)
  /\ UNCHANGED <<inboxVars, receipt, convVars, workerVars, sends>>
-----------------------------------------------------------------------------
(* Worker processes: WhatsAppInboundWorker.run_once around                 *)
(* MessageOrchestrator.process_message.                                    *)

(* The database effect of call p for message m and rowid id.               *)
Effect(p, m, id) ==
  \/ /\ \/ p = "claim" /\ ClaimReceipt(m)
        \/ p \in {"skip", "confirm"} /\ MarkProcessed(m)
        \/ p = "release" /\ ReleaseReceipt(m)
     /\ UNCHANGED <<inboxVars, convVars>>
  \/ /\ \/ p = "resolve" /\ ResolveConversation(SenderOf[m])
        \/ p = "begin" /\ BeginAiReply(SenderOf[m])
        \/ p = "help" /\ RequestHumanHelp(SenderOf[m])
        \/ p \in {"finish", "undo"} /\ FinishAiReply(SenderOf[m])
     /\ UNCHANGED <<inboxVars, receipt>>
  \/ /\ \/ p = "complete" /\ DeleteJob(id)
        \/ p = "mark" /\ MarkUncertain(id)
     /\ UNCHANGED <<receipt, convVars>>

(* Where an exception raised by a call leads.  Before a send is attempted  *)
(* the handlers of process_message give the reservation back ("undo"),     *)
(* then the receipt ("release"); run_once marks the job uncertain.         *)
Unwind(p) == CASE p \in {"resolve", "begin", "skip"} -> "release"
               [] p \in {"answer", "help"}           -> "undo"
               [] OTHER                              -> "mark"

(* A worker back at its loop has forgotten the job it processed.           *)
Forget(w) ==
  /\ held'   = [held EXCEPT ![w] = NoMsg]
  /\ heldId' = [heldId EXCEPT ![w] = 0]
  /\ ack'    = [ack EXCEPT ![w] = FALSE]

Goto(w, next) ==
  /\ pc' = [pc EXCEPT ![w] = next]
  /\ IF next = "idle" THEN Forget(w) ELSE UNCHANGED <<held, heldId, ack>>
  /\ UNCHANGED threadVars

(* Call p of worker w commits and the worker goes on with "next".          *)
Returns(w, p, next) ==
  /\ pc[w] = p
  /\ Effect(p, held[w], heldId[w])
  /\ Goto(w, next)
  /\ UNCHANGED <<dying, hookVars, sends>>

(* Call p raises and its transaction is rolled back.  The exception takes  *)
(* the place of a cancellation.  When marking the job fails, run_forever   *)
(* only logs it: the job stays in "processing".                            *)
Raises(w, p) ==
  /\ pc[w] = p
  /\ Goto(w, IF p = "mark" THEN "idle" ELSE Unwind(p))
  /\ dying' = [dying EXCEPT ![w] = FALSE]
  /\ UNCHANGED <<inboxVars, receipt, convVars, hookVars, sends>>

(* The row a call expects is there, or the call raises.                    *)
ReturnsIf(w, p, expected, next) ==
  /\ pc[w] = p
  /\ \/ expected /\ Returns(w, p, next)
     \/ ~expected /\ Raises(w, p)

(* A cancelled task ends after its job is marked, others poll again.       *)
Rest(w) == IF dying[w] THEN "stopped" ELSE "idle"

(* A payload that cannot be decrypted is marked uncertain at once.         *)
Poll(w) ==
  /\ pc[w] = "idle"
  /\ \E m \in Msgs :
       /\ Oldest(m)
       /\ StartJob(m)
       /\ held'   = [held EXCEPT ![w] = m]
       /\ heldId' = [heldId EXCEPT ![w] = jobId[m]]
  /\ \E next \in {"claim"} \cup IF "decrypt" \in Faults THEN {"mark"} ELSE {} :
       pc' = [pc EXCEPT ![w] = next]
  /\ UNCHANGED <<ack, dying, threadVars, receipt, convVars, hookVars, sends>>

Claim(w) ==
  Returns(w, "claim", IF receipt[held[w]] = "none" THEN "resolve" ELSE "complete")

Resolve(w) == Returns(w, "resolve", "begin")

(* In HUMAN mode or with help pending the message is only marked.          *)
BeginReply(w) ==
  Returns(w, "begin", IF MayBegin(row[SenderOf[held[w]]]) THEN "answer" ELSE "skip")

Skip(w) == ReturnsIf(w, "skip", receipt[held[w]] = "claimed", "complete")

(* The model answers; the customer asked for a human or the model failed;  *)
(* or the chat service raises something else.                              *)
Answer(w) ==
  /\ pc[w] = "answer"
  /\ \/ Goto(w, "send")
     \/ /\ pc'  = [pc EXCEPT ![w] = "help"]
        /\ ack' = [ack EXCEPT ![w] = TRUE]
        /\ UNCHANGED <<held, heldId, threadVars>>
     \/ "chat" \in Faults /\ Goto(w, "undo")
  /\ UNCHANGED <<dying, inboxVars, receipt, convVars, hookVars, sends>>

(* The alert may be there already, from another reply in flight.           *)
Help(w) ==
  LET r == row[SenderOf[held[w]]]
  IN  ReturnsIf(w, "help", MayAskHelp(r) \/ r.help, "send")

Issue(m) == sends' = [sends EXCEPT ![m] = @ + 1]

(* Wrong: a send without a usable response is tried again.                 *)
WrongSend(w) ==
  /\ pc[w] = "send"
  /\ Issue(held[w])
  /\ \/ Goto(w, "confirm")
     \/ "provider" \in Faults /\ Goto(w, "send")
  /\ UNCHANGED <<dying, inboxVars, receipt, convVars, hookVars>>

(* From here on send_attempted is set.  Without a usable response nobody   *)
(* knows whether the text reached the customer.                            *)
Send(w) ==
  /\ pc[w] = "send"
  /\ Issue(held[w])
  /\ \/ Goto(w, "confirm")
     \/ "provider" \in Faults /\ Goto(w, "mark")
  /\ UNCHANGED <<dying, inboxVars, receipt, convVars, hookVars>>

Confirm(w) == ReturnsIf(w, "confirm", receipt[held[w]] = "claimed", "finish")

FinishReply(w) ==
  ReturnsIf(w, "finish", MayFinish(row[SenderOf[held[w]]]), "complete")

Undo(w) == ReturnsIf(w, "undo", MayFinish(row[SenderOf[held[w]]]), "release")

ReleaseClaim(w) == Returns(w, "release", "mark")

Complete(w) ==
  ReturnsIf(w, "complete", \E m \in Msgs : InProcess(m, heldId[w]), "idle")

Mark(w) == Returns(w, "mark", Rest(w))
-----------------------------------------------------------------------------
(* Failures of workers.                                                    *)

(* A transaction fails, or the orchestrator cannot be built for the job.   *)
CallFails(w) ==
  /\ \/ "db" \in Faults /\ pc[w] \in DbCalls
     \/ "chat" \in Faults /\ pc[w] = "claim"
  /\ Raises(w, pc[w])

(* The thread of call p runs on without its task.                          *)
Leave(w, p) ==
  /\ orphan'    = [orphan EXCEPT ![w] = p]
  /\ orphanMsg' = [orphanMsg EXCEPT ![w] = held[w]]
  /\ orphanId'  = [orphanId EXCEPT ![w] = heldId[w]]

(* Ctrl-C cancels the task in the call it awaits.  The thread of a         *)
(* database call runs on; run_once marks the job unless it had no job yet  *)
(* or was already marking one in its "except Exception" branch.  Bound: a  *)
(* task that unwinds is not cancelled again, nor one that went on with the *)
(* next job while the thread it left before runs.                          *)
Cancel(w) ==
  /\ "cancel" \in Faults
  /\ ~dying[w] /\ orphan[w] = "none"
  /\ dying' = [dying EXCEPT ![w] = TRUE]
  /\ \/ /\ pc[w] \in {"idle", "mark"}
        /\ pc' = [pc EXCEPT ![w] = "stopped"]
        /\ Leave(w, IF pc[w] = "idle" THEN "poll" ELSE "mark")
        /\ UNCHANGED sends
     \/ /\ pc[w] \in DbCalls \ {"mark"}
        /\ pc' = [pc EXCEPT ![w] = Unwind(pc[w])]
        /\ Leave(w, pc[w])
        /\ UNCHANGED sends
     \/ /\ pc[w] \in {"answer", "send"}
        /\ pc' = [pc EXCEPT ![w] = Unwind(pc[w])]
        /\ IF pc[w] = "send" THEN Issue(held[w]) ELSE UNCHANGED sends
        /\ UNCHANGED threadVars
  /\ UNCHANGED <<held, heldId, ack, inboxVars, receipt, convVars, hookVars>>

ThreadEnds(w) ==
  /\ orphan'    = [orphan EXCEPT ![w] = "none"]
  /\ orphanMsg' = [orphanMsg EXCEPT ![w] = NoMsg]
  /\ orphanId'  = [orphanId EXCEPT ![w] = 0]

(* The thread of a cancelled call takes effect (or fails: see OrphanEnds). *)
OrphanRuns(w) ==
  /\ orphan[w] \in DbCalls
  /\ Effect(orphan[w], orphanMsg[w], orphanId[w])
  /\ ThreadEnds(w)
  /\ UNCHANGED <<taskVars, hookVars, sends>>

(* The thread of a cancelled claim_next starts a job nobody will process;  *)
(* it goes on to mark a job whose payload it cannot decrypt.               *)
OrphanPolls(w) ==
  /\ orphan[w] = "poll"
  /\ \E m \in Msgs :
       /\ Oldest(m)
       /\ StartJob(m)
       /\ \/ ThreadEnds(w)
          \/ /\ "decrypt" \in Faults
             /\ orphan'    = [orphan EXCEPT ![w] = "mark"]
             /\ orphanMsg' = [orphanMsg EXCEPT ![w] = m]
             /\ orphanId'  = [orphanId EXCEPT ![w] = jobId[m]]
  /\ UNCHANGED <<taskVars, receipt, convVars, hookVars, sends>>

(* The thread had nothing to claim, or its transaction is rolled back.     *)
OrphanEnds(w) ==
  /\ \/ orphan[w] = "poll" /\ Pending = {}
     \/ orphan[w] # "none" /\ "db" \in Faults
  /\ ThreadEnds(w)
  /\ UNCHANGED <<taskVars, inboxVars, receipt, convVars, hookVars, sends>>

(* The process ends only after its threads do; it is started again.        *)
Restart(w) ==
  /\ pc[w] = "stopped" /\ orphan[w] = "none"
  /\ pc'    = [pc EXCEPT ![w] = "idle"]
  /\ dying' = [dying EXCEPT ![w] = FALSE]
  /\ Forget(w)
  /\ UNCHANGED <<threadVars, inboxVars, receipt, convVars, hookVars, sends>>

(* The process is killed, with its threads, and started again.             *)
Crash(w) ==
  /\ "crash" \in Faults
  /\ pc[w] # "idle" \/ orphan[w] # "none"
  /\ pc'     = [pc EXCEPT ![w] = "idle"]
  /\ dying'  = [dying EXCEPT ![w] = FALSE]
  /\ Forget(w)
  /\ ThreadEnds(w)
  /\ UNCHANGED <<inboxVars, receipt, convVars, hookVars, sends>>
-----------------------------------------------------------------------------
(* The panel: staff take an idle conversation over and give it back.       *)

TakeOver(s, u) ==
  /\ s \in known /\ MayTake(row[s])
  /\ row' = [row EXCEPT ![s] = Take(@, u)]
  /\ UNCHANGED <<inboxVars, receipt, known, workerVars, hookVars, sends>>

GiveBack(s, u, isOwner) ==
  /\ s \in known /\ MayRelease(row[s], u, isOwner)
  /\ row' = [row EXCEPT ![s] = Release(@)]
  /\ UNCHANGED <<inboxVars, receipt, known, workerVars, hookVars, sends>>
-----------------------------------------------------------------------------
Init ==
  /\ job       = [m \in Msgs |-> "absent"]
  /\ jobId     = [m \in Msgs |-> 0]
  /\ receipt   = [m \in Msgs |-> "none"]
  /\ known     = {}
  /\ row       = [s \in Senders |-> NewRow]
  /\ pc        = [w \in Workers |-> "idle"]
  /\ held      = [w \in Workers |-> NoMsg]
  /\ heldId    = [w \in Workers |-> 0]
  /\ ack       = [w \in Workers |-> FALSE]
  /\ dying     = [w \in Workers |-> FALSE]
  /\ orphan    = [w \in Workers |-> "none"]
  /\ orphanMsg = [w \in Workers |-> NoMsg]
  /\ orphanId  = [w \in Workers |-> 0]
  /\ hookPc    = [h \in Hooks |-> "idle"]
  /\ hookMsg   = [h \in Hooks |-> NoMsg]
  /\ hookCount = [h \in Hooks |-> 0]
  /\ acked     = {}
  /\ sends     = [m \in Msgs |-> 0]

HookStep(h) ==
  \/ \E m \in Msgs : Deliver(h, m)
  \/ ReadExisting(h) \/ ReadProcessed(h) \/ Insert(h) \/ HookFails(h)

(* The steps of the worker's own code while nothing stops it.              *)
Advance(w) ==
  \/ Claim(w) \/ Resolve(w) \/ BeginReply(w) \/ Skip(w) \/ Answer(w)
  \/ Help(w) \/ Send(w) \/ Confirm(w) \/ FinishReply(w) \/ Undo(w)
  \/ ReleaseClaim(w) \/ Complete(w) \/ Mark(w)

WorkerFault(w) ==
  \/ CallFails(w) \/ Cancel(w) \/ OrphanRuns(w) \/ OrphanPolls(w) \/ OrphanEnds(w)
  \/ Restart(w) \/ Crash(w)

PanelStep(s) ==
  \E u \in Users : TakeOver(s, u) \/ \E isOwner \in BOOLEAN : GiveBack(s, u, isOwner)

Next ==
  \/ \E h \in Hooks : HookStep(h)
  \/ \E w \in Workers : Poll(w) \/ Advance(w) \/ WorkerFault(w)
  \/ \E s \in Senders : PanelStep(s)

Spec == Init /\ [][Next]_vars
-----------------------------------------------------------------------------
(* Properties.                                                             *)

TablesTyped ==
  /\ job \in [Msgs -> JobStatus] /\ jobId \in [Msgs -> Nat]
  /\ receipt \in [Msgs -> {"none", "claimed", "completed"}]
  /\ known \subseteq Senders /\ row \in [Senders -> Rows]

WorkersTyped ==
  /\ pc \in [Workers -> Calls \cup {"idle", "stopped"}]
  /\ held \in [Workers -> Msgs \cup {NoMsg}] /\ heldId \in [Workers -> Nat]
  /\ ack \in [Workers -> BOOLEAN] /\ dying \in [Workers -> BOOLEAN]
  /\ orphan \in [Workers -> DbCalls \cup {"none", "poll"}]
  /\ orphanMsg \in [Workers -> Msgs \cup {NoMsg}] /\ orphanId \in [Workers -> Nat]
  /\ \A w \in Workers : /\ pc[w] \in Calls => held[w] \in Msgs
                        /\ orphan[w] \in DbCalls => orphanMsg[w] \in Msgs

HooksTyped ==
  /\ hookPc \in [Hooks -> {"idle", "existing", "processed", "insert"}]
  /\ hookMsg \in [Hooks -> Msgs \cup {NoMsg}] /\ hookCount \in [Hooks -> Nat]
  /\ acked \subseteq Msgs
  /\ \A h \in Hooks : hookPc[h] # "idle" => hookMsg[h] \in Msgs

(* The types of the variables, with the ranges the flow never leaves: a    *)
(* worker or a request in the middle of its work holds a message.          *)
TypeOK == TablesTyped /\ WorkersTyped /\ HooksTyped /\ sends \in [Msgs -> Nat]

(* However often GreenAPI delivers a message, and whatever crashes, is     *)
(* cancelled or fails, at most one sendMessage request answers it: the     *)
(* receipt is released only while no send was attempted                    *)
(* (message_orchestrator.py) and a started job is never claimed again.     *)
AtMostOneSend == \A m \in Msgs : sends[m] <= 1

(* A message GreenAPI has an HTTP 200 for is in the inbox, or its receipt  *)
(* is completed: the 200 follows the commit, and a worker deletes a job    *)
(* only behind a completed receipt.                                        *)
AckedIsKept ==
  \A m \in acked : job[m] # "absent" \/ receipt[m] = "completed"

(* What works on a message: a worker's task, or the thread it left behind. *)
Hands     == Workers \X {"task", "thread"}
CallOf(h) == IF h[2] = "task" THEN pc[h[1]] ELSE orphan[h[1]]
MsgOf(h)  == IF h[2] = "task" THEN held[h[1]] ELSE orphanMsg[h[1]]
IdOf(h)   == IF h[2] = "task" THEN heldId[h[1]] ELSE orphanId[h[1]]

(* Those between the reservation and the end of a reply to s.              *)
Replies(s) ==
  {h \in Hands :
     /\ CallOf(h) \in {"finish", "undo"}
          \cup IF h[2] = "task" THEN {"answer", "help", "send", "confirm"} ELSE {}
     /\ SenderOf[MsgOf(h)] = s}

(* ConversationModeService: "Only one human owns HUMAN mode; AI claims     *)
(* block handoff while replies are in flight."  The counter of the row     *)
(* covers every reply in flight, so no human holds the conversation then.  *)
HumanExcludesAi ==
  \A s \in Senders :
    OwnerCheck(row[s]) /\ Cardinality(Replies(s)) <= row[s].aiReplies

(* The customer is told that help was requested only while the alert is    *)
(* on the panel: nobody can take the chat, and so clear it, before the     *)
(* acknowledgement is out.                                                 *)
AckImpliesAlert ==
  \A w \in Workers :
    pc[w] = "send" /\ ack[w] => row[SenderOf[held[w]]].help

(* The inbox counts its jobs before it inserts: concurrent requests may    *)
(* pass the limit together, by one job each at most.                       *)
InboxBound == Cardinality(Present) <= MaxJobs + Cardinality(Hooks) - 1

(* A job that was started is never pending again, and once its outcome is  *)
(* uncertain nothing takes it away: neither is resent automatically.       *)
NeverRequeued ==
  [][\A m \in Msgs :
       /\ job[m] = "processing" => job'[m] # "pending"
       /\ job[m] = "uncertain" => job'[m] = "uncertain"]_vars

(* While a help alert is pending on a conversation, the only text a worker *)
(* sends there is the fixed acknowledgement (one worker per installation). *)
HelpSilencesAi ==
  [][\A w \in Workers :
       pc[w] = "send" /\ row[SenderOf[held[w]]].help
         => ack[w] \/ sends'[held[w]] = sends[held[w]]]_vars
-----------------------------------------------------------------------------
(* Liveness, under the fairness of a worker loop: a worker that polls does *)
(* find a pending job, and a call it awaits does return or raise.  Nothing *)
(* is assumed of GreenAPI's deliveries, of the panel or of failures.       *)

FairSpec == Spec /\ \A w \in Workers : WF_vars(Poll(w)) /\ WF_vars(Advance(w))

(* An accepted job does not wait for ever: it is recorded as processed or  *)
(* put before the operator as uncertain.                                   *)
JobsSettle ==
  \A m \in Msgs :
    job[m] = "pending" ~> job[m] = "uncertain" \/ receipt[m] = "completed"

(* A help alert ends in a conversation that staff can take or have taken:  *)
(* the reservations of the replies in flight are all given back.           *)
HelpReachesStaff ==
  \A s \in Senders : row[s].help ~> MayTake(row[s]) \/ row[s].mode = "HUMAN"
=============================================================================
