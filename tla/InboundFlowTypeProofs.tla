------------------------ MODULE InboundFlowTypeProofs ------------------------
(***************************************************************************)
(* TypeOK is inductive: the variables of InboundFlow stay typed, and       *)
(* whoever is in the middle of its work knows its message.                 *)
(***************************************************************************)
EXTENDS InboundFlowInvariant, ResponderStateProofs, FiniteSetTheorems, TLAPS
-----------------------------------------------------------------------------
(* The tables stay typed whatever call is made.                            *)
LEMMA EffectTyped ==
  ASSUME TablesTyped, NEW p, NEW m \in Msgs, NEW id, Effect(p, m, id)
  PROVE  TablesTyped'
<1> DEFINE s == SenderOf[m]
<1>1. s \in Senders /\ row[s] \in Rows
  BY FlowAssumption DEF TablesTyped
<1>2. CASE /\ \/ p = "claim" /\ ClaimReceipt(m)
              \/ p \in {"skip", "confirm"} /\ MarkProcessed(m)
              \/ p = "release" /\ ReleaseReceipt(m)
           /\ UNCHANGED <<inboxVars, convVars>>
  BY <1>2 DEF TablesTyped, inboxVars, convVars, ClaimReceipt, MarkProcessed,
              ReleaseReceipt
<1>3. CASE /\ p = "resolve" /\ ResolveConversation(s)
           /\ UNCHANGED <<inboxVars, receipt>>
  BY <1>1, <1>3, NewRowIsRow DEF TablesTyped, inboxVars, ResolveConversation
<1>4. CASE /\ \/ p = "begin" /\ BeginAiReply(s)
              \/ p = "help" /\ RequestHumanHelp(s)
              \/ p \in {"finish", "undo"} /\ FinishAiReply(s)
           /\ UNCHANGED <<inboxVars, receipt>>
  <2>1. /\ Begin(row[s]) \in Rows /\ AskHelp(row[s]) \in Rows
        /\ MayFinish(row[s]) => Finish(row[s]) \in Rows
    BY <1>1, AiUpdates
  <2> QED
    BY <1>1, <1>4, <2>1 DEF TablesTyped, inboxVars, BeginAiReply,
                            RequestHumanHelp, FinishAiReply
<1>5. CASE /\ \/ p = "complete" /\ DeleteJob(id)
              \/ p = "mark" /\ MarkUncertain(id)
           /\ UNCHANGED <<receipt, convVars>>
  BY <1>5 DEF TablesTyped, convVars, DeleteJob, MarkUncertain, JobStatus
<1> QED
  BY <1>2, <1>3, <1>4, <1>5 DEF Effect

(* A worker that moves on stays typed.                                     *)
LEMMA GotoTyped ==
  ASSUME WorkersTyped, NEW w \in Workers, pc[w] \in Calls,
         NEW next \in Calls \cup {"idle", "stopped"}, Goto(w, next),
         dying' \in [Workers -> BOOLEAN]
  PROVE  WorkersTyped'
<1>1. held[w] \in Msgs /\ "idle" \notin Calls
  BY DEF WorkersTyped, Calls, DbCalls
<1>2. pc' = [pc EXCEPT ![w] = next] /\ UNCHANGED <<orphan, orphanMsg, orphanId>>
  BY DEF Goto, threadVars
<1>3. CASE next # "idle"
  BY <1>1, <1>2, <1>3 DEF WorkersTyped, Goto
<1>4. CASE next = "idle"
  <2>1. /\ held' = [held EXCEPT ![w] = NoMsg] /\ heldId' = [heldId EXCEPT ![w] = 0]
        /\ ack' = [ack EXCEPT ![w] = FALSE]
    BY <1>4 DEF Goto, Forget
  <2> QED
    BY <1>1, <1>2, <1>4, <2>1 DEF WorkersTyped
<1> QED
  BY <1>3, <1>4
-----------------------------------------------------------------------------
(* Every step of a worker's own code is one of four kinds.  "Next" is      *)
(* where a database call that returns may lead.                            *)
Leads(p, next) ==
  \/ p = "claim"    /\ next \in {"resolve", "complete"}
  \/ p = "resolve"  /\ next = "begin"
  \/ p = "begin"    /\ next \in {"answer", "skip"}
  \/ p = "skip"     /\ next = "complete"
  \/ p = "help"     /\ next = "send"
  \/ p = "confirm"  /\ next = "finish"
  \/ p = "finish"   /\ next = "complete"
  \/ p = "undo"     /\ next = "release"
  \/ p = "release"  /\ next = "mark"
  \/ p = "complete" /\ next = "idle"
  \/ p = "mark"     /\ next \in {"idle", "stopped"}

(* What the worker learns of the receipt from a call that leads there.     *)
Learns(w, p, next) ==
  /\ p = "claim" => (next = "resolve" <=> receipt[held[w]] = "none")
  /\ p \in {"skip", "confirm"} => receipt[held[w]] = "claimed"

Moves(w, p, next) == Leads(p, next) /\ Learns(w, p, next) /\ Returns(w, p, next)

LEMMA AdvanceCases ==
  ASSUME NEW w, Advance(w)
  PROVE  \/ Answer(w) \/ Send(w)
         \/ \E p \in DbCalls : Raises(w, p)
         \/ \E p \in DbCalls, next \in Calls \cup {"idle", "stopped"} : Moves(w, p, next)
BY DEF Advance, Claim, Resolve, BeginReply, Skip, Help, Confirm, FinishReply,
       Undo, ReleaseClaim, Complete, Mark, ReturnsIf, Moves, Leads, Learns, Rest,
       DbCalls, Calls

LEMMA CallFailsRaises ==
  ASSUME NEW w, CallFails(w)
  PROVE  \E p \in DbCalls : Raises(w, p)
BY DEF CallFails, DbCalls

(* Where an exception leads.                                               *)
LEMMA RaisesLeads ==
  ASSUME NEW w, NEW p \in DbCalls, Raises(w, p)
  PROVE  /\ pc[w] = p /\ p \in Calls
         /\ p = "mark" => Goto(w, "idle")
         /\ p # "mark" => Goto(w, Unwind(p))
         /\ Unwind(p) \in {"undo", "release", "mark"}
<1>1. Unwind(p) \in {"undo", "release", "mark"}
  BY DEF Unwind
<1>2. pc[w] = p /\ p \in Calls
  BY DEF Raises, Calls
<1>3. /\ p = "mark" => Goto(w, "idle")
      /\ p # "mark" => Goto(w, Unwind(p))
  BY DEF Raises
<1> QED
  BY <1>1, <1>2, <1>3

(* What a worker's own steps do to the types.                              *)
LEMMA WorkerTyped ==
  ASSUME TypeOK, NEW w \in Workers,
         Poll(w) \/ Advance(w) \/ CallFails(w)
  PROVE  TypeOK'
<1> USE DEF TypeOK
<1>1. CASE Poll(w)
  <2>1. PICK m \in Msgs :
          /\ job' = [job EXCEPT ![m] = "processing"] /\ UNCHANGED jobId
          /\ held' = [held EXCEPT ![w] = m] /\ heldId' = [heldId EXCEPT ![w] = jobId[m]]
    BY <1>1 DEF Poll, StartJob
  <2>2. PICK next \in {"claim", "mark"} : pc' = [pc EXCEPT ![w] = next]
    BY <1>1 DEF Poll
  <2>3. UNCHANGED <<ack, dying, threadVars, receipt, convVars, hookVars, sends>>
    BY <1>1 DEF Poll
  <2>4. next \in Calls
    BY DEF Calls, DbCalls
  <2>5. TablesTyped'
    BY <2>1, <2>3 DEF TablesTyped, convVars, JobStatus
  <2>6. WorkersTyped'
    BY <2>1, <2>2, <2>3, <2>4 DEF WorkersTyped, TablesTyped, threadVars
  <2> QED
    BY <2>3, <2>5, <2>6 DEF hookVars, HooksTyped
<1>2. ASSUME NEW next \in {"send", "undo", "confirm", "mark"}, Goto(w, next),
             pc[w] \in {"answer", "send"}, UNCHANGED dying
      PROVE  WorkersTyped'
  <2>1. next \in Calls /\ pc[w] \in Calls
    BY <1>2 DEF Calls, DbCalls
  <2>2. dying' \in [Workers -> BOOLEAN]
    BY <1>2 DEF WorkersTyped
  <2> QED
    BY <1>2, <2>1, <2>2, GotoTyped
<1>3. CASE Answer(w)
  <2>1. CASE Goto(w, "send") \/ Goto(w, "undo")
    BY <1>2, <1>3, <2>1 DEF Answer, inboxVars, convVars, hookVars, TablesTyped, HooksTyped
  <2>2. CASE /\ pc'  = [pc EXCEPT ![w] = "help"]
             /\ ack' = [ack EXCEPT ![w] = TRUE]
             /\ UNCHANGED <<held, heldId, threadVars>>
    <3>1. pc[w] = "answer" /\ pc[w] \in Calls /\ "help" \in Calls /\ UNCHANGED dying
      BY <1>3 DEF Answer, Calls, DbCalls
    <3>2. WorkersTyped'
      BY <2>2, <3>1 DEF WorkersTyped, threadVars
    <3> QED
      BY <1>3, <3>2 DEF Answer, inboxVars, convVars, hookVars, TablesTyped, HooksTyped
  <2> QED
    BY <1>3, <2>1, <2>2 DEF Answer
<1>4. CASE Send(w)
  <2>1. held[w] \in Msgs /\ pc[w] = "send"
    BY <1>4 DEF Send, Calls, WorkersTyped
  <2>2. sends' \in [Msgs -> Nat]
    BY <1>4, <2>1 DEF Send, Issue
  <2>3. WorkersTyped'
    BY <1>2, <1>4, <2>1 DEF Send
  <2> QED
    BY <1>4, <2>2, <2>3 DEF Send, inboxVars, convVars, hookVars, TablesTyped, HooksTyped
<1>5. ASSUME NEW p \in DbCalls, Raises(w, p) PROVE TypeOK'
  <2>1. dying' \in [Workers -> BOOLEAN]
    BY <1>5 DEF Raises, WorkersTyped
  <2>2. \E next \in {"undo", "release", "mark", "idle"} : Goto(w, next)
    BY <1>5, RaisesLeads
  <2>3. PICK next \in {"undo", "release", "mark", "idle"} : Goto(w, next)
    BY <2>2
  <2>4. pc[w] \in Calls /\ next \in Calls \cup {"idle", "stopped"}
    BY <1>5, RaisesLeads DEF Calls, DbCalls
  <2>5. WorkersTyped'
    BY <2>1, <2>3, <2>4, GotoTyped
  <2> QED
    BY <1>5, <2>5 DEF Raises, inboxVars, convVars, hookVars, TablesTyped, HooksTyped
<1>6. ASSUME NEW p \in DbCalls, NEW next \in Calls \cup {"idle", "stopped"},
             Returns(w, p, next)
      PROVE  TypeOK'
  <2>1. pc[w] \in Calls /\ held[w] \in Msgs
    BY <1>6 DEF Returns, Calls, WorkersTyped
  <2>2. /\ Effect(p, held[w], heldId[w]) /\ Goto(w, next)
        /\ UNCHANGED <<dying, hookVars, sends>>
    BY <1>6 DEF Returns
  <2>3. TablesTyped'
    BY <2>1, <2>2, EffectTyped
  <2>4. dying' \in [Workers -> BOOLEAN]
    BY <2>2 DEF WorkersTyped
  <2>5. WorkersTyped'
    BY <2>1, <2>2, <2>4, GotoTyped
  <2> QED
    BY <2>2, <2>3, <2>5 DEF hookVars, HooksTyped
<1>7. CASE Advance(w)
  BY <1>3, <1>4, <1>5, <1>6, <1>7, AdvanceCases DEF Moves
<1> QED
  BY <1>1, <1>5, <1>7, CallFailsRaises

(* Cancelled tasks, the threads they leave behind, restarts and crashes.   *)
LEMMA FaultTyped ==
  ASSUME TypeOK, NEW w \in Workers, WorkerFault(w), ~CallFails(w)
  PROVE  TypeOK'
<1> USE DEF TypeOK
<1>0. "none" \notin DbCalls /\ "poll" \notin DbCalls /\ "idle" \notin Calls /\ "stopped" \notin Calls
  BY DEF DbCalls, Calls
<1>1. CASE Cancel(w)
  <2>1. /\ dying' = [dying EXCEPT ![w] = TRUE]
        /\ UNCHANGED <<held, heldId, ack, inboxVars, receipt, convVars, hookVars>>
    BY <1>1 DEF Cancel
  <2>2. ASSUME NEW call \in DbCalls \cup {"poll"}, Leave(w, call),
               call \in DbCalls => pc[w] \in Calls,
               NEW next \in {"undo", "release", "mark", "stopped"},
               pc' = [pc EXCEPT ![w] = next], next # "stopped" => pc[w] \in Calls,
               UNCHANGED sends
        PROVE  TypeOK'
    <3>1. next \in Calls \cup {"stopped"}
      BY DEF Calls, DbCalls
    <3>2. WorkersTyped'
      BY <1>0, <2>1, <2>2, <3>1 DEF WorkersTyped, Leave
    <3> QED
      BY <2>1, <2>2, <3>2 DEF inboxVars, convVars, hookVars, TablesTyped, HooksTyped
  <2>3. CASE /\ pc[w] \in {"idle", "mark"}
             /\ pc' = [pc EXCEPT ![w] = "stopped"]
             /\ Leave(w, IF pc[w] = "idle" THEN "poll" ELSE "mark")
             /\ UNCHANGED sends
    <3>1. "mark" \in Calls /\ "mark" \in DbCalls
      BY DEF Calls, DbCalls
    <3>2. CASE pc[w] = "idle"
      BY <1>0, <2>2, <2>3, <3>2
    <3>3. CASE pc[w] = "mark"
      BY <2>2, <2>3, <3>1, <3>3
    <3> QED
      BY <2>3, <3>2, <3>3
  <2>4. CASE /\ pc[w] \in DbCalls \ {"mark"}
             /\ pc' = [pc EXCEPT ![w] = Unwind(pc[w])]
             /\ Leave(w, pc[w])
             /\ UNCHANGED sends
    <3>1. Unwind(pc[w]) \in {"undo", "release", "mark"} /\ pc[w] \in Calls
      BY <2>4 DEF Unwind, Calls
    <3> QED
      BY <2>2, <2>4, <3>1
  <2>5. CASE /\ pc[w] \in {"answer", "send"}
             /\ pc' = [pc EXCEPT ![w] = Unwind(pc[w])]
             /\ IF pc[w] = "send" THEN Issue(held[w]) ELSE UNCHANGED sends
             /\ UNCHANGED threadVars
    <3>1. Unwind(pc[w]) \in {"undo", "release", "mark"} /\ pc[w] \in Calls
      BY <2>5 DEF Unwind, Calls
    <3>2. Unwind(pc[w]) \in Calls
      BY <3>1 DEF Calls, DbCalls
    <3>3. held[w] \in Msgs
      BY <3>1 DEF WorkersTyped
    <3>4. sends' \in [Msgs -> Nat]
      BY <2>5, <3>3 DEF Issue
    <3>5. WorkersTyped'
      BY <2>1, <2>5, <3>2, <3>3 DEF WorkersTyped, threadVars
    <3> QED
      BY <2>1, <3>4, <3>5 DEF inboxVars, convVars, hookVars, TablesTyped, HooksTyped
  <2> QED
    BY <1>1, <2>3, <2>4, <2>5 DEF Cancel
<1>2. ASSUME ThreadEnds(w), UNCHANGED taskVars
      PROVE  WorkersTyped'
  BY <1>0, <1>2 DEF ThreadEnds, taskVars, WorkersTyped
<1>3. CASE OrphanRuns(w)
  <2>1. orphanMsg[w] \in Msgs
    BY <1>3 DEF OrphanRuns, WorkersTyped
  <2>2. TablesTyped'
    BY <1>3, <2>1, EffectTyped DEF OrphanRuns
  <2> QED
    BY <1>2, <1>3, <2>2 DEF OrphanRuns, hookVars, HooksTyped
<1>4. CASE OrphanPolls(w)
  <2>1. PICK m \in Msgs :
          /\ StartJob(m)
          /\ \/ ThreadEnds(w)
             \/ /\ orphan'    = [orphan EXCEPT ![w] = "mark"]
                /\ orphanMsg' = [orphanMsg EXCEPT ![w] = m]
                /\ orphanId'  = [orphanId EXCEPT ![w] = jobId[m]]
    BY <1>4 DEF OrphanPolls
  <2>2. UNCHANGED <<taskVars, receipt, convVars, hookVars, sends>>
    BY <1>4 DEF OrphanPolls
  <2>3. TablesTyped'
    BY <2>1, <2>2 DEF StartJob, TablesTyped, JobStatus, convVars
  <2>4. CASE ThreadEnds(w)
    BY <1>2, <2>2, <2>3, <2>4 DEF hookVars, HooksTyped
  <2>5. CASE /\ orphan'    = [orphan EXCEPT ![w] = "mark"]
             /\ orphanMsg' = [orphanMsg EXCEPT ![w] = m]
             /\ orphanId'  = [orphanId EXCEPT ![w] = jobId[m]]
    <3>1. "mark" \in DbCalls /\ jobId[m] \in Nat
      BY DEF DbCalls, TablesTyped
    <3>2. WorkersTyped'
      BY <2>2, <2>5, <3>1 DEF WorkersTyped, taskVars
    <3> QED
      BY <2>2, <2>3, <3>2 DEF hookVars, HooksTyped
  <2> QED
    BY <2>1, <2>4, <2>5
<1>5. CASE OrphanEnds(w)
  BY <1>2, <1>5 DEF OrphanEnds, inboxVars, convVars, hookVars, TablesTyped, HooksTyped
<1>6. CASE Restart(w) \/ Crash(w)
  <2>1. /\ pc' = [pc EXCEPT ![w] = "idle"] /\ dying' = [dying EXCEPT ![w] = FALSE]
        /\ ThreadEnds(w) \/ UNCHANGED threadVars
        /\ UNCHANGED <<inboxVars, receipt, convVars, hookVars, sends>>
    BY <1>6 DEF Restart, Crash
  <2>2. Forget(w)
    BY <1>6 DEF Restart, Crash
  <2>3. WorkersTyped'
    <3>1. CASE ThreadEnds(w)
      BY <1>0, <2>1, <2>2, <3>1 DEF WorkersTyped, Forget, ThreadEnds
    <3>2. CASE UNCHANGED threadVars
      BY <1>0, <2>1, <2>2, <3>2 DEF WorkersTyped, Forget, threadVars
    <3> QED
      BY <2>1, <3>1, <3>2
  <2> QED
    BY <2>1, <2>3 DEF inboxVars, convVars, hookVars, TablesTyped, HooksTyped
<1> QED
  BY <1>1, <1>3, <1>4, <1>5, <1>6 DEF WorkerFault

(* A request answers and is over, or goes on with its message.             *)
LEMMA HookTyped ==
  ASSUME TypeOK, NEW h \in Hooks, HookStep(h)
  PROVE  TypeOK'
<1> USE DEF TypeOK
<1>1. CASE \E m \in Msgs : Deliver(h, m)
  <2>1. PICK m \in Msgs : Deliver(h, m)
    BY <1>1
  <2>2. Cardinality(Present) \in Nat
    <3>1. Present \subseteq Msgs
      BY DEF Present
    <3> QED
      BY <3>1, FlowAssumption, FS_Subset, FS_CardinalityType
  <2>3. HooksTyped'
    BY <2>1, <2>2 DEF Deliver, HooksTyped
  <2> QED
    BY <2>1, <2>3 DEF Deliver, inboxVars, convVars, workerVars, taskVars, threadVars,
                      TablesTyped, WorkersTyped
<1>2. ASSUME hookPc[h] # "idle",
             \/ Reply200(h) \/ Reply503(h)
             \/ Goes(h, "processed") \/ Goes(h, "insert")
      PROVE  HooksTyped'
  BY <1>2 DEF Reply200, Reply503, EndRequest, Goes, HooksTyped
<1>3. CASE ReadExisting(h) \/ ReadProcessed(h) \/ HookFails(h)
  <2>1. HooksTyped'
    BY <1>2, <1>3 DEF ReadExisting, ReadProcessed, HookFails
  <2> QED
    BY <1>3, <2>1 DEF ReadExisting, ReadProcessed, HookFails, inboxVars, convVars,
                      workerVars, taskVars, threadVars, TablesTyped, WorkersTyped
<1>4. CASE Insert(h)
  <2>1. HooksTyped'
    BY <1>2, <1>4 DEF Insert
  <2>2. ASSUME NEW m \in Msgs, InsertJob(m)
        PROVE  job' \in [Msgs -> JobStatus] /\ jobId' \in [Msgs -> Nat]
    <3>1. PICK i \in NextIds : /\ job' = [job EXCEPT ![m] = "pending"]
                               /\ jobId' = [jobId EXCEPT ![m] = i]
      BY <2>2 DEF InsertJob
    <3>2. i \in Nat
      BY DEF NextIds, Present, TablesTyped
    <3> QED
      BY <3>1, <3>2 DEF TablesTyped, JobStatus
  <2>3. hookMsg[h] \in Msgs
    BY <1>4 DEF Insert, HooksTyped
  <2>4. TablesTyped'
    BY <1>4, <2>2, <2>3 DEF Insert, TablesTyped, inboxVars, convVars
  <2> QED
    BY <1>4, <2>1, <2>4 DEF Insert, workerVars, taskVars, threadVars, WorkersTyped
<1> QED
  BY <1>1, <1>3, <1>4 DEF HookStep

(* Staff move conversations.                                               *)
LEMMA PanelTyped ==
  ASSUME TypeOK, NEW s \in Senders, PanelStep(s)
  PROVE  TypeOK'
<1> USE DEF TypeOK
<1>1. PICK u \in Users : TakeOver(s, u) \/ \E b \in BOOLEAN : GiveBack(s, u, b)
  BY DEF PanelStep
<1>2. Take(row[s], u) \in Rows /\ Release(row[s]) \in Rows
  BY HumanUpdates DEF TablesTyped
<1>3. TablesTyped'
  BY <1>1, <1>2 DEF TakeOver, GiveBack, TablesTyped, inboxVars
<1> QED
  BY <1>1, <1>3 DEF TakeOver, GiveBack, workerVars, taskVars, threadVars, hookVars,
                    WorkersTyped, HooksTyped
-----------------------------------------------------------------------------
(* TypeOK holds at first and every step keeps it.                          *)
LEMMA TypeOKInit == Init => TypeOK
<1> SUFFICES ASSUME Init PROVE TypeOK
  OBVIOUS
<1>1. TablesTyped
  BY NewRowIsRow DEF Init, TablesTyped, JobStatus
<1>2. WorkersTyped
  BY DEF Init, WorkersTyped, Calls, DbCalls
<1> QED
  BY <1>1, <1>2 DEF Init, TypeOK, HooksTyped

LEMMA TypeOKStep == TypeOK /\ [Next]_vars => TypeOK'
<1> SUFFICES ASSUME TypeOK, [Next]_vars PROVE TypeOK'
  OBVIOUS
<1>1. ASSUME NEW w \in Workers, Poll(w) \/ Advance(w) \/ WorkerFault(w)
      PROVE  TypeOK'
  BY <1>1, WorkerTyped, FaultTyped
<1>2. CASE UNCHANGED vars
  BY <1>2 DEF vars, inboxVars, convVars, workerVars, taskVars, threadVars, hookVars,
              TypeOK, TablesTyped, WorkersTyped, HooksTyped
<1> QED
  BY <1>1, <1>2, HookTyped, PanelTyped DEF Next

(* Whatever fails, the variables keep their types, and a worker or request *)
(* in the middle of its work knows its message.                            *)
THEOREM TypeSafety == Spec => []TypeOK
  BY TypeOKInit, TypeOKStep, PTL DEF Spec
=============================================================================
