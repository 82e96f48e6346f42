----------------------- MODULE InboundFlowReplyProofs ------------------------
(***************************************************************************)
(* What FlowInv does not say of the flow: the inbox stays within its limit *)
(* and one job for each concurrent request; staff never hold a             *)
(* conversation with a reply in flight, nor take it away from under an     *)
(* acknowledgement; and every step keeps the promise of ReplyOnce.         *)
(***************************************************************************)
EXTENDS InboundFlowProofs, InboundFlowRefinement

(* What a step of a worker does to the tables: nothing but a send, the     *)
(* start of a job, or the effect of a call whose message it works on.      *)
Quiet(w) ==
  /\ UNCHANGED <<inboxVars, receipt, convVars>>
  /\ UNCHANGED sends \/ (pc[w] = "send" /\ Issue(held[w]))

Starts == \E m \in Msgs : Oldest(m) /\ StartJob(m) /\ UNCHANGED <<receipt, convVars, sends>>

Works(w, p, m, id) ==
  /\ \/ pc[w] = p /\ held[w] = m /\ heldId[w] = id
     \/ orphan[w] = p /\ orphanMsg[w] = m /\ orphanId[w] = id
  /\ Effect(p, m, id) /\ UNCHANGED sends

LEMMA WorkerDoes ==
  ASSUME TypeOK, NEW w \in Workers, Poll(w) \/ Advance(w) \/ WorkerFault(w)
  PROVE  /\ UNCHANGED hookVars
         /\ Quiet(w) \/ Starts \/ \E p \in DbCalls, m \in Msgs : \E id : Works(w, p, m, id)
<1>1. ASSUME NEW p \in DbCalls, Raises(w, p)
      PROVE  UNCHANGED hookVars /\ Quiet(w)
  BY <1>1 DEF Raises, Quiet
<1>2. ASSUME NEW p \in DbCalls, NEW next, Returns(w, p, next)
      PROVE  UNCHANGED hookVars /\ held[w] \in Msgs /\ Works(w, p, held[w], heldId[w])
  BY <1>2 DEF Returns, Works, TypeOK, WorkersTyped, Calls
<1>3. CASE Poll(w)
  BY <1>3 DEF Poll, Starts
<1>4. CASE Advance(w)
  <2>1. CASE Answer(w) \/ Send(w)
    BY <2>1 DEF Answer, Send, Quiet
  <2> QED BY <1>1, <1>2, <1>4, <2>1, AdvanceCases DEF Moves
<1>5. CASE OrphanRuns(w)
  <2>1. orphan[w] \in DbCalls /\ orphanMsg[w] \in Msgs
    BY <1>5 DEF OrphanRuns, TypeOK, WorkersTyped
  <2>2. Works(w, orphan[w], orphanMsg[w], orphanId[w])
    BY <1>5 DEF OrphanRuns, Works
  <2> QED BY <1>5, <2>1, <2>2 DEF OrphanRuns
<1>6. CASE OrphanPolls(w)
  BY <1>6 DEF OrphanPolls, Starts
<1>7. CASE Cancel(w)
  BY <1>7 DEF Cancel, Quiet
<1>8. CASE OrphanEnds(w) \/ Restart(w) \/ Crash(w)
  BY <1>8 DEF OrphanEnds, Restart, Crash, Quiet
<1> QED BY <1>1, <1>3, <1>4, <1>5, <1>6, <1>7, <1>8, CallFailsRaises DEF WorkerFault

-----------------------------------------------------------------------------
(* The size of the inbox.  Counts are of finite sets.                      *)
LEMMA Counts ==
  /\ IsFiniteSet(Present) /\ Cardinality(Present) \in Nat
  /\ IsFiniteSet(Admitted) /\ Cardinality(Admitted) \in Nat
  /\ Cardinality(Admitted) <= Cardinality(Hooks) /\ Cardinality(Hooks) \in Nat
<1>1. Present \in SUBSET Msgs /\ Admitted \in SUBSET Hooks
  BY DEF Present, Admitted
<1> QED BY <1>1, FlowAssumption, FS_Subset, FS_CardinalityType

(* A request that goes on, or ends, admits nobody.                         *)
LEMMA AdmittedShrink ==
  ASSUME AdmittedFit, Present' \subseteq Present, Admitted' \subseteq Admitted,
         \A h \in Hooks : hookPc'[h] = "insert" => hookCount'[h] < MaxJobs
  PROVE  AdmittedFit'
<1>1. Cardinality(Present') <= Cardinality(Present) /\ Cardinality(Present') \in Nat
  BY Counts, FS_Subset, FS_CardinalityType
<1>2. Cardinality(Admitted') <= Cardinality(Admitted) /\ Cardinality(Admitted') \in Nat
  BY Counts, FS_Subset, FS_CardinalityType
<1> QED BY <1>1, <1>2, Counts, FlowAssumption DEF AdmittedFit

(* Every handler of a request: it counts before it inserts.                *)
LEMMA AdmittedHook ==
  ASSUME TypeOK, AdmittedFit, NEW h \in Hooks, HookStep(h)
  PROVE  AdmittedFit'
<1> USE FlowAssumption
<1>0. /\ hookPc \in [Hooks -> {"idle", "existing", "processed", "insert"}] /\ hookCount \in [Hooks -> Nat]
      /\ job \in [Msgs -> JobStatus]
  BY DEF TypeOK, HooksTyped, TablesTyped
<1>1. ASSUME NEW m \in Msgs, Deliver(h, m) PROVE AdmittedFit'
  <2>1. Present' = Present
    BY <1>1 DEF Deliver, inboxVars, Present
  <2>2. /\ h \notin Admitted /\ hookPc'[h] = "existing" /\ hookCount'[h] = Cardinality(Present)
        /\ \A g \in Hooks \ {h} : hookPc'[g] = hookPc[g] /\ hookCount'[g] = hookCount[g]
    BY <1>0, <1>1 DEF Deliver, Admitted
  <2>3. CASE Cardinality(Present) < MaxJobs
    <3>1. Cardinality(Admitted') <= Cardinality(Hooks) /\ Cardinality(Admitted') \in Nat
      <4>1. Admitted' \in SUBSET Hooks
        BY DEF Admitted
      <4> QED BY <4>1, FS_Subset, FS_CardinalityType
    <3>2. Cardinality(Present') = Cardinality(Present)
      BY <2>1
    <3> QED BY <2>2, <2>3, <3>1, <3>2, Counts DEF AdmittedFit
  <2>4. CASE ~(Cardinality(Present) < MaxJobs)
    <3>1. Admitted' \subseteq Admitted
      BY <2>2, <2>4 DEF Admitted
    <3>2. \A g \in Hooks : hookPc'[g] = "insert" => hookCount'[g] < MaxJobs
      BY <2>2 DEF AdmittedFit
    <3> QED BY <2>1, <3>1, <3>2, AdmittedShrink
  <2> QED BY <2>3, <2>4
<1>2. ASSUME Present' = Present, EndRequest(h) PROVE AdmittedFit'
  <2>1. hookPc'[h] = "idle" /\ \A g \in Hooks \ {h} : hookPc'[g] = hookPc[g] /\ hookCount'[g] = hookCount[g]
    BY <1>0, <1>2 DEF EndRequest
  <2>2. Admitted' \subseteq Admitted
    BY <2>1 DEF Admitted
  <2>3. \A g \in Hooks : hookPc'[g] = "insert" => hookCount'[g] < MaxJobs
    BY <2>1 DEF AdmittedFit
  <2> QED BY <1>2, <2>2, <2>3, AdmittedShrink
<1>3. ASSUME Present' = Present, NEW next, Goes(h, next), next = "insert" => hookCount[h] < MaxJobs,
             hookPc[h] # "idle"
      PROVE  AdmittedFit'
  <2>1. hookPc'[h] = next /\ hookCount' = hookCount /\ \A g \in Hooks \ {h} : hookPc'[g] = hookPc[g]
    BY <1>0, <1>3 DEF Goes
  <2>2. Admitted' \subseteq Admitted
    BY <1>3, <2>1 DEF Admitted
  <2>3. \A g \in Hooks : hookPc'[g] = "insert" => hookCount'[g] < MaxJobs
    BY <1>3, <2>1 DEF AdmittedFit
  <2> QED BY <1>3, <2>2, <2>3, AdmittedShrink
<1>4. CASE UNCHANGED inboxVars
  <2>1. Present' = Present
    BY <1>4 DEF inboxVars, Present
  <2> QED BY <1>1, <1>2, <1>3, <1>4, <2>1
          DEF HookStep, ReadExisting, ReadProcessed, Insert, HookFails, Reply200, Reply503
<1>5. CASE ~UNCHANGED inboxVars
  <2>1. \/ \E m \in Msgs : Deliver(h, m)
        \/ hookPc[h] = "insert" /\ job[hookMsg[h]] = "absent" /\ InsertJob(hookMsg[h]) /\ Reply200(h)
    BY <1>5 DEF HookStep, ReadExisting, ReadProcessed, Insert, HookFails
  <2>2. CASE hookPc[h] = "insert" /\ job[hookMsg[h]] = "absent" /\ InsertJob(hookMsg[h]) /\ Reply200(h)
    <3>1. hookMsg[h] \in Msgs
      BY <2>2 DEF TypeOK, HooksTyped
    <3>2. job' = [job EXCEPT ![hookMsg[h]] = "pending"]
      BY <2>2 DEF InsertJob
    <3>3. Present' = Present \cup {hookMsg[h]} /\ hookMsg[h] \notin Present
      BY <1>0, <2>2, <3>1, <3>2 DEF Present, JobStatus
    <3>4. Cardinality(Present') = Cardinality(Present) + 1
      BY <3>3, Counts, FS_AddElement
    <3>5. hookPc'[h] = "idle" /\ \A g \in Hooks \ {h} : hookPc'[g] = hookPc[g] /\ hookCount'[g] = hookCount[g]
      BY <1>0, <2>2 DEF Reply200, EndRequest
    <3>6. h \in Admitted /\ Admitted' = Admitted \ {h}
      BY <2>2, <3>5 DEF Admitted, AdmittedFit
    <3>7. Cardinality(Admitted') = Cardinality(Admitted) - 1
      BY <3>6, Counts, FS_RemoveElement
    <3> QED BY <3>4, <3>5, <3>7, Counts DEF AdmittedFit
  <2> QED BY <1>1, <2>1, <2>2
<1> QED BY <1>4, <1>5

LEMMA AdmittedStep == TypeOK /\ AdmittedFit /\ [Next]_vars => AdmittedFit'
<1> SUFFICES ASSUME TypeOK, AdmittedFit, [Next]_vars PROVE AdmittedFit'
  OBVIOUS
<1>1. ASSUME UNCHANGED hookVars, Present' \subseteq Present PROVE AdmittedFit'
  <2>1. Admitted' = Admitted /\ \A h \in Hooks : hookPc'[h] = "insert" => hookCount'[h] < MaxJobs
    BY <1>1 DEF hookVars, Admitted, AdmittedFit
  <2> QED BY <1>1, <2>1, AdmittedShrink
<1>2. ASSUME UNCHANGED inboxVars PROVE Present' \subseteq Present
  BY <1>2 DEF inboxVars, Present
<1>3. ASSUME NEW w \in Workers, Poll(w) \/ Advance(w) \/ WorkerFault(w) PROVE AdmittedFit'
  <2>0. job \in [Msgs -> JobStatus]
    BY DEF TypeOK, TablesTyped
  <2>1. CASE Quiet(w)
    BY <1>1, <1>2, <1>3, <2>1, WorkerDoes DEF Quiet
  <2>2. CASE Starts
    <3>1. Present' \subseteq Present
      BY <2>0, <2>2 DEF Starts, StartJob, Oldest, Pending, Present
    <3> QED BY <1>1, <1>3, <3>1, WorkerDoes
  <2>3. ASSUME NEW p, NEW m, NEW id, Works(w, p, m, id) PROVE AdmittedFit'
    <3>1. Present' \subseteq Present
      BY <1>2, <2>0, <2>3 DEF Works, Effect, DeleteJob, MarkUncertain, InProcess, Present
    <3> QED BY <1>1, <1>3, <3>1, WorkerDoes
  <2> QED BY <1>3, <2>1, <2>2, <2>3, WorkerDoes
<1>4. ASSUME NEW s \in Senders, PanelStep(s) PROVE AdmittedFit'
  BY <1>1, <1>2, <1>4 DEF PanelStep, TakeOver, GiveBack
<1>5. CASE UNCHANGED vars
  BY <1>1, <1>2, <1>5 DEF vars
<1> QED BY <1>3, <1>4, <1>5, AdmittedHook DEF Next

(* However many requests count at the same time, the inbox exceeds its     *)
(* limit by one job for each of the others at most                         *)
(* (whatsapp_inbound_queue.py: enqueue).                                   *)
THEOREM InboxIsBounded == Spec => []InboxBound
<1>1. Init => AdmittedFit
  <2> SUFFICES ASSUME Init PROVE AdmittedFit
    OBVIOUS
  <2>1. Present = {} /\ Admitted = {} /\ \A h \in Hooks : hookPc[h] # "insert"
    BY DEF Init, Present, Admitted
  <2> QED BY <2>1, Counts, FS_EmptySet, FlowAssumption DEF AdmittedFit
<1>2. AdmittedFit => InboxBound
  BY Counts, FlowAssumption DEF AdmittedFit, InboxBound
<1> QED BY <1>1, <1>2, AdmittedStep, TypeSafety, PTL DEF Spec

-----------------------------------------------------------------------------
(* The refinement of ReplyOnce.  What the promise sees of the flow.        *)
Earlier == {p \in Pending \X Pending : jobId[p[1]] < jobId[p[2]]}
Closed  == {m \in Msgs : receipt[m] = "completed"}

LEMMA PromiseStutters ==
  ASSUME UNCHANGED inboxVars, Closed' = Closed, UNCHANGED sends
  PROVE  UNCHANGED Promise!vars
  BY DEF Promise!vars, Earlier, Closed, inboxVars, Pending, Present

(* The effect of a database call is at most that a message is closed or    *)
(* that a closed one is discarded.                                         *)
LEMMA EffectPromised ==
  ASSUME FlowInv, NEW w \in Workers, NEW p \in DbCalls, NEW m \in Msgs, NEW id, Works(w, p, m, id)
  PROVE  [Promise!Next]_(Promise!vars)
<1>0. /\ job \in [Msgs -> JobStatus] /\ jobId \in [Msgs -> Nat]
      /\ receipt \in [Msgs -> {"none", "claimed", "completed"}] /\ OwnerInv
  BY DEF FlowInv, TypeOK, TablesTyped
<1>1. CASE /\ (p = "claim" /\ ClaimReceipt(m)) \/ (p = "release" /\ ReleaseReceipt(m))
           /\ UNCHANGED inboxVars
  <2>1. Closed' = Closed
    BY <1>0, <1>1 DEF Closed, ClaimReceipt, ReleaseReceipt
  <2> QED BY <1>1, <2>1, PromiseStutters DEF Works
<1>2. CASE MarkProcessed(m) /\ UNCHANGED inboxVars
  <2>1. CASE receipt[m] = "claimed"
    <3>1. m \in (Present \ Pending) \ Closed
      BY <1>0, <2>1 DEF FlowInv, ReceiptInv, ClaimsHaveJobs, Present, Pending, Closed
    <3>2. Closed' = Closed \cup {m}
      BY <1>0, <1>2, <2>1 DEF MarkProcessed, Closed
    <3>3. Pending' = Pending /\ Present' = Present /\ Earlier' = Earlier /\ UNCHANGED sends
      BY <1>2 DEF inboxVars, Pending, Present, Earlier, Works
    <3>4. Promise!Close(m)
      BY <3>1, <3>2, <3>3 DEF Promise!Close, Earlier, Closed
    <3> QED BY <3>4 DEF Promise!Next
  <2>2. CASE receipt[m] # "claimed"
    <3>1. Closed' = Closed
      BY <1>0, <1>2, <2>2 DEF MarkProcessed, Closed
    <3> QED BY <1>2, <3>1, PromiseStutters DEF Works
  <2> QED BY <2>1, <2>2
<1>3. CASE UNCHANGED <<inboxVars, receipt>>
  <2>1. Closed' = Closed
    BY <1>3 DEF Closed
  <2> QED BY <1>3, <2>1, PromiseStutters DEF Works
<1>4. CASE p = "complete" /\ DeleteJob(id) /\ UNCHANGED receipt
  <2>1. Owns(w, m, id)
    BY <1>4 DEF Works, Owns, Calls
  <2>2. job[m] \in {"processing", "uncertain"} /\ jobId[m] = id
    BY <1>0, <2>1, OwnerFacts
  <2>3. receipt[m] = "completed"
    BY <1>4 DEF Works, FlowInv, ReceiptInv, WorkersKnow, Knows, ReceiptAt, ThreadAt
  <2>4. \A n \in Msgs : n # m => job'[n] = job[n] /\ jobId'[n] = jobId[n]
    BY <1>0, <1>4, <2>1, DeletesOwn
  <2>5. Closed' = Closed /\ UNCHANGED sends /\ m \in Closed
    BY <1>4, <2>3 DEF Closed, Works
  <2>6. CASE job[m] = "processing"
    <3>1. job'[m] = "absent"
      BY <1>4, <2>2, <2>6 DEF DeleteJob, InProcess
    <3>2. Pending' = Pending /\ Present' = Present \ {m} /\ m \in Present \ Pending
      BY <2>4, <2>6, <3>1 DEF Pending, Present
    <3>3. Earlier' = Earlier
      BY <2>4, <3>2 DEF Earlier, Pending
    <3>4. Promise!Discard(m)
      BY <2>5, <3>2, <3>3 DEF Promise!Discard, Earlier, Closed
    <3> QED BY <3>4 DEF Promise!Next
  <2>7. CASE job[m] # "processing"
    <3>1. job'[m] = job[m] /\ jobId'[m] = jobId[m]
      BY <1>4, <2>2, <2>7 DEF DeleteJob, InProcess
    <3>2. \A n \in Msgs : job'[n] = job[n] /\ jobId'[n] = jobId[n]
      BY <2>4, <3>1
    <3>3. Pending' = Pending /\ Present' = Present
      BY <3>2 DEF Pending, Present
    <3>4. Earlier' = Earlier
      BY <3>2, <3>3 DEF Earlier, Pending
    <3> QED BY <2>5, <3>3, <3>4 DEF Promise!vars, Earlier, Closed
  <2> QED BY <2>6, <2>7
<1>5. CASE p = "mark" /\ MarkUncertain(id) /\ UNCHANGED receipt
  <2>1. Pending' = Pending /\ Present' = Present /\ UNCHANGED jobId
    BY <1>0, <1>5 DEF MarkUncertain, InProcess, Pending, Present
  <2>2. Earlier' = Earlier /\ Closed' = Closed /\ UNCHANGED sends
    BY <1>5, <2>1 DEF Earlier, Closed, Works
  <2> QED BY <2>1, <2>2 DEF Promise!vars, Earlier, Closed
<1>6. CASE /\ \/ p = "resolve" /\ ResolveConversation(SenderOf[m])
              \/ p = "begin" /\ BeginAiReply(SenderOf[m])
              \/ p = "help" /\ RequestHumanHelp(SenderOf[m])
              \/ p \in {"finish", "undo"} /\ FinishAiReply(SenderOf[m])
           /\ UNCHANGED <<inboxVars, receipt>>
  BY <1>3, <1>6
<1>7. CASE /\ \/ p = "claim" /\ ClaimReceipt(m)
              \/ p \in {"skip", "confirm"} /\ MarkProcessed(m)
              \/ p = "release" /\ ReleaseReceipt(m)
           /\ UNCHANGED <<inboxVars, convVars>>
  <2>1. UNCHANGED inboxVars
    BY <1>7
  <2> QED BY <1>1, <1>2, <1>7, <2>1
<1>8. CASE /\ \/ p = "complete" /\ DeleteJob(id)
              \/ p = "mark" /\ MarkUncertain(id)
           /\ UNCHANGED <<receipt, convVars>>
  <2>1. UNCHANGED receipt
    BY <1>8
  <2> QED BY <1>4, <1>5, <1>8, <2>1
<1>9. Effect(p, m, id)
  BY DEF Works
<1> QED BY <1>6, <1>7, <1>8, <1>9 DEF Effect

(* A worker takes the oldest message, or answers one that is started.      *)
LEMMA WorkerPromised ==
  ASSUME FlowInv, NEW w \in Workers, Poll(w) \/ Advance(w) \/ WorkerFault(w)
  PROVE  [Promise!Next]_(Promise!vars)
<1>0. /\ job \in [Msgs -> JobStatus] /\ jobId \in [Msgs -> Nat] /\ sends \in [Msgs -> Nat]
      /\ receipt \in [Msgs -> {"none", "claimed", "completed"}] /\ TypeOK
  BY DEF FlowInv, TypeOK, TablesTyped
<1>1. CASE Quiet(w)
  <2>1. Closed' = Closed
    BY <1>1 DEF Quiet, Closed
  <2>2. CASE UNCHANGED sends
    BY <1>1, <2>1, <2>2, PromiseStutters DEF Quiet
  <2>3. CASE pc[w] = "send" /\ Issue(held[w])
    <3>1. held[w] \in Msgs /\ receipt[held[w]] = "claimed" /\ sends[held[w]] = 0
      BY <1>0, <2>3 DEF FlowInv, TypeOK, WorkersTyped, Calls, ReceiptInv, WorkersKnow, Knows, ReceiptAt
    <3>2. held[w] \in (Present \ Pending) \ Closed
      BY <3>1 DEF FlowInv, ReceiptInv, ClaimsHaveJobs, Present, Pending, Closed
    <3>3. sends' = [sends EXCEPT ![held[w]] = 1]
      BY <1>0, <2>3, <3>1 DEF Issue
    <3>4. Pending' = Pending /\ Present' = Present /\ Earlier' = Earlier
      BY <1>1 DEF Quiet, inboxVars, Pending, Present, Earlier
    <3>5. Promise!Answer(held[w])
      BY <2>1, <3>1, <3>2, <3>3, <3>4 DEF Promise!Answer, Earlier, Closed
    <3> QED BY <3>1, <3>5 DEF Promise!Next
  <2> QED BY <1>1, <2>2, <2>3 DEF Quiet
<1>2. CASE Starts
  <2>1. PICK m \in Msgs : Oldest(m) /\ StartJob(m) /\ UNCHANGED <<receipt, convVars, sends>>
    BY <1>2 DEF Starts
  <2>2. /\ m \in Pending /\ \A n \in Pending : ~(jobId[n] < jobId[m])
        /\ job'[m] = "processing" /\ UNCHANGED jobId /\ \A n \in Msgs \ {m} : job'[n] = job[n]
    BY <1>0, <2>1 DEF Oldest, StartJob, Pending
  <2>3. Pending' = Pending \ {m} /\ Present' = Present /\ m \in Present
    BY <2>2 DEF Pending, Present
  <2>4. Earlier' = {p \in Earlier : m \notin {p[1], p[2]}}
    BY <2>2, <2>3 DEF Earlier
  <2>5. Closed' = Closed /\ UNCHANGED sends /\ \A n \in Pending : <<n, m>> \notin Earlier
    BY <2>1, <2>2 DEF Closed, Earlier
  <2>6. Present' \ Pending' = (Present \ Pending) \cup {m}
    BY <2>2, <2>3
  <2>7. Promise!Start(m)
    BY <2>2, <2>3, <2>4, <2>5, <2>6 DEF Promise!Start, Earlier, Closed
  <2> QED BY <2>7 DEF Promise!Next
<1> QED BY <1>0, <1>1, <1>2, WorkerDoes, EffectPromised

(* A new job has the largest rowid: it comes after all that wait.          *)
LEMMA AcceptPromised ==
  ASSUME TypeOK, NEW m \in Msgs, job[m] = "absent", InsertJob(m), UNCHANGED <<receipt, sends>>
  PROVE  [Promise!Next]_(Promise!vars)
<1>0. job \in [Msgs -> JobStatus] /\ jobId \in [Msgs -> Nat]
  BY DEF TypeOK, TablesTyped
<1>1. PICK i \in NextIds : job' = [job EXCEPT ![m] = "pending"] /\ jobId' = [jobId EXCEPT ![m] = i]
  BY DEF InsertJob
<1>2. /\ i \in Nat /\ \A n \in Present : jobId[n] < i
      /\ job'[m] = "pending" /\ jobId'[m] = i
      /\ \A n \in Msgs \ {m} : job'[n] = job[n] /\ jobId'[n] = jobId[n]
  <2>1. i \in Nat /\ \A n \in Present : jobId[n] < i
    <3>1. \A n \in Present : jobId[n] \in Nat
      BY <1>0 DEF Present
    <3> QED BY <3>1 DEF NextIds
  <2> QED BY <1>0, <1>1, <2>1
<1>3. Pending' = Pending \cup {m} /\ Present' = Present \cup {m} /\ m \notin Present /\ Pending \subseteq Present
  BY <1>2 DEF Pending, Present
<1>4. Earlier' = Earlier \cup (Pending \X {m})
  <2>1. ASSUME NEW a \in Pending', NEW b \in Pending'
        PROVE  <<a, b>> \in Earlier' <=> <<a, b>> \in Earlier \/ (a \in Pending /\ b = m)
    <3>1. CASE a = m
      <4>1. b = m \/ b \in Present
        BY <1>3
      <4>2. ~(jobId'[a] < jobId'[b])
        <5>1. jobId'[m] = i /\ i \in Nat
          BY <1>2
        <5>2. CASE b = m
          BY <3>1, <5>1, <5>2
        <5>3. CASE b # m
          <6>1. b \in Present /\ jobId'[b] = jobId[b] /\ jobId[b] \in Nat
            BY <1>0, <1>2, <4>1, <5>3 DEF Present
          <6>2. jobId[b] < i
            BY <1>2, <6>1
          <6> QED BY <3>1, <5>1, <6>1, <6>2
        <5> QED BY <5>2, <5>3
      <4> QED BY <1>3, <3>1, <4>2 DEF Earlier
    <3>2. CASE a # m /\ b = m
      <4>1. a \in Pending /\ jobId'[a] < jobId'[b]
        BY <1>2, <1>3, <3>2 DEF Pending
      <4> QED BY <2>1, <3>2, <4>1 DEF Earlier
    <3>3. CASE a # m /\ b # m
      <4>1. a \in Pending /\ b \in Pending /\ jobId'[a] = jobId[a] /\ jobId'[b] = jobId[b]
        BY <1>2, <1>3, <3>3 DEF Pending
      <4> QED BY <2>1, <3>3, <4>1 DEF Earlier
    <3> QED BY <3>1, <3>2, <3>3
  <2>2. Earlier \cup (Pending \X {m}) \subseteq Pending' \X Pending' /\ Earlier' \subseteq Pending' \X Pending'
    BY <1>3 DEF Earlier
  <2>3. ASSUME NEW p \in Pending' \X Pending' PROVE p \in Earlier' <=> p \in Earlier \cup (Pending \X {m})
    <3>1. PICK a \in Pending', b \in Pending' : p = <<a, b>>
      OBVIOUS
    <3>2. p \in Pending \X {m} <=> a \in Pending /\ b = m
      BY <3>1
    <3> QED BY <2>1, <3>1, <3>2
  <2> QED BY <2>2, <2>3
<1>5. Present' \ Pending' = Present \ Pending /\ Closed' = Closed
  BY <1>3 DEF Closed
<1>6. m \notin Pending \cup (Present \ Pending)
  BY <1>3
<1>7. Promise!Accept(m)
  BY <1>3, <1>4, <1>5, <1>6 DEF Promise!Accept, Earlier, Closed
<1> QED BY <1>7 DEF Promise!Next

LEMMA PromiseStep == FlowInv /\ [Next]_vars => [Promise!Next]_(Promise!vars)
<1> SUFFICES ASSUME FlowInv, [Next]_vars PROVE [Promise!Next]_(Promise!vars)
  OBVIOUS
<1>1. ASSUME UNCHANGED <<inboxVars, receipt, sends>> PROVE [Promise!Next]_(Promise!vars)
  <2>1. Closed' = Closed
    BY <1>1 DEF Closed
  <2> QED BY <1>1, <2>1, PromiseStutters
<1>2. ASSUME NEW h \in Hooks, HookStep(h) PROVE [Promise!Next]_(Promise!vars)
  <2>1. CASE hookPc[h] = "insert" /\ job[hookMsg[h]] = "absent" /\ InsertJob(hookMsg[h]) /\ Insert(h)
    <3>1. hookMsg[h] \in Msgs /\ TypeOK
      BY <2>1 DEF FlowInv, TypeOK, HooksTyped
    <3> QED BY <2>1, <3>1, AcceptPromised DEF Insert
  <2>2. CASE UNCHANGED <<inboxVars, receipt, sends>>
    BY <1>1, <2>2
  <2> QED BY <1>2, <2>1, <2>2 DEF HookStep, Deliver, ReadExisting, ReadProcessed, Insert, HookFails
<1>3. ASSUME NEW s \in Senders, PanelStep(s) PROVE [Promise!Next]_(Promise!vars)
  BY <1>1, <1>3 DEF PanelStep, TakeOver, GiveBack
<1>4. CASE UNCHANGED vars
  BY <1>1, <1>4 DEF vars
<1> QED BY <1>2, <1>3, <1>4, WorkerPromised DEF Next

(* Whatever fails, every step of the flow keeps the promise: messages are  *)
(* started in their order, answered once while they are started, and       *)
(* discarded only when they are closed (whatsapp_inbound_queue.py,         *)
(* message_orchestrator.py).                                               *)
THEOREM PromiseIsKept == Spec => KeepsPromise
<1>1. Init => Promise!Init
  <2> SUFFICES ASSUME Init PROVE Promise!Init
    OBVIOUS
  <2>1. Pending = {} /\ Present = {} /\ Closed = {} /\ Earlier = {}
    BY DEF Init, Pending, Present, Closed, Earlier
  <2> QED BY <2>1 DEF Init, Promise!Init, Closed, Earlier
<1> QED BY <1>1, PromiseStep, FlowSafety, PTL DEF Spec, KeepsPromise, Promise!Spec
-----------------------------------------------------------------------------
(* Replies in flight.  What a worker's part of ReplyInv is.                *)
TaskOn(w, s)   == pc[w] \in ReplyCalls /\ SenderOf[held[w]] = s
ThreadOn(w, s) == orphan[w] \in {"finish", "undo"} /\ SenderOf[orphanMsg[w]] = s

KnownAt(w) ==
  /\ pc[w] \in {"begin", "skip"} \cup ReplyCalls => SenderOf[held[w]] \in known
  /\ orphan[w] \in {"begin", "help", "finish", "undo"} => SenderOf[orphanMsg[w]] \in known

AckAt(w) ==
  /\ pc[w] \in {"idle", "claim", "resolve", "begin", "skip", "answer"} => ~ack[w]
  /\ pc[w] = "send" /\ ack[w] => row[SenderOf[held[w]]].help

(* A step of worker w and what it must do to the counts.                   *)
OnlyBy(w) == OthersSame(w) /\ \A v \in Workers : v # w => ack'[v] = ack[v]

ConvGrows ==
  /\ known \subseteq known' /\ RowsBegin' /\ OwnersChecked'
  /\ \A s \in Senders : row[s].help => row'[s].help

Counted(w, s) ==
  \/ /\ TaskOn(w, s)' => TaskOn(w, s)
     /\ ThreadOn(w, s)' => ThreadOn(w, s)
     /\ row'[s].aiReplies >= row[s].aiReplies
  \/ /\ ThreadOn(w, s)' => ThreadOn(w, s)
     /\ row'[s].aiReplies >= row[s].aiReplies + 1
  \/ /\ TaskOn(w, s) /\ ~TaskOn(w, s)'
     /\ ThreadOn(w, s)' => ThreadOn(w, s)
     /\ row'[s].aiReplies >= row[s].aiReplies - 1
  \/ /\ ThreadOn(w, s) /\ ~ThreadOn(w, s)'
     /\ TaskOn(w, s)' => TaskOn(w, s)
     /\ row'[s].aiReplies >= row[s].aiReplies - 1
  \/ /\ TaskOn(w, s) /\ ~TaskOn(w, s)'
     /\ row'[s].aiReplies >= row[s].aiReplies

Split(s) ==
  /\ Replies(s) \subseteq Hands
  /\ \A w \in Workers : /\ <<w, "task">> \in Replies(s) <=> TaskOn(w, s)
                        /\ <<w, "thread">> \in Replies(s) <=> ThreadOn(w, s)

LEMMA RepliesAre == \A s \in Senders : Split(s)
<1> SUFFICES ASSUME NEW s \in Senders PROVE Split(s)
  OBVIOUS
<1>1. ASSUME NEW w \in Workers
      PROVE  /\ <<w, "task">> \in Hands /\ <<w, "thread">> \in Hands
             /\ CallOf(<<w, "task">>) = pc[w] /\ MsgOf(<<w, "task">>) = held[w]
             /\ CallOf(<<w, "thread">>) = orphan[w] /\ MsgOf(<<w, "thread">>) = orphanMsg[w]
  BY DEF Hands, CallOf, MsgOf
<1>2. ASSUME NEW w \in Workers PROVE <<w, "task">> \in Replies(s) <=> TaskOn(w, s)
  BY <1>1 DEF Replies, TaskOn, ReplyCalls
<1>3. ASSUME NEW w \in Workers PROVE <<w, "thread">> \in Replies(s) <=> ThreadOn(w, s)
  BY <1>1 DEF Replies, ThreadOn
<1> QED BY <1>2, <1>3 DEF Replies, Split

LEMMA RepliesAreNext == (\A s \in Senders : Split(s))'
  BY RepliesAre, PTL

LEMMA HandsAre ==
  ASSUME NEW h \in Hands
  PROVE  \E w \in Workers : h = <<w, "task">> \/ h = <<w, "thread">>
BY DEF Hands

(* The same of the next state, and of the hands that do not move.          *)
LEMMA RepliesBy ==
  ASSUME NEW w \in Workers, NEW s \in Senders, OthersSame(w)
  PROVE  /\ Replies(s)' \subseteq Replies(s) \cup {<<w, "task">>, <<w, "thread">>}
         /\ <<w, "task">> \in Replies(s)' <=> TaskOn(w, s)'
         /\ <<w, "thread">> \in Replies(s)' <=> ThreadOn(w, s)'
<1>0. Split(s)'
  BY RepliesAreNext
<1>1. /\ Replies(s)' \subseteq Hands
      /\ \A v \in Workers : /\ <<v, "task">> \in Replies(s)' <=> TaskOn(v, s)'
                            /\ <<v, "thread">> \in Replies(s)' <=> ThreadOn(v, s)'
  BY <1>0 DEF Split
<1>2. ASSUME NEW h \in Replies(s)' PROVE h \in Replies(s) \cup {<<w, "task">>, <<w, "thread">>}
  <2>1. PICK v \in Workers : h = <<v, "task">> \/ h = <<v, "thread">>
    BY <1>1, HandsAre
  <2>2. CASE v # w
    <3>1. (TaskOn(v, s)' <=> TaskOn(v, s)) /\ (ThreadOn(v, s)' <=> ThreadOn(v, s))
      BY <2>2 DEF OthersSame, TaskOn, ThreadOn
    <3> QED BY <1>1, <1>2, <2>1, <3>1, RepliesAre DEF Split
  <2> QED BY <2>1, <2>2
<1> QED BY <1>1, <1>2

(* A set that grows, shrinks or swaps a member still fits its counter.     *)
LEMMA FitsAfter ==
  ASSUME NEW S, NEW T, NEW n \in Nat, NEW k \in Nat, IsFiniteSet(S), Cardinality(S) <= n,
         \/ T \subseteq S /\ k >= n
         \/ k >= n + 1 /\ \E y : T \subseteq S \cup {y}
         \/ k >= n - 1 /\ \E x \in S : T \subseteq S \ {x}
         \/ k >= n /\ \E x \in S : \E y : T \subseteq (S \ {x}) \cup {y}
  PROVE  IsFiniteSet(T) /\ Cardinality(T) <= k
<1>0. Cardinality(S) \in Nat
  BY FS_CardinalityType
<1>1. ASSUME NEW R, IsFiniteSet(R), Cardinality(R) <= k, T \subseteq R
      PROVE  IsFiniteSet(T) /\ Cardinality(T) <= k
  BY <1>1, FS_Subset, FS_CardinalityType
<1>2. CASE T \subseteq S /\ k >= n
  BY <1>0, <1>1, <1>2
<1>3. ASSUME k >= n + 1, NEW y, T \subseteq S \cup {y} PROVE IsFiniteSet(T) /\ Cardinality(T) <= k
  <2>1. IsFiniteSet(S \cup {y}) /\ Cardinality(S \cup {y}) <= k
    BY <1>0, <1>3, FS_AddElement
  <2> QED BY <1>1, <1>3, <2>1
<1>4. ASSUME k >= n - 1, NEW x \in S, T \subseteq S \ {x} PROVE IsFiniteSet(T) /\ Cardinality(T) <= k
  <2>1. IsFiniteSet(S \ {x}) /\ Cardinality(S \ {x}) = Cardinality(S) - 1
    BY FS_RemoveElement
  <2> QED BY <1>0, <1>1, <1>4, <2>1
<1>5. ASSUME k >= n, NEW x \in S, NEW y, T \subseteq (S \ {x}) \cup {y}
      PROVE  IsFiniteSet(T) /\ Cardinality(T) <= k
  <2>1. IsFiniteSet(S \ {x}) /\ Cardinality(S \ {x}) = Cardinality(S) - 1
    BY FS_RemoveElement
  <2>2. IsFiniteSet((S \ {x}) \cup {y}) /\ Cardinality((S \ {x}) \cup {y}) <= k
    <3> DEFINE R == S \ {x}
    <3>0. IsFiniteSet(R) /\ Cardinality(R) \in Nat
      BY <2>1, FS_CardinalityType
    <3>1. IsFiniteSet(R) /\ Cardinality(R) \in Nat /\ Cardinality(R) + 1 <= k
      BY <1>0, <1>5, <2>1, <3>0
    <3> HIDE DEF R
    <3>2. /\ IsFiniteSet(R \cup {y})
          /\ Cardinality(R \cup {y}) = IF y \in R THEN Cardinality(R) ELSE Cardinality(R) + 1
      <4>1. IsFiniteSet(R)
        BY <3>1
      <4> QED BY ONLY <4>1, FS_AddElement
    <3>3. IsFiniteSet(R \cup {y}) /\ Cardinality(R \cup {y}) <= k
      <4>1. Cardinality(R \cup {y}) \in Nat
        BY <3>2, FS_CardinalityType
      <4> QED BY <3>1, <3>2, <4>1
    <3> QED BY <3>3 DEF R
  <2> QED BY <1>1, <1>5, <2>2
<1> QED BY <1>2, <1>3, <1>4, <1>5

LEMMA CountsKept ==
  ASSUME TypeOK, TypeOK', RepliesCounted, NEW w \in Workers, OthersSame(w), NEW s \in Senders, Counted(w, s)
  PROVE  IsFiniteSet(Replies(s)') /\ Cardinality(Replies(s)') <= row'[s].aiReplies
<1> DEFINE a == <<w, "task">>
           b == <<w, "thread">>
<1>1. row[s].aiReplies \in Nat /\ row'[s].aiReplies \in Nat
  BY DEF TypeOK, TablesTyped, Rows
<1>2. IsFiniteSet(Replies(s)) /\ Cardinality(Replies(s)) <= row[s].aiReplies
  BY DEF RepliesCounted
<1>3. /\ Replies(s)' \subseteq Replies(s) \cup {a, b}
      /\ a \in Replies(s)' <=> TaskOn(w, s)'
      /\ b \in Replies(s)' <=> ThreadOn(w, s)'
      /\ a \in Replies(s) <=> TaskOn(w, s)
      /\ b \in Replies(s) <=> ThreadOn(w, s)
  BY RepliesBy, RepliesAre DEF Split
<1>4. a # b
  OBVIOUS
<1> HIDE DEF a, b
<1>5. \/ Replies(s)' \subseteq Replies(s) /\ row'[s].aiReplies >= row[s].aiReplies
      \/ row'[s].aiReplies >= row[s].aiReplies + 1 /\ \E y : Replies(s)' \subseteq Replies(s) \cup {y}
      \/ /\ row'[s].aiReplies >= row[s].aiReplies - 1
         /\ \E x \in Replies(s) : Replies(s)' \subseteq Replies(s) \ {x}
      \/ /\ row'[s].aiReplies >= row[s].aiReplies
         /\ \E x \in Replies(s) : \E y : Replies(s)' \subseteq (Replies(s) \ {x}) \cup {y}
  BY <1>3, <1>4 DEF Counted
<1> DEFINE T == Replies(s)'
           S == Replies(s)
           n == row[s].aiReplies
           k == row'[s].aiReplies
<1>6. /\ n \in Nat /\ k \in Nat /\ IsFiniteSet(S) /\ Cardinality(S) <= n
      /\ \/ T \subseteq S /\ k >= n
         \/ k >= n + 1 /\ \E y : T \subseteq S \cup {y}
         \/ k >= n - 1 /\ \E x \in S : T \subseteq S \ {x}
         \/ k >= n /\ \E x \in S : \E y : T \subseteq (S \ {x}) \cup {y}
  BY <1>1, <1>2, <1>5
<1>7. IsFiniteSet(T) /\ Cardinality(T) <= k
  <2> HIDE DEF S, T, n, k
  <2> QED BY <1>6, FitsAfter
<1> QED BY <1>7

LEMMA ReplyInvFrom ==
  ASSUME TypeOK, TypeOK', ReplyInv, NEW w \in Workers, OnlyBy(w), ConvGrows,
         \A s \in Senders : Counted(w, s), KnownAt(w)', AckAt(w)'
  PROVE  ReplyInv'
<1>1. RepliesCounted'
  <2>1. \A s \in Senders : IsFiniteSet(Replies(s)') /\ Cardinality(Replies(s)') <= row'[s].aiReplies
    BY CountsKept DEF ReplyInv, OnlyBy
  <2> QED BY <2>1 DEF RepliesCounted
<1>2. ASSUME NEW v \in Workers PROVE KnownAt(v)' /\ AckAt(v)'
  <2>1. CASE v # w
    <3>1. KnownAt(v) /\ AckAt(v)
      BY DEF ReplyInv, SendersKnown, AcksAsked, AckImpliesAlert, KnownAt, AckAt
    <3>2. pc[v] = "send" => SenderOf[held[v]] \in Senders
      BY FlowAssumption DEF TypeOK, WorkersTyped, Calls
    <3> QED BY <2>1, <3>1, <3>2 DEF OnlyBy, OthersSame, ConvGrows, KnownAt, AckAt
  <2> QED BY <2>1
<1> QED BY <1>1, <1>2
       DEF ReplyInv, ConvGrows, SendersKnown, AcksAsked, AckImpliesAlert, KnownAt, AckAt

(* What a transaction does to the conversations.  A conversation is only   *)
(* made where there was none, so that no row is ever reset.                *)
LEMMA EffectConv ==
  ASSUME TypeOK, ReplyInv, NEW p, NEW m \in Msgs, NEW id, Effect(p, m, id),
         p \in {"begin", "help", "finish", "undo"} => SenderOf[m] \in known
  PROVE  /\ ConvGrows
         /\ \A s \in Senders :
              row'[s].aiReplies >= row[s].aiReplies - IF p \in {"finish", "undo"} /\ s = SenderOf[m] THEN 1 ELSE 0
         /\ p = "resolve" => SenderOf[m] \in known'
         /\ p = "begin" /\ MayBegin(row[SenderOf[m]]) =>
              row'[SenderOf[m]].aiReplies >= row[SenderOf[m]].aiReplies + 1
         /\ p = "help" /\ (MayAskHelp(row[SenderOf[m]]) \/ row[SenderOf[m]].help) => row'[SenderOf[m]].help
<1> DEFINE s == SenderOf[m]
<1>0. /\ s \in Senders /\ row \in [Senders -> Rows] /\ known \subseteq Senders
      /\ \A t \in Senders : row[t].aiReplies \in Nat /\ OwnerCheck(row[t])
  BY FlowAssumption DEF TypeOK, TablesTyped, ReplyInv, OwnersChecked, Rows
<1>1. RowsBegin /\ OwnersChecked
  BY DEF ReplyInv
<1> HIDE DEF s
<1>2. CASE UNCHANGED <<known, row>> /\ p \notin {"resolve", "begin", "help"}
  BY <1>0, <1>1, <1>2 DEF ConvGrows, RowsBegin, OwnersChecked
<1>3. CASE p = "resolve" /\ ResolveConversation(s)
  <2>1. row' = row /\ known' = known \cup {s}
    BY <1>0, <1>1, <1>3 DEF RowsBegin, ResolveConversation
  <2> QED BY <1>0, <1>1, <1>3, <2>1 DEF ConvGrows, RowsBegin, OwnersChecked, s
<1>4. ASSUME NEW r \in Rows, row' = [row EXCEPT ![s] = r], UNCHANGED known, s \in known,
             OwnerCheck(r), row[s].help => r.help
      PROVE  ConvGrows /\ row'[s] = r /\ \A t \in Senders : t # s => row'[t] = row[t]
  BY <1>0, <1>1, <1>4 DEF ConvGrows, RowsBegin, OwnersChecked
<1>5. /\ row[s] \in Rows /\ Begin(row[s]) \in Rows /\ AskHelp(row[s]) \in Rows
      /\ MayFinish(row[s]) => Finish(row[s]) \in Rows /\ OwnerCheck(Finish(row[s]))
      /\ MayBegin(row[s]) => OwnerCheck(Begin(row[s]))
      /\ OwnerCheck(AskHelp(row[s]))
  BY <1>0, AiUpdates
<1>6. /\ Begin(row[s]).help = row[s].help /\ Begin(row[s]).aiReplies = row[s].aiReplies + 1
      /\ AskHelp(row[s]).help = TRUE /\ AskHelp(row[s]).aiReplies = row[s].aiReplies
      /\ Finish(row[s]).help = row[s].help /\ Finish(row[s]).aiReplies = row[s].aiReplies - 1
  BY <1>5 DEF Begin, AskHelp, Finish, Rows
<1>7. CASE p = "begin" /\ BeginAiReply(s)
  <2>0. s \in known /\ UNCHANGED known
    BY <1>7 DEF BeginAiReply, s
  <2>1. CASE MayBegin(row[s])
    <3>1. row' = [row EXCEPT ![s] = Begin(row[s])]
      BY <1>7, <2>1 DEF BeginAiReply
    <3>2. ConvGrows /\ row'[s] = Begin(row[s]) /\ \A t \in Senders : t # s => row'[t] = row[t]
      BY <1>4, <1>5, <1>6, <2>0, <2>1, <3>1
    <3> QED BY <1>0, <1>6, <1>7, <3>2 DEF s
  <2>2. CASE ~MayBegin(row[s])
    <3>1. row' = row
      BY <1>0, <1>7, <2>2 DEF BeginAiReply
    <3>2. ConvGrows
      BY <1>1, <2>0, <3>1 DEF ConvGrows, RowsBegin, OwnersChecked
    <3> QED BY <1>0, <1>7, <2>2, <3>1, <3>2 DEF s
  <2> QED BY <2>1, <2>2
<1>8. CASE p = "help" /\ RequestHumanHelp(s)
  <2>0. s \in known /\ UNCHANGED known
    BY <1>8 DEF RequestHumanHelp, s
  <2>1. CASE MayAskHelp(row[s])
    <3>1. row' = [row EXCEPT ![s] = AskHelp(row[s])]
      BY <1>8, <2>1 DEF RequestHumanHelp
    <3>2. ConvGrows /\ row'[s] = AskHelp(row[s]) /\ \A t \in Senders : t # s => row'[t] = row[t]
      BY <1>4, <1>5, <1>6, <2>0, <3>1
    <3> QED BY <1>0, <1>6, <1>8, <3>2 DEF s
  <2>2. CASE ~MayAskHelp(row[s])
    <3>1. row' = row
      BY <1>0, <1>8, <2>2 DEF RequestHumanHelp
    <3>2. ConvGrows
      BY <1>1, <2>0, <3>1 DEF ConvGrows, RowsBegin, OwnersChecked
    <3> QED BY <1>0, <1>8, <2>2, <3>1, <3>2 DEF s
  <2> QED BY <2>1, <2>2
<1>9. CASE p \in {"finish", "undo"} /\ FinishAiReply(s)
  <2>0. s \in known /\ UNCHANGED known
    BY <1>9 DEF FinishAiReply, s
  <2>1. CASE MayFinish(row[s])
    <3>1. row' = [row EXCEPT ![s] = Finish(row[s])]
      BY <1>9, <2>1 DEF FinishAiReply
    <3>2. ConvGrows /\ row'[s] = Finish(row[s]) /\ \A t \in Senders : t # s => row'[t] = row[t]
      BY <1>4, <1>5, <1>6, <2>0, <2>1, <3>1
    <3> QED BY <1>0, <1>6, <1>9, <3>2 DEF s
  <2>2. CASE ~MayFinish(row[s])
    <3>1. row' = row
      BY <1>0, <1>9, <2>2 DEF FinishAiReply
    <3>2. ConvGrows
      BY <1>1, <2>0, <3>1 DEF ConvGrows, RowsBegin, OwnersChecked
    <3> QED BY <1>0, <1>9, <3>1, <3>2 DEF s
  <2> QED BY <2>1, <2>2
<1> QED BY <1>2, <1>3, <1>7, <1>8, <1>9 DEF Effect, convVars, s

(* A step that leaves the conversations alone, and lets a reply go on, end *)
(* or be left to the thread of its last call.                              *)
LEMMA QuietReplies ==
  ASSUME TypeOK, TypeOK', ReplyInv, NEW w \in Workers, OnlyBy(w), UNCHANGED convVars,
         \A s \in Senders : /\ TaskOn(w, s)' => TaskOn(w, s)
                            /\ ThreadOn(w, s)' => ThreadOn(w, s) \/ (TaskOn(w, s) /\ ~TaskOn(w, s)'),
         KnownAt(w)', AckAt(w)'
  PROVE  ReplyInv'
<1>1. UNCHANGED <<known, row>>
  BY DEF convVars
<1>2. ConvGrows
  BY <1>1 DEF ReplyInv, ConvGrows, RowsBegin, OwnersChecked
<1>3. ASSUME NEW s \in Senders PROVE Counted(w, s)
  <2>1. row[s].aiReplies \in Nat
    BY DEF TypeOK, TablesTyped, Rows
  <2> QED BY <1>1, <2>1 DEF Counted
<1> QED BY <1>2, <1>3, ReplyInvFrom

LEMMA WorkerAt ==
  ASSUME TypeOK, ReplyInv, NEW w \in Workers
  PROVE  KnownAt(w) /\ AckAt(w) /\ (pc[w] \in Calls => held[w] \in Msgs /\ SenderOf[held[w]] \in Senders)
BY FlowAssumption
   DEF ReplyInv, SendersKnown, AcksAsked, AckImpliesAlert, KnownAt, AckAt, TypeOK, WorkersTyped

LEMMA GotoReplies ==
  ASSUME TypeOK, NEW w \in Workers, NEW next, Goto(w, next)
  PROVE  /\ OnlyBy(w) /\ pc'[w] = next /\ UNCHANGED <<orphan, orphanMsg>>
         /\ next # "idle" => held'[w] = held[w] /\ ack'[w] = ack[w]
         /\ next = "idle" => ~ack'[w]
<1>1. \/ next # "idle" /\ UNCHANGED ack
      \/ next = "idle" /\ ack' = [ack EXCEPT ![w] = FALSE]
  BY DEF Goto, Forget
<1> QED BY <1>1, GotoSame DEF OnlyBy, TypeOK, WorkersTyped

(* Every transaction that commits.                                         *)
LEMMA ReturnsReplies ==
  ASSUME TypeOK, TypeOK', ReplyInv, NEW w \in Workers, NEW p \in DbCalls,
         NEW next \in Calls \cup {"idle", "stopped"}, Leads(p, next), Returns(w, p, next),
         p = "begin" /\ next = "answer" => MayBegin(row[SenderOf[held[w]]]),
         p = "help" => MayAskHelp(row[SenderOf[held[w]]]) \/ row[SenderOf[held[w]]].help
  PROVE  ReplyInv'
<1> DEFINE s == SenderOf[held[w]]
<1>1. pc[w] = p /\ held[w] \in Msgs /\ s \in Senders /\ KnownAt(w) /\ AckAt(w)
  BY WorkerAt DEF Returns, Calls
<1>2. /\ OnlyBy(w) /\ pc'[w] = next /\ UNCHANGED <<orphan, orphanMsg>>
      /\ next # "idle" => held'[w] = held[w] /\ ack'[w] = ack[w]
      /\ next = "idle" => ~ack'[w]
  BY GotoReplies DEF Returns
<1>3. p \in {"begin", "help", "finish", "undo"} => s \in known
  BY <1>1 DEF KnownAt, ReplyCalls
<1>4. /\ ConvGrows
      /\ \A t \in Senders :
           row'[t].aiReplies >= row[t].aiReplies - IF p \in {"finish", "undo"} /\ t = s THEN 1 ELSE 0
      /\ p = "resolve" => s \in known'
      /\ p = "begin" /\ next = "answer" => row'[s].aiReplies >= row[s].aiReplies + 1
      /\ p = "help" => row'[s].help
  BY <1>1, <1>3, EffectConv DEF Returns
<1> HIDE DEF s
<1>5. KnownAt(w)'
  BY <1>1, <1>2, <1>4 DEF KnownAt, ConvGrows, ReplyCalls, Leads, s
<1>6. AckAt(w)'
  BY <1>1, <1>2, <1>4 DEF AckAt, Leads, s
<1>7. ASSUME NEW t \in Senders PROVE Counted(w, t)
  <2>0. row[t].aiReplies \in Nat /\ row'[t].aiReplies \in Nat
    BY DEF TypeOK, TablesTyped, Rows
  <2>1. ThreadOn(w, t)' <=> ThreadOn(w, t)
    BY <1>2 DEF ThreadOn
  <2>2. CASE p = "begin" /\ next = "answer" /\ t = s
    BY <1>4, <2>0, <2>1, <2>2 DEF Counted
  <2>3. CASE p \in {"finish", "undo"} /\ t = s
    <3>1. TaskOn(w, t) /\ ~TaskOn(w, t)'
      BY <1>1, <1>2, <2>3 DEF TaskOn, ReplyCalls, Leads, s
    <3>2. row'[t].aiReplies >= row[t].aiReplies - 1
      BY <1>4, <2>3
    <3> QED BY <2>1, <3>1, <3>2 DEF Counted
  <2>4. CASE ~(p = "begin" /\ next = "answer" /\ t = s) /\ ~(p \in {"finish", "undo"} /\ t = s)
    <3>1. TaskOn(w, t)' => TaskOn(w, t)
      BY <1>1, <1>2, <2>4 DEF TaskOn, ReplyCalls, Leads, s
    <3>2. row'[t].aiReplies >= row[t].aiReplies
      BY <1>4, <2>0, <2>4
    <3> QED BY <2>1, <3>1, <3>2 DEF Counted
  <2> QED BY <2>2, <2>3, <2>4
<1> QED BY <1>2, <1>4, <1>5, <1>6, <1>7, ReplyInvFrom

(* Every call that raises.                                                 *)
LEMMA RaisesReplies ==
  ASSUME TypeOK, TypeOK', ReplyInv, NEW w \in Workers, NEW p \in DbCalls, Raises(w, p)
  PROVE  ReplyInv'
<1>1. PICK next \in {"undo", "release", "mark", "idle"} :
        Goto(w, next) /\ (next = "undo" => p = "help")
  BY RaisesLeads DEF Raises, Unwind, DbCalls
<1>2. pc[w] = p /\ KnownAt(w) /\ AckAt(w)
  BY WorkerAt DEF Raises
<1>3. /\ OnlyBy(w) /\ pc'[w] = next /\ UNCHANGED <<orphan, orphanMsg>>
      /\ next # "idle" => held'[w] = held[w] /\ ack'[w] = ack[w]
      /\ next = "idle" => ~ack'[w]
  BY <1>1, GotoReplies
<1>4. UNCHANGED convVars /\ UNCHANGED known
  BY DEF Raises, convVars
<1>5. KnownAt(w)' /\ AckAt(w)'
  BY <1>1, <1>2, <1>3, <1>4 DEF KnownAt, AckAt, ReplyCalls
<1>6. \A s \in Senders : /\ TaskOn(w, s)' => TaskOn(w, s)
                         /\ ThreadOn(w, s)' => ThreadOn(w, s)
  BY <1>1, <1>2, <1>3 DEF TaskOn, ThreadOn, ReplyCalls
<1> QED BY <1>3, <1>4, <1>5, <1>6, QuietReplies

LEMMA AdvanceReplies ==
  ASSUME TypeOK, TypeOK', ReplyInv, NEW w \in Workers, Advance(w)
  PROVE  ReplyInv'
<1>0. KnownAt(w) /\ AckAt(w)
  BY WorkerAt
<1>1. CASE Answer(w) \/ Send(w)
  <2>0. UNCHANGED convVars /\ UNCHANGED <<known, row>>
    BY <1>1 DEF Answer, Send, convVars
  <2>1. CASE Answer(w) /\ ~Goto(w, "send") /\ ~Goto(w, "undo")
    <3>1. /\ pc[w] = "answer" /\ pc' = [pc EXCEPT ![w] = "help"] /\ ack' = [ack EXCEPT ![w] = TRUE]
          /\ UNCHANGED <<held, heldId, orphan, orphanMsg, orphanId>>
      BY <2>1 DEF Answer, threadVars
    <3>2. OnlyBy(w) /\ pc'[w] = "help"
      BY <3>1 DEF OnlyBy, OthersSame, TypeOK, WorkersTyped
    <3>3. KnownAt(w)' /\ AckAt(w)'
      BY <1>0, <2>0, <3>1, <3>2 DEF KnownAt, AckAt, ReplyCalls
    <3>4. \A s \in Senders : /\ TaskOn(w, s)' => TaskOn(w, s)
                             /\ ThreadOn(w, s)' => ThreadOn(w, s)
      BY <3>1, <3>2 DEF TaskOn, ThreadOn, ReplyCalls
    <3> QED BY <2>0, <3>2, <3>3, <3>4, QuietReplies
  <2>2. CASE ~(Answer(w) /\ ~Goto(w, "send") /\ ~Goto(w, "undo"))
    <3>1. PICK next \in {"send", "undo", "confirm", "mark"} :
            /\ Goto(w, next)
            /\ pc[w] \in {"answer", "send"} /\ (next = "send" => pc[w] = "answer")
      BY <1>1, <2>2 DEF Answer, Send
    <3>2. /\ OnlyBy(w) /\ pc'[w] = next /\ UNCHANGED <<orphan, orphanMsg>>
          /\ held'[w] = held[w] /\ ack'[w] = ack[w]
      BY <3>1, GotoReplies
    <3>3. KnownAt(w)' /\ AckAt(w)'
      BY <1>0, <2>0, <3>1, <3>2 DEF KnownAt, AckAt, ReplyCalls
    <3>4. \A s \in Senders : /\ TaskOn(w, s)' => TaskOn(w, s)
                             /\ ThreadOn(w, s)' => ThreadOn(w, s)
      BY <3>1, <3>2 DEF TaskOn, ThreadOn, ReplyCalls
    <3> QED BY <2>0, <3>2, <3>3, <3>4, QuietReplies
  <2> QED BY <2>1, <2>2
<1>2. CASE ~(Answer(w) \/ Send(w))
  <2>1. \/ \E p \in DbCalls : Raises(w, p)
        \/ \E p \in DbCalls, next \in Calls \cup {"idle", "stopped"} :
             /\ Leads(p, next) /\ Returns(w, p, next)
             /\ p = "begin" /\ next = "answer" => MayBegin(row[SenderOf[held[w]]])
             /\ p = "help" => MayAskHelp(row[SenderOf[held[w]]]) \/ row[SenderOf[held[w]]].help
    BY <1>2 DEF Advance, Claim, Resolve, BeginReply, Skip, Help, Confirm, FinishReply,
                Undo, ReleaseClaim, Complete, Mark, ReturnsIf, Leads, Rest, DbCalls, Calls
  <2> QED BY <2>1, RaisesReplies, ReturnsReplies
<1> QED BY <1>1, <1>2

(* A call of a thread that its task left behind takes effect.              *)
LEMMA OrphanReplies ==
  ASSUME TypeOK, TypeOK', ReplyInv, NEW w \in Workers, OrphanRuns(w)
  PROVE  ReplyInv'
<1> DEFINE p == orphan[w]
           s == SenderOf[orphanMsg[w]]
<1>1. p \in DbCalls /\ orphanMsg[w] \in Msgs /\ s \in Senders /\ KnownAt(w) /\ AckAt(w)
  BY WorkerAt, FlowAssumption DEF OrphanRuns, TypeOK, WorkersTyped
<1>2. OnlyBy(w) /\ orphan'[w] = "none" /\ UNCHANGED <<pc, held, ack>>
  BY ThreadEndsSame DEF OrphanRuns, OnlyBy, taskVars
<1>3. p \in {"begin", "help", "finish", "undo"} => s \in known
  BY <1>1 DEF KnownAt
<1>4. /\ ConvGrows
      /\ \A t \in Senders :
           row'[t].aiReplies >= row[t].aiReplies - IF p \in {"finish", "undo"} /\ t = s THEN 1 ELSE 0
  BY <1>1, <1>3, EffectConv DEF OrphanRuns
<1>5. KnownAt(w)' /\ AckAt(w)'
  <2>1. KnownAt(w)'
    BY <1>1, <1>2, <1>4 DEF KnownAt, ConvGrows
  <2>2. pc[w] = "send" => SenderOf[held[w]] \in Senders
    BY FlowAssumption DEF TypeOK, WorkersTyped, Calls
  <2> QED BY <1>1, <1>2, <1>4, <2>1, <2>2 DEF AckAt, ConvGrows
<1>6. ASSUME NEW t \in Senders PROVE Counted(w, t)
  <2>0. row[t].aiReplies \in Nat /\ row'[t].aiReplies \in Nat
    BY DEF TypeOK, TablesTyped, Rows
  <2>1. (TaskOn(w, t)' <=> TaskOn(w, t)) /\ ~ThreadOn(w, t)'
    BY <1>2 DEF TaskOn, ThreadOn
  <2>2. CASE p \in {"finish", "undo"} /\ t = s
    BY <1>4, <2>0, <2>1, <2>2 DEF Counted, ThreadOn
  <2>3. CASE ~(p \in {"finish", "undo"} /\ t = s)
    <3>1. row'[t].aiReplies >= row[t].aiReplies
      BY <1>4, <2>0, <2>3
    <3> QED BY <2>1, <3>1 DEF Counted
  <2> QED BY <2>2, <2>3
<1> QED BY <1>2, <1>4, <1>5, <1>6, ReplyInvFrom

(* The other failures of a worker, and the start of a job.                 *)
LEMMA FaultReplies ==
  ASSUME TypeOK, TypeOK', ReplyInv, NEW w \in Workers, Poll(w) \/ WorkerFault(w)
  PROVE  ReplyInv'
<1>0. KnownAt(w) /\ AckAt(w)
  BY WorkerAt
<1>1. CASE Poll(w)
  <2>1. PICK next \in {"claim", "mark"} : pc' = [pc EXCEPT ![w] = next]
    BY <1>1 DEF Poll
  <2>2. /\ UNCHANGED convVars /\ UNCHANGED <<known, row, ack, orphan, orphanMsg, orphanId>> /\ pc[w] = "idle"
        /\ \E m \in Msgs : held' = [held EXCEPT ![w] = m] /\ heldId' = [heldId EXCEPT ![w] = jobId[m]]
    BY <1>1 DEF Poll, convVars, threadVars
  <2>3. OnlyBy(w) /\ pc'[w] = next
    BY <2>1, <2>2 DEF OnlyBy, OthersSame, TypeOK, WorkersTyped
  <2>4. KnownAt(w)' /\ AckAt(w)'
    BY <1>0, <2>1, <2>2, <2>3 DEF KnownAt, AckAt, ReplyCalls
  <2>5. \A s \in Senders : ~TaskOn(w, s)' /\ (ThreadOn(w, s)' => ThreadOn(w, s))
    BY <2>1, <2>2, <2>3 DEF TaskOn, ThreadOn, ReplyCalls
  <2> QED BY <2>2, <2>3, <2>4, <2>5, QuietReplies
<1>2. CASE Cancel(w)
  <2>1. UNCHANGED convVars /\ UNCHANGED <<known, row, held, heldId, ack>> /\ orphan[w] = "none"
    BY <1>2 DEF Cancel, convVars
  <2>2. CASE pc[w] \in {"answer", "send"}
    <3>1. /\ pc' = [pc EXCEPT ![w] = Unwind(pc[w])] /\ UNCHANGED <<orphan, orphanMsg, orphanId>>
          /\ Unwind(pc[w]) \in {"undo", "mark"}
      BY <1>2, <2>2 DEF Cancel, DbCalls, threadVars, Unwind
    <3>2. OnlyBy(w) /\ pc'[w] \in {"undo", "mark"}
      BY <2>1, <3>1 DEF OnlyBy, OthersSame, TypeOK, WorkersTyped
    <3>3. KnownAt(w)' /\ AckAt(w)'
      BY <1>0, <2>1, <2>2, <3>1, <3>2 DEF KnownAt, AckAt, ReplyCalls
    <3>4. \A s \in Senders : /\ TaskOn(w, s)' => TaskOn(w, s)
                             /\ ThreadOn(w, s)' => ThreadOn(w, s)
      BY <2>1, <2>2, <3>1 DEF TaskOn, ThreadOn, ReplyCalls
    <3> QED BY <2>1, <3>2, <3>3, <3>4, QuietReplies
  <2>3. CASE pc[w] \in {"idle", "mark"}
    <3>1. PICK q \in {"poll", "mark"} : pc' = [pc EXCEPT ![w] = "stopped"] /\ Leave(w, q)
      BY <1>2, <2>3 DEF Cancel, DbCalls
    <3>2. OnlyBy(w) /\ pc'[w] = "stopped" /\ orphan'[w] = q
      BY <2>1, <3>1, LeaveSame DEF OnlyBy
    <3>3. KnownAt(w)' /\ AckAt(w)'
      BY <3>1, <3>2 DEF KnownAt, AckAt, ReplyCalls
    <3>4. \A s \in Senders : ~TaskOn(w, s)' /\ ~ThreadOn(w, s)'
      BY <3>1, <3>2 DEF TaskOn, ThreadOn, ReplyCalls
    <3> QED BY <2>1, <3>2, <3>3, <3>4, QuietReplies
  <2>4. CASE pc[w] \in DbCalls \ {"mark"}
    <3>1. pc' = [pc EXCEPT ![w] = Unwind(pc[w])] /\ Leave(w, pc[w])
      BY <1>2, <2>4 DEF Cancel, DbCalls
    <3>2. /\ OnlyBy(w) /\ pc'[w] = Unwind(pc[w]) /\ orphan'[w] = pc[w]
          /\ orphanMsg'[w] = held[w] /\ held'[w] = held[w] /\ ack'[w] = ack[w]
      BY <2>1, <3>1, LeaveSame DEF OnlyBy
    <3>3. /\ Unwind(pc[w]) \in {"undo", "release", "mark"}
          /\ Unwind(pc[w]) = "undo" => pc[w] = "help"
          /\ pc[w] \in {"finish", "undo"} => Unwind(pc[w]) = "mark"
      BY <2>4 DEF Unwind, DbCalls
    <3>4. KnownAt(w)' /\ AckAt(w)'
      BY <1>0, <2>1, <3>2, <3>3 DEF KnownAt, AckAt, ReplyCalls
    <3>5. \A s \in Senders : /\ TaskOn(w, s)' => TaskOn(w, s)
                             /\ ThreadOn(w, s)' => TaskOn(w, s) /\ ~TaskOn(w, s)'
      BY <3>2, <3>3 DEF TaskOn, ThreadOn, ReplyCalls
    <3> QED BY <2>1, <3>2, <3>4, <3>5, QuietReplies
  <2> QED BY <1>2, <2>2, <2>3, <2>4 DEF Cancel
<1>3. CASE OrphanPolls(w) \/ OrphanEnds(w)
  <2>1. UNCHANGED convVars /\ UNCHANGED <<known, row, pc, held, heldId, ack>>
    BY <1>3 DEF OrphanPolls, OrphanEnds, convVars, taskVars
  <2>2. \/ ThreadEnds(w)
        \/ \E m \in Msgs : /\ orphan' = [orphan EXCEPT ![w] = "mark"]
                           /\ orphanMsg' = [orphanMsg EXCEPT ![w] = m]
                           /\ orphanId' = [orphanId EXCEPT ![w] = jobId[m]]
    BY <1>3 DEF OrphanPolls, OrphanEnds
  <2>3. OnlyBy(w) /\ orphan'[w] \in {"none", "mark"}
    BY <2>1, <2>2 DEF ThreadEnds, OnlyBy, OthersSame, TypeOK, WorkersTyped
  <2>4. KnownAt(w)' /\ AckAt(w)'
    BY <1>0, <2>1, <2>3 DEF KnownAt, AckAt
  <2>5. \A s \in Senders : (TaskOn(w, s)' => TaskOn(w, s)) /\ ~ThreadOn(w, s)'
    BY <2>1, <2>3 DEF TaskOn, ThreadOn
  <2> QED BY <2>1, <2>3, <2>4, <2>5, QuietReplies
<1>4. CASE Restart(w) \/ Crash(w)
  <2>1. UNCHANGED convVars /\ UNCHANGED <<known, row>> /\ pc' = [pc EXCEPT ![w] = "idle"] /\ Forget(w)
        /\ (UNCHANGED <<orphan, orphanMsg, orphanId>> \/ ThreadEnds(w))
    BY <1>4 DEF Restart, Crash, convVars, threadVars
  <2>2. /\ OnlyBy(w) /\ pc'[w] = "idle" /\ ~ack'[w]
        /\ (orphan'[w] = orphan[w] /\ orphanMsg'[w] = orphanMsg[w]) \/ orphan'[w] = "none"
    BY <2>1 DEF Forget, ThreadEnds, OnlyBy, OthersSame, TypeOK, WorkersTyped
  <2>3. KnownAt(w)' /\ AckAt(w)'
    BY <1>0, <2>1, <2>2 DEF KnownAt, AckAt, ReplyCalls
  <2>4. \A s \in Senders : ~TaskOn(w, s)' /\ (ThreadOn(w, s)' => ThreadOn(w, s))
    BY <2>2 DEF TaskOn, ThreadOn, ReplyCalls
  <2> QED BY <2>1, <2>2, <2>3, <2>4, QuietReplies
<1> QED BY <1>1, <1>2, <1>3, <1>4, OrphanReplies, RaisesReplies, CallFailsRaises DEF WorkerFault

(* Nothing that the replies depend on changes.                             *)
LEMMA RepliesIdle ==
  ASSUME ReplyInv, UNCHANGED <<known, row, pc, held, ack, orphan, orphanMsg>>
  PROVE  ReplyInv'
<1>1. ASSUME NEW s \in Senders PROVE Replies(s)' = Replies(s)
  BY DEF Replies, Hands, CallOf, MsgOf
<1> QED BY <1>1 DEF ReplyInv, SendersKnown, RowsBegin, RepliesCounted, OwnersChecked, AcksAsked, AckImpliesAlert

(* Staff take a conversation only when its counter is 0: no reply to it    *)
(* is in flight, the acknowledgement of a help request included.           *)
LEMMA PanelReplies ==
  ASSUME TypeOK, ReplyInv, NEW s \in Senders, PanelStep(s)
  PROVE  ReplyInv'
<1>0. /\ row \in [Senders -> Rows] /\ UNCHANGED <<known, pc, held, ack, orphan, orphanMsg>>
      /\ s \in known
  BY DEF TypeOK, TablesTyped, PanelStep, TakeOver, GiveBack, workerVars, taskVars, threadVars
<1>1. PICK r \in Rows : /\ row' = [row EXCEPT ![s] = r] /\ OwnerCheck(r)
                        /\ r.aiReplies = row[s].aiReplies
                        /\ r.help = row[s].help \/ row[s].aiReplies = 0
  <2>1. PICK u \in Users : TakeOver(s, u) \/ \E isOwner \in BOOLEAN : GiveBack(s, u, isOwner)
    BY DEF PanelStep
  <2>2. row[s] \in Rows /\ OwnerCheck(row[s])
    BY <1>0 DEF ReplyInv, OwnersChecked
  <2>3. CASE TakeOver(s, u)
    <3>1. Take(row[s], u) \in Rows /\ OwnerCheck(Take(row[s], u)) /\ row[s].aiReplies = 0
      BY <2>2, <2>3, HumanUpdates DEF TakeOver, MayTake
    <3>2. Take(row[s], u).aiReplies = row[s].aiReplies
      BY <2>2 DEF Take, Rows
    <3> QED BY <2>3, <3>1, <3>2 DEF TakeOver
  <2>4. CASE \E isOwner \in BOOLEAN : GiveBack(s, u, isOwner)
    <3>1. Release(row[s]) \in Rows /\ OwnerCheck(Release(row[s]))
      BY <2>2, HumanUpdates
    <3>2. Release(row[s]).aiReplies = row[s].aiReplies /\ Release(row[s]).help = row[s].help
      BY <2>2 DEF Release, Rows
    <3> QED BY <2>4, <3>1, <3>2 DEF GiveBack
  <2> QED BY <2>1, <2>3, <2>4
<1>2. row'[s] = r /\ \A t \in Senders : t # s => row'[t] = row[t]
  BY <1>0, <1>1
<1>3. ASSUME NEW t \in Senders PROVE Replies(t)' = Replies(t) /\ row'[t].aiReplies = row[t].aiReplies
  BY <1>0, <1>1, <1>2 DEF Replies, Hands, CallOf, MsgOf
<1>4. ASSUME NEW w \in Workers, pc[w] = "send", ack[w] PROVE row'[SenderOf[held[w]]].help
  <2>1. row[SenderOf[held[w]]].help /\ SenderOf[held[w]] \in Senders
    BY <1>4, WorkerAt DEF AckAt, Calls
  <2>2. CASE SenderOf[held[w]] = s
    <3>1. <<w, "task">> \in Replies(s)
      BY <1>4, <2>2, RepliesAre DEF Split, TaskOn, ReplyCalls
    <3>2. IsFiniteSet(Replies(s)) /\ Cardinality(Replies(s)) <= row[s].aiReplies
      BY DEF ReplyInv, RepliesCounted
    <3>3. row[s].aiReplies # 0
      <4>1. Cardinality(Replies(s)) \in Nat /\ Cardinality(Replies(s)) # 0
        BY <3>1, <3>2, FS_EmptySet, FS_CardinalityType
      <4> QED BY <3>2, <4>1
    <3> QED BY <1>1, <1>2, <2>1, <2>2, <3>3
  <2> QED BY <1>2, <2>1, <2>2
<1> QED BY <1>0, <1>1, <1>2, <1>3, <1>4
       DEF ReplyInv, SendersKnown, RowsBegin, RepliesCounted, OwnersChecked, AcksAsked, AckImpliesAlert

LEMMA ReplyInvStep == TypeOK /\ ReplyInv /\ [Next]_vars => ReplyInv'
<1> SUFFICES ASSUME TypeOK, ReplyInv, [Next]_vars PROVE ReplyInv'
  OBVIOUS
<1>0. TypeOK'
  BY TypeOKStep
<1>1. ASSUME NEW h \in Hooks, HookStep(h) PROVE ReplyInv'
  <2>1. UNCHANGED <<known, row, pc, held, ack, orphan, orphanMsg>>
    BY <1>1 DEF HookStep, Deliver, ReadExisting, ReadProcessed, Insert, HookFails,
                convVars, workerVars, taskVars, threadVars
  <2> QED BY <2>1, RepliesIdle
<1>2. CASE UNCHANGED vars
  BY <1>2, RepliesIdle DEF vars, convVars, workerVars, taskVars, threadVars
<1> QED BY <1>0, <1>1, <1>2, AdvanceReplies, FaultReplies, PanelReplies DEF Next

LEMMA ReplySafety == Spec => []ReplyInv
<1>1. Init => ReplyInv
  <2> SUFFICES ASSUME Init PROVE ReplyInv
    OBVIOUS
  <2>1. ASSUME NEW s \in Senders PROVE Replies(s) = {}
    BY DEF Init, Replies, Hands, CallOf
  <2>2. ASSUME NEW s \in Senders
        PROVE  IsFiniteSet(Replies(s)) /\ Cardinality(Replies(s)) <= row[s].aiReplies
    <3>1. row[s].aiReplies = 0
      BY DEF Init, NewRow
    <3>2. IsFiniteSet(Replies(s)) /\ Cardinality(Replies(s)) = 0
      BY <2>1, FS_EmptySet
    <3> QED BY <3>1, <3>2
  <2>3. RepliesCounted
    BY <2>2 DEF RepliesCounted
  <2> QED BY <2>3, NewRowIsRow
          DEF Init, ReplyInv, SendersKnown, RowsBegin, OwnersChecked, AcksAsked, AckImpliesAlert, ReplyCalls
<1> QED BY <1>1, ReplyInvStep, TypeSafety, PTL DEF Spec

(* No human holds a conversation while a reply to it is in flight, from a  *)
(* worker's task or from a thread it left behind: the row's counter covers *)
(* all of them (conversation_mode_service.py: take).                       *)
THEOREM HumansExclude == Spec => []HumanExcludesAi
<1>1. ReplyInv => HumanExcludesAi
  BY DEF ReplyInv, RepliesCounted, OwnersChecked, HumanExcludesAi
<1> QED BY <1>1, ReplySafety, PTL

(* The acknowledgement of a help request leaves while the alert stands:    *)
(* the reply that acknowledges keeps the panel from clearing it.           *)
THEOREM AcksAreTrue == Spec => []AckImpliesAlert
<1>1. ReplyInv => AckImpliesAlert
  BY DEF ReplyInv
<1> QED BY <1>1, ReplySafety, PTL

-----------------------------------------------------------------------------
(* One worker.  Between its reservation and its send nobody else asks for  *)
(* help: there is no other worker, and no thread outlives its task.        *)
LEMMA QuietStep ==
  ASSUME \A v, w \in Workers : v = w, "cancel" \notin Faults,
         TypeOK, AnswersQuietly, [Next]_vars
  PROVE  AnswersQuietly'
<1>0. ASSUME NEW w \in Workers
      PROVE  /\ orphan[w] = "none" /\ (pc[w] = "help" => ack[w])
             /\ pc[w] \in {"answer", "send"} /\ ~ack[w] => ~row[SenderOf[held[w]]].help
             /\ pc[w] \in Calls => held[w] \in Msgs /\ SenderOf[held[w]] \in Senders
  BY FlowAssumption DEF AnswersQuietly, TypeOK, WorkersTyped
<1>1. ASSUME NEW w \in Workers, orphan'[w] = "none", pc'[w] = "help" => ack'[w],
             pc'[w] \in {"answer", "send"} /\ ~ack'[w] => ~row'[SenderOf[held'[w]]].help
      PROVE  AnswersQuietly'
  BY <1>1 DEF AnswersQuietly
<1>2. ASSUME NEW w \in Workers, NEW next, Goto(w, next), next \notin {"answer", "send", "help"}
      PROVE  AnswersQuietly'
  BY <1>0, <1>1, <1>2, GotoReplies
<1>3. ASSUME NEW w \in Workers, Advance(w) PROVE AnswersQuietly'
  <2>1. CASE BeginReply(w)
    <3>1. PICK next \in {"answer", "skip"} :
            /\ Returns(w, "begin", next)
            /\ next = "answer" => MayBegin(row[SenderOf[held[w]]])
      BY <2>1 DEF BeginReply
    <3>2. CASE next = "skip"
      BY <1>2, <3>1, <3>2 DEF Returns
    <3>3. CASE next = "answer"
      <4>1. /\ SenderOf[held[w]] \in Senders /\ row \in [Senders -> Rows] /\ MayBegin(row[SenderOf[held[w]]])
            /\ BeginAiReply(SenderOf[held[w]])
        BY <1>0, <3>1, <3>3 DEF Returns, Effect, Calls, DbCalls, TypeOK, TablesTyped
      <4>2. row'[SenderOf[held[w]]] = Begin(row[SenderOf[held[w]]])
        BY <4>1 DEF BeginAiReply
      <4>3. ~row'[SenderOf[held[w]]].help
        BY <4>1, <4>2 DEF Begin, MayBegin, Rows
      <4>4. pc'[w] = "answer" /\ held'[w] = held[w] /\ orphan'[w] = orphan[w]
        BY <3>1, <3>3, GotoReplies DEF Returns
      <4> QED BY <1>0, <1>1, <4>3, <4>4
    <3> QED BY <3>1, <3>2, <3>3
  <2>2. CASE Answer(w)
    <3>1. UNCHANGED row /\ pc[w] = "answer"
      BY <2>2 DEF Answer, convVars
    <3>2. CASE Goto(w, "send")
      BY <1>0, <1>1, <3>1, <3>2, GotoReplies
    <3>3. CASE ~Goto(w, "send") /\ ~Goto(w, "undo")
      <4>1. pc' = [pc EXCEPT ![w] = "help"] /\ ack' = [ack EXCEPT ![w] = TRUE] /\ UNCHANGED orphan
        BY <2>2, <3>3 DEF Answer, threadVars
      <4>2. pc'[w] = "help" /\ ack'[w] /\ orphan'[w] = "none"
        BY <1>0, <4>1 DEF TypeOK, WorkersTyped
      <4> QED BY <1>1, <4>2
    <3> QED BY <1>2, <3>2, <3>3
  <2>3. CASE Help(w)
    <3>1. CASE \E p \in DbCalls : Raises(w, p)
      <4>1. PICK next \in {"undo", "release", "mark", "idle"} : Goto(w, next)
        BY <3>1, RaisesLeads DEF Raises
      <4> QED BY <1>2, <4>1
    <3>2. CASE Returns(w, "help", "send")
      <4>1. pc[w] = "help" /\ Goto(w, "send")
        BY <3>2 DEF Returns
      <4> QED BY <1>0, <1>1, <4>1, GotoReplies
    <3> QED BY <2>3, <3>1, <3>2 DEF Help, ReturnsIf, DbCalls
  <2>4. CASE ~(BeginReply(w) \/ Answer(w) \/ Help(w))
    <3>1. \E next : next \notin {"answer", "send", "help"} /\ Goto(w, next)
      <4>1. CASE Send(w)
        BY <4>1 DEF Send
      <4>2. CASE \E p \in DbCalls : Raises(w, p)
        BY <4>2, RaisesLeads DEF Raises
      <4>3. CASE Claim(w) \/ Resolve(w) \/ ReleaseClaim(w) \/ Mark(w)
        BY <4>3 DEF Claim, Resolve, ReleaseClaim, Mark, Rest, Returns
      <4>4. CASE \/ Returns(w, "skip", "complete") \/ Returns(w, "confirm", "finish")
                 \/ Returns(w, "finish", "complete") \/ Returns(w, "undo", "release")
                 \/ Returns(w, "complete", "idle")
        BY <4>4 DEF Returns
      <4> QED BY <1>3, <2>4, <4>1, <4>2, <4>3, <4>4
              DEF Advance, Skip, Confirm, FinishReply, Undo, Complete, ReturnsIf, DbCalls
    <3> QED BY <1>2, <3>1
  <2> QED BY <2>1, <2>2, <2>3, <2>4
<1>4. ASSUME NEW w \in Workers, Poll(w) \/ WorkerFault(w) PROVE AnswersQuietly'
  <2>1. CASE Poll(w)
    <3>1. \E next \in {"claim", "mark"} : pc' = [pc EXCEPT ![w] = next]
      BY <2>1 DEF Poll
    <3>2. pc'[w] \in {"claim", "mark"} /\ UNCHANGED orphan
      BY <2>1, <3>1 DEF Poll, threadVars, TypeOK, WorkersTyped
    <3> QED BY <1>0, <1>1, <3>2
  <2>2. CASE CallFails(w)
    <3>1. PICK next \in {"undo", "release", "mark", "idle"} : Goto(w, next)
      BY <2>2, CallFailsRaises, RaisesLeads DEF Raises
    <3> QED BY <1>2, <3>1
  <2>3. CASE Restart(w) \/ Crash(w)
    <3>1. pc'[w] = "idle" /\ orphan'[w] = "none"
      BY <1>0, <2>3 DEF Restart, Crash, ThreadEnds, threadVars, TypeOK, WorkersTyped
    <3> QED BY <1>1, <3>1
  <2>4. ~Cancel(w) /\ ~OrphanRuns(w) /\ ~OrphanPolls(w) /\ ~OrphanEnds(w)
    BY <1>0, NoCalls DEF Cancel, OrphanRuns, OrphanPolls, OrphanEnds
  <2> QED BY <1>4, <2>1, <2>2, <2>3, <2>4 DEF WorkerFault
<1>5. ASSUME NEW s \in Senders, PanelStep(s) PROVE AnswersQuietly'
  <2>1. UNCHANGED <<pc, held, ack, orphan>> /\ row \in [Senders -> Rows]
    BY <1>5 DEF PanelStep, TakeOver, GiveBack, workerVars, taskVars, threadVars, TypeOK, TablesTyped
  <2>2. ASSUME NEW t \in Senders, row'[t].help PROVE row[t].help
    <3>1. row[s] \in Rows /\ \E u \in Users : row' = [row EXCEPT ![s] = Take(row[s], u)] \/ row' = [row EXCEPT ![s] = Release(row[s])]
      BY <1>5, <2>1 DEF PanelStep, TakeOver, GiveBack
    <3>2. ~Release(row[s]).help <=> ~row[s].help
      BY <3>1 DEF Release, Rows
    <3>3. \A u \in Users : ~Take(row[s], u).help
      BY <3>1 DEF Take, Rows
    <3> QED BY <2>1, <2>2, <3>1, <3>2, <3>3
  <2>3. ASSUME NEW w \in Workers, pc[w] \in {"answer", "send"}, ~ack[w]
        PROVE  ~row'[SenderOf[held[w]]].help
    BY <1>0, <2>2, <2>3 DEF Calls
  <2> QED BY <1>0, <2>1, <2>3 DEF AnswersQuietly
<1>6. CASE UNCHANGED <<pc, held, ack, orphan, row>>
  BY <1>6 DEF AnswersQuietly
<1>7. ASSUME NEW h \in Hooks, HookStep(h) PROVE UNCHANGED <<pc, held, ack, orphan, row>>
  BY <1>7 DEF HookStep, Deliver, ReadExisting, ReadProcessed, Insert, HookFails,
              convVars, workerVars, taskVars, threadVars
<1>8. CASE UNCHANGED vars
  BY <1>6, <1>8 DEF vars, convVars, workerVars, taskVars, threadVars
<1> QED BY <1>3, <1>4, <1>5, <1>6, <1>7, <1>8 DEF Next

(* With one worker per installation, which is never cancelled, the only    *)
(* text that leaves while a help alert stands is the acknowledgement       *)
(* (message_orchestrator.py, conversation_mode_service.py).                *)
THEOREM AlertSilences ==
  ASSUME \A v, w \in Workers : v = w, "cancel" \notin Faults
  PROVE  Spec => HelpSilencesAi
<1>1. Init => AnswersQuietly
  BY DEF Init, AnswersQuietly
<1>2. TypeOK /\ AnswersQuietly /\ [Next]_vars => AnswersQuietly'
  BY QuietStep
<1>3. AnswersQuietly =>
        \A w \in Workers :
          pc[w] = "send" /\ row[SenderOf[held[w]]].help
            => ack[w] \/ sends'[held[w]] = sends[held[w]]
  BY DEF AnswersQuietly
<1> QED BY <1>1, <1>2, <1>3, TypeSafety, PTL DEF Spec, HelpSilencesAi
=============================================================================
