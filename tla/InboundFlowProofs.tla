-------------------------- MODULE InboundFlowProofs --------------------------
(***************************************************************************)
(* FlowInv is inductive; hence a message is answered at most once, and no  *)
(* acknowledged message is lost, for any number of messages, senders,      *)
(* workers and requests and for every kind of failure.                     *)
(***************************************************************************)
EXTENDS InboundFlowTypeProofs

(* A step of worker w leaves the other workers alone.                      *)
OthersSame(w) ==
  \A v \in Workers : v # w =>
    /\ pc'[v] = pc[v] /\ held'[v] = held[v] /\ heldId'[v] = heldId[v]
    /\ orphan'[v] = orphan[v] /\ orphanMsg'[v] = orphanMsg[v]
    /\ orphanId'[v] = orphanId[v]

LEMMA GotoSame ==
  ASSUME TypeOK, NEW w \in Workers, NEW next, Goto(w, next)
  PROVE  /\ OthersSame(w) /\ UNCHANGED <<orphan, orphanMsg, orphanId>>
         /\ pc'[w] = next
         /\ next # "idle" => held'[w] = held[w] /\ heldId'[w] = heldId[w]
         /\ next = "idle" => held'[w] = NoMsg
BY DEF Goto, Forget, threadVars, OthersSame, TypeOK, WorkersTyped

LEMMA ThreadEndsSame ==
  ASSUME TypeOK, NEW w \in Workers, ThreadEnds(w), UNCHANGED taskVars
  PROVE  OthersSame(w) /\ orphan'[w] = "none" /\ UNCHANGED <<pc, held, heldId>>
BY DEF ThreadEnds, taskVars, OthersSame, TypeOK, WorkersTyped

LEMMA LeaveSame ==
  ASSUME TypeOK, NEW w \in Workers, NEW p, Leave(w, p),
         NEW next, pc' = [pc EXCEPT ![w] = next], UNCHANGED <<held, heldId>>
  PROVE  /\ OthersSame(w) /\ pc'[w] = next
         /\ orphan'[w] = p /\ orphanMsg'[w] = held[w] /\ orphanId'[w] = heldId[w]
BY DEF Leave, OthersSame, TypeOK, WorkersTyped

(* The words that are no calls.                                            *)
LEMMA NoCalls == /\ "none" \notin DbCalls /\ "poll" \notin DbCalls
                 /\ "idle" \notin Calls /\ "stopped" \notin Calls
BY DEF Calls, DbCalls
-----------------------------------------------------------------------------
(* Who owns a job.                                                         *)
LEMMA OwnerFacts ==
  ASSUME OwnerInv, NEW w \in Workers, NEW m \in Msgs, NEW id, Owns(w, m, id)
  PROVE  /\ job[m] \in {"processing", "uncertain"} /\ jobId[m] = id
         /\ \A v \in Workers : \A i : Owns(v, m, i) => v = w /\ i = id
<1>1. ASSUME NEW v \in Workers, NEW i, Owns(v, m, i)
      PROVE  job[m] \in {"processing", "uncertain"} /\ jobId[m] = i
  <2>1. i \in {heldId[v], orphanId[v]}
    BY <1>1 DEF Owns
  <2> QED
    BY <1>1, <2>1 DEF OwnerInv, OwnedJobs
<1> QED
  BY <1>1 DEF OwnerInv, OwnersDiffer

(* No step but Poll makes a worker an owner, so ownership stays in order   *)
(* when the jobs of the remaining owners stay where they are.              *)
LEMMA OwnersShrink ==
  ASSUME OwnerInv,
         \A v \in Workers, m \in Msgs : \A id : Owns(v, m, id)' =>
           /\ Owns(v, m, id)
           /\ job'[m] \in {"processing", "uncertain"} /\ jobId'[m] = jobId[m]
  PROVE  OwnedJobs' /\ OwnersDiffer'
<1>1. OwnedJobs'
  BY OwnerFacts DEF OwnedJobs
<1>2. ASSUME NEW v \in Workers, NEW w \in Workers, NEW m \in Msgs, NEW id,
             Owns(v, m, id)', Owns(w, m, id)'
      PROVE  v = w
  BY <1>2, OwnerFacts
<1>3. OwnersDiffer'
  BY <1>2 DEF OwnersDiffer, Owns
<1> QED
  BY <1>1, <1>3

(* A worker that moves on without touching the inbox.                      *)
LEMMA OwnersStay ==
  ASSUME OwnerInv, UNCHANGED inboxVars,
         \A v \in Workers, m \in Msgs : \A id : Owns(v, m, id)' => Owns(v, m, id)
  PROVE  OwnedJobs' /\ OwnersDiffer' /\ RowidsDiffer'
<1>1. \A v \in Workers, m \in Msgs : \A id : Owns(v, m, id)' =>
           /\ Owns(v, m, id)
           /\ job'[m] \in {"processing", "uncertain"} /\ jobId'[m] = jobId[m]
  BY OwnerFacts DEF inboxVars
<1>2. OwnedJobs' /\ OwnersDiffer'
  BY <1>1, OwnersShrink
<1> QED
  BY <1>2 DEF OwnerInv, RowidsDiffer, Present, inboxVars

LEMMA ApartFrom ==
  ASSUME OrphansApart, NEW w \in Workers, OthersSame(w), Apart(w)'
  PROVE  OrphansApart'
<1>1. ASSUME NEW v \in Workers, v # w PROVE Apart(v)'
  BY <1>1 DEF OrphansApart, Apart, OthersSame
<1> QED
  BY <1>1 DEF OrphansApart

(* The job an owner deletes is its own: rowids are not shared.             *)
LEMMA DeletesOwn ==
  ASSUME OwnerInv, NEW w \in Workers, NEW m \in Msgs, NEW id, Owns(w, m, id),
         DeleteJob(id)
  PROVE  \A n \in Msgs : n # m => job'[n] = job[n] /\ jobId'[n] = jobId[n]
<1>1. ASSUME NEW n \in Msgs, InProcess(n, id) PROVE n = m
  <2>1. job[m] \in {"processing", "uncertain"} /\ jobId[m] = id
    BY OwnerFacts
  <2> QED
    BY <1>1, <2>1 DEF InProcess, OwnerInv, RowidsDiffer, Present
<1> QED
  BY <1>1 DEF DeleteJob

(* What a database call of w, or the thread of one, does to the inbox.     *)
LEMMA EffectOwner ==
  ASSUME TypeOK, OwnerInv, NEW w \in Workers, NEW m \in Msgs, NEW id, NEW p,
         p # "mark" => Owns(w, m, id), Effect(p, m, id)
  PROVE  /\ RowidsDiffer'
         /\ \A v \in Workers, n \in Msgs : \A i :
              Owns(v, n, i) /\ (n = m => p # "complete") =>
                job'[n] \in {"processing", "uncertain"} /\ jobId'[n] = jobId[n]
<1>0. job \in [Msgs -> JobStatus] /\ jobId \in [Msgs -> Nat]
  BY DEF TypeOK, TablesTyped
<1>1. \A v \in Workers, n \in Msgs : \A i :
        Owns(v, n, i) => job[n] \in {"processing", "uncertain"}
  BY OwnerFacts
<1>2. CASE UNCHANGED inboxVars
  BY <1>1, <1>2 DEF inboxVars, OwnerInv, RowidsDiffer, Present
<1>3. CASE p = "complete" /\ DeleteJob(id)
  <2>1. \A n \in Msgs : n # m => job'[n] = job[n] /\ jobId'[n] = jobId[n]
    BY <1>3, DeletesOwn
  <2>2. \A n \in Msgs : job'[n] # "absent" => job'[n] = job[n] /\ jobId'[n] = jobId[n]
    BY <1>3 DEF DeleteJob
  <2>3. RowidsDiffer'
    BY <2>2 DEF OwnerInv, RowidsDiffer, Present
  <2> QED
    BY <1>1, <1>3, <2>1, <2>3
<1>4. CASE p = "mark" /\ MarkUncertain(id)
  <2>1. jobId' = jobId /\ Present' = Present
    BY <1>0, <1>4 DEF MarkUncertain, InProcess, Present
  <2>2. RowidsDiffer'
    BY <2>1 DEF OwnerInv, RowidsDiffer
  <2>3. \A n \in Msgs : job'[n] = job[n] \/ job'[n] = "uncertain"
    BY <1>4 DEF MarkUncertain
  <2> QED
    BY <1>1, <2>1, <2>2, <2>3
<1> QED
  BY <1>2, <1>3, <1>4 DEF Effect

(* A worker that moves on does not become an owner and stays apart.        *)
LEMMA GotoOwner ==
  ASSUME TypeOK, NEW w \in Workers, pc[w] \in Calls,
         NEW next \in Calls \cup {"idle", "stopped"}, Goto(w, next),
         pc[w] = "mark" => next \in {"idle", "stopped"}
  PROVE  \A v \in Workers, m \in Msgs : \A id : Owns(v, m, id)' => Owns(v, m, id)
<1>1. ASSUME NEW v \in Workers, v # w, NEW m \in Msgs, NEW id, Owns(v, m, id)'
      PROVE  Owns(v, m, id)
  BY <1>1, GotoSame DEF OthersSame, Owns
<1>2. ASSUME NEW m \in Msgs, NEW id, Owns(w, m, id)' PROVE Owns(w, m, id)
  <2>1. CASE next \in {"idle", "stopped"}
    BY <1>2, <2>1, GotoSame, NoCalls DEF Owns
  <2>2. CASE next \notin {"idle", "stopped"}
    BY <1>2, <2>2, GotoSame DEF Owns
  <2> QED
    BY <2>1, <2>2
<1> QED
  BY <1>1, <1>2

LEMMA GotoApart ==
  ASSUME TypeOK, OrphansApart, NEW w \in Workers, pc[w] \in Calls,
         NEW next \in Calls \cup {"idle", "stopped"}, Goto(w, next),
         pc[w] = "undo" => next \in {"release", "mark"},
         pc[w] = "release" => next = "mark",
         pc[w] = "mark" => next \in {"idle", "stopped"}
  PROVE  OrphansApart'
<1>1. /\ OthersSame(w) /\ pc'[w] = next
      /\ orphan'[w] = orphan[w] /\ orphanMsg'[w] = orphanMsg[w]
      /\ next # "idle" => held'[w] = held[w]
  BY GotoSame
<1>2. Apart(w)
  BY DEF OrphansApart
<1>3. orphan[w] \notin {"poll", "mark"}
  BY <1>2, NoCalls DEF Apart
<1>4. CASE next \in {"idle", "stopped"}
  BY <1>1, <1>3, <1>4, NoCalls, ApartFrom DEF Apart
<1>5. CASE next \notin {"idle", "stopped"}
  <2>1. Apart(w)'
    BY <1>1, <1>2, <1>3, <1>5 DEF Apart
  <2> QED
    BY <1>1, <2>1, ApartFrom
<1> QED
  BY <1>4, <1>5

(* The worker's own code.                                                  *)
LEMMA ReturnsOwner ==
  ASSUME TypeOK, OwnerInv, NEW w \in Workers, NEW p \in DbCalls,
         NEW next \in Calls \cup {"idle", "stopped"},
         Leads(p, next), Returns(w, p, next)
  PROVE  OwnerInv'
<1>0. pc[w] = p /\ p \in Calls
  BY DEF Returns, Calls
<1> PICK m \in Msgs : m = held[w]
  BY <1>0 DEF TypeOK, WorkersTyped
<1>1. /\ pc[w] = p /\ p \in Calls /\ Effect(p, m, heldId[w]) /\ Goto(w, next)
      /\ p # "mark" => Owns(w, m, heldId[w])
  BY <1>0 DEF Returns, Owns
<1>3. /\ p = "mark" => next \in {"idle", "stopped"}
      /\ p = "undo" => next \in {"release", "mark"}
      /\ p = "release" => next = "mark"
      /\ p = "complete" => next = "idle"
  BY DEF Leads
<1>4. \A v \in Workers, n \in Msgs : \A id : Owns(v, n, id)' => Owns(v, n, id)
  BY <1>1, <1>3, GotoOwner
<1>5. OrphansApart'
  BY <1>1, <1>3, GotoApart DEF OwnerInv
<1>6. ASSUME p = "complete", NEW v \in Workers, NEW id, Owns(v, m, id)
      PROVE  ~Owns(v, m, id)'
  <2>1. v = w
    BY <1>1, <1>6, OwnerFacts
  <2>2. pc'[w] = "idle" /\ orphan'[w] = orphan[w] /\ orphanMsg'[w] = orphanMsg[w]
    BY <1>1, <1>3, <1>6, GotoSame
  <2>3. orphan[w] \in DbCalls => orphanMsg[w] # m
    BY <1>1, <1>6 DEF OwnerInv, OrphansApart, Apart
  <2> QED
    BY <2>1, <2>2, <2>3, NoCalls DEF Owns
<1>7. /\ RowidsDiffer'
      /\ \A v \in Workers, n \in Msgs : \A i :
           Owns(v, n, i) /\ (n = m => p # "complete") =>
             job'[n] \in {"processing", "uncertain"} /\ jobId'[n] = jobId[n]
  BY <1>1, EffectOwner
<1>8. OwnedJobs' /\ OwnersDiffer'
  BY <1>4, <1>6, <1>7, OwnersShrink
<1> QED
  BY <1>5, <1>7, <1>8 DEF OwnerInv

(* A call that raises changes nothing but who does what next.              *)
LEMMA RaisesOwner ==
  ASSUME TypeOK, OwnerInv, NEW w \in Workers, NEW p \in DbCalls, Raises(w, p)
  PROVE  OwnerInv'
<1>1. UNCHANGED inboxVars
  BY DEF Raises
<1>2. PICK next \in {"undo", "release", "mark", "idle"} :
        /\ Goto(w, next)
        /\ p = "mark" => next = "idle"
        /\ p # "mark" => next = Unwind(p)
  BY RaisesLeads
<1>3. pc[w] = p /\ p \in Calls /\ next \in Calls \cup {"idle", "stopped"}
  BY RaisesLeads DEF Calls, DbCalls
<1>4. p \in {"undo", "release"} => next = "mark"
  BY <1>2 DEF Unwind
<1>5. OwnedJobs' /\ OwnersDiffer' /\ RowidsDiffer'
  BY <1>1, <1>2, <1>3, GotoOwner, OwnersStay
<1>6. OrphansApart'
  BY <1>2, <1>3, <1>4, GotoApart DEF OwnerInv
<1> QED
  BY <1>5, <1>6 DEF OwnerInv

(* A pending job has no owner, so who starts it shares it with nobody.     *)
LEMMA PendingIsFree ==
  ASSUME OwnerInv, NEW m \in Msgs, job[m] \in {"pending", "absent"}
  PROVE  \A v \in Workers : \A id : ~Owns(v, m, id)
BY OwnerFacts

LEMMA WorkerOwner ==
  ASSUME TypeOK, OwnerInv, NEW w \in Workers,
         Poll(w) \/ Answer(w) \/ Send(w)
  PROVE  OwnerInv'
<1>1. CASE Poll(w)
  <2>1. PICK m \in Msgs :
          /\ job[m] = "pending" /\ job' = [job EXCEPT ![m] = "processing"]
          /\ held' = [held EXCEPT ![w] = m] /\ heldId' = [heldId EXCEPT ![w] = jobId[m]]
    BY <1>1 DEF Poll, StartJob, Oldest, Pending
  <2>2. PICK next \in {"claim", "mark"} : pc' = [pc EXCEPT ![w] = next]
    BY <1>1 DEF Poll
  <2>3. pc[w] = "idle" /\ UNCHANGED <<jobId, orphan, orphanMsg, orphanId>>
    BY <1>1 DEF Poll, StartJob, threadVars
  <2>4. /\ OthersSame(w)
        /\ held'[w] = m /\ heldId'[w] = jobId[m] /\ pc'[w] = next
    BY <2>1, <2>2, <2>3 DEF OthersSame, TypeOK, WorkersTyped
  <2>5. \A n \in Msgs : job'[n] = IF n = m THEN "processing" ELSE job[n]
    BY <2>1 DEF TypeOK, TablesTyped
  <2>6. ASSUME NEW v \in Workers, NEW n \in Msgs, NEW id, Owns(v, n, id)'
        PROVE  Owns(v, n, id) \/ (v = w /\ n = m /\ id = jobId[m])
    BY <2>3, <2>4, <2>6 DEF Owns, OthersSame
  <2>7. ASSUME NEW v \in Workers, NEW n \in Msgs, NEW id, Owns(v, n, id)'
        PROVE  job'[n] \in {"processing", "uncertain"} /\ jobId'[n] = id
    <3>1. CASE Owns(v, n, id)
      BY <2>3, <2>5, <3>1, OwnerFacts
    <3>2. CASE n = m /\ id = jobId[m]
      BY <2>3, <2>5, <3>2
    <3> QED
      BY <2>6, <2>7, <3>1, <3>2
  <2>8. OwnedJobs'
    BY <2>7 DEF OwnedJobs
  <2>9. ASSUME NEW u \in Workers, NEW v \in Workers, NEW n \in Msgs, NEW id,
               Owns(u, n, id)', Owns(v, n, id)'
        PROVE  u = v
    <3>1. CASE n = m
      BY <2>1, <2>6, <2>9, <3>1, PendingIsFree
    <3>2. CASE n # m
      <4>1. Owns(u, n, id) /\ Owns(v, n, id)
        BY <2>6, <2>9, <3>2
      <4> QED
        BY <4>1, OwnerFacts
    <3> QED
      BY <3>1, <3>2
  <2>10. OwnersDiffer'
    BY <2>9 DEF OwnersDiffer, Owns
  <2>11. RowidsDiffer'
    BY <2>1, <2>3, <2>5 DEF OwnerInv, RowidsDiffer, Present
  <2>12. Apart(w)'
    <3>1. orphan[w] \notin {"poll", "mark"}
      BY <2>3 DEF OwnerInv, OrphansApart, Apart
    <3>2. ASSUME orphan[w] \in DbCalls, orphanMsg[w] = m PROVE FALSE
      <4>1. Owns(w, m, orphanId[w])
        BY <3>1, <3>2 DEF Owns
      <4> QED
        BY <2>1, <4>1, PendingIsFree
    <3> QED
      BY <2>3, <2>4, <3>1, <3>2 DEF Apart
  <2> QED
    BY <2>4, <2>8, <2>10, <2>11, <2>12, ApartFrom DEF OwnerInv
<1>2. ASSUME NEW next \in {"send", "undo", "confirm", "mark"}, Goto(w, next),
             pc[w] \in {"answer", "send"}, UNCHANGED inboxVars
      PROVE  OwnerInv'
  <2>1. next \in Calls \cup {"idle", "stopped"} /\ pc[w] \in Calls
    BY <1>2 DEF Calls, DbCalls
  <2>2. OwnedJobs' /\ OwnersDiffer' /\ RowidsDiffer'
    BY <1>2, <2>1, GotoOwner, OwnersStay
  <2>3. OrphansApart'
    BY <1>2, <2>1, GotoApart DEF OwnerInv
  <2> QED
    BY <2>2, <2>3 DEF OwnerInv
<1>3. CASE Answer(w)
  <2>1. CASE /\ pc'  = [pc EXCEPT ![w] = "help"]
             /\ UNCHANGED <<held, heldId, threadVars, inboxVars>>
    <3>1. pc[w] = "answer" /\ pc[w] \in Calls
      BY <1>3 DEF Answer, Calls
    <3>2. /\ OthersSame(w) /\ pc'[w] = "help"
          /\ UNCHANGED <<held, heldId, orphan, orphanMsg, orphanId>>
      BY <2>1 DEF OthersSame, TypeOK, WorkersTyped, threadVars
    <3>3. \A v \in Workers, m \in Msgs : \A id : Owns(v, m, id)' => Owns(v, m, id)
      BY <3>1, <3>2 DEF Owns, OthersSame
    <3>4. Apart(w)'
      BY <3>1, <3>2, NoCalls DEF OwnerInv, OrphansApart, Apart
    <3>5. OwnedJobs' /\ OwnersDiffer' /\ RowidsDiffer'
      BY <2>1, <3>3, OwnersStay
    <3> QED
      BY <3>2, <3>4, <3>5, ApartFrom DEF OwnerInv
  <2> QED
    BY <1>2, <1>3, <2>1 DEF Answer
<1>4. CASE Send(w)
  BY <1>2, <1>4 DEF Send
<1> QED
  BY <1>1, <1>3, <1>4

(* Faults.  A cancelled task hands its ownership to the thread it leaves.  *)
LEMMA FaultOwner ==
  ASSUME TypeOK, OwnerInv, NEW w \in Workers, WorkerFault(w), ~CallFails(w)
  PROVE  OwnerInv'
<1>1. CASE Cancel(w)
  <2>1. UNCHANGED <<held, heldId, inboxVars>> /\ orphan[w] = "none"
    BY <1>1 DEF Cancel
  <2>2. CASE /\ pc[w] \in {"idle", "mark"}
             /\ pc' = [pc EXCEPT ![w] = "stopped"]
             /\ Leave(w, IF pc[w] = "idle" THEN "poll" ELSE "mark")
    <3>1. /\ OthersSame(w) /\ pc'[w] = "stopped"
          /\ orphan'[w] \in {"poll", "mark"}
      BY <2>1, <2>2, LeaveSame
    <3>2. \A v \in Workers, m \in Msgs : \A id : Owns(v, m, id)' => Owns(v, m, id)
      BY <3>1, NoCalls DEF Owns, OthersSame
    <3>3. Apart(w)'
      BY <3>1, NoCalls DEF Apart
    <3> QED
      BY <2>1, <3>1, <3>2, <3>3, OwnersStay, ApartFrom DEF OwnerInv
  <2>3. CASE /\ pc[w] \in DbCalls \ {"mark"}
             /\ pc' = [pc EXCEPT ![w] = Unwind(pc[w])]
             /\ Leave(w, pc[w])
    <3>1. /\ OthersSame(w) /\ pc'[w] = Unwind(pc[w])
          /\ orphan'[w] = pc[w] /\ orphanMsg'[w] = held[w] /\ orphanId'[w] = heldId[w]
      BY <2>1, <2>3, LeaveSame
    <3>2. pc[w] \in Calls \ {"mark"}
      BY <2>3 DEF Calls
    <3>3. \A v \in Workers, m \in Msgs : \A id : Owns(v, m, id)' => Owns(v, m, id)
      BY <2>1, <3>1, <3>2 DEF Owns, OthersSame
    <3>4. Apart(w)'
      <4>1. pc[w] \notin {"poll", "mark"}
        BY <2>3, NoCalls
      <4>2. CASE pc[w] \in {"resolve", "begin", "skip"}
        <5>1. Unwind(pc[w]) = "release"
          BY <4>2 DEF Unwind
        <5> QED
          BY <3>1, <4>1, <4>2, <5>1 DEF Apart
      <4>3. CASE pc[w] = "help"
        <5>1. Unwind(pc[w]) = "undo"
          BY <4>3 DEF Unwind
        <5> QED
          BY <3>1, <4>1, <4>3, <5>1 DEF Apart
      <4>4. CASE pc[w] \notin {"resolve", "begin", "skip", "help"}
        <5>1. Unwind(pc[w]) = "mark"
          BY <2>3, <4>4 DEF Unwind, DbCalls
        <5> QED
          BY <3>1, <4>1, <5>1 DEF Apart
      <4> QED
        BY <4>2, <4>3, <4>4
    <3>5. OwnedJobs' /\ OwnersDiffer' /\ RowidsDiffer'
      BY <2>1, <3>3, OwnersStay
    <3> QED
      BY <3>1, <3>4, <3>5, ApartFrom DEF OwnerInv
  <2>4. CASE /\ pc[w] \in {"answer", "send"}
             /\ pc' = [pc EXCEPT ![w] = Unwind(pc[w])]
             /\ UNCHANGED threadVars
    <3>1. /\ OthersSame(w) /\ pc'[w] = Unwind(pc[w]) /\ orphan'[w] = "none"
          /\ UNCHANGED <<orphan, orphanMsg, orphanId>>
      BY <2>1, <2>4 DEF OthersSame, TypeOK, WorkersTyped, threadVars
    <3>2. pc[w] \in Calls \ {"mark"}
      BY <2>4 DEF Calls
    <3>3. \A v \in Workers, m \in Msgs : \A id : Owns(v, m, id)' => Owns(v, m, id)
      BY <2>1, <3>1, <3>2 DEF Owns, OthersSame
    <3>4. Apart(w)'
      BY <3>1, NoCalls DEF Apart
    <3>5. OwnedJobs' /\ OwnersDiffer' /\ RowidsDiffer'
      BY <2>1, <3>3, OwnersStay
    <3> QED
      BY <3>1, <3>4, <3>5, ApartFrom DEF OwnerInv
  <2> QED
    BY <1>1, <2>2, <2>3, <2>4 DEF Cancel
<1>2. ASSUME ThreadEnds(w), UNCHANGED taskVars
      PROVE  /\ OrphansApart'
             /\ \A v \in Workers, m \in Msgs : \A id : Owns(v, m, id)' => Owns(v, m, id)
  <2>1. OthersSame(w) /\ orphan'[w] = "none" /\ UNCHANGED <<pc, held, heldId>>
    BY <1>2, ThreadEndsSame
  <2>2. Apart(w)'
    BY <2>1, NoCalls DEF Apart
  <2>3. OrphansApart'
    BY <2>1, <2>2, ApartFrom DEF OwnerInv
  <2>4. \A v \in Workers, m \in Msgs : \A id : Owns(v, m, id)' => Owns(v, m, id)
    BY <2>1, NoCalls DEF Owns, OthersSame
  <2> QED
    BY <2>3, <2>4
<1>3. CASE OrphanRuns(w)
  <2>0. orphanMsg[w] \in Msgs
    BY <1>3 DEF OrphanRuns, TypeOK, WorkersTyped
  <2> PICK m \in Msgs : m = orphanMsg[w]
    BY <2>0
  <2> PICK p \in DbCalls : p = orphan[w]
    BY <1>3 DEF OrphanRuns
  <2>1. /\ Effect(p, m, orphanId[w]) /\ ThreadEnds(w) /\ UNCHANGED taskVars
        /\ p # "mark" => Owns(w, m, orphanId[w])
    BY <1>3 DEF OrphanRuns, Owns
  <2>2. /\ RowidsDiffer'
        /\ \A v \in Workers, n \in Msgs : \A i :
             Owns(v, n, i) /\ (n = m => p # "complete") =>
               job'[n] \in {"processing", "uncertain"} /\ jobId'[n] = jobId[n]
    BY <2>1, EffectOwner
  <2>3. ASSUME p = "complete", NEW v \in Workers, NEW id, Owns(v, m, id)
        PROVE  ~Owns(v, m, id)'
    <3>1. v = w
      BY <2>1, <2>3, OwnerFacts
    <3>2. orphan'[w] = "none" /\ UNCHANGED <<pc, held, heldId>>
      BY <2>1, ThreadEndsSame
    <3>3. held[w] = m => pc[w] \notin Calls \ {"mark"}
      BY <2>3 DEF OwnerInv, OrphansApart, Apart
    <3> QED
      BY <3>1, <3>2, <3>3, NoCalls DEF Owns
  <2>4. OwnedJobs' /\ OwnersDiffer'
    BY <1>2, <2>1, <2>2, <2>3, OwnersShrink
  <2> QED
    BY <1>2, <2>1, <2>2, <2>4 DEF OwnerInv
<1>4. CASE OrphanPolls(w)
  <2>1. PICK m \in Msgs :
          /\ job[m] = "pending" /\ StartJob(m)
          /\ \/ ThreadEnds(w)
             \/ /\ orphan'    = [orphan EXCEPT ![w] = "mark"]
                /\ orphanMsg' = [orphanMsg EXCEPT ![w] = m]
                /\ orphanId'  = [orphanId EXCEPT ![w] = jobId[m]]
    BY <1>4 DEF OrphanPolls, Oldest, Pending
  <2>2. orphan[w] = "poll" /\ UNCHANGED taskVars
    BY <1>4 DEF OrphanPolls
  <2>3. /\ UNCHANGED jobId
        /\ \A n \in Msgs : job'[n] = IF n = m THEN "processing" ELSE job[n]
    BY <2>1 DEF StartJob, TypeOK, TablesTyped
  <2>4. /\ OrphansApart'
        /\ \A v \in Workers, n \in Msgs : \A id : Owns(v, n, id)' => Owns(v, n, id)
    <3>1. CASE /\ orphan'    = [orphan EXCEPT ![w] = "mark"]
               /\ orphanMsg' = [orphanMsg EXCEPT ![w] = m]
               /\ orphanId'  = [orphanId EXCEPT ![w] = jobId[m]]
      <4>1. OthersSame(w) /\ orphan'[w] = "mark" /\ UNCHANGED <<pc, held, heldId>>
        BY <2>2, <3>1 DEF OthersSame, taskVars, TypeOK, WorkersTyped
      <4>2. pc[w] = "stopped"
        BY <2>2 DEF OwnerInv, OrphansApart, Apart
      <4>3. Apart(w)'
        BY <4>1, <4>2, NoCalls DEF Apart
      <4>4. OrphansApart'
        BY <4>1, <4>3, ApartFrom DEF OwnerInv
      <4>5. \A v \in Workers, n \in Msgs : \A id : Owns(v, n, id)' => Owns(v, n, id)
        BY <4>1 DEF Owns, OthersSame
      <4> QED
        BY <4>4, <4>5
    <3> QED
      BY <1>2, <2>1, <2>2, <3>1
  <2>5. RowidsDiffer'
    BY <2>1, <2>3 DEF OwnerInv, RowidsDiffer, Present
  <2>6. \A v \in Workers, n \in Msgs : \A id : Owns(v, n, id) =>
          job'[n] \in {"processing", "uncertain"} /\ jobId'[n] = jobId[n]
    BY <2>3, OwnerFacts
  <2>7. OwnedJobs' /\ OwnersDiffer'
    BY <2>4, <2>6, OwnersShrink
  <2> QED
    BY <2>4, <2>5, <2>7 DEF OwnerInv
<1>5. CASE OrphanEnds(w)
  <2>1. ThreadEnds(w) /\ UNCHANGED taskVars /\ UNCHANGED inboxVars
    BY <1>5 DEF OrphanEnds
  <2>2. OwnedJobs' /\ OwnersDiffer' /\ RowidsDiffer'
    BY <1>2, <2>1, OwnersStay
  <2> QED
    BY <1>2, <2>1, <2>2 DEF OwnerInv
<1>6. CASE Restart(w) \/ Crash(w)
  <2>1. /\ OthersSame(w) /\ pc'[w] = "idle" /\ orphan'[w] = "none"
        /\ UNCHANGED inboxVars
    BY <1>6 DEF Restart, Crash, Forget, ThreadEnds, threadVars, OthersSame, TypeOK,
                WorkersTyped
  <2>2. Apart(w)'
    BY <2>1, NoCalls DEF Apart
  <2>3. \A v \in Workers, m \in Msgs : \A id : Owns(v, m, id)' => Owns(v, m, id)
    BY <2>1, NoCalls DEF Owns, OthersSame
  <2>4. OwnedJobs' /\ OwnersDiffer' /\ RowidsDiffer'
    BY <2>1, <2>3, OwnersStay
  <2> QED
    BY <2>1, <2>2, <2>4, ApartFrom DEF OwnerInv
<1> QED
  BY <1>1, <1>3, <1>4, <1>5, <1>6 DEF WorkerFault

(* An inserted job belongs to nobody and has a rowid of its own.           *)
LEMMA HookOwner ==
  ASSUME TypeOK, OwnerInv, NEW h \in Hooks, HookStep(h)
  PROVE  OwnerInv'
<1>1. UNCHANGED <<pc, held, heldId, orphan, orphanMsg, orphanId>>
  BY DEF HookStep, Deliver, ReadExisting, ReadProcessed, Insert, HookFails,
         workerVars, taskVars, threadVars
<1>2. \A v \in Workers, m \in Msgs : \A id : Owns(v, m, id)' => Owns(v, m, id)
  BY <1>1 DEF Owns
<1>3. OrphansApart'
  BY <1>1 DEF OwnerInv, OrphansApart, Apart
<1>4. CASE UNCHANGED inboxVars
  BY <1>2, <1>3, <1>4, OwnersStay DEF OwnerInv
<1>5. CASE Insert(h) /\ InsertJob(hookMsg[h]) /\ job[hookMsg[h]] = "absent"
  <2>1. hookMsg[h] \in Msgs
    BY <1>5 DEF Insert, TypeOK, HooksTyped
  <2> PICK m \in Msgs : m = hookMsg[h]
    BY <2>1
  <2>2. PICK i \in NextIds : /\ job' = [job EXCEPT ![m] = "pending"]
                             /\ jobId' = [jobId EXCEPT ![m] = i]
    BY <1>5 DEF InsertJob
  <2>3. \A n \in Present : jobId[n] < i /\ jobId[n] # i
    BY <2>2 DEF NextIds, TypeOK, TablesTyped, Present
  <2>4. \A n \in Msgs : /\ n # m => job'[n] = job[n] /\ jobId'[n] = jobId[n]
                        /\ n = m => job'[n] = "pending" /\ jobId'[n] = i
    BY <2>2 DEF TypeOK, TablesTyped
  <2>5. RowidsDiffer'
    <3> SUFFICES ASSUME NEW a \in Present', NEW b \in Present', a # b
                 PROVE  jobId'[a] # jobId'[b]
      BY DEF RowidsDiffer
    <3>1. /\ a # m => a \in Present
          /\ b # m => b \in Present
      BY <2>4 DEF Present
    <3>2. a \in Msgs /\ b \in Msgs
      BY DEF Present
    <3> QED
      BY <2>3, <2>4, <3>1, <3>2 DEF OwnerInv, RowidsDiffer
  <2>6. \A v \in Workers, n \in Msgs : \A id : Owns(v, n, id) =>
          job'[n] \in {"processing", "uncertain"} /\ jobId'[n] = jobId[n]
    BY <1>5, <2>4, OwnerFacts
  <2>7. OwnedJobs' /\ OwnersDiffer'
    BY <1>2, <2>6, OwnersShrink
  <2> QED
    BY <1>3, <2>5, <2>7 DEF OwnerInv
<1> QED
  BY <1>4, <1>5 DEF HookStep, Deliver, ReadExisting, ReadProcessed, Insert, HookFails
-----------------------------------------------------------------------------
(* Receipts.  What a database call of w, or the thread of one, does to the *)
(* receipts, the jobs behind them and the messages already acknowledged.   *)
LEMMA EffectReceipts ==
  ASSUME TypeOK, OwnerInv, ReceiptInv, NEW w \in Workers, NEW m \in Msgs, NEW id,
         NEW p, p # "mark" => Owns(w, m, id), Effect(p, m, id),
         UNCHANGED <<sends, acked>>, ThreadAt(p, m)
  PROVE  /\ ClaimsHaveJobs' /\ SendsHaveReceipts' /\ AckedIsKept'
         /\ \A n \in Msgs : n # m => receipt'[n] = receipt[n]
         /\ \A n \in Msgs : receipt[n] = "completed" => receipt'[n] = "completed"
         /\ p \notin {"claim", "skip", "confirm", "release"} => receipt' = receipt
<1>0. /\ receipt \in [Msgs -> {"none", "claimed", "completed"}]
      /\ job \in [Msgs -> JobStatus] /\ acked \subseteq Msgs /\ sends \in [Msgs -> Nat]
  BY DEF TypeOK, TablesTyped, HooksTyped
<1>1. CASE /\ \/ p = "claim" /\ ClaimReceipt(m)
              \/ p \in {"skip", "confirm"} /\ MarkProcessed(m)
              \/ p = "release" /\ ReleaseReceipt(m)
           /\ UNCHANGED <<inboxVars, convVars>>
  <2>1. job[m] \in {"processing", "uncertain"} /\ UNCHANGED job
    BY <1>1, OwnerFacts DEF inboxVars
  <2>2. /\ \A n \in Msgs : n # m => receipt'[n] = receipt[n]
        /\ receipt[m] = "completed" => receipt'[m] = "completed"
        /\ receipt'[m] = "none" => receipt[m] = "none" \/ p = "release"
    BY <1>0, <1>1 DEF ClaimReceipt, MarkProcessed, ReleaseReceipt
  <2>3. ClaimsHaveJobs'
    BY <2>1, <2>2 DEF ReceiptInv, ClaimsHaveJobs
  <2>4. SendsHaveReceipts'
    <3>1. ASSUME NEW n \in Msgs, sends[n] = 1 PROVE receipt'[n] # "none"
      <4>1. receipt[n] # "none" /\ (n = m => p # "release")
        BY <3>1 DEF ReceiptInv, SendsHaveReceipts, ThreadAt
      <4> QED
        BY <2>2, <4>1
    <3> QED
      BY <3>1 DEF ReceiptInv, SendsHaveReceipts
  <2>5. AckedIsKept'
    BY <1>0, <2>1, <2>2 DEF ReceiptInv, AckedIsKept
  <2> QED
    BY <1>1, <2>2, <2>3, <2>4, <2>5
<1>2. CASE UNCHANGED <<inboxVars, receipt>>
  BY <1>2 DEF inboxVars, ReceiptInv, ClaimsHaveJobs, SendsHaveReceipts, AckedIsKept
<1>3. CASE p = "complete" /\ DeleteJob(id) /\ UNCHANGED receipt
  <2>1. \A n \in Msgs : n # m => job'[n] = job[n]
    BY <1>3, DeletesOwn
  <2>2. receipt[m] = "completed"
    BY <1>3 DEF ThreadAt
  <2>3. ClaimsHaveJobs'
    BY <1>3, <2>1, <2>2 DEF ReceiptInv, ClaimsHaveJobs
  <2>4. AckedIsKept'
    BY <1>0, <1>3, <2>1, <2>2 DEF ReceiptInv, AckedIsKept
  <2> QED
    BY <1>3, <2>3, <2>4 DEF ReceiptInv, SendsHaveReceipts
<1>4. CASE p = "mark" /\ MarkUncertain(id) /\ UNCHANGED receipt
  <2>1. \A n \in Msgs : job'[n] = job[n] \/ job'[n] = "uncertain"
    BY <1>4 DEF MarkUncertain
  <2>2. ClaimsHaveJobs'
    BY <1>4, <2>1 DEF ReceiptInv, ClaimsHaveJobs
  <2>3. AckedIsKept'
    BY <1>0, <1>4, <2>1 DEF ReceiptInv, AckedIsKept
  <2> QED
    BY <1>4, <2>2, <2>3 DEF ReceiptInv, SendsHaveReceipts
<1> QED
  BY <1>1, <1>2, <1>3, <1>4 DEF Effect

(* A step of an owner changes the receipt and the sends of its message at  *)
(* most, and the knowledge of the other workers is about other messages.   *)
Confined(w, m) ==
  \/ receipt' = receipt /\ sends' = sends
  \/ /\ \E id : Owns(w, m, id)
     /\ \A n \in Msgs : n # m => receipt'[n] = receipt[n] /\ sends'[n] = sends[n]

LEMMA OthersKnow ==
  ASSUME TypeOK, OwnerInv, ReceiptInv, NEW w \in Workers, NEW m \in Msgs,
         Confined(w, m), OthersSame(w), NEW v \in Workers, v # w
  PROVE  Knows(v)'
<1>1. ASSUME NEW n \in Msgs, NEW id, Owns(v, n, id)
      PROVE  receipt'[n] = receipt[n] /\ sends'[n] = sends[n]
  BY <1>1, OwnerFacts DEF Confined
<1>2. Knows(v)
  BY DEF ReceiptInv, WorkersKnow
<1>3. ReceiptAt(pc[v], held[v])'
  <2>1. CASE pc[v] \in Calls \ {"mark"}
    <3>1. held[v] \in Msgs /\ Owns(v, held[v], heldId[v])
      BY <2>1 DEF TypeOK, WorkersTyped, Owns
    <3>2. receipt'[held[v]] = receipt[held[v]] /\ sends'[held[v]] = sends[held[v]]
      BY <1>1, <3>1
    <3> QED
      BY <1>2, <3>2 DEF Knows, ReceiptAt, OthersSame
  <2>2. CASE pc[v] \notin Calls \ {"mark"}
    BY <2>2 DEF ReceiptAt, Calls, DbCalls, OthersSame
  <2> QED
    BY <2>1, <2>2
<1>4. ThreadAt(orphan[v], orphanMsg[v])'
  <2>1. CASE orphan[v] \in {"release", "complete"}
    <3>1. orphan[v] \in DbCalls \ {"mark"}
      BY <2>1 DEF DbCalls
    <3>2. orphanMsg[v] \in Msgs /\ Owns(v, orphanMsg[v], orphanId[v])
      BY <3>1 DEF TypeOK, WorkersTyped, Owns
    <3>3. /\ receipt'[orphanMsg[v]] = receipt[orphanMsg[v]]
          /\ sends'[orphanMsg[v]] = sends[orphanMsg[v]]
      BY <1>1, <3>2
    <3> QED
      BY <1>2, <3>3 DEF Knows, ThreadAt, OthersSame
  <2>2. CASE orphan[v] \notin {"release", "complete"}
    BY <2>2 DEF ThreadAt, OthersSame
  <2> QED
    BY <2>1, <2>2
<1> QED
  BY <1>3, <1>4 DEF Knows

LEMMA ReceiptInvFrom ==
  ASSUME TypeOK, OwnerInv, ReceiptInv, NEW w \in Workers, NEW m \in Msgs,
         Confined(w, m), OthersSame(w),
         ReceiptAt(pc[w], held[w])', ThreadAt(orphan[w], orphanMsg[w])',
         ClaimsHaveJobs', SendsHaveReceipts', AckedIsKept'
  PROVE  ReceiptInv'
<1>1. ASSUME NEW v \in Workers PROVE Knows(v)'
  BY OthersKnow DEF Knows
<1> QED
  BY <1>1 DEF ReceiptInv, WorkersKnow

(* A step of w's task on its message leaves alone what w's thread needs.   *)
LEMMA ThreadKnows ==
  ASSUME TypeOK, OwnerInv, ReceiptInv, NEW w \in Workers, pc[w] \in Calls,
         UNCHANGED <<orphan, orphanMsg>>,
         \/ receipt' = receipt /\ sends' = sends
         \/ pc[w] # "mark",
         \A n \in Msgs : n # held[w] => receipt'[n] = receipt[n] /\ sends'[n] = sends[n]
  PROVE  ThreadAt(orphan[w], orphanMsg[w])'
<1>1. ThreadAt(orphan[w], orphanMsg[w]) /\ Apart(w)
  BY DEF ReceiptInv, WorkersKnow, Knows, OwnerInv, OrphansApart
<1>2. CASE orphan[w] \notin {"release", "complete"}
  BY <1>2 DEF ThreadAt
<1>3. CASE orphan[w] \in {"release", "complete"}
  <2>1. orphan[w] \in DbCalls
    BY <1>3 DEF DbCalls
  <2>2. orphanMsg[w] \in Msgs
    BY <2>1 DEF TypeOK, WorkersTyped
  <2>3. pc[w] = "mark" \/ orphanMsg[w] # held[w]
    BY <1>1, <1>3, <2>1 DEF Apart
  <2> QED
    BY <1>1, <2>2, <2>3 DEF ThreadAt
<1> QED
  BY <1>2, <1>3

LEMMA ReturnsReceipts ==
  ASSUME TypeOK, OwnerInv, ReceiptInv, NEW w \in Workers, NEW p \in DbCalls,
         NEW next \in Calls \cup {"idle", "stopped"}, Moves(w, p, next)
  PROVE  ReceiptInv'
<1>0. pc[w] = p /\ p \in Calls /\ Leads(p, next) /\ Learns(w, p, next)
  BY DEF Moves, Returns, Calls
<1> PICK m \in Msgs : m = held[w]
  BY <1>0 DEF TypeOK, WorkersTyped
<1>1. /\ Effect(p, m, heldId[w]) /\ Goto(w, next)
      /\ p # "mark" => Owns(w, m, heldId[w])
      /\ UNCHANGED <<hookVars, sends>>
  BY <1>0 DEF Moves, Returns, Owns
<1>2. /\ receipt[m] \in {"none", "claimed", "completed"}
      /\ receipt \in [Msgs -> {"none", "claimed", "completed"}] /\ sends[m] \in Nat
  BY DEF TypeOK, TablesTyped
<1>3. ReceiptAt(p, m)
  BY <1>0 DEF ReceiptInv, WorkersKnow, Knows
<1>4. /\ ClaimsHaveJobs' /\ SendsHaveReceipts' /\ AckedIsKept'
      /\ \A n \in Msgs : n # m => receipt'[n] = receipt[n]
      /\ receipt[m] = "completed" => receipt'[m] = "completed"
      /\ p \notin {"claim", "skip", "confirm", "release"} => receipt' = receipt
  <2>1. ThreadAt(p, m)
    BY <1>3 DEF ReceiptAt, ThreadAt
  <2> QED
    BY <1>1, <2>1, EffectReceipts DEF hookVars
<1>5. /\ OthersSame(w) /\ pc'[w] = next /\ UNCHANGED <<orphan, orphanMsg, sends>>
      /\ next # "idle" => held'[w] = m
  BY <1>1, GotoSame
<1>6. ThreadAt(orphan[w], orphanMsg[w])'
  BY <1>0, <1>4, <1>5, ThreadKnows
<1>7. ReceiptAt(pc[w], held[w])'
  <2>1. CASE p = "claim"
    <3>1. receipt[m] # "claimed" /\ (next = "resolve" <=> receipt[m] = "none")
      BY <1>0, <1>3, <2>1 DEF ReceiptAt, Learns
    <3>2. next \in {"resolve", "complete"}
      BY <1>0, <2>1 DEF Leads
    <3>3. receipt' = [receipt EXCEPT ![m] = IF @ = "none" THEN "claimed" ELSE @]
      BY <1>1, <2>1 DEF Effect, ClaimReceipt
    <3>4. receipt[m] = "none" => sends[m] = 0
      BY <1>2 DEF ReceiptInv, SendsHaveReceipts
    <3> QED
      BY <1>2, <1>5, <3>1, <3>2, <3>3, <3>4 DEF ReceiptAt
  <2>2. CASE p \in {"skip", "confirm"}
    <3>1. receipt[m] = "claimed"
      BY <1>3, <2>2 DEF ReceiptAt
    <3>2. next \in {"complete", "finish"}
      BY <1>0, <2>2 DEF Leads
    <3>3. receipt' = [receipt EXCEPT ![m] = IF @ = "claimed" THEN "completed" ELSE @]
      BY <1>1, <2>2 DEF Effect, MarkProcessed
    <3> QED
      BY <1>2, <1>5, <3>1, <3>2, <3>3 DEF ReceiptAt
  <2>3. CASE p \in {"resolve", "begin", "help", "undo"}
    <3>1. receipt' = receipt /\ receipt[m] = "claimed" /\ sends[m] = 0
      BY <1>3, <1>4, <2>3 DEF ReceiptAt
    <3>2. next \in {"begin", "answer", "skip", "send", "release"}
      BY <1>0, <2>3 DEF Leads
    <3> QED
      BY <1>5, <3>1, <3>2 DEF ReceiptAt
  <2>4. CASE p = "finish"
    <3>1. receipt' = receipt /\ receipt[m] = "completed" /\ next = "complete"
      BY <1>0, <1>3, <1>4, <2>4 DEF ReceiptAt, Leads
    <3> QED
      BY <1>5, <3>1 DEF ReceiptAt
  <2>5. CASE p \in {"release", "complete", "mark"}
    <3>1. next \in {"idle", "mark", "stopped"}
      BY <1>0, <2>5 DEF Leads
    <3> QED
      BY <1>5, <3>1 DEF ReceiptAt
  <2> QED
    BY <2>1, <2>2, <2>3, <2>4, <2>5 DEF DbCalls
<1>8. Confined(w, m)
  BY <1>1, <1>4, <1>5 DEF Confined
<1> QED
  BY <1>4, <1>5, <1>6, <1>7, <1>8, ReceiptInvFrom

(* A worker that moves on without a commit: its knowledge carries over.    *)
LEMMA MoveReceipts ==
  ASSUME TypeOK, OwnerInv, ReceiptInv, NEW w \in Workers, OthersSame(w),
         UNCHANGED <<receipt, sends, job, acked>>,
         ReceiptAt(pc'[w], held'[w]), ThreadAt(orphan'[w], orphanMsg'[w])
  PROVE  ReceiptInv'
<1>1. ClaimsHaveJobs' /\ SendsHaveReceipts' /\ AckedIsKept'
  BY DEF ReceiptInv, ClaimsHaveJobs, SendsHaveReceipts, AckedIsKept
<1>2. ReceiptAt(pc[w], held[w])'
  BY DEF ReceiptAt
<1>3. ThreadAt(orphan[w], orphanMsg[w])'
  BY DEF ThreadAt
<1>4. ASSUME NEW v \in Workers, v # w PROVE Knows(v)'
  BY <1>4 DEF ReceiptInv, WorkersKnow, Knows, ReceiptAt, ThreadAt, OthersSame
<1> QED
  BY <1>1, <1>2, <1>3, <1>4 DEF ReceiptInv, WorkersKnow, Knows

(* An exception leads to a call whose knowledge the failed call had.       *)
LEMMA UnwindKnows ==
  ASSUME NEW p, NEW m, ReceiptAt(p, m)
  PROVE  ReceiptAt(Unwind(p), m)
<1>1. CASE p \in {"resolve", "begin", "skip"}
  <2>1. Unwind(p) = "release"
    BY <1>1 DEF Unwind
  <2> QED
    BY <1>1, <2>1 DEF ReceiptAt
<1>2. CASE p \in {"answer", "help"}
  <2>1. Unwind(p) = "undo"
    BY <1>2 DEF Unwind
  <2> QED
    BY <1>2, <2>1 DEF ReceiptAt
<1>3. CASE p \notin {"resolve", "begin", "skip", "answer", "help"}
  <2>1. Unwind(p) = "mark"
    BY <1>3 DEF Unwind
  <2> QED
    BY <2>1 DEF ReceiptAt
<1> QED
  BY <1>1, <1>2, <1>3

(* What w knows in every state, as facts to cite.                          *)
LEMMA KnowsNow ==
  ASSUME ReceiptInv, NEW w \in Workers
  PROVE  ReceiptAt(pc[w], held[w]) /\ ThreadAt(orphan[w], orphanMsg[w])
BY DEF ReceiptInv, WorkersKnow, Knows

LEMMA RaisesReceipts ==
  ASSUME TypeOK, OwnerInv, ReceiptInv, NEW w \in Workers, NEW p \in DbCalls, Raises(w, p)
  PROVE  ReceiptInv'
<1>1. UNCHANGED <<receipt, sends, job, acked>>
  BY DEF Raises, inboxVars, hookVars
<1>2. pc[w] = p /\ ReceiptAt(p, held[w]) /\ ThreadAt(orphan[w], orphanMsg[w])
  BY KnowsNow, RaisesLeads
<1>3. CASE p = "mark"
  <2>1. Goto(w, "idle")
    BY <1>3, RaisesLeads
  <2>2. OthersSame(w) /\ pc'[w] = "idle" /\ UNCHANGED <<orphan, orphanMsg>>
    BY <2>1, GotoSame
  <2>3. ReceiptAt(pc'[w], held'[w])
    BY <2>2 DEF ReceiptAt
  <2> QED
    BY <1>1, <1>2, <2>2, <2>3, MoveReceipts
<1>4. CASE p # "mark"
  <2>1. Goto(w, Unwind(p)) /\ Unwind(p) # "idle"
    BY <1>4, RaisesLeads
  <2>2. /\ OthersSame(w) /\ pc'[w] = Unwind(p) /\ held'[w] = held[w]
        /\ UNCHANGED <<orphan, orphanMsg>>
    BY <2>1, GotoSame
  <2>3. ReceiptAt(Unwind(p), held[w])
    BY <1>2, UnwindKnows
  <2> QED
    BY <1>1, <1>2, <2>2, <2>3, MoveReceipts
<1> QED
  BY <1>3, <1>4

(* A send is the first one of its message, and its receipt is claimed.     *)
LEMMA IssueReceipts ==
  ASSUME TypeOK, OwnerInv, ReceiptInv, NEW w \in Workers, pc[w] = "send",
         Issue(held[w]), UNCHANGED <<receipt, job, acked, held>>,
         UNCHANGED <<orphan, orphanMsg>>, OthersSame(w),
         pc'[w] \in {"confirm", "mark"}
  PROVE  ReceiptInv'
<1>0. pc[w] \in Calls
  BY DEF Calls
<1> PICK m \in Msgs : m = held[w]
  BY <1>0 DEF TypeOK, WorkersTyped
<1>1. sends \in [Msgs -> Nat]
  BY DEF TypeOK
<1>2. receipt[m] = "claimed" /\ sends[m] = 0
  BY KnowsNow DEF ReceiptAt
<1>3. sends' = [sends EXCEPT ![m] = 1]
  BY <1>1, <1>2 DEF Issue
<1>4. SendsHaveReceipts'
  BY <1>1, <1>2, <1>3 DEF ReceiptInv, SendsHaveReceipts
<1>5. ClaimsHaveJobs' /\ AckedIsKept'
  BY DEF ReceiptInv, ClaimsHaveJobs, AckedIsKept
<1>6. ReceiptAt(pc[w], held[w])'
  BY <1>2 DEF ReceiptAt
<1>7. \A n \in Msgs : n # m => receipt'[n] = receipt[n] /\ sends'[n] = sends[n]
  BY <1>3
<1>8. ThreadAt(orphan[w], orphanMsg[w])'
  BY <1>0, <1>7, ThreadKnows
<1>9. Confined(w, m)
  BY <1>0, <1>7 DEF Confined, Owns
<1> QED
  BY <1>4, <1>5, <1>6, <1>8, <1>9, ReceiptInvFrom

LEMMA WorkerReceipts ==
  ASSUME TypeOK, OwnerInv, ReceiptInv, NEW w \in Workers,
         Poll(w) \/ Answer(w) \/ Send(w)
  PROVE  ReceiptInv'
<1>1. CASE Poll(w)
  <2>1. PICK m \in Msgs : /\ job[m] = "pending" /\ job' = [job EXCEPT ![m] = "processing"]
                          /\ held' = [held EXCEPT ![w] = m]
                          /\ heldId' = [heldId EXCEPT ![w] = jobId[m]]
    BY <1>1 DEF Poll, StartJob, Oldest, Pending
  <2>2. PICK next \in {"claim", "mark"} : pc' = [pc EXCEPT ![w] = next]
    BY <1>1 DEF Poll
  <2>3. UNCHANGED <<orphan, orphanMsg, orphanId, receipt, acked, sends>>
    BY <1>1 DEF Poll, threadVars, hookVars
  <2>4. receipt[m] # "claimed"
    BY <2>1 DEF ReceiptInv, ClaimsHaveJobs
  <2>5. \A n \in Msgs : job'[n] = IF n = m THEN "processing" ELSE job[n]
    BY <2>1 DEF TypeOK, TablesTyped
  <2>6. ClaimsHaveJobs' /\ SendsHaveReceipts' /\ AckedIsKept'
    BY <2>3, <2>5 DEF ReceiptInv, ClaimsHaveJobs, SendsHaveReceipts, AckedIsKept,
                      TypeOK, HooksTyped
  <2>7. pc'[w] = next /\ held'[w] = m /\ OthersSame(w)
    BY <2>1, <2>2, <2>3 DEF OthersSame, TypeOK, WorkersTyped
  <2>8. ReceiptAt(pc[w], held[w])'
    BY <2>3, <2>4, <2>7 DEF ReceiptAt
  <2>9. ThreadAt(orphan[w], orphanMsg[w])'
    BY <2>3, KnowsNow DEF ThreadAt
  <2>10. Confined(w, m)
    BY <2>3 DEF Confined
  <2> QED
    BY <2>6, <2>7, <2>8, <2>9, <2>10, ReceiptInvFrom
<1>2. CASE Answer(w)
  <2>1. /\ pc[w] = "answer" /\ ReceiptAt("answer", held[w])
        /\ ThreadAt(orphan[w], orphanMsg[w])
        /\ UNCHANGED <<receipt, sends, job, acked>>
    BY <1>2, KnowsNow DEF Answer, inboxVars, hookVars
  <2>2. \E next \in {"send", "help", "undo"} : pc' = [pc EXCEPT ![w] = next]
    BY <1>2 DEF Answer, Goto
  <2>3. UNCHANGED <<held, heldId, orphan, orphanMsg, orphanId>>
    BY <1>2 DEF Answer, Goto, threadVars
  <2>4. pc'[w] \in {"send", "help", "undo"} /\ OthersSame(w)
    BY <2>2, <2>3 DEF OthersSame, TypeOK, WorkersTyped
  <2>5. ReceiptAt(pc'[w], held'[w])
    BY <2>1, <2>3, <2>4 DEF ReceiptAt
  <2> QED
    BY <2>1, <2>3, <2>4, <2>5, MoveReceipts
<1>3. CASE Send(w)
  <2>1. \E next \in {"confirm", "mark"} : pc' = [pc EXCEPT ![w] = next]
    BY <1>3 DEF Send, Goto
  <2>2. UNCHANGED <<held, heldId, orphan, orphanMsg, orphanId>>
    BY <1>3 DEF Send, Goto, threadVars
  <2>3. pc'[w] \in {"confirm", "mark"} /\ OthersSame(w)
    BY <2>1, <2>2 DEF OthersSame, TypeOK, WorkersTyped
  <2>4. pc[w] = "send" /\ Issue(held[w]) /\ UNCHANGED <<receipt, job, acked>>
    BY <1>3 DEF Send, inboxVars, hookVars
  <2> QED
    BY <2>2, <2>3, <2>4, IssueReceipts
<1> QED
  BY <1>1, <1>2, <1>3

LEMMA FaultReceipts ==
  ASSUME TypeOK, OwnerInv, ReceiptInv, NEW w \in Workers, WorkerFault(w), ~CallFails(w)
  PROVE  ReceiptInv'
<1>0. ReceiptAt(pc[w], held[w]) /\ ThreadAt(orphan[w], orphanMsg[w])
  BY KnowsNow
<1>1. CASE Cancel(w)
  <2>1. UNCHANGED <<receipt, job, acked, held, heldId>>
    BY <1>1 DEF Cancel, inboxVars, hookVars
  <2>2. CASE /\ pc[w] \in {"idle", "mark"}
             /\ pc' = [pc EXCEPT ![w] = "stopped"]
             /\ Leave(w, IF pc[w] = "idle" THEN "poll" ELSE "mark")
             /\ UNCHANGED sends
    <3>1. OthersSame(w) /\ pc'[w] = "stopped" /\ orphan'[w] \in {"poll", "mark"}
      BY <2>1, <2>2, LeaveSame
    <3>2. ReceiptAt(pc'[w], held'[w]) /\ ThreadAt(orphan'[w], orphanMsg'[w])
      BY <3>1 DEF ReceiptAt, ThreadAt
    <3> QED
      BY <2>1, <2>2, <3>1, <3>2, MoveReceipts
  <2>3. CASE /\ pc[w] \in DbCalls \ {"mark"}
             /\ pc' = [pc EXCEPT ![w] = Unwind(pc[w])]
             /\ Leave(w, pc[w])
             /\ UNCHANGED sends
    <3>1. /\ OthersSame(w) /\ pc'[w] = Unwind(pc[w])
          /\ orphan'[w] = pc[w] /\ orphanMsg'[w] = held[w]
      BY <2>1, <2>3, LeaveSame
    <3>2. ReceiptAt(pc'[w], held'[w])
      BY <1>0, <2>1, <3>1, UnwindKnows
    <3>3. ThreadAt(orphan'[w], orphanMsg'[w])
      BY <1>0, <3>1 DEF ReceiptAt, ThreadAt
    <3> QED
      BY <2>1, <2>3, <3>1, <3>2, <3>3, MoveReceipts
  <2>4. CASE /\ pc[w] \in {"answer", "send"}
             /\ pc' = [pc EXCEPT ![w] = Unwind(pc[w])]
             /\ IF pc[w] = "send" THEN Issue(held[w]) ELSE UNCHANGED sends
             /\ UNCHANGED threadVars
    <3>1. /\ OthersSame(w) /\ pc'[w] = Unwind(pc[w])
          /\ UNCHANGED <<orphan, orphanMsg>>
      BY <2>1, <2>4 DEF OthersSame, TypeOK, WorkersTyped, threadVars
    <3>2. CASE pc[w] = "answer"
      <4>1. ReceiptAt(pc'[w], held'[w])
        BY <1>0, <2>1, <3>1, UnwindKnows
      <4> QED
        BY <1>0, <2>1, <2>4, <3>1, <3>2, <4>1, MoveReceipts
    <3>3. CASE pc[w] = "send"
      <4>1. Unwind(pc[w]) = "mark"
        BY <3>3 DEF Unwind
      <4> QED
        BY <2>1, <2>4, <3>1, <3>3, <4>1, IssueReceipts
    <3> QED
      BY <2>4, <3>2, <3>3
  <2> QED
    BY <1>1, <2>2, <2>3, <2>4 DEF Cancel
<1>2. ASSUME ThreadEnds(w), UNCHANGED taskVars
      PROVE  /\ OthersSame(w) /\ UNCHANGED <<pc, held>>
             /\ ThreadAt(orphan[w], orphanMsg[w])'
  <2>1. OthersSame(w) /\ orphan'[w] = "none" /\ UNCHANGED <<pc, held, heldId>>
    BY <1>2, ThreadEndsSame
  <2> QED
    BY <2>1 DEF ThreadAt
<1>3. CASE OrphanRuns(w)
  <2>0. orphanMsg[w] \in Msgs
    BY <1>3 DEF OrphanRuns, TypeOK, WorkersTyped
  <2> PICK m \in Msgs : m = orphanMsg[w]
    BY <2>0
  <2> PICK p \in DbCalls : p = orphan[w]
    BY <1>3 DEF OrphanRuns
  <2>1. /\ Effect(p, m, orphanId[w]) /\ ThreadEnds(w) /\ UNCHANGED taskVars
        /\ UNCHANGED <<sends, acked>>
        /\ p # "mark" => Owns(w, m, orphanId[w])
    BY <1>3 DEF OrphanRuns, Owns, hookVars
  <2>2. /\ ClaimsHaveJobs' /\ SendsHaveReceipts' /\ AckedIsKept'
        /\ \A n \in Msgs : n # m => receipt'[n] = receipt[n]
        /\ p \notin {"claim", "skip", "confirm", "release"} => receipt' = receipt
    BY <1>0, <2>1, EffectReceipts
  <2>3. /\ OthersSame(w) /\ UNCHANGED <<pc, held>>
        /\ ThreadAt(orphan[w], orphanMsg[w])'
    BY <1>2, <2>1
  <2>4. Confined(w, m)
    BY <2>1, <2>2 DEF Confined
  <2>5. ReceiptAt(pc[w], held[w])'
    <3>1. CASE pc[w] \notin Calls \ {"mark"}
      BY <2>3, <3>1 DEF ReceiptAt, Calls, DbCalls
    <3>2. CASE pc[w] \in Calls \ {"mark"}
      <4>1. held[w] \in Msgs
        BY <3>2 DEF TypeOK, WorkersTyped
      <4>2. CASE held[w] # m \/ receipt' = receipt
        <5>1. receipt'[held[w]] = receipt[held[w]]
          BY <2>2, <4>1, <4>2
        <5> QED
          BY <1>0, <2>1, <2>3, <5>1 DEF ReceiptAt
      <4>3. CASE held[w] = m /\ receipt' # receipt
        <5>1. pc[w] = "release" /\ p = "skip"
          BY <2>2, <3>2, <4>3 DEF OwnerInv, OrphansApart, Apart
        <5>2. MarkProcessed(m)
          BY <2>1, <5>1 DEF Effect
        <5> QED
          BY <1>0, <2>1, <2>3, <4>3, <5>1, <5>2
             DEF MarkProcessed, ReceiptAt, TypeOK, TablesTyped
      <4> QED
        BY <4>2, <4>3
    <3> QED
      BY <3>1, <3>2
  <2> QED
    BY <2>2, <2>3, <2>4, <2>5, ReceiptInvFrom
<1>4. CASE OrphanPolls(w)
  <2>1. PICK m \in Msgs :
          /\ job[m] = "pending" /\ StartJob(m)
          /\ \/ ThreadEnds(w)
             \/ /\ orphan'    = [orphan EXCEPT ![w] = "mark"]
                /\ orphanMsg' = [orphanMsg EXCEPT ![w] = m]
                /\ orphanId'  = [orphanId EXCEPT ![w] = jobId[m]]
    BY <1>4 DEF OrphanPolls, Oldest, Pending
  <2>2. UNCHANGED taskVars /\ UNCHANGED <<receipt, sends, acked>>
    BY <1>4 DEF OrphanPolls, hookVars
  <2>3. \A n \in Msgs : job'[n] = IF n = m THEN "processing" ELSE job[n]
    BY <2>1 DEF StartJob, TypeOK, TablesTyped
  <2>4. ClaimsHaveJobs' /\ SendsHaveReceipts' /\ AckedIsKept'
    BY <2>1, <2>2, <2>3 DEF ReceiptInv, ClaimsHaveJobs, SendsHaveReceipts, AckedIsKept,
                            TypeOK, HooksTyped
  <2>5. /\ OthersSame(w) /\ UNCHANGED <<pc, held>>
        /\ ThreadAt(orphan[w], orphanMsg[w])'
    <3>1. CASE /\ orphan'    = [orphan EXCEPT ![w] = "mark"]
               /\ orphanMsg' = [orphanMsg EXCEPT ![w] = m]
               /\ orphanId'  = [orphanId EXCEPT ![w] = jobId[m]]
      <4>1. OthersSame(w) /\ orphan'[w] = "mark" /\ UNCHANGED <<pc, held>>
        BY <2>2, <3>1 DEF OthersSame, taskVars, TypeOK, WorkersTyped
      <4> QED
        BY <4>1 DEF ThreadAt
    <3> QED
      BY <1>2, <2>1, <2>2, <3>1
  <2>6. ReceiptAt(pc[w], held[w])' /\ Confined(w, m)
    BY <1>0, <2>2, <2>5 DEF ReceiptAt, Confined
  <2> QED
    BY <2>4, <2>5, <2>6, ReceiptInvFrom
<1>5. CASE OrphanEnds(w)
  <2>1. /\ ThreadEnds(w) /\ UNCHANGED taskVars
        /\ UNCHANGED <<receipt, sends, job, acked>>
    BY <1>5 DEF OrphanEnds, inboxVars, hookVars
  <2>2. OthersSame(w) /\ orphan'[w] = "none" /\ UNCHANGED <<pc, held, heldId>>
    BY <2>1, ThreadEndsSame
  <2>3. ReceiptAt(pc'[w], held'[w]) /\ ThreadAt(orphan'[w], orphanMsg'[w])
    BY <1>0, <2>2 DEF ThreadAt
  <2> QED
    BY <2>1, <2>2, <2>3, MoveReceipts
<1>6. CASE Restart(w) \/ Crash(w)
  <2>1. /\ OthersSame(w) /\ pc'[w] = "idle" /\ orphan'[w] = "none"
        /\ UNCHANGED <<receipt, sends, job, acked>>
    BY <1>6 DEF Restart, Crash, Forget, ThreadEnds, threadVars, OthersSame, TypeOK,
                WorkersTyped, inboxVars, hookVars
  <2>2. ReceiptAt(pc'[w], held'[w]) /\ ThreadAt(orphan'[w], orphanMsg'[w])
    BY <2>1 DEF ReceiptAt, ThreadAt
  <2> QED
    BY <2>1, <2>2, MoveReceipts
<1> QED
  BY <1>1, <1>3, <1>4, <1>5, <1>6 DEF WorkerFault

(* A request acknowledges what is in the inbox or was processed.           *)
LEMMA HookReceipts ==
  ASSUME TypeOK, OwnerInv, ReceiptInv, NEW h \in Hooks, HookStep(h)
  PROVE  ReceiptInv'
<1> USE DEF TypeOK
<1>1. UNCHANGED <<pc, held, orphan, orphanMsg, receipt, sends>>
  BY DEF HookStep, Deliver, ReadExisting, ReadProcessed, Insert, HookFails,
         workerVars, taskVars, threadVars
<1>2. WorkersKnow' /\ SendsHaveReceipts'
  BY <1>1 DEF ReceiptInv, WorkersKnow, Knows, ReceiptAt, ThreadAt, SendsHaveReceipts
<1>3. hookPc[h] # "idle" => hookMsg[h] \in Msgs
  BY DEF HooksTyped
<1>4. CASE UNCHANGED <<job, acked>>
  BY <1>1, <1>2, <1>4 DEF ReceiptInv, ClaimsHaveJobs, AckedIsKept
<1>5. CASE /\ UNCHANGED job /\ acked' \subseteq acked \cup {hookMsg[h]}
           /\ \/ job[hookMsg[h]] # "absent"
              \/ receipt[hookMsg[h]] # "none"
           /\ hookPc[h] # "idle"
  <2>1. ClaimsHaveJobs'
    BY <1>1, <1>5 DEF ReceiptInv, ClaimsHaveJobs
  <2>2. job[hookMsg[h]] # "absent" \/ receipt[hookMsg[h]] = "completed"
    BY <1>3, <1>5 DEF ReceiptInv, ClaimsHaveJobs, TablesTyped
  <2>3. AckedIsKept'
    BY <1>1, <1>5, <2>2 DEF ReceiptInv, AckedIsKept
  <2> QED
    BY <1>2, <2>1, <2>3 DEF ReceiptInv
<1>6. CASE /\ job[hookMsg[h]] = "absent" /\ job' = [job EXCEPT ![hookMsg[h]] = "pending"]
           /\ acked' \subseteq acked \cup {hookMsg[h]} /\ hookPc[h] # "idle"
  <2>1. \A n \in Msgs : job'[n] = IF n = hookMsg[h] THEN "pending" ELSE job[n]
    BY <1>6 DEF TablesTyped
  <2>2. ClaimsHaveJobs'
    BY <1>1, <1>3, <1>6, <2>1 DEF ReceiptInv, ClaimsHaveJobs
  <2>3. AckedIsKept'
    BY <1>1, <1>3, <1>6, <2>1 DEF ReceiptInv, AckedIsKept, HooksTyped
  <2> QED
    BY <1>2, <2>2, <2>3 DEF ReceiptInv
<1>7. Reply200(h) => acked' \subseteq acked \cup {hookMsg[h]}
  BY DEF Reply200
<1>8. CASE ReadExisting(h) \/ ReadProcessed(h)
  BY <1>4, <1>5, <1>7, <1>8 DEF ReadExisting, ReadProcessed, Goes, Reply503, inboxVars
<1>9. CASE Insert(h)
  BY <1>4, <1>6, <1>7, <1>9 DEF Insert, InsertJob, Reply503, inboxVars
<1>10. CASE HookFails(h) \/ \E m \in Msgs : Deliver(h, m)
  BY <1>4, <1>10 DEF HookFails, Reply503, Deliver, inboxVars
<1> QED
  BY <1>8, <1>9, <1>10 DEF HookStep
-----------------------------------------------------------------------------
(* FlowInv holds at first and every step keeps it.                         *)
LEMMA FlowInvInit == Init => FlowInv
<1> SUFFICES ASSUME Init PROVE FlowInv
  OBVIOUS
<1>1. OwnerInv
  BY NoCalls DEF Init, OwnerInv, OrphansApart, Apart, OwnedJobs, OwnersDiffer,
                 RowidsDiffer, Owns, Present
<1>2. ReceiptInv
  BY DEF Init, ReceiptInv, WorkersKnow, Knows, ReceiptAt, ThreadAt, ClaimsHaveJobs,
         SendsHaveReceipts, AckedIsKept
<1> QED
  BY <1>1, <1>2, TypeOKInit DEF FlowInv

LEMMA FlowInvStep == FlowInv /\ [Next]_vars => FlowInv'
<1> SUFFICES ASSUME TypeOK, OwnerInv, ReceiptInv, [Next]_vars
             PROVE  OwnerInv' /\ ReceiptInv'
  BY TypeOKStep DEF FlowInv
<1>1. ASSUME NEW w \in Workers, NEW p \in DbCalls, Raises(w, p)
      PROVE  OwnerInv' /\ ReceiptInv'
  BY <1>1, RaisesOwner, RaisesReceipts
<1>2. ASSUME NEW w \in Workers, NEW p \in DbCalls,
             NEW next \in Calls \cup {"idle", "stopped"}, Moves(w, p, next)
      PROVE  OwnerInv' /\ ReceiptInv'
  BY <1>2, ReturnsOwner, ReturnsReceipts DEF Moves
<1>3. ASSUME NEW w \in Workers, Poll(w) \/ Answer(w) \/ Send(w)
      PROVE  OwnerInv' /\ ReceiptInv'
  BY <1>3, WorkerOwner, WorkerReceipts
<1>4. ASSUME NEW w \in Workers, Advance(w)
      PROVE  OwnerInv' /\ ReceiptInv'
  BY <1>1, <1>2, <1>3, <1>4, AdvanceCases
<1>5. ASSUME NEW w \in Workers, WorkerFault(w)
      PROVE  OwnerInv' /\ ReceiptInv'
  BY <1>1, <1>5, CallFailsRaises, FaultOwner, FaultReceipts
<1>6. ASSUME UNCHANGED <<inboxVars, receipt, workerVars, hookVars, sends>>
      PROVE  OwnerInv' /\ ReceiptInv'
  <2> USE <1>6 DEF inboxVars, workerVars, taskVars, threadVars, hookVars
  <2>1. OrphansApart' /\ OwnersDiffer' /\ RowidsDiffer'
    BY DEF OwnerInv, OrphansApart, Apart, OwnersDiffer, RowidsDiffer, Owns, Present
  <2>2. OwnedJobs'
    BY DEF OwnerInv, OwnedJobs, Owns
  <2>3. WorkersKnow'
    BY DEF ReceiptInv, WorkersKnow, Knows, ReceiptAt, ThreadAt
  <2>4. ClaimsHaveJobs' /\ SendsHaveReceipts' /\ AckedIsKept'
    BY DEF ReceiptInv, ClaimsHaveJobs, SendsHaveReceipts, AckedIsKept
  <2> QED
    BY <2>1, <2>2, <2>3, <2>4 DEF OwnerInv, ReceiptInv
<1>7. ASSUME NEW s \in Senders, PanelStep(s)
      PROVE  OwnerInv' /\ ReceiptInv'
  BY <1>6, <1>7 DEF PanelStep, TakeOver, GiveBack
<1>8. CASE UNCHANGED vars
  BY <1>6, <1>8 DEF vars
<1> QED
  BY <1>3, <1>4, <1>5, <1>7, <1>8, HookOwner, HookReceipts DEF Next

(* The inductive invariant of the flow holds in every state.               *)
THEOREM FlowSafety == Spec => []FlowInv
  BY FlowInvInit, FlowInvStep, PTL DEF Spec

(* No message is answered twice, by whatever worker, after whatever        *)
(* redelivery, crash, cancellation or failure of the database or provider. *)
THEOREM AnsweredAtMostOnce == Spec => []AtMostOneSend
<1>1. FlowInv => AtMostOneSend
  BY DEF FlowInv, ReceiptInv, SendsHaveReceipts, AtMostOneSend
<1> QED
  BY FlowSafety, <1>1, PTL

(* A message acknowledged to GreenAPI stays in the inbox until its receipt *)
(* is completed.                                                           *)
THEOREM AcknowledgedIsKept == Spec => []AckedIsKept
<1>1. FlowInv => AckedIsKept
  BY DEF FlowInv, ReceiptInv
<1> QED
  BY FlowSafety, <1>1, PTL

(* A started job is never offered to a worker again, and a job of unknown  *)
(* outcome stays for the operator: nothing is resent automatically.        *)
THEOREM NotRequeued == Spec => NeverRequeued
<1> DEFINE Stays == \A m \in Msgs :
             /\ job[m] = "processing" => job'[m] # "pending"
             /\ job[m] = "uncertain" => job'[m] = "uncertain"
<1>1. ASSUME TypeOK, [Next]_vars PROVE Stays
  <2>0. job \in [Msgs -> JobStatus]
    BY <1>1 DEF TypeOK, TablesTyped
  <2>1. ASSUME UNCHANGED inboxVars PROVE Stays
    BY <2>1 DEF inboxVars
  <2>2. ASSUME NEW m \in Msgs, job[m] = "pending", StartJob(m) PROVE Stays
    BY <2>0, <2>2 DEF StartJob
  <2>3. ASSUME NEW p, NEW m, NEW id, Effect(p, m, id) PROVE Stays
    BY <2>0, <2>1, <2>3 DEF Effect, DeleteJob, MarkUncertain, InProcess
  <2>4. ASSUME NEW w \in Workers, Poll(w) \/ OrphanPolls(w) PROVE Stays
    BY <2>2, <2>4 DEF Poll, OrphanPolls, Oldest, Pending
  <2>5. ASSUME NEW w \in Workers, Advance(w) PROVE Stays
    BY <2>1, <2>3, <2>5, AdvanceCases DEF Answer, Send, Moves, Returns, Raises
  <2>6. ASSUME NEW w \in Workers, WorkerFault(w) PROVE Stays
    BY <2>1, <2>3, <2>4, <2>6 DEF WorkerFault, CallFails, Raises, Cancel, OrphanRuns,
                                  OrphanEnds, Restart, Crash
  <2>7. ASSUME NEW h \in Hooks, HookStep(h) PROVE Stays
    <3>1. ASSUME job[hookMsg[h]] = "absent", InsertJob(hookMsg[h]) PROVE Stays
      BY <2>0, <3>1 DEF InsertJob
    <3> QED
      BY <2>1, <2>7, <3>1 DEF HookStep, Deliver, ReadExisting, ReadProcessed, Insert,
                              HookFails
  <2>8. ASSUME NEW s \in Senders, PanelStep(s) PROVE Stays
    BY <2>1, <2>8 DEF PanelStep, TakeOver, GiveBack
  <2>9. CASE UNCHANGED vars
    BY <2>1, <2>9 DEF vars
  <2> QED
    BY <1>1, <2>4, <2>5, <2>6, <2>7, <2>8, <2>9 DEF Next
<1>2. TypeOK /\ [Next]_vars => [Stays]_vars
  BY <1>1
<1> QED
  BY <1>2, TypeSafety, PTL DEF Spec, NeverRequeued
=============================================================================
