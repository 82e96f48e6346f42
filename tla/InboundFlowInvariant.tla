------------------------ MODULE InboundFlowInvariant ------------------------
(***************************************************************************)
(* The inductive invariant of InboundFlow: why a message is answered once. *)
(***************************************************************************)
EXTENDS InboundFlow

(* Worker w works on message m under rowid id: its task does, or a thread  *)
(* it left behind.  Who only marks a job is not counted, for it may be the *)
(* second of the two, and the first may have changed the job meanwhile.    *)
Owns(w, m, id) ==
  \/ pc[w] \in Calls \ {"mark"} /\ held[w] = m /\ heldId[w] = id
  \/ orphan[w] \in DbCalls \ {"mark"} /\ orphanMsg[w] = m /\ orphanId[w] = id

(* Owners work on a row that was started, under the rowid it has now.      *)
OwnedJobs ==
  \A w \in Workers, m \in Msgs : \A id \in {heldId[w], orphanId[w]} :
    Owns(w, m, id) => job[m] \in {"processing", "uncertain"} /\ jobId[m] = id

OwnersDiffer ==
  \A v, w \in Workers, m \in Msgs :
    Owns(v, m, jobId[m]) /\ Owns(w, m, jobId[m]) => v = w

(* Rowids are reused but never shared.                                     *)
RowidsDiffer == \A m, n \in Present : m # n => jobId[m] # jobId[n]

(* A task meets the thread it left on the same message only while it gives *)
(* back what that thread does not use.                                     *)
Apart(w) ==
  /\ orphan[w] \in {"poll", "mark"} => pc[w] = "stopped"
  /\ orphan[w] \in DbCalls /\ orphanMsg[w] = held[w] =>
       \/ pc[w] \notin Calls \ {"mark"}
       \/ pc[w] = "undo" /\ orphan[w] = "help"
       \/ pc[w] = "release" /\ orphan[w] \in {"resolve", "begin", "skip", "help"}

OrphansApart == \A w \in Workers : Apart(w)

(* What a worker that awaits call p knows of the receipt of its message.   *)
ReceiptAt(p, m) ==
  /\ p = "claim" => receipt[m] # "claimed"
  /\ p \in {"resolve", "begin", "skip", "answer", "help", "send", "undo"} =>
       receipt[m] = "claimed" /\ sends[m] = 0
  /\ p = "release" => receipt[m] # "none" /\ sends[m] = 0
  /\ p = "confirm" => receipt[m] = "claimed"
  /\ p \in {"finish", "complete"} => receipt[m] = "completed"

(* What is still true when the thread of a cancelled call p takes effect.  *)
ThreadAt(p, m) ==
  /\ p = "release" => sends[m] = 0
  /\ p = "complete" => receipt[m] = "completed"

Knows(w) == ReceiptAt(pc[w], held[w]) /\ ThreadAt(orphan[w], orphanMsg[w])

WorkersKnow == \A w \in Workers : Knows(w)

(* A claimed receipt belongs to a started job.                             *)
ClaimsHaveJobs ==
  \A m \in Msgs : receipt[m] = "claimed" => job[m] \in {"processing", "uncertain"}

SendsHaveReceipts ==
  \A m \in Msgs : sends[m] <= 1 /\ (sends[m] = 1 => receipt[m] # "none")

OwnerInv   == OrphansApart /\ OwnedJobs /\ OwnersDiffer /\ RowidsDiffer
ReceiptInv == WorkersKnow /\ ClaimsHaveJobs /\ SendsHaveReceipts /\ AckedIsKept

FlowInv == TypeOK /\ OwnerInv /\ ReceiptInv
-----------------------------------------------------------------------------
(* Why staff never meet a reply in flight: a conversation's row counts the *)
(* replies to it, and only a resolved conversation has any.                *)
ReplyCalls == {"answer", "help", "send", "confirm", "finish", "undo"}

SendersKnown ==
  \A w \in Workers :
    /\ pc[w] \in {"begin", "skip"} \cup ReplyCalls => SenderOf[held[w]] \in known
    /\ orphan[w] \in {"begin", "help", "finish", "undo"} => SenderOf[orphanMsg[w]] \in known

RowsBegin == \A s \in Senders \ known : row[s] = NewRow

RepliesCounted ==
  \A s \in Senders : IsFiniteSet(Replies(s)) /\ Cardinality(Replies(s)) <= row[s].aiReplies

OwnersChecked == \A s \in Senders : OwnerCheck(row[s])

(* Only a worker that asked for help acknowledges.                         *)
AcksAsked ==
  \A w \in Workers : pc[w] \in {"idle", "claim", "resolve", "begin", "skip", "answer"} => ~ack[w]

ReplyInv == SendersKnown /\ RowsBegin /\ RepliesCounted /\ OwnersChecked /\ AcksAsked /\ AckImpliesAlert

(* Why the inbox is bounded: requests that may still insert are counted as *)
(* if they had.                                                            *)
Admitted == {h \in Hooks : hookPc[h] # "idle" /\ hookCount[h] < MaxJobs}

AdmittedFit ==
  /\ \A h \in Hooks : hookPc[h] = "insert" => hookCount[h] < MaxJobs
  /\ Cardinality(Present) + Cardinality(Admitted) <= MaxJobs + Cardinality(Hooks) - 1

(* With one worker nobody else asks for help while it answers.             *)
AnswersQuietly ==
  \A w \in Workers :
    /\ orphan[w] = "none" /\ (pc[w] = "help" => ack[w])
    /\ pc[w] \in {"answer", "send"} /\ ~ack[w] => ~row[SenderOf[held[w]]].help
=============================================================================
