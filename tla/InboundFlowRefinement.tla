------------------------ MODULE InboundFlowRefinement ------------------------
(***************************************************************************)
(* InboundFlow implements ReplyOnce.                                       *)
(***************************************************************************)
EXTENDS InboundFlowInvariant

Promise == INSTANCE ReplyOnce WITH
  waiting <- Pending,
  before  <- {p \in Pending \X Pending : jobId[p[1]] < jobId[p[2]]},
  started <- Present \ Pending,
  closed  <- {m \in Msgs : receipt[m] = "completed"},
  answers <- sends

(* Whatever fails, every step of the flow is a step of the promise or      *)
(* leaves it alone: rowid reuse keeps the arrival order, a job disappears  *)
(* only behind a completed receipt, and a message is answered once, while  *)
(* its job is started (whatsapp_inbound_queue.py, message_orchestrator.py).*)
KeepsPromise == Promise!Spec
=============================================================================
