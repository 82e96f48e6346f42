------------------------------ MODULE ToolLoop ------------------------------
(***************************************************************************)
(* Answering a message with tools: the model is asked, its calls are       *)
(* validated and dispatched one after the other to a few worker threads,   *)
(* and it is asked again, a bounded number of times. A call that takes too *)
(* long is given up while its thread runs on and keeps its slot.           *)
(* Arguments, texts and results are left out, and so is what a shut-down   *)
(* interrupts.                                                             *)
(***************************************************************************)
EXTENDS Naturals, FiniteSets

CONSTANTS
  Chats,      \* messages being answered
  Futures,    \* calls handed to the workers that are not done
  Slots,      \* MAX_TOOL_WORKERS
  MaxRounds,  \* MAX_TOOL_ROUNDS
  MaxCalls    \* MAX_CALLS_PER_RESPONSE

ASSUME ToolLoopAssumption ==
  Slots \in Nat \ {0} /\ MaxRounds \in Nat /\ MaxCalls \in Nat /\ IsFiniteSet(Futures) /\ Cardinality(Futures) >= Slots

VARIABLES
  chat,    \* where each message is: its round, its calls and how many of them were answered
  free,    \* value of _WORKER_SLOTS
  future   \* what becomes of each submitted call

toolVars == <<chat, free, future>>

NoChat == [at |-> "none"]
NoFuture == [at |-> "none"]
Busy == {f \in Futures : future[f].at \in {"running", "lost", "done"}}  \* their threads
Submitting == {c \in Chats : chat[c].at = "submit"}
Unfinished == {f \in Futures : future[f] # NoFuture}
EndChat(c) == chat' = [chat EXCEPT ![c] = NoChat]
Goes(c, step) == chat' = [chat EXCEPT ![c].at = step]

-----------------------------------------------------------------------------
StartChat(c) ==
  /\ chat[c] = NoChat
  /\ chat' = [chat EXCEPT ![c] = [at |-> "ask", round |-> 0, asked |-> 0, answered |-> 0]]
  /\ UNCHANGED <<free, future>>

\* Operators that start with "Wrong" carry one mistake the properties must notice; no action uses them.
WrongMayCall(c, calls) == chat[c].round <= MaxRounds /\ calls <= MaxCalls
\* _read_response refuses a response with too many calls before any of them is executed; the last response may
\* not call at all.
MayCall(c, calls) == chat[c].round < MaxRounds /\ calls <= MaxCalls

\* A final text, a provider failure or a response that is refused ends the message.
Ask(c) ==
  /\ chat[c].at = "ask"
  /\ \/ EndChat(c)
     \/ \E calls \in 1..MaxCalls + 1 :
          IF MayCall(c, calls)
          THEN chat' = [chat EXCEPT ![c].at = "call", ![c].round = @ + 1, ![c].asked = @ + calls]
          ELSE EndChat(c)
  /\ UNCHANGED <<free, future>>

\* dispatch: an unknown tool or invalid arguments end the message.
Dispatch(c) ==
  /\ chat[c].at = "call"
  /\ IF chat[c].answered = chat[c].asked THEN Goes(c, "ask") ELSE Goes(c, "slot") \/ EndChat(c)
  /\ UNCHANGED <<free, future>>

AcquireSlot(c) ==
  /\ chat[c].at = "slot" /\ free > 0
  /\ free' = free - 1 /\ Goes(c, "submit") /\ UNCHANGED future

SlotTimeout(c) ==
  /\ chat[c].at = "slot" /\ free = 0
  /\ EndChat(c) /\ UNCHANGED <<free, future>>

Submit(c) ==
  /\ chat[c].at = "submit"
  /\ \E f \in Futures :
       /\ future[f] = NoFuture
       /\ future' = [future EXCEPT ![f] = [at |-> "queued", chat |-> c]]
  /\ Goes(c, "wait") /\ UNCHANGED free

\* The executor refuses the call (RuntimeError): the slot is given back.
SubmitFails(c) ==
  /\ chat[c].at = "submit"
  /\ free' = free + 1 /\ EndChat(c) /\ UNCHANGED future

-----------------------------------------------------------------------------
(* The worker threads: a result wakes the waiting dispatch first and gives *)
(* the slot back afterwards (_release_slot is a done callback).            *)
Run(f) ==
  /\ future[f].at = "queued" /\ Cardinality(Busy) < Slots
  /\ future' = [future EXCEPT ![f].at = "running"] /\ UNCHANGED <<chat, free>>

Lost == [at |-> "lost"]  \* nobody waits for the thread any more

Finish(f) ==
  /\ future[f].at \in {"running", "lost"}
  /\ future' = [future EXCEPT ![f] = [at |-> "done"]]
  /\ IF future[f] = Lost THEN UNCHANGED chat
     ELSE \E result \in {"answer", "record", "error"} : Goes(future[f].chat, result)
  /\ UNCHANGED free

WrongReleased == free
Released == free + 1
ReleaseSlot(f) ==
  /\ future[f].at = "done"
  /\ free' = Released /\ future' = [future EXCEPT ![f] = NoFuture] /\ UNCHANGED chat

\* cancel() removes a call no thread has begun and runs its callback at once; a running thread goes on.
Cancelled(f) == IF future[f].at = "queued" THEN NoFuture ELSE Lost

WrongAwaited(c, f) == future[f].at = "queued" /\ future[f].chat = c
Awaited(c, f) == future[f].at \in {"queued", "running"} /\ future[f].chat = c
CallTimeout(c) ==
  /\ chat[c].at = "wait"
  /\ \E f \in Futures :
       /\ Awaited(c, f)
       /\ future' = [future EXCEPT ![f] = Cancelled(f)]
       /\ free' = IF future[f].at = "queued" THEN Released ELSE free
  /\ EndChat(c)

\* The output is appended, and the next call or the next round follows.
Answered(c) ==
  /\ chat[c].at = "answer"
  /\ chat' = [chat EXCEPT ![c].at = "call", ![c].answered = @ + 1] /\ UNCHANGED <<free, future>>

\* A fallback of search_faq is counted in a session of its own first; its failure ends the message.
RecordFallback(c) ==
  /\ chat[c].at = "record" /\ (Goes(c, "answer") \/ EndChat(c))
  /\ UNCHANGED <<free, future>>

ToolError(c) == chat[c].at = "error" /\ EndChat(c) /\ UNCHANGED <<free, future>>

-----------------------------------------------------------------------------
ToolsInit ==
  /\ chat = [c \in Chats |-> NoChat] /\ free = Slots /\ future = [f \in Futures |-> NoFuture]

\* What the server does by itself, whatever the threads of the tools do.
Proceed(c) ==
  \/ Ask(c) \/ Dispatch(c) \/ AcquireSlot(c) \/ SlotTimeout(c) \/ Submit(c) \/ SubmitFails(c)
  \/ CallTimeout(c) \/ Answered(c) \/ RecordFallback(c) \/ ToolError(c)

ToolsNext ==
  \/ \E c \in Chats : StartChat(c) \/ Proceed(c)
  \/ \E f \in Futures : Run(f) \/ Finish(f) \/ ReleaseSlot(f)

\* The provider's client and the dispatcher have timeouts; a tool's thread may never end.
ToolsFairness == \A c \in Chats : WF_toolVars(Proceed(c))
ToolsSpec == ToolsInit /\ [][ToolsNext]_toolVars /\ ToolsFairness

ToolsTypeOK ==
  /\ chat \in [Chats -> {NoChat} \cup
       [at : {"ask", "call", "slot", "submit", "wait", "answer", "record", "error"},
        round : 0..MaxRounds, asked : Nat, answered : Nat]]
  /\ free \in 0..Slots
  /\ future \in [Futures -> {NoFuture, Lost, [at |-> "done"]} \cup [at : {"queued", "running"}, chat : Chats]]

\* Whatever is given up, cancelled, refused or finished at the same time, every slot is either free or held by
\* one dispatch or by one call that is not done: slots are neither lost nor given back twice, so that a call that
\* got a slot always finds a thread.
SlotsAccounted == free + Cardinality(Submitting) + Cardinality(Unfinished) = Slots

\* The model is asked again only when every call it made was answered, in bounded rounds: a message costs no more
\* than MAX_TOOL_ROUNDS * MAX_CALLS_PER_RESPONSE tool calls.
CallsAnswered ==
  \A c \in Chats : chat[c] # NoChat =>
    /\ chat[c].at = "ask" => chat[c].answered = chat[c].asked
    /\ chat[c].answered <= chat[c].asked /\ chat[c].asked <= MaxRounds * MaxCalls

\* Even when every tool thread is stuck for ever, a message ends: nobody waits for a slot or a result without end.
MessageEnds == \A c \in Chats : (chat[c] # NoChat) ~> (chat[c] = NoChat)
=============================================================================
