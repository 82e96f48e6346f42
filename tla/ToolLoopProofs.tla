---------------------------- MODULE ToolLoopProofs ---------------------------
(***************************************************************************)
(* Worker slots are neither lost nor given back twice, and a message costs *)
(* a bounded number of answered calls, for any number of messages, slots   *)
(* and calls. Missing from the counts is why a thread that ends wakes the  *)
(* dispatch that waits for it and no other: one call at a time is awaited  *)
(* by a message, which waits until then (Linked).                          *)
(***************************************************************************)
EXTENDS ToolLoop, FiniteSetTheorems, TLAPS

(* A call somebody awaits, and the message that awaits it.                 *)
Live(f) == future[f].at \in {"queued", "running"}
Linked == \A f \in Futures : Live(f) =>
  /\ chat[future[f].chat].at = "wait"
  /\ \A g \in Futures : Live(g) /\ future[g].chat = future[f].chat => g = f

(* The calls of a message: one more is on its way until it was answered.   *)
Rounds == \A c \in Chats : chat[c] # NoChat =>
  /\ chat[c].asked <= chat[c].round * MaxCalls
  /\ chat[c].answered <= chat[c].asked
  /\ chat[c].at = "ask" => chat[c].answered = chat[c].asked
  /\ chat[c].at \notin {"ask", "call"} => chat[c].answered < chat[c].asked

ToolsInv == ToolsTypeOK /\ Linked /\ Rounds /\ IsFiniteSet(Submitting) /\ SlotsAccounted

(* Records of one message and of one call.                                 *)
Steps == {"ask", "call", "slot", "submit", "wait", "answer", "record", "error"}
ChatRecords == {NoChat} \cup [at : Steps, round : 0..MaxRounds, asked : Nat, answered : Nat]
FutureRecords == {NoFuture, Lost, [at |-> "done"]} \cup [at : {"queued", "running"}, chat : Chats]

(* _WORKER_SLOTS starts with every slot free and no message in progress.   *)
LEMMA ToolsStart == ToolsInit => ToolsInv
<1> SUFFICES ASSUME ToolsInit PROVE ToolsInv
  OBVIOUS
<1>1. Submitting = {} /\ Unfinished = {}
  BY DEF ToolsInit, Submitting, Unfinished, NoChat
<1>2. IsFiniteSet(Submitting) /\ SlotsAccounted
  BY <1>1, FS_EmptySet, ToolLoopAssumption DEF ToolsInit, SlotsAccounted
<1>3. ToolsTypeOK
  BY ToolLoopAssumption DEF ToolsInit, ToolsTypeOK
<1>4. Linked /\ Rounds
  BY DEF ToolsInit, Linked, Live, Rounds, NoFuture
<1> QED BY <1>2, <1>3, <1>4 DEF ToolsInv

(* The sets of slot holders are finite, so that they can be counted.       *)
LEMMA Holders ==
  ASSUME ToolsInv
  PROVE  /\ IsFiniteSet(Submitting) /\ IsFiniteSet(Unfinished)
         /\ Cardinality(Submitting) \in Nat /\ Cardinality(Unfinished) \in Nat
<1>1. Unfinished \subseteq Futures
  BY DEF Unfinished
<1> QED BY <1>1, FS_Subset, FS_CardinalityType, ToolLoopAssumption DEF ToolsInv

(* Steps of one message that neither take nor give back a slot.            *)
LEMMA QuietSteps ==
  ASSUME ToolsInv, NEW c \in Chats, NEW to \in ChatRecords,
         chat' = [chat EXCEPT ![c] = to], UNCHANGED <<free, future>>,
         chat[c].at \notin {"submit", "wait"}, to.at \notin {"submit", "wait"},
         to # NoChat => /\ to.asked <= to.round * MaxCalls /\ to.answered <= to.asked
                        /\ to.at = "ask" => to.answered = to.asked
                        /\ to.at \notin {"ask", "call"} => to.answered < to.asked
  PROVE  ToolsInv'
<1>1. ToolsTypeOK'
  BY DEF ToolsInv, ToolsTypeOK, ChatRecords, Steps
<1>2. Linked'
  BY DEF ToolsInv, Linked, Live, ToolsTypeOK
<1>3. Rounds'
  BY DEF ToolsInv, Rounds, ToolsTypeOK
<1>4. Submitting' = Submitting /\ Unfinished' = Unfinished
  BY DEF ToolsInv, Submitting, Unfinished, ToolsTypeOK
<1>5. IsFiniteSet(Submitting)' /\ SlotsAccounted'
  BY <1>4 DEF ToolsInv, SlotsAccounted
<1> QED BY <1>1, <1>2, <1>3, <1>5 DEF ToolsInv

(* One more round of at most MaxCalls calls keeps the bound of the rounds. *)
LEMMA OneMoreRound ==
  ASSUME NEW a \in Nat, NEW n \in Nat, NEW r \in Nat, a <= r * MaxCalls, n <= MaxCalls
  PROVE  a + n <= (r + 1) * MaxCalls
<1>1. (r + 1) * MaxCalls = r * MaxCalls + MaxCalls
  BY ToolLoopAssumption
<1>2. r * MaxCalls \in Nat
  BY ToolLoopAssumption
<1> QED BY <1>1, <1>2, ToolLoopAssumption

(* generate_reply_with_tools and dispatch up to the slot, and the answers. *)
LEMMA MessageSteps ==
  ASSUME ToolsInv, NEW c \in Chats,
         \/ StartChat(c) \/ Ask(c) \/ Dispatch(c) \/ SlotTimeout(c)
         \/ Answered(c) \/ RecordFallback(c) \/ ToolError(c)
  PROVE  ToolsInv'
<1> USE ToolLoopAssumption
<1>1. chat[c] \in ChatRecords /\ NoChat \in ChatRecords /\ chat \in [Chats -> ChatRecords]
  BY DEF ToolsInv, ToolsTypeOK, ChatRecords, Steps
<1>2. chat[c] # NoChat => /\ chat[c].asked <= chat[c].round * MaxCalls /\ chat[c].answered <= chat[c].asked
                          /\ chat[c].at = "ask" => chat[c].answered = chat[c].asked
                          /\ chat[c].at \notin {"ask", "call"} => chat[c].answered < chat[c].asked
  BY DEF ToolsInv, Rounds
<1>3. ASSUME EndChat(c), UNCHANGED <<free, future>>, chat[c].at \notin {"submit", "wait"} PROVE ToolsInv'
  BY <1>1, <1>3, QuietSteps DEF EndChat, NoChat
<1>4. ASSUME NEW step \in {"ask", "slot", "answer"}, Goes(c, step), UNCHANGED <<free, future>>,
             chat[c] # NoChat, chat[c].at \notin {"submit", "wait"},
             step = "ask" => chat[c].answered = chat[c].asked,
             step # "ask" => chat[c].answered < chat[c].asked
      PROVE  ToolsInv'
  <2> DEFINE to == [chat[c] EXCEPT !.at = step]
  <2>1. to \in ChatRecords /\ to.at = step
        /\ to.round = chat[c].round /\ to.asked = chat[c].asked /\ to.answered = chat[c].answered
    BY <1>1, <1>4 DEF ChatRecords, Steps
  <2>2. chat' = [chat EXCEPT ![c] = to]
    BY <1>4 DEF Goes
  <2>3. to # NoChat => /\ to.asked <= to.round * MaxCalls /\ to.answered <= to.asked
                       /\ to.at = "ask" => to.answered = to.asked
                       /\ to.at \notin {"ask", "call"} => to.answered < to.asked
    BY <1>2, <1>4, <2>1
  <2>4. to.at \notin {"submit", "wait"}
    BY <2>1
  <2> HIDE DEF to
  <2> QED BY <1>4, <2>1, <2>2, <2>3, <2>4, QuietSteps
<1>5. CASE StartChat(c)
  <2> DEFINE to == [at |-> "ask", round |-> 0, asked |-> 0, answered |-> 0]
  <2>1. to \in ChatRecords /\ to.at = "ask"
    BY DEF ChatRecords, Steps
  <2>2. to.asked <= to.round * MaxCalls /\ to.answered <= to.asked /\ to.answered = to.asked
    OBVIOUS
  <2>3. chat[c].at = "none" /\ chat' = [chat EXCEPT ![c] = to] /\ UNCHANGED <<free, future>>
    BY <1>5 DEF StartChat, NoChat
  <2> HIDE DEF to
  <2> QED BY <2>1, <2>2, <2>3, QuietSteps
<1>6. CASE Ask(c)
  <2>1. CASE EndChat(c)
    BY <1>3, <1>6, <2>1 DEF Ask
  <2>2. ASSUME NEW calls \in 1..MaxCalls + 1, MayCall(c, calls),
               chat' = [chat EXCEPT ![c].at = "call", ![c].round = @ + 1, ![c].asked = @ + calls]
        PROVE  ToolsInv'
    <3>1. chat[c].at = "ask" /\ chat[c] # NoChat /\ UNCHANGED <<free, future>>
      BY <1>6 DEF Ask, NoChat
    <3>2. /\ chat[c].round \in Nat /\ chat[c].asked \in Nat /\ chat[c].answered \in Nat /\ calls \in Nat
          /\ chat[c].round + 1 \in 0..MaxRounds /\ calls <= MaxCalls
      BY <1>1, <2>2, <3>1 DEF ChatRecords, MayCall
    <3> DEFINE to == [at |-> "call", round |-> chat[c].round + 1, asked |-> chat[c].asked + calls,
                      answered |-> chat[c].answered]
    <3>3. to \in ChatRecords
      BY <3>2 DEF ChatRecords, Steps
    <3>4. chat' = [chat EXCEPT ![c] = to]
      BY <1>1, <2>2, <3>1 DEF ChatRecords
    <3>5. to.asked <= to.round * MaxCalls /\ to.answered <= to.asked /\ to.at = "call"
      BY <1>2, <3>1, <3>2, OneMoreRound
    <3> HIDE DEF to
    <3> QED BY <3>1, <3>3, <3>4, <3>5, QuietSteps
  <2> QED BY <1>6, <2>1, <2>2 DEF Ask
<1>7. CASE Dispatch(c)
  <2>1. chat[c].at = "call" /\ chat[c] # NoChat /\ UNCHANGED <<free, future>>
    BY <1>7 DEF Dispatch, NoChat
  <2>2. chat[c].answered \in Nat /\ chat[c].asked \in Nat
    BY <1>1, <2>1 DEF ChatRecords
  <2> QED BY <1>2, <1>3, <1>4, <1>7, <2>1, <2>2 DEF Dispatch
<1>8. CASE SlotTimeout(c)
  BY <1>3, <1>8 DEF SlotTimeout
<1>9. CASE Answered(c)
  <2>1. chat[c].at = "answer" /\ chat[c] # NoChat /\ UNCHANGED <<free, future>>
    BY <1>9 DEF Answered, NoChat
  <2> DEFINE to == [at |-> "call", round |-> chat[c].round, asked |-> chat[c].asked, answered |-> chat[c].answered + 1]
  <2>2. /\ to \in ChatRecords /\ to.at = "call" /\ to.answered = chat[c].answered + 1
        /\ to.round = chat[c].round /\ to.asked = chat[c].asked
        /\ chat[c].answered \in Nat /\ chat[c].asked \in Nat
    BY <1>1, <2>1 DEF ChatRecords, Steps
  <2>3. chat' = [chat EXCEPT ![c] = to]
    BY <1>1, <1>9, <2>1 DEF Answered, ChatRecords
  <2>4. to.asked <= to.round * MaxCalls /\ to.answered <= to.asked
    BY <1>2, <2>1, <2>2
  <2> HIDE DEF to
  <2> QED BY <2>1, <2>2, <2>3, <2>4, QuietSteps
<1>10. CASE RecordFallback(c)
  <2>1. chat[c].at = "record" /\ chat[c] # NoChat /\ UNCHANGED <<free, future>>
    BY <1>10 DEF RecordFallback, NoChat
  <2> QED BY <1>2, <1>3, <1>4, <1>10, <2>1 DEF RecordFallback
<1>11. CASE ToolError(c)
  BY <1>3, <1>11 DEF ToolError
<1> QED BY <1>5, <1>6, <1>7, <1>8, <1>9, <1>10, <1>11

(* A message that only moves on keeps its counts.                          *)
LEMMA Moved ==
  ASSUME ToolsInv, NEW c \in Chats, NEW step \in {"submit", "wait", "answer", "record", "error"},
         chat[c].at \in {"slot", "submit", "wait"}, chat' = [chat EXCEPT ![c].at = step]
  PROVE  /\ chat' \in [Chats -> ChatRecords] /\ chat'[c].at = step
         /\ \A d \in Chats \ {c} : chat'[d] = chat[d]
         /\ Rounds'
<1>1. chat \in [Chats -> ChatRecords] /\ chat[c] # NoChat
  BY DEF ToolsInv, ToolsTypeOK, ChatRecords, Steps, NoChat
<1> DEFINE to == [chat[c] EXCEPT !.at = step]
<1>2. /\ to \in ChatRecords /\ to.at = step
      /\ to.round = chat[c].round /\ to.asked = chat[c].asked /\ to.answered = chat[c].answered
  BY <1>1 DEF ChatRecords, Steps
<1>3. chat' = [chat EXCEPT ![c] = to]
  OBVIOUS
<1> HIDE DEF to
<1>4. chat' \in [Chats -> ChatRecords] /\ chat'[c] = to /\ \A d \in Chats \ {c} : chat'[d] = chat[d]
  BY <1>1, <1>2, <1>3
<1>5. Rounds'
  BY <1>1, <1>2, <1>4 DEF ToolsInv, Rounds
<1> QED BY <1>2, <1>4, <1>5

(* An ended message has no counts.                                         *)
LEMMA EndedChat ==
  ASSUME ToolsInv, NEW c \in Chats, EndChat(c)
  PROVE  /\ chat' \in [Chats -> ChatRecords] /\ chat'[c] = NoChat
         /\ \A d \in Chats \ {c} : chat'[d] = chat[d]
         /\ Rounds'
  BY DEF ToolsInv, ToolsTypeOK, EndChat, ChatRecords, Steps, Rounds

(* Types in the form the steps below give them.                            *)
LEMMA TypedRecords ==
  ToolsTypeOK <=> /\ chat \in [Chats -> ChatRecords] /\ free \in 0..Slots /\ future \in [Futures -> FutureRecords]
  BY DEF ToolsTypeOK, ChatRecords, FutureRecords, Steps

(* One holder more or less in a finite set.                                *)
LEMMA OneMore ==
  ASSUME NEW S, IsFiniteSet(S), NEW x, x \notin S
  PROVE  IsFiniteSet(S \cup {x}) /\ Cardinality(S \cup {x}) = Cardinality(S) + 1
  BY FS_AddElement

(* The same for a holder that leaves.                                      *)
LEMMA OneLess ==
  ASSUME NEW S, IsFiniteSet(S), NEW x \in S
  PROVE  IsFiniteSet(S \ {x}) /\ Cardinality(S \ {x}) = Cardinality(S) - 1
  BY FS_RemoveElement

(* dispatch: the slot, the submission and its failure.                     *)
LEMMA SlotSteps ==
  ASSUME ToolsInv, NEW c \in Chats, AcquireSlot(c) \/ Submit(c) \/ SubmitFails(c)
  PROVE  ToolsInv'
<1> USE ToolLoopAssumption
<1>1. /\ chat \in [Chats -> ChatRecords] /\ free \in 0..Slots /\ future \in [Futures -> FutureRecords]
      /\ free + Cardinality(Submitting) + Cardinality(Unfinished) = Slots
  BY TypedRecords DEF ToolsInv, SlotsAccounted
<1>2. \A g \in Futures : Live(g) => /\ future[g].chat \in Chats /\ chat[future[g].chat].at = "wait"
                                   /\ \A h \in Futures : Live(h) /\ future[h].chat = future[g].chat => h = g
  BY <1>1 DEF ToolsInv, Linked, Live, FutureRecords, NoFuture, Lost
<1>3. CASE AcquireSlot(c)
  <2>1. chat[c].at = "slot" /\ free > 0 /\ free' = free - 1 /\ UNCHANGED future /\ chat' = [chat EXCEPT ![c].at = "submit"]
    BY <1>3 DEF AcquireSlot, Goes
  <2>2. /\ chat' \in [Chats -> ChatRecords] /\ chat'[c].at = "submit" /\ Rounds'
        /\ \A d \in Chats \ {c} : chat'[d] = chat[d]
    BY <2>1, Moved
  <2>3. Submitting' = Submitting \cup {c} /\ c \notin Submitting /\ Unfinished' = Unfinished
    BY <2>1, <2>2 DEF Submitting, Unfinished
  <2>4. IsFiniteSet(Submitting)' /\ SlotsAccounted'
    <3>1. IsFiniteSet(Submitting)' /\ Cardinality(Submitting)' = Cardinality(Submitting) + 1
      BY <2>3, Holders, OneMore
    <3> QED BY <1>1, <2>1, <2>3, <3>1, Holders DEF SlotsAccounted
  <2>5. Linked'
    BY <1>2, <2>1, <2>2 DEF Linked, Live
  <2>6. ToolsTypeOK'
    BY <1>1, <2>1, <2>2 DEF ToolsTypeOK, ChatRecords, FutureRecords, Steps
  <2> QED BY <2>2, <2>4, <2>5, <2>6 DEF ToolsInv
<1>4. CASE Submit(c)
  <2>1. PICK f \in Futures : /\ future[f] = NoFuture
                             /\ future' = [future EXCEPT ![f] = [at |-> "queued", chat |-> c]]
    BY <1>4 DEF Submit
  <2>2. chat[c].at = "submit" /\ UNCHANGED free /\ chat' = [chat EXCEPT ![c].at = "wait"]
    BY <1>4 DEF Submit, Goes
  <2>3. /\ chat' \in [Chats -> ChatRecords] /\ chat'[c].at = "wait" /\ Rounds'
        /\ \A d \in Chats \ {c} : chat'[d] = chat[d]
    BY <2>2, Moved
  <2>4. /\ Submitting' = Submitting \ {c} /\ c \in Submitting
        /\ Unfinished' = Unfinished \cup {f} /\ f \notin Unfinished
    BY <1>1, <2>1, <2>2, <2>3 DEF Submitting, Unfinished, NoFuture
  <2>5. IsFiniteSet(Submitting)' /\ SlotsAccounted'
    <3>1. IsFiniteSet(Submitting)' /\ Cardinality(Submitting)' = Cardinality(Submitting) - 1
      BY <2>4, Holders, OneLess
    <3>2. Cardinality(Unfinished)' = Cardinality(Unfinished) + 1
      BY <2>4, Holders, OneMore
    <3> QED BY <1>1, <2>2, <3>1, <3>2, Holders DEF SlotsAccounted
  <2>6. Linked'
    <3>1. \A g \in Futures \ {f} : future'[g] = future[g]
      BY <1>1, <2>1
    <3>2. future'[f].chat = c /\ future'[f].at = "queued"
      BY <1>1, <2>1
    <3> QED BY <1>2, <2>2, <2>3, <3>1, <3>2 DEF Linked, Live
  <2>7. ToolsTypeOK'
    BY <1>1, <2>1, <2>2, <2>3 DEF ToolsTypeOK, ChatRecords, FutureRecords, Steps
  <2> QED BY <2>3, <2>5, <2>6, <2>7 DEF ToolsInv
<1>5. CASE SubmitFails(c)
  <2>1. chat[c].at = "submit" /\ free' = free + 1 /\ EndChat(c) /\ UNCHANGED future
    BY <1>5 DEF SubmitFails
  <2>2. /\ chat' \in [Chats -> ChatRecords] /\ chat'[c] = NoChat /\ Rounds'
        /\ \A d \in Chats \ {c} : chat'[d] = chat[d]
    BY <2>1, EndedChat
  <2>3. Submitting' = Submitting \ {c} /\ c \in Submitting /\ Unfinished' = Unfinished
    BY <2>1, <2>2 DEF Submitting, Unfinished, NoChat
  <2>4. IsFiniteSet(Submitting)' /\ Cardinality(Submitting)' = Cardinality(Submitting) - 1
    BY <2>3, Holders, OneLess
  <2>5. SlotsAccounted' /\ free' \in 0..Slots
    <3>1. free' + Cardinality(Submitting)' + Cardinality(Unfinished)' = Slots
      BY <1>1, <2>1, <2>3, <2>4, Holders
    <3>2. Cardinality(Submitting)' \in Nat
      BY <2>4, FS_CardinalityType
    <3> QED BY <1>1, <2>1, <2>3, <3>1, <3>2, Holders DEF SlotsAccounted
  <2>6. Linked'
    BY <1>2, <2>1, <2>2 DEF Linked, Live
  <2>7. ToolsTypeOK'
    BY <1>1, <2>1, <2>2, <2>5 DEF ToolsTypeOK, ChatRecords, FutureRecords, Steps
  <2> QED BY <2>2, <2>4, <2>5, <2>6, <2>7 DEF ToolsInv
<1> QED BY <1>3, <1>4, <1>5

(* The worker threads, and a dispatch that gives up waiting for one.       *)
LEMMA ThreadSteps ==
  ASSUME ToolsInv, NEW f \in Futures, Run(f) \/ Finish(f) \/ ReleaseSlot(f)
  PROVE  ToolsInv'
<1> USE ToolLoopAssumption
<1>1. /\ chat \in [Chats -> ChatRecords] /\ free \in 0..Slots /\ future \in [Futures -> FutureRecords]
      /\ free + Cardinality(Submitting) + Cardinality(Unfinished) = Slots
  BY TypedRecords DEF ToolsInv, SlotsAccounted
<1>2. \A g \in Futures : Live(g) => /\ future[g].chat \in Chats /\ chat[future[g].chat].at = "wait"
                                   /\ \A h \in Futures : Live(h) /\ future[h].chat = future[g].chat => h = g
  BY <1>1 DEF ToolsInv, Linked, Live, FutureRecords, NoFuture, Lost
<1>3. CASE Run(f)
  <2> DEFINE to == [at |-> "running", chat |-> future[f].chat]
  <2>0. /\ future[f].at = "queued" /\ future' = [future EXCEPT ![f].at = "running"]
        /\ UNCHANGED <<chat, free>>
    BY <1>3 DEF Run
  <2>a. future[f] \in [at : {"queued", "running"}, chat : Chats]
    BY <1>1, <2>0 DEF FutureRecords, NoFuture, Lost
  <2>b. [future[f] EXCEPT !.at = "running"] = to
    BY <2>a
  <2>c. future' = [future EXCEPT ![f] = [future[f] EXCEPT !.at = "running"]]
    BY <1>1, <2>0
  <2>1. future[f].at = "queued" /\ future' = [future EXCEPT ![f] = to] /\ UNCHANGED <<chat, free>>
    BY <2>0, <2>b, <2>c
  <2>2. /\ to \in FutureRecords /\ to # NoFuture /\ to.at = "running" /\ to.chat = future[f].chat
        /\ future[f] # NoFuture
    BY <1>2, <2>1 DEF FutureRecords, Live, NoFuture
  <2> HIDE DEF to
  <2>3. Submitting' = Submitting /\ Unfinished' = Unfinished
    BY <1>1, <2>1, <2>2 DEF Submitting, Unfinished
  <2>4. Linked'
    <3>1. \A g \in Futures : Live(g)' => Live(g) /\ future'[g].chat = future[g].chat
      BY <1>1, <2>1, <2>2 DEF Live
    <3> QED BY <1>2, <2>1, <3>1 DEF Linked
  <2>5. ToolsTypeOK'
    BY <1>1, <2>1, <2>2 DEF ToolsTypeOK, ChatRecords, FutureRecords, Steps
  <2> QED BY <2>1, <2>3, <2>4, <2>5 DEF ToolsInv, SlotsAccounted, Rounds
<1>4. CASE Finish(f)
  <2>1. /\ future[f].at \in {"running", "lost"} /\ UNCHANGED free
        /\ future' = [future EXCEPT ![f] = [at |-> "done"]]
    BY <1>4 DEF Finish
  <2>2. Unfinished' = Unfinished
    BY <1>1, <2>1 DEF Unfinished, NoFuture
  <2>3. \A g \in Futures : Live(g)' => Live(g) /\ g # f /\ future'[g] = future[g]
    BY <1>1, <2>1 DEF Live
  <2>4. future' \in [Futures -> FutureRecords]
    BY <1>1, <2>1 DEF FutureRecords
  <2>5. CASE future[f] = Lost
    <3>1. UNCHANGED chat
      BY <1>4, <2>5 DEF Finish
    <3>2. Linked'
      BY <1>2, <2>3, <3>1 DEF Linked
    <3>3. Submitting' = Submitting
      BY <3>1 DEF Submitting
    <3>4. ToolsTypeOK'
      BY <1>1, <2>1, <2>4, <3>1 DEF ToolsTypeOK, ChatRecords, FutureRecords, Steps
    <3> QED BY <2>1, <2>2, <3>1, <3>2, <3>3, <3>4 DEF ToolsInv, SlotsAccounted, Rounds
  <2>6. CASE future[f] # Lost
    <3>1. Live(f)
      BY <1>1, <2>1, <2>6 DEF Live, FutureRecords, Lost, NoFuture
    <3>2. PICK result \in {"answer", "record", "error"} : chat' = [chat EXCEPT ![future[f].chat].at = result]
      BY <1>4, <2>6 DEF Finish, Goes
    <3>3. PICK c \in Chats : c = future[f].chat /\ chat[c].at = "wait"
      BY <1>2, <3>1
    <3>4. /\ chat' \in [Chats -> ChatRecords] /\ chat'[c].at = result /\ Rounds'
          /\ \A d \in Chats \ {c} : chat'[d] = chat[d]
      BY <3>2, <3>3, Moved
    <3>5. Submitting' = Submitting
      BY <3>3, <3>4 DEF Submitting
    <3>6. Linked'
      BY <1>2, <2>3, <3>1, <3>3, <3>4 DEF Linked
    <3>7. ToolsTypeOK'
      BY <1>1, <2>1, <2>4, <3>4 DEF ToolsTypeOK, ChatRecords, FutureRecords, Steps
    <3> QED BY <2>1, <2>2, <3>4, <3>5, <3>6, <3>7 DEF ToolsInv, SlotsAccounted
  <2> QED BY <2>5, <2>6
<1>5. CASE ReleaseSlot(f)
  <2>1. /\ future[f].at = "done" /\ free' = free + 1 /\ UNCHANGED chat
        /\ future' = [future EXCEPT ![f] = NoFuture]
    BY <1>5 DEF ReleaseSlot, Released
  <2>2. Submitting' = Submitting /\ Unfinished' = Unfinished \ {f} /\ f \in Unfinished
    BY <1>1, <2>1 DEF Submitting, Unfinished, NoFuture
  <2>3. IsFiniteSet(Unfinished') /\ Cardinality(Unfinished') = Cardinality(Unfinished) - 1
    BY <2>2, Holders, OneLess
  <2>4. SlotsAccounted' /\ free' \in 0..Slots
    <3>1. free' + Cardinality(Submitting') + Cardinality(Unfinished') = Slots
      BY <1>1, <2>1, <2>2, <2>3, Holders
    <3>2. Cardinality(Unfinished') \in Nat
      BY <2>3, FS_CardinalityType
    <3> QED BY <1>1, <2>1, <2>2, <3>1, <3>2, Holders DEF SlotsAccounted
  <2>5. \A g \in Futures : Live(g)' => Live(g) /\ future'[g] = future[g]
    BY <1>1, <2>1 DEF Live, NoFuture
  <2>6. Linked'
    BY <1>2, <2>1, <2>5 DEF Linked
  <2>7. ToolsTypeOK'
    BY <1>1, <2>1, <2>4 DEF ToolsTypeOK, ChatRecords, FutureRecords, Steps
  <2> QED BY <2>1, <2>2, <2>4, <2>6, <2>7 DEF ToolsInv, Rounds
<1> QED BY <1>3, <1>4, <1>5

(* dispatch gives up waiting: a queued call is cancelled, a running one is *)
(* left to its thread.                                                     *)
LEMMA TimeoutStep ==
  ASSUME ToolsInv, NEW c \in Chats, CallTimeout(c)
  PROVE  ToolsInv'
<1> USE ToolLoopAssumption
<1>1. /\ chat \in [Chats -> ChatRecords] /\ free \in 0..Slots /\ future \in [Futures -> FutureRecords]
      /\ free + Cardinality(Submitting) + Cardinality(Unfinished) = Slots
  BY TypedRecords DEF ToolsInv, SlotsAccounted
<1>2. \A g \in Futures : Live(g) => /\ future[g].chat \in Chats /\ chat[future[g].chat].at = "wait"
                                   /\ \A h \in Futures : Live(h) /\ future[h].chat = future[g].chat => h = g
  BY <1>1 DEF ToolsInv, Linked, Live, FutureRecords, NoFuture, Lost
<1>3. chat[c].at = "wait" /\ EndChat(c)
  BY DEF CallTimeout
<1>4. PICK f \in Futures : /\ Awaited(c, f) /\ future' = [future EXCEPT ![f] = Cancelled(f)]
                           /\ free' = IF future[f].at = "queued" THEN Released ELSE free
  BY DEF CallTimeout
<1>5. Live(f) /\ future[f].chat = c /\ future[f] # NoFuture
  BY <1>4 DEF Awaited, Live, NoFuture
<1>6. /\ chat' \in [Chats -> ChatRecords] /\ chat'[c] = NoChat /\ Rounds'
      /\ \A d \in Chats \ {c} : chat'[d] = chat[d]
  BY <1>3, EndedChat
<1>7. Submitting' = Submitting
  BY <1>3, <1>6 DEF Submitting, NoChat
<1>8. \A g \in Futures : Live(g)' => Live(g) /\ g # f /\ future'[g] = future[g]
  BY <1>1, <1>4 DEF Live, Cancelled, NoFuture, Lost
<1>9. Linked'
  BY <1>2, <1>5, <1>6, <1>8 DEF Linked
<1>10. future' \in [Futures -> FutureRecords]
  BY <1>1, <1>4 DEF Cancelled, FutureRecords
<1>11. SlotsAccounted' /\ free' \in 0..Slots
  <2>1. CASE future[f].at = "queued"
    <3>1. free' = free + 1 /\ Unfinished' = Unfinished \ {f} /\ f \in Unfinished
      BY <1>1, <1>4, <1>5, <2>1 DEF Cancelled, Released, Unfinished
    <3>2. IsFiniteSet(Unfinished') /\ Cardinality(Unfinished') = Cardinality(Unfinished) - 1
      BY <3>1, Holders, OneLess
    <3>3. free' + Cardinality(Submitting') + Cardinality(Unfinished') = Slots
      BY <1>1, <1>7, <3>1, <3>2, Holders
    <3>4. Cardinality(Unfinished') \in Nat
      BY <3>2, FS_CardinalityType
    <3> QED BY <1>1, <1>7, <3>1, <3>3, <3>4, Holders DEF SlotsAccounted
  <2>2. CASE future[f].at # "queued"
    <3>1. free' = free /\ Unfinished' = Unfinished
      BY <1>1, <1>4, <1>5, <2>2 DEF Cancelled, Unfinished, Lost, NoFuture
    <3> QED BY <1>1, <1>7, <3>1 DEF SlotsAccounted
  <2> QED BY <2>1, <2>2
<1>12. ToolsTypeOK'
  BY <1>6, <1>10, <1>11 DEF ToolsTypeOK, ChatRecords, FutureRecords, Steps
<1> QED BY <1>6, <1>7, <1>9, <1>11, <1>12 DEF ToolsInv

(* Every step of the server and of the tool threads keeps the invariant.   *)
LEMMA ToolsStep == ToolsInv /\ [ToolsNext]_toolVars => ToolsInv'
<1> SUFFICES ASSUME ToolsInv, [ToolsNext]_toolVars PROVE ToolsInv'
  OBVIOUS
<1>1. ASSUME NEW c \in Chats, StartChat(c) \/ Proceed(c) PROVE ToolsInv'
  BY <1>1, MessageSteps, SlotSteps, TimeoutStep DEF Proceed
<1>2. ASSUME NEW f \in Futures, Run(f) \/ Finish(f) \/ ReleaseSlot(f) PROVE ToolsInv'
  BY <1>2, ThreadSteps
<1>3. CASE UNCHANGED toolVars
  BY <1>3 DEF toolVars, ToolsInv, ToolsTypeOK, Linked, Live, Rounds, Submitting, Unfinished, SlotsAccounted
<1> QED BY <1>1, <1>2, <1>3 DEF ToolsNext

(* Types: the semaphore never exceeds its slots.                           *)
THEOREM ToolsTypeSafety == ToolsSpec => []ToolsTypeOK
<1>1. ToolsInv => ToolsTypeOK
  BY DEF ToolsInv
<1> QED BY <1>1, ToolsStart, ToolsStep, PTL DEF ToolsSpec

(* No slot of the dispatcher is lost or given back twice (tool_dispatcher  *)
(* .py: dispatch and _release_slot), whatever times out or is refused.     *)
THEOREM SlotsAreAccounted == ToolsSpec => []SlotsAccounted
<1>1. ToolsInv => SlotsAccounted
  BY DEF ToolsInv
<1> QED BY <1>1, ToolsStart, ToolsStep, PTL DEF ToolsSpec

(* A message costs a bounded number of calls, and the model is asked again *)
(* only when all were answered (openai_service.py).                        *)
THEOREM CallsAreAnswered == ToolsSpec => []CallsAnswered
<1>1. ToolsInv => CallsAnswered
  <2> SUFFICES ASSUME ToolsInv, NEW c \in Chats, chat[c] # NoChat
               PROVE  /\ chat[c].at = "ask" => chat[c].answered = chat[c].asked
                      /\ chat[c].answered <= chat[c].asked /\ chat[c].asked <= MaxRounds * MaxCalls
    BY DEF CallsAnswered
  <2>1. chat[c].round \in 0..MaxRounds /\ chat[c].asked \in Nat /\ chat[c].asked <= chat[c].round * MaxCalls
    BY DEF ToolsInv, ToolsTypeOK, Rounds
  <2>2. chat[c].round * MaxCalls <= MaxRounds * MaxCalls
    BY <2>1, ToolLoopAssumption
  <2>3. chat[c].round * MaxCalls \in Nat /\ MaxRounds * MaxCalls \in Nat
    BY <2>1, ToolLoopAssumption
  <2> QED BY <2>1, <2>2, <2>3 DEF ToolsInv, Rounds
<1> QED BY <1>1, ToolsStart, ToolsStep, PTL DEF ToolsSpec
=============================================================================
