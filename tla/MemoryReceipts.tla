--------------------------- MODULE MemoryReceipts ---------------------------
(***************************************************************************)
(* The in-memory receipts of messages (a bounded dictionary in the order   *)
(* of its keys) and the batches that process messages with them. Each      *)
(* method runs under one lock without an await, so it is one step.         *)
(***************************************************************************)
EXTENDS Naturals, Sequences, SequencesExt

CONSTANTS
  Batches,     \* batches in progress
  MessageIds,
  MaxEntries,  \* max_entries
  NoMessage

ASSUME MemoryAssumption == MaxEntries \in Nat \ {0} /\ NoMessage \notin MessageIds

VARIABLES
  entry,    \* _entries: ids in the order they were claimed, with whether they were processed
  batch,    \* the message each batch is processing, and whether its send began
  pending   \* ids whose send began and was not confirmed (history)

memoryVars == <<entry, batch, pending>>

Claimed == {e.id : e \in ToSet(entry)}
Rest == [id |-> NoMessage, sent |-> FALSE]
Processed == {i \in DOMAIN entry : entry[i].done}
PlaceOf(id) == CHOOSE i \in DOMAIN entry : entry[i].id = id
Without(id) == IF id \in Claimed THEN RemoveAt(entry, PlaceOf(id)) ELSE entry

\* A full store gives up the oldest processed id.
\* Operators that start with "Wrong" carry one mistake the properties must notice; no action uses them.
WrongEvictable == DOMAIN entry
Evictable == Processed
Room == IF Len(entry) < MaxEntries THEN {entry}
        ELSE {Without(entry[i].id) : i \in {j \in Evictable : \A k \in Evictable : j <= k}}

\* A claimed id is skipped; a store full of unfinished ids refuses the message.
ClaimReceipt(b, id) ==
  /\ batch[b] = Rest
  /\ IF id \in Claimed \/ Room = {} THEN UNCHANGED <<entry, batch>>
     ELSE /\ \E room \in Room : entry' = Append(room, [id |-> id, done |-> FALSE])
          /\ batch' = [batch EXCEPT ![b] = [id |-> id, sent |-> FALSE]]
  /\ UNCHANGED pending

BeginSend(b) ==
  /\ batch[b].id # NoMessage /\ ~batch[b].sent
  /\ batch' = [batch EXCEPT ![b].sent = TRUE] /\ pending' = pending \cup {batch[b].id} /\ UNCHANGED entry

\* A reply was sent, or there was nothing to send.
MarkProcessed(b) ==
  /\ batch[b].id # NoMessage /\ batch[b].id \in Claimed
  /\ entry' = [i \in DOMAIN entry |-> IF entry[i].id = batch[b].id THEN [entry[i] EXCEPT !.done = TRUE] ELSE entry[i]]
  /\ batch' = [batch EXCEPT ![b] = Rest] /\ pending' = pending \ {batch[b].id}

Releases(b) == ~batch[b].sent
\* Only a failure or cancellation before the send releases the receipt; later ones keep it claimed.
MessageFails(b) ==
  /\ batch[b].id # NoMessage
  /\ entry' = IF Releases(b) THEN Without(batch[b].id) ELSE entry
  /\ batch' = [batch EXCEPT ![b] = Rest] /\ UNCHANGED pending

MemoryInit == entry = <<>> /\ batch = [b \in Batches |-> Rest] /\ pending = {}

MemoryNext ==
  \E b \in Batches : \/ BeginSend(b) \/ MarkProcessed(b) \/ MessageFails(b)
                     \/ \E id \in MessageIds : ClaimReceipt(b, id)

MemorySpec == MemoryInit /\ [][MemoryNext]_memoryVars

\* However small the store, a message is in the hands of one batch at a time, and one whose send may have reached
\* the customer is never answered again: only confirmed replies are forgotten.
NoSecondAttempt ==
  /\ Len(entry) <= MaxEntries /\ pending \subseteq Claimed
  /\ \A b, c \in Batches : b # c /\ batch[b].id # NoMessage => batch[b].id # batch[c].id /\ batch[b].id \in Claimed
  /\ \A b \in Batches : batch[b].id \in pending => batch[b].sent
=============================================================================
