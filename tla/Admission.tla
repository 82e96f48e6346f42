----------------------------- MODULE Admission ------------------------------
(***************************************************************************)
(* Admission of HTTP requests: a token bucket per peer in a bounded table, *)
(* then the body, chunk by chunk, under a size and a time limit. One tick  *)
(* of the clock replenishes one token; bytes are counted in small units.   *)
(***************************************************************************)
EXTENDS Naturals, Sequences, SequencesExt

CONSTANTS
  Peers,
  Capacity,  \* burst of a bucket
  MaxKeys,   \* MAX_RATE_KEYS
  MaxBytes,  \* the route's limit of body bytes
  LastTick,  \* bound of the model
  NoEntry

ASSUME AdmissionAssumption ==
  /\ {Capacity, MaxKeys, MaxBytes} \subseteq Nat \ {0} /\ LastTick \in Nat
  /\ NoEntry \notin [tokens : Nat, at : Nat]

VARIABLES
  clock,
  entries,   \* peer -> tokens and the time of its last request, or NoEntry
  order,     \* the peers in the table, as the OrderedDict holds them
  admitted,  \* peer -> requests admitted since it is in the table (history)
  since,     \* peer -> when it entered the table (history)
  body       \* the request whose body is being read

admissionVars == <<clock, entries, order, admitted, since, body>>

NoBody == [at |-> "none"]
Lesser(a, b) == IF a < b THEN a ELSE b
Known(p) == entries[p] # NoEntry

Tokens(p) == IF Known(p) THEN Lesser(Capacity, entries[p].tokens + (clock - entries[p].at)) ELSE Capacity

\* A new peer in a full table takes the place of the one that comes first.
Evicted(p) == IF ~Known(p) /\ Len(order) >= MaxKeys THEN {Head(order)} ELSE {}
Popped(p) == IF Known(p) THEN RemoveAt(order, CHOOSE i \in DOMAIN order : order[i] = p)
             ELSE IF Evicted(p) = {} THEN order ELSE Tail(order)
\* Operators that start with "Wrong" carry one mistake the properties must notice; no action uses them.
WrongReordered(p) == IF Known(p) THEN order ELSE Append(Popped(p), p)
Reordered(p) == Append(Popped(p), p)
WrongStamp(p) == IF Known(p) THEN entries[p].at ELSE clock
Stamp(p) == clock

\* allow: one lock around everything but the reading of the clock.
Allow(p, length, declared) ==
  /\ body = NoBody
  /\ LET allowed == Tokens(p) >= 1
         entry == [tokens |-> IF allowed THEN Tokens(p) - 1 ELSE Tokens(p), at |-> Stamp(p)]
     IN  /\ entries' = [q \in Peers |-> IF q = p THEN entry ELSE IF q \in Evicted(p) THEN NoEntry ELSE entries[q]]
         /\ order' = Reordered(p)
         /\ admitted' = [admitted EXCEPT ![p] = (IF Known(p) THEN @ ELSE 0) + (IF allowed THEN 1 ELSE 0)]
         /\ since' = [since EXCEPT ![p] = IF Known(p) THEN @ ELSE clock]
         \* A length that is malformed, repeated or over the limit is refused before any byte is read.
         /\ body' = IF allowed /\ (declared => length <= MaxBytes)
                    THEN [at |-> "read", length |-> length, size |-> 0] ELSE NoBody
  /\ UNCHANGED clock

WrongFits(size) == size <= MaxBytes + 1
Fits(size) == size <= MaxBytes

\* One chunk: it counts first and is kept (size is what is kept) only when the sum is within the limit.
ReadChunk(n) ==
  /\ body.at = "read" /\ body.size + n <= body.length
  /\ body' = IF Fits(body.size + n) THEN [body EXCEPT !.size = @ + n] ELSE NoBody
  /\ UNCHANGED <<clock, entries, order, admitted, since>>

Complete == body.size = body.length
PassOn ==
  /\ body.at = "read" /\ Complete
  /\ body' = [body EXCEPT !.at = "route"]
  /\ UNCHANGED <<clock, entries, order, admitted, since>>

\* The route ends, or the body times out or its sender disconnects: both refuse the request.
BodyEnds ==
  /\ body # NoBody /\ body' = NoBody
  /\ UNCHANGED <<clock, entries, order, admitted, since>>

Tick == /\ clock < LastTick /\ clock' = clock + 1
        /\ UNCHANGED <<entries, order, admitted, since, body>>

AdmissionInit ==
  /\ clock = 0 /\ order = <<>> /\ body = NoBody
  /\ entries = [p \in Peers |-> NoEntry] /\ admitted = [p \in Peers |-> 0] /\ since = [p \in Peers |-> 0]

AdmissionNext ==
  \/ \E p \in Peers, length \in 0..MaxBytes + 1, declared \in BOOLEAN : Allow(p, length, declared)
  \/ \E n \in 1..MaxBytes + 1 : ReadChunk(n)
  \/ PassOn \/ BodyEnds \/ Tick

AdmissionSpec == AdmissionInit /\ [][AdmissionNext]_admissionVars

\* No more than the limit of a body is ever kept, and what reaches the route is all of it.
AdmissionTypeOK ==
  /\ clock \in 0..LastTick
  /\ entries \in [Peers -> {NoEntry} \cup [tokens : 0..Capacity, at : 0..clock]]
  /\ IsInjective(order) /\ Len(order) <= MaxKeys /\ ToSet(order) = {p \in Peers : Known(p)}
  /\ admitted \in [Peers -> Nat] /\ since \in [Peers -> 0..clock]
  /\ body \in {NoBody} \cup [at : {"read", "route"}, length : 0..MaxBytes + 1, size : 0..MaxBytes]
  /\ body.at = "route" => body.size = body.length

\* However its requests are spread, a peer that stays in the table is admitted no more often than its burst and
\* the time since it came allow.
RateBounded == \A p \in Peers : Known(p) => admitted[p] <= Capacity + (clock - since[p])

\* Only the peer that has been silent longest loses its place, and with it the account of what it used.
EvictsOldest ==
  [][\A p \in Peers : Known(p) /\ entries'[p] = NoEntry => \A q \in Peers : Known(q) => entries[p].at <= entries[q].at]_admissionVars
=============================================================================
