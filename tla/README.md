# Verification of the SanAngel assistant

TLA+ specifications of the WhatsApp assistant in `src/`, model-checked with TLC and proved
with TLAPS. One installation of the program serves one branch: a FastAPI backend (webhook, internal chat,
administration panel), one worker process (the code also tolerates several), one SQLite database, GreenAPI as
the WhatsApp gateway and OpenAI as the model. Every module below describes one installation.

## 1. The system

| Part | State it keeps | Operations | Hard behaviour |
|---|---|---|---|
| Inbox (`whatsapp_inbound_queue.py`) | `whatsapp_inbound_jobs` | enqueue, claim_next, complete, mark_uncertain, counts | concurrent requests, rowid reuse, limit |
| Worker (`whatsapp_inbound_worker.py`) | the job in hand | run_once, run_forever | crash, cancellation, threads that outlive their task |
| Orchestrator (`message_orchestrator.py`) | locals of process_message | process_message | order of claim, reserve, send, record; error paths |
| Receipts (`persistent_idempotency_store.py`) | `whatsapp_event_receipts` | claim, mark_processed, release | redelivery, lost responses |
| Responder mode (`conversation_mode_service.py`) | `conversation_responder_states`, audits | begin_ai_reply, request_human_help, finish_ai_reply, take, release | model and staff at the same conversation |
| Identity (`conversation_identity_service.py`) | `conversations`, `messages` | resolve | get-or-create under concurrency |
| Webhook (`api/routes/whatsapp.py`) | none | receive | acknowledge only after the commit |
| Manual replies (`manual_reply_service.py`) | `manual_send_receipts` | reserve, send, finish | ambiguous sends, handoff while sending |
| Privacy (`whatsapp_privacy_service.py`) | none of its own | purge_expired, erase_sender | erasing what others hold by id |
| Administration accounts (`admin_auth_service.py`) | users, sessions, throttle buckets, role audits | login, get_session, change_role, logout, revoke_all | two owners, attempts in parallel, clocks |
| Price import (`price_import_transaction.py`, `admin_price_import_pending.py`) | pending previews, prices, audits | prepare, put, take, confirm | stale previews, take-once, expiry |
| Commercial panel (`admin_commercial_service.py`) | branch, products, prices, FAQs, audits | CRUD | lost updates, audit with every change |
| Review panel (`admin_review_service.py`, `unresolved_question_service.py`) | `unresolved_questions`, FAQs | record, list, resolve | counting against resolving |
| Limits (`resource_limits.py`) | token buckets | allow, read_limited_body | eviction, clocks |
| Tools (`tool_dispatcher.py`, `openai_service.py`) | worker slots | dispatch, tool loop | timeouts that keep their slot |
| In-memory idempotency (`idempotency_store.py`) | a bounded dictionary | claim, mark_processed, release | eviction |
| FAQ (`faq_service.py`, `faq_response_policy.py`) | managed rows over a file's rows | search_faq, resolve | cut results, overridden rows |
| Audit list (`admin_audit_service.py`) | none of its own | list_events | pages over changing tables |
| Backups (`backup_sqlite.py`, `restore_sqlite.py`) | files | backup, restore | the same destination twice, a killed process |
| Front end (`frontend/src`) | the mounted screen, one call | review, send, resolve, import | answers that arrive late, text reviewed and then sent |

How they interact: the webhook writes jobs and returns 200 after the commit; the worker claims a job and runs
the orchestrator, which goes through receipts, identity, responder mode, the chat service (model and tools)
and the GreenAPI client; the panel reads conversations and runs take, release and manual replies against the
same responder row; purge and erasure delete rows of all of them. The panel's commercial requests and the price import write the same
products, prices and audits; the answers of the assistant read prices and FAQs, and the questions it could not answer come back
to the panel, whose resolutions become FAQs. The database is the only state the processes share; the backend alone keeps pending
previews, token buckets and tool slots in memory.

What makes each part correct is stated as properties in the modules; what is not covered is listed with its
reason in section 6 and in `PROJECT.json` (components and hazards).

## 2. How the code is modelled

**Transactions.** SQLAlchemy over pysqlite opens the SQLite write transaction at the first INSERT, UPDATE or
DELETE, not at `sessions.begin()`. SELECTs before that statement see other connections' commits, each on its
own; from the first write to COMMIT nobody else writes. So a transaction whose reads guard a write is modelled
as read steps followed by one write step (the webhook's count, existing and processed reads, then its
INSERT), and a transaction that starts with its write, or whose earlier reads cannot change (the branch row), is
one step. Any transaction may fail and then has no effect.

**Threads.** Every database call of a coroutine runs through `asyncio.to_thread`. Cancelling the task does not
stop the thread. `pc[w]` names the call the task awaits and `orphan[w]` a call whose task was cancelled; the two
interleave freely. An exception that a cancelled task raises while it unwinds replaces the `CancelledError`, and
`run_forever` then goes on.

**Ids.** Tables are not AUTOINCREMENT: a new row gets the largest rowid plus one, and the rowid of a deleted last
row is used again. Jobs are completed and marked by rowid, so the model keeps rowids (`jobId`, `heldId`).

**Abstractions.** Message texts, ciphertexts and times of the flow are left out; whether the customer asks for a
human, whether the model answers and whether GreenAPI responds are choices. A request carries one message, as
GreenAPI sends them. `--once` is one round of the loop. SIGTERM ends the process at once and is a crash; Ctrl-C
cancels the task and the interpreter then waits for the threads.

## 3. Modules

| Module | What it is |
|---|---|
| `ResponderState` | one row of `conversation_responder_states`: the WHERE (`MayX`) and SET (`X`) of every guarded UPDATE |
| `InboundFlow` | webhook requests, inbox, worker, orchestrator, receipts and responder mode as one state machine |
| `InboundFlowInvariant` | the inductive invariants: `FlowInv`, `ReplyInv`, `AdmittedFit`, `AnswersQuietly` |
| `ReplyOnce` | the abstract promise of the inbox: in order, answered at most once, discarded only when closed |
| `InboundFlowRefinement` | the refinement mapping from `InboundFlow` to `ReplyOnce` |
| `MCInboundFlow` | constants of the TLC runs |
| `StaffReply` | panel requests (take, release, manual reply) against AI replies, purge and erasure |
| `StaffReplyInvariant` | its inductive invariant `StaffInv` |
| `MCStaffReply` | symmetry of its TLC runs |
| `Catalog` | products, prices and their audits under concurrent edits, previews and imports |
| `MCCatalog`, `MCImports` | constants of its TLC runs; what the run of imports uses at a time |
| `Logins` | throttle, password slots and sessions of the administration panel |
| `RoleChanges` | role changes as separate statements of concurrent requests |
| `ToolLoop` | rounds of tool calls, worker slots, timeouts and cancellation |
| `Admission` | the token buckets and the bounded reading of a body |
| `Questions` | FAQ rows, searches, unanswered questions and their resolution |
| `Pages` | the inbox and the list of receipts read page by page while rows change |
| `PriceRows` | the parser of price workbooks, row by row |
| `MemoryReceipts` | the bounded in-memory receipts and the batches that use them |
| `Backups` | backup and restore processes at shared destinations |
| `Panel` | the browser: screens, the awaited call, what was reviewed and what is submitted |
| `MCQuestions` | constants of `Questions` |
| `MCParts` | the ten modules above from `Logins` on, in one run |
| `ResponderStateProofs` | lemmas on the guarded UPDATEs of the responder row |
| `InboundFlowTypeProofs`, `InboundFlowProofs`, `InboundFlowReplyProofs` | proofs of the flow: types; ownership and receipts; the inbox's bound, the refinement of `ReplyOnce` and the responder mode |
| `StaffReplyProofs`, `CatalogProofs`, `ToolLoopProofs` | proofs of these three |
| `PartsProofs` | proofs of the other modules of `MCParts`, one section for each, and why `MCParts` is a run of each |

`InboundFlow` in terms of the code: `Deliver`, `ReadExisting`, `ReadProcessed` and `Insert` are the route and
`_enqueue`; `Poll` is `_claim_next`; `Claim` to `FinishReply` are the awaits of `process_message` in their order;
`Undo` and `ReleaseClaim` are its two exception handlers (they do the same); `Complete` and `Mark` are the ends of
`run_once`; `CallFails`, `Cancel`, `OrphanRuns`, `OrphanPolls`, `OrphanEnds`, `Restart` and `Crash` are the failures; `TakeOver` and
`GiveBack` are `take` and `release`.

`StaffReply` shares `ResponderState` with `InboundFlow` and looks at the same rows from the panel. `desk[d]` is the request a
connection serves: `Submit` is the role read of `_authorize` (any user may turn out editor or owner; a viewer's request
ends at once and is no step), `TakeOver` and `GiveBack` are `take` and `release`, `Look` and `Reserve` the reads and the writes of
`_reserve`, `Send` the GreenAPI call, `Check` and `Settle` the read and the writes of `_finish`, `Abandon` a failed
transaction or a crash. `ResolveConversation` and `AiReply` stand for the worker, `Age`, `Purge` and `EraseSender` for time, the
daily purge and the operator's erasure. Time passes for a conversation only while no request is in progress: a
request does not last thirty days. The messages of a conversation, which the purge looks at too, are as old as its
`updated_at`, because every insert of one updates it. An erasure is refused while a job of the sender is started;
`row[c].aiReplies = 0` stands for that, as a reserved reply belongs to such a job. `sent` and `answered` record history and
guide no action; they are forgotten with the conversation. `Spec` has the daily purge and no erasures; `ErasingSpec` adds `EraseSender`.

`Catalog` has requests of two kinds. An edit (`SubmitEdit`) reads in `Look` what its handler reads before the first write and writes
everything in `Write`: `PutPrice`, `DeletePrice`, `UpdateProduct` and `CreateProduct` are the four handlers with their receipts. An
import is `SubmitPreview`, `Compare` (the rows against the table), `Put` into the pending store and, in a later request, `Take`,
`Confirm` (second comparison, the actor's role, prices, receipts and record in one transaction), with `Refuse`, `ConfirmFails` and
`RecordFailure` for its other endings. `Demote` takes a role away, `Expire` and `Restart` empty the pending store. Amounts are a
few values, and a product's name is one of a few; what makes a name ambiguous is left out.

`Logins` and `RoleChanges` are the two halves of `admin_auth_service.py`. A login counts its attempts and commits (`CountAttempt`), waits
for one of the `_HASH_SLOTS`, checks the password and inserts a session in a second transaction (`Verify`), which is why a failure
there leaves the attempt counted. `guesses` records the passwords checked in a window, in the step that checks them, and `carried` the requests
that were admitted before the window began and were still waiting then; neither guides an action. A row past its window or expiry counts as no row. A role change reads permission, actor and target in
statements of their own (`StartChange`, `ReadActor`, `ReadTarget`) and writes with one UPDATE that names the old role and tests
the actor's (`UpdateRole`).

`ToolLoop` has a message per `chat[c]`, which moves through the loop of `generate_reply_with_tools` (`Ask`) and `dispatch` (`Dispatch` to
`ToolError`), and a future per submitted call with the life of a thread of its own (`Run`, `Finish`, `ReleaseSlot`). `CallTimeout` is the
`future.result(timeout)` that gives up: a queued future is cancelled and gives its slot back, a running one goes on alone (`Lost`).

`Questions` reads the FAQ in one step, as the code does in one statement, and counts an unanswered question in another; a panel request
reads first (`OpenFaq`, `OpenGap`) and then writes the columns that differ (`Written` is what the ORM does). `PurgeGaps` is the retention of
unanswered questions, which takes them off the list without an answer. `Pages` gives each row the
key of its ORDER BY and an offset; `walk` is one reader. `PriceRows` writes a sheet and then runs `parse_price_import` over it.
`MemoryReceipts` has one step per awaited method, since each holds the lock throughout. `Backups` has one step per file operation and
lets a process be killed between any two. In `Panel`, `call` is the request the screen awaits (every button is disabled meanwhile), and
the server may answer anything about the record asked for; `reviewed` and `submitted` record history and guide no action.
`Admission` counts bytes and time in small units; time advances by one token's worth.

Definitions whose name starts with `Wrong` are plausible mistakes in the code; no action uses
them, and each property is checked to fail when one of them replaces the definition next to it.

## 4. Runs

| Run | Checks | Shows |
|---|---|---|
| `InboundFlowFaults` | `AtMostOneSend`, `AckImpliesAlert`, `KeepsPromise` | Three messages of one customer, two workers: crashes, failed transactions, provider failures and undecryptable payloads never answer a message twice, never acknowledge help without an alert, and the flow implements ReplyOnce. |
| `InboundFlowCancel` | `FlowInv`, `HumanExcludesAi`, `NeverRequeued` | Cancelled tasks whose threads outlive them and failed transactions: the inductive invariant of the proofs, the ownership of a conversation and the rule that started jobs are not retried. |
| `InboundFlowRedelivery` | `AckedIsKept`, `InboxBound`, `HelpSilencesAi` | Two concurrent requests at a full inbox, with failed transactions: no acknowledged message is lost, the limit is exceeded by one job per further request at most, and an alert silences the model. |
| `InboundFlowSettles` | `JobsSettle`, `HelpReachesStaff` | Under the fairness of the worker loop, with a failing model and undecryptable payloads: every accepted job is processed or put before the operator as uncertain, and a help alert ends in a conversation staff can take, for every reservation is given back. |
| `StaffReplyRace` | `BlockMatchesReceipts`, `OneSendPerRequest`, `SendsSettle` | Three panel requests of two users at one conversation, with provider errors: a draft is sent once, a conversation is blocked exactly while one send of its assignee is open, and every reserved send ends accepted or uncertain. |
| `StaffReplyPurge` | `TypeOK`, `StaffInv`, `AcceptedIsAnswered`, `UnsettledHoldsChat` | Manual sends against dying requests, failed transactions and the purge of expired conversations with reused ids: the inductive invariant of the proofs, and no conversation with an open send disappears or is handed on. |
| `Catalog` | `TypeOK`, `ConsumedOnce`, `ImportAsReviewed`, `ImportIsAudited` | A workbook of two products is previewed and confirmed while prices and products are edited, or by two sessions that confirm two previews twice and each other's, with demotions, expiry and restarts: a preview is used once and by its session, the import writes what was reviewed or nothing, and its receipts tell it. |
| `Parts` | `PartsTypeOK`, `GuessesBounded`, `OwnerRemains`, `SlotsAccounted`, `CallsAnswered`, `RateBounded`, `WalkTellsAll`, `WholeOrNothing`, `NoSecondAttempt`, `ReportedIsWhole`, `RoleChangesAreTold`, `MessageEnds`, `EvictsOldest`, `AnswersAreApproved`, `SubmitsWhatWasReviewed` | Ten parts that share no state, each against its own hazards: logins, role changes, tool calls, admission, unanswered questions, lists read page by page, price workbooks, in-memory receipts, backups and the browser's panels. |

Runs that show where the code departs from its documentation:

- `StaffReplyErasure` violates `AcceptedIsAnswered`: _finish finds its receipt by id alone, and an erasure during the send deletes the receipt, whose id SQLite gives to the next one: the late confirmation then marks another customer's send accepted (and unblocks that conversation) while that send may itself time out; docs/fase_9_respuesta_humana.md:21 says "Un timeout u otro fallo ambiguo queda `uncertain`." The run shows a receipt that is accepted although the provider never answered its request.
- `StaffReplyRecipient` violates `SentToOwner`: _reserve reads the conversation and decrypts its recipient before the first write starts the SQLite write transaction; the later UPDATE checks only id, mode and assignee. A purge, a new conversation with the same id and a take by the same user in between leave the decrypted recipient of the old conversation; docs/fase_9_respuesta_humana.md:11 says "Se valida contra el HMAC de la conversación y el código de la instalación antes de enviar". The run shows a text about to be sent to a sender who does not own the conversation it is recorded in.
- `CatalogAudit` violates `AuditTellsChange`: put_price and delete_price read the price before their first write takes the database lock, and write by primary key without naming the amount they read, so the receipt of the later of two edits says an old amount that was replaced already; docs/fase_8_commercial.md:35 says "Cada cambio efectivo crea en la misma transacción un recibo" which for prices "incluye producto, unidad e importe anterior y nuevo" (line 36). The run shows a price change whose receipt does not carry the amount before it.
- `QuestionsResolution` violates `ResolvesWithActiveFaq`: resolve_faq reads the managed FAQ before its first write takes the database lock, sets is_active on the object it read and lets the ORM write only the columns that differ from what was read; an update_faq or deactivate_faq that commits in between is kept, and the aggregate is deleted all the same. docs/fase_8_revision.md:23-24 says of the resolution "Si coincide, crea o actualiza una FAQ activa y retira el agregado en una sola transacción." The run shows a question that leaves the list while no active FAQ has it.

**Bounds.** `Msgs`, `Workers`, `Hooks` and `MaxJobs` bound the instance; no counter is cut off by a state constraint. Two
workers and two requests are the smallest numbers with a race; three messages let a rowid be reused while
another job waits; `MaxJobs` 1 or 2 makes the inbox full. `Faults` selects the failures of a run, so that each
combination stays exhaustive: `InboundFlowCancel` cancellations and failed transactions with
two, `InboundFlowFaults` everything but cancellations with three. `InboxBound` is weaker than the "5000 trabajos por
instalación" of `docs/fase_10_cola.md`: requests that count before any of them inserts exceed the limit by one row for each
further request. `HelpSilencesAi` is a property of one worker without cancellations, and its run has these. One bound is in a guard: a task is cancelled
once at a time, that is neither again while it unwinds (whatever became of its thread) nor, when it went on with the next job after all, while the
thread it left before still runs (`Cancel`).

`StaffReply` has bounds on ids (`ChatIds`, `ReceiptIds`) and on AI replies in flight (`MaxReplies`), all in guards. Two requests with the same id
are the race of a double confirmation, the third desk is the handoff between them; two senders and three conversation
ids let a purged id come back for another customer. `StaffReplyPurge` has one user, so that the clause of `UnsettledHoldsChat` about
another user rests on its theorem. The proofs need none of these bounds.

`Catalog` has two products, with demotions, expiry and restarts at any moment. `MCImports` chooses at the beginning what is used: either
one session with an edit and an import at a time, because an edit that reads before and writes after any step of the import is what can make it
wrong, or two sessions of different users, two importers and two previews, in which a preview is confirmed twice, by the session that made it and
by another one, while the other preview takes its place in a store of one. Its theorems cover any number of all of these.

`MCParts` runs ten modules that share no state: `focus` is chosen at the beginning, one of them runs and the others rest in one
initial state, so that the reachable states are the sum and not the product of theirs. Each is small where its hazard needs no more:
two logins, two names and an address at one slot, with limits of one and two,
two role changes and three users, two messages at two tool slots, three peers at two buckets, two ids in memory for three messages,
two backups at two destinations. Bounds in guards: the count of a login attempt stops one above its limit
(`CountAttempt`), the clock of `Admission` at `LastTick`, of `Pages` at `LastTime`, ids at their sets, a sheet at one row more than
allowed (`WriteRow`). In `Pages` only the list that is read changes. `Questions` has two
panel requests at a time, with one text and one unanswered question in `MCParts`, two of each in `QuestionsResolution`. Deadlock is not checked there: a sheet that was parsed, and a table whose ids are
used up, is the end. `PartsTypeOK` joins the types of the five parts that have a type invariant; the other five have properties that
say more of the same variables.

**Senders.** The runs of `InboundFlow` have one customer: all that conversations of different customers share is the order of the
inbox, in which messages of one customer stand for any. Its theorems hold for every number of customers.

**Symmetry** is used in the safety runs only, over messages of one sender, senders, workers, requests, desks and users.

**Fairness.** `FairSpec` asks for weak fairness of `Poll` and of `Advance` for each worker: `run_forever` polls again after
every job, and every awaited call returns or raises (the HTTP clients have timeouts). Nothing is assumed of
GreenAPI's deliveries, the panel or failures. `JobsSettle` and `HelpReachesStaff` are checked without database failures, crashes, cancellations and ambiguous sends, for each of these may leave a job in
`processing` or a reservation in place by design; the model may fail at any time. `SendsSettle` assumes
weak fairness of `Serve` for each desk (the provider call has a timeout and the coroutine then goes on) and again neither
crashes nor failed transactions: after those the receipt stays pending for the operator, as the documentation says. Erasures are no step of `Spec`,
and so left out of it as of the safety properties of sends: a late confirmation of an erased send can unblock the wrong conversation (`StaffReplyErasure`).
`ToolsFairness` asks for weak fairness of what the server does for each message by itself (`Proceed`): the provider's client and the
dispatcher have timeouts. It asks nothing of the threads of the tools, which may never end; `MessageEnds` holds all the same.

## 5. Proofs

| Theorem | Module | Establishes |
|---|---|---|
| `TypeSafety` | `InboundFlowTypeProofs` | The types are an invariant of the flow for every set of messages, senders, workers and requests and every set of faults. |
| `FlowSafety` | `InboundFlowProofs` | The inductive invariant: jobs have one owner, a cancelled task and the thread it left never work against each other, and every worker knows its receipt. |
| `AnsweredAtMostOnce` | `InboundFlowProofs` | No message is answered by more than one sendMessage request, whatever is redelivered, crashes, fails or is cancelled. |
| `AcknowledgedIsKept` | `InboundFlowProofs` | A message GreenAPI saw an HTTP 200 for is in the inbox or its receipt is completed. |
| `NotRequeued` | `InboundFlowProofs` | A started job is never pending again and an uncertain one never changes. |
| `InboxIsBounded` | `InboundFlowReplyProofs` | The inbox exceeds its limit by one job for each other concurrent request at most, for every limit and every finite set of requests. |
| `PromiseIsKept` | `InboundFlowReplyProofs` | The flow implements ReplyOnce under every fault: each step starts a message in order, answers one that is started, discards one that is closed, or changes nothing of these. |
| `HumansExclude` | `InboundFlowReplyProofs` | No human holds a conversation while a reply to it is reserved or leaving, from a task or from a thread that outlived its task. |
| `AcksAreTrue` | `InboundFlowReplyProofs` | An acknowledgement of a help request is sent only while the alert it announces stands. |
| `AlertSilences` | `InboundFlowReplyProofs` | With one worker that is not cancelled, the only text that leaves while an alert stands is the acknowledgement: both hypotheses are needed, and the documentation makes the first. |
| `StaffTypeSafety` | `StaffReplyProofs` | The types are an invariant of the staff side for every set of users, desks, requests, senders and ids and every set of faults, without erasures and with them. |
| `StaffSafety` | `StaffReplyProofs` | The inductive invariant, under every set of faults and the purge (no step of Spec erases a sender): every request between reservation and settlement holds a pending receipt of its own, and receipts, blocks and sends agree. |
| `SentOnce` | `StaffReplyProofs` | A confirmed draft reaches the provider at most once. |
| `BlockedByReceipt` | `StaffReplyProofs` | A conversation is blocked exactly while one send of its assignee is open. |
| `AcceptedWasAnswered` | `StaffReplyProofs` | An accepted receipt was answered by the provider, although the purge lets ids be used again; with erasures it is not so (StaffReplyErasure). |
| `UnsettledKeepsChat` | `StaffReplyProofs` | No step purges, hands over or gives back a conversation with an open send. |
| `PreviewsAreConsumedOnce` | `CatalogProofs` | A preview is held by one request at most, is out of the store while it is held and is not recorded before: for every number of requests, sessions and previews. |
| `CatalogTypeSafety` | `CatalogProofs` | Products keep distinct names and prices belong to products, whoever edits and imports at once, and the store of previews keeps its limit. |
| `ImportsAreAsReviewed` | `CatalogProofs` | A committed import replaces exactly the amounts its user saw by exactly the amounts its user saw, whatever was edited since the preview. |
| `ImportsAreAudited` | `CatalogProofs` | The receipts of an import tell every price it changed, with the amounts before and after, and no other. |
| `LoginsTypeSafety` | `PartsProofs` | The types are an invariant of the logins, sessions of registered users only among them, for every number of requests, names and slots. |
| `GuessesAreBounded` | `PartsProofs` | No name and no address gets more passwords checked in a window than its limit and the requests that were admitted before the window and still waited, for every limit and however many requests run at once and wherever they stop. |
| `RolesTypeSafety` | `PartsProofs` | The types are an invariant of the role changes: users do not disappear, and nobody's request is about oneself. |
| `OwnerStays` | `PartsProofs` | The branch keeps an owner, for every set of users and every number of concurrent role changes. |
| `ChangesAreTold` | `PartsProofs` | Every role change is made by an owner of that moment about somebody else, and its receipt tells the role that was replaced. |
| `ToolsTypeSafety` | `ToolLoopProofs` | The types are an invariant of the tool loop: the slots counted as free stay between none and all. |
| `SlotsAreAccounted` | `ToolLoopProofs` | No slot is lost or given back twice, for every number of messages, calls and slots. |
| `CallsAreAnswered` | `ToolLoopProofs` | The model is asked again only when all its calls were answered, and a message costs a bounded number of calls. |
| `AdmissionTypeSafety` | `PartsProofs` | The table of buckets keeps its limit and agrees with its order, and no more bytes of a body are kept than allowed. |
| `RateIsBounded` | `PartsProofs` | A peer that stays in the table is admitted no more often than its burst and the time since it came allow. |
| `OldestIsEvicted` | `PartsProofs` | Only the peer that has been silent longest loses its bucket. |
| `QuestionsTypeSafety` | `PartsProofs` | One managed row for each question and one aggregate for each question and reason, whatever requests overlap. |
| `ApprovedAreTold` | `PartsProofs` | A question is answered exactly when one approved text exists for it, and with that text, although the search is cut off before it is filtered. |
| `WalksTellAll` | `PartsProofs` | Whoever reads a list to its end has seen every row that was there and neither moved nor stood behind one that left. |
| `ImportsAreWhole` | `PartsProofs` | A sheet is imported whole and in the order of its rows or not at all, and a refusal names every row to blame. |
| `MessagesAreTriedOnce` | `PartsProofs` | A message whose send may have happened is never claimed again, however small the store of receipts. |
| `ReportsAreWhole` | `PartsProofs` | A backup that was reported stays whole, however many processes share its destination, fail or are killed. |
| `ReviewedIsSubmitted` | `PartsProofs` | A confirmation submits what was reviewed, for the record that was reviewed, whatever answers arrive in between. |
| `PartsRunEach` | `PartsProofs` | The run that checks the ten parts together is a behaviour of each part, so that what is proved of a part is what the run checks. |
| `PartsTypeSafety` | `PartsProofs` | All types of the parts, as the run states them. |

Every invariant and every action property of the passing runs has a theorem in this table. What the theorems assume is named in the
modules (`...Assumption`) and, in one of them, in the statement; no theorem assumes a bound of the runs. The argument of each:

**`InboundFlow`.** `TypeOK` is inductive by itself. `AtMostOneSend` and `AckedIsKept` are not: nothing in them says why a worker that is about
to send is the only one, nor why the job it deletes has a completed receipt. `FlowInv` adds the two missing
halves. *Ownership* (`OwnerInv`): a started row is worked on by one worker only, its task or the thread the task
left, under the rowid it has now; rowids are reused but never shared; a task meets its own left-over thread on the
same message only while it gives back what that thread does not use. *Knowledge* (`ReceiptInv`): what the position of a worker
says about the receipt of its message and about sends, that a claimed receipt belongs to a started job, and that
a send leaves a receipt. One lemma per action shows that it preserves each half; `FlowSafety` joins them and the other
theorems follow from it. The theorems hold for every set of messages, senders, workers, a finite set of requests, every `MaxJobs` and every set of
faults, under `FlowAssumption` and `NoUserAssumption`.

- `HumanExcludesAi` and `AckImpliesAlert` rest on `ReplyInv`: the counter of a responder row is at least the number of workers whose task or
  thread has a reservation there (`RepliesCounted`; a crash may leave it higher, never lower), a row with reservations
  has no human owner (`OwnersChecked`), and only a worker that recorded a help request acknowledges (`AcksAsked`). An action moves one worker
  in or out of a finite set and the counter with it; the proofs take `Replies(s)` before and after, and the UPDATE's WHERE clause from
  `ResponderStateProofs`.
- `InboxBound` rests on `AdmittedFit`, which counts the jobs and the requests that saw room and may still insert together. The last request
  to see room saw fewer than `MaxJobs` jobs, and at most all requests see room at once; each insert then takes one request away and adds one
  job. The number of jobs alone has no inductive bound.
- `PromiseIsKept` maps each step to a step of `ReplyOnce` or to none: a worker's step leaves the tables alone unless it is `Poll`, `Send`,
  `Complete` or `Mark` (`Quiet`), and for those `FlowInv` supplies what the promise asks: that the job sent for is started, not answered before,
  and closed when it is discarded.
- `AlertSilences` has two hypotheses, one worker and no cancellation. With two workers, one may answer while the other records a help
  request of the same customer; the thread of a cancelled task does so too, when an exception of a failed transaction keeps the
task alive for the next message. The documentation prescribes one worker, which is why the property says
  something of the installed system.

**`StaffReply`.** `BlockMatchesReceipts` is not inductive: nothing in it says that a settlement unblocks the
conversation its own receipt blocked. `StaffInv` adds that a desk between reservation and settlement holds a pending
receipt that is its own and no other desk's (`DesksHold`), that receipts refer to live conversations and to distinct requests
(`TablesAgree`, `RequestsUnique`), and that the provider was called for stored requests only (`SendsAgree`). All of it rests
on receipts being deleted only with settled conversations, so the theorems are about `Spec`, which erases no sender; the run
`StaffReplyErasure` shows that they fail of `ErasingSpec`, of which only the types are proved. That no receipt outlives its conversation is not
stated: the foreign keys of the schema refuse such a row (`db/session.py` turns them on for every connection).

**`Catalog`.** `CatalogInv` follows a preview: what a request holds left the store, is held by no other request and has no record
(`Held`), what left the store does not come back (`Stored`), and nothing that is still there was confirmed (`Unattempted`).
`CatalogTypes` says what every
request read and may still rely on, and that products have distinct names and at most one price row each; new rows of an import take
distinct ids, so that the amount of every product after it is the workbook's (`ImportFacts`). `ImportAsReviewed` and `ImportIsAudited`
follow from that and from the second comparison, which the confirmation makes in the step that writes.

**`Logins`, `RoleChanges`.** `GuessesBounded` is not inductive: a guess is made when a password is checked, long after its attempt was counted. `Counts`
adds the requests that were admitted and still wait: together with the guesses they are at most the attempts counted in the window plus those carried
into it, and at most the limit plus those. A request moves from the one side of the sum to the other (`RequestEndKeeps`), and the end of a window
turns all that wait into carried ones (`WindowKeeps`).
`OwnerRemains` is inductive once the types say that nobody's request is about oneself: the UPDATE tests that the actor is an
owner in the statement that changes another user, so after it the actor still is one; the receipt tells the change
because the same statement names the old role.

**`ToolLoop`.** The sum of free slots, dispatches about to submit and futures not done is kept by every step; its proof
counts one element in or out of two finite sets. It needs `Linked`: a call that somebody awaits belongs to a message that
waits, and to that call only, so that a thread that ends wakes nobody else. `Rounds` strengthens `CallsAnswered` with the
round: `asked` is at most the rounds so far times the calls of one response.

**`Admission`.** `order` lists every known peer once, by the time of its last request; that makes the head the oldest
(`EvictsOldest`), and the table as large as the order is long. `RateBounded` needs the tokens (`Spends`): `admitted + tokens` is at most the burst
and the ticks from the peer's first to its last request.

**`Questions`.** `AnswersAreApproved` is about a list that is cut off: exact matches come first in it, so either all of them are shown
or the cut shows exact matches only, two at least (`MaxShown >= 2`), and then the answer is left open as well (`CutFacts`).
The types say that an open request knows a row that still exists, which the purge
does not disturb because it deletes no managed row.

**`Pages`.** `WalkTellsAll` needs to know what a reader between two pages is still owed (`Owed`): a row that was there at the beginning and
was not seen stands behind the page that is shown. The lemmas count the rows in front of a row (`FrontOf`): of a
row that is not disturbed, whatever stood in front stays in front, so that its place only grows (`FrontKeeps`); and the first rows of each table are
enough to find the first rows of all (`PageShows`).

**`PriceRows`.** The invariant follows the loop (`Reading`): a filled row that was read is kept, in order, or blamed, and there is no issue
exactly when the rows read so far are sound together.

**`MemoryReceipts`.** A message that a batch has in hand has an unfinished entry and is in no other batch's hands (`HandsInv`); one whose
send may have reached the customer without a record keeps an unfinished entry for good (`PendingInv`). Eviction takes finished entries only, and
the entry is found in a sequence without duplicates.

**`Backups`.** From its creation to its report a file is its maker's (`Makers`): nobody else opens an existing one (`O_EXCL`) or removes what it
did not make, and it is not reported yet; what is reported has no maker at work any more.

**`Panel`.** What a screen shows for confirmation is what was reviewed, for the record it shows (`ReplyShown`, `AnswerShown`,
`ImportShown`), and while a call that will replace the record is awaited nothing is shown for confirmation.

**`MCParts`.** `PartsRunEach`: a step of the run is a step of one part and leaves the others alone, so it is a behaviour of every part
and the theorems hold there too.

**Assumptions on constants.** `NoEntry`, `NoRow`, `NoFile`, `NoThread`, `NoIssue` and `None` stand for absence and differ from every value
the code stores there; ids of rows are positive (SQLite rowids begin at one); the FAQ file, the requests in progress and the messages are finite.

**Only model-checked.** The liveness properties `JobsSettle`, `HelpReachesStaff`, `SendsSettle` and `MessageEnds`: they need fairness, which
is defined by ENABLED, and that is out of the prover's reach. The four runs that expect a violation have counterexamples and nothing to prove.

## 6. Not modelled

- Configuration, dependency injection, migrations, observability: done once, or without effect on behaviour.
- Product disambiguation and commercial look-ups: pure functions of texts, whose model would repeat their scoring.
- The retention of event receipts, and the erasure's look at the inbox, which may race a claim: `StaffReply` has erasure as the code
  intends it. `erase_sender` counts the started jobs before its first DELETE takes the lock; a job that is claimed in between is worked on after its
  sender was erased, which `docs/fase_7_privacidad.md:63` and `docs/fase_10_cola.md:83` exclude.
- `update_branch`, categories, lists with filters, frequencies of questions.
- The commercial and audit screens; lists, filters and the periodic refresh of the other screens.
- Deployment gates and probes: sequential scripts run by an operator.

Two more departures from the documentation are known and have no run of their own. A task that is cancelled while the thread of its
claim runs leaves a claimed receipt that nobody releases (`message_orchestrator.py:64` against `docs/fase_9_modo.md:26`), and a thread that
outlives a cancelled mark may hit the rowid's next owner (`whatsapp_inbound_queue.py:207` against `docs/fase_10_cola.md:50`).
`FlowInv` says exactly what holds in spite of both.

## 7. Plan

1. Done: inbound flow, manual replies with purge and erasure, price import with the commercial panel, accounts, tool loop, limits, questions
   and FAQ, lists, workbooks, in-memory receipts, backups, front end; proofs of every safety and action property of the passing runs.
2. Left to model: erasure against the inbox and its worker; the commercial screen.
3. Left to prove: that `InboundFlow` and `StaffReply`, which share `ResponderState`, implement one specification of the responder row; what
   erasures leave true of a settlement.
