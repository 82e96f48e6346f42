------------------------------- MODULE Pages --------------------------------
(***************************************************************************)
(* Reading a list of the panel page by page while its rows change: the     *)
(* receipts of three tables, merged by time (list_events), and the inbox   *)
(* of conversations (list_conversations). The next page is the one that    *)
(* begins where the last one ended. Filters by state are left out; times   *)
(* are coarse, so that many rows have the same.                            *)
(***************************************************************************)
EXTENDS Naturals, FiniteSets

CONSTANTS
  Tables,       \* the tables of receipts
  AuditIds,     \* ids of the receipts of each table
  Threads,      \* ids of conversations
  PageSize,     \* limit
  MaxOffset,    \* MAX_OFFSET
  LastTime,     \* bound of the model
  NoThread

Conversation == 2  \* of the tables 1 commercial, 2 conversation, 3 role, in the order of their names

ASSUME PagesAssumption ==
  /\ Tables \subseteq 1..3 /\ Conversation \in Tables
  /\ AuditIds \subseteq Nat \ {0} /\ Threads \subseteq Nat \ {0}
  /\ PageSize \in Nat \ {0} /\ MaxOffset \in Nat /\ LastTime \in Nat
  /\ NoThread \notin [help : Nat, active : Nat]

VARIABLES
  now,
  receipt,  \* <<table, id>> -> the time of that receipt, or 0 when there is none
  thread,   \* conversation -> when it asked for help (0: it does not) and its last activity
  walk      \* the list that is read, the offset of the page shown, what was seen and what must be

pageVars == <<now, receipt, thread, walk>>

Opened(list) == [list |-> list, offset |-> 0, more |-> FALSE, due |-> {}, seen |-> {}]
\* The lists share nothing: only the one that is read changes (bound of the model).
Reads(list) == walk.list = list

-----------------------------------------------------------------------------
\* Rows as keys that order them: the greatest comes first.
Before(a, b) == \/ a[1] > b[1]
                \/ a[1] = b[1] /\ a[2] > b[2]
                \/ a[1] = b[1] /\ a[2] = b[2] /\ a[3] > b[3]
Place(row, rows) == Cardinality({other \in rows : Before(other, row)})
Page(rows, offset) == {row \in rows : Place(row, rows) \in offset..(offset + PageSize - 1)}

Receipts(table) == {<<receipt[<<table, i>>], table, i>> : i \in {j \in AuditIds : receipt[<<table, j>>] # 0}}
Inbox == {<<thread[c].help, thread[c].active, c>> : c \in {d \in Threads : thread[d] # NoThread}}

\* list_events fetches one row more than the page needs from each table, then merges and cuts.
\* Operators that start with "Wrong" carry one mistake the properties must notice; no action uses them.
WrongFetched(table, offset) == {row \in Receipts(table) : Place(row, Receipts(table)) <= PageSize}
Fetched(table, offset) == {row \in Receipts(table) : Place(row, Receipts(table)) <= offset + PageSize}

RowsOf(list, offset) == IF list = "inbox" THEN Inbox ELSE UNION {Fetched(t, offset) : t \in Tables}
More(list, offset) == Cardinality(RowsOf(list, offset)) > offset + PageSize
\* The inbox offers no page it would refuse to serve; the receipts do.
Offered(list, offset) == More(list, offset) /\ (list = "inbox" => offset + PageSize <= MaxOffset)

\* The name a row keeps while its key changes.
NameOf(list, row) == IF list = "inbox" THEN <<row[3]>> ELSE <<row[2], row[3]>>
Names(list, rows) == {NameOf(list, row) : row \in rows}
AllNames(list) == Names(list, IF list = "inbox" THEN Inbox ELSE UNION {Receipts(t) : t \in Tables})

FirstPage(list) ==
  /\ Reads(list)
  /\ walk' = [list |-> list, offset |-> 0, more |-> Offered(list, 0), due |-> AllNames(list),
              seen |-> Names(list, Page(RowsOf(list, 0), 0))]
  /\ UNCHANGED <<now, receipt, thread>>

NextOffset == walk.offset + PageSize
NextPage ==
  /\ walk.more /\ NextOffset <= MaxOffset
  /\ walk' = [walk EXCEPT !.offset = NextOffset, !.more = Offered(walk.list, NextOffset),
                          !.seen = @ \cup Names(walk.list, Page(RowsOf(walk.list, NextOffset), NextOffset))]
  /\ UNCHANGED <<now, receipt, thread>>

-----------------------------------------------------------------------------
\* A row that left its place, and all that stood behind one that left: the walk owes them no more.
Disturb(list, rows) == [walk EXCEPT !.due = @ \ Names(list, rows)]
Behind(row, rows) == {other \in rows : ~Before(other, row)}

NextAudit(table) == {i \in AuditIds : /\ \A j \in AuditIds : receipt[<<table, j>>] # 0 => j < i
                                      /\ i = 1 \/ receipt[<<table, i - 1>>] # 0}

AddReceipt(table, i) ==
  /\ Reads("receipts") /\ i \in NextAudit(table)
  /\ receipt' = [receipt EXCEPT ![<<table, i>>] = now]
  /\ UNCHANGED <<now, thread, walk>>

\* Retention or erasure takes a conversation's receipts away.
EraseReceipt(i) ==
  /\ Reads("receipts") /\ receipt[<<Conversation, i>>] # 0
  /\ receipt' = [receipt EXCEPT ![<<Conversation, i>>] = 0]
  /\ LET gone == <<receipt[<<Conversation, i>>], Conversation, i>>
     IN  walk' = Disturb("receipts", Behind(gone, UNION {Receipts(t) : t \in Tables}))
  /\ UNCHANGED <<now, thread>>

\* A message comes, or a request for help: the conversation goes to the front.
Activity(c, help) ==
  /\ Reads("inbox")
  /\ LET old == IF thread[c] = NoThread THEN [help |-> 0, active |-> 0] ELSE thread[c]
         new == [help |-> IF help /\ old.help = 0 THEN now ELSE old.help, active |-> now]
     IN  /\ thread' = [thread EXCEPT ![c] = new]
         /\ walk' = Disturb("inbox", {<<old.help, old.active, c>>})
  /\ UNCHANGED <<now, receipt>>

\* Staff takes a conversation that asked for help, which is activity too, or it is purged: it leaves its place.
Leave(c) ==
  /\ Reads("inbox") /\ thread[c] # NoThread
  /\ \/ thread[c].help # 0 /\ thread' = [thread EXCEPT ![c] = [help |-> 0, active |-> now]]
     \/ thread' = [thread EXCEPT ![c] = NoThread]
  /\ walk' = Disturb("inbox", Behind(<<thread[c].help, thread[c].active, c>>, Inbox))
  /\ UNCHANGED <<now, receipt>>

TimePasses == now < LastTime /\ now' = now + 1 /\ UNCHANGED <<receipt, thread, walk>>

PagesInit ==
  /\ now = 1 /\ (\E list \in {"receipts", "inbox"} : walk = Opened(list)) /\ thread = [c \in Threads |-> NoThread]
  /\ receipt = [entry \in Tables \X AuditIds |-> 0]

PagesNext ==
  \/ \E list \in {"receipts", "inbox"} : FirstPage(list)
  \/ NextPage \/ TimePasses
  \/ \E i \in AuditIds : EraseReceipt(i) \/ \E t \in Tables : AddReceipt(t, i)
  \/ \E c \in Threads : Leave(c) \/ \E help \in BOOLEAN : Activity(c, help)

PagesSpec == PagesInit /\ [][PagesNext]_pageVars

\* Whoever reads a list to its end has seen every row that was there when they began and neither moved nor stood
\* behind one that left: new receipts, also of the same second, and new activity hide nothing.
WalkTellsAll ==
  ~walk.more /\ walk.offset + PageSize <= MaxOffset => walk.due \subseteq walk.seen
=============================================================================
