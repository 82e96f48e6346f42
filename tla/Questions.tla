----------------------------- MODULE Questions ------------------------------
(***************************************************************************)
(* Answers to customers from the FAQ, the questions nobody could answer,   *)
(* and the staff that answers them. A search reads the managed rows in one *)
(* statement; what it could not answer is counted afterwards, in a session *)
(* of its own. A question stands for its normalized key (and for the HMAC  *)
(* of that key); categories, frequencies and dates are left out.           *)
(***************************************************************************)
EXTENDS Naturals, FiniteSets

CONSTANTS
  Customers,   \* messages whose answer searches the FAQ
  Reviewers,   \* panel requests in progress
  Questions,
  Contained,    \* pairs <<q, r>>: the key r contains the key q
  Texts,       \* answers
  SourceFaq,   \* the rows of the TSV file: records with an id, a question and a text
  FaqIds,      \* rowids of managed_faqs
  GapIds,      \* rowids of unresolved_questions
  MaxShown,    \* MAX_FAQ_RESULTS
  NoRow

ASSUME QuestionsAssumption ==
  /\ FaqIds \subseteq Nat \ {0} /\ GapIds \subseteq Nat \ {0} /\ MaxShown \in Nat /\ MaxShown >= 2
  /\ IsFiniteSet(SourceFaq) /\ NoRow \notin [question : Questions, text : Texts, active : BOOLEAN]
  /\ \A q \in Questions : <<q, q>> \in Contained
  /\ \A r \in SourceFaq : r.question \in Questions

VARIABLES
  faq,   \* the table managed_faqs
  gap,   \* the table unresolved_questions
  ask,   \* what each search is doing
  desk   \* what each panel request is doing

questionVars == <<faq, gap, ask, desk>>

NoAsk == [at |-> "none"]
NoDesk == [at |-> "none"]
FaqRows == {f \in FaqIds : faq[f] # NoRow}
GapRows == {g \in GapIds : gap[g] # NoRow}
FaqOf(q) == {f \in FaqRows : faq[f].question = q}
NewId(ids, rows) == {i \in ids : /\ \A j \in rows : j < i
                                 /\ i = 1 \/ i - 1 \in rows}

-----------------------------------------------------------------------------
\* The file's rows give way to every managed row of their question, an inactive one included.
\* Operators that start with "Wrong" carry one mistake the properties must notice; no action uses them.
Overridden == {faq[f].question : f \in FaqRows}
Managed == {[id |-> f, question |-> faq[f].question, text |-> faq[f].text] : f \in {g \in FaqRows : faq[g].active}}
Records == {r \in SourceFaq : r.question \notin Overridden} \cup Managed

\* search_faq: the records whose question contains the query, exact ones first, cut to a few.
Matches(q) == {r \in Records : <<q, r.question>> \in Contained}
Exact(records, q) == {r \in records : r.question = q}
WrongShown(q) == {s \in SUBSET Matches(q) : /\ Cardinality(s) <= MaxShown
                                            /\ Cardinality(s) < MaxShown => s = Matches(q)}
Shown(q) == {s \in SUBSET Matches(q) : /\ Cardinality(s) <= MaxShown
                                       /\ Cardinality(s) < MaxShown => s = Matches(q)
                                       /\ Exact(Matches(q), q) \subseteq s \/ s \subseteq Exact(Matches(q), q)}

\* FAQResponsePolicy: only a single exact record answers.
Reply(shown, q) ==
  IF Cardinality(Exact(shown, q)) = 1
  THEN [at |-> "told", question |-> q, text |-> (CHOOSE r \in Exact(shown, q) : TRUE).text]
  ELSE [at |-> "record", question |-> q, reason |-> IF shown = {} THEN "unknown" ELSE "ambiguous"]

Search(c, q) ==
  /\ ask[c] = NoAsk
  /\ \E shown \in Shown(q) : ask' = [ask EXCEPT ![c] = Reply(shown, q)]
  /\ UNCHANGED <<faq, gap, desk>>

HasGap(row) == \E g \in GapRows : gap[g] = row

\* The upsert of record_faq_fallback: one row per reason and question.
RecordGap(c) ==
  /\ ask[c].at = "record"
  /\ LET row == [question |-> ask[c].question, reason |-> ask[c].reason]
     IN  IF HasGap(row) THEN UNCHANGED gap
         ELSE \E g \in NewId(GapIds, GapRows) : gap' = [gap EXCEPT ![g] = row]
  /\ ask' = [ask EXCEPT ![c] = NoAsk] /\ UNCHANGED <<faq, desk>>

\* The message goes on, or its database failed.
EndSearch(c) ==
  /\ ask[c] # NoAsk /\ ask' = [ask EXCEPT ![c] = NoAsk]
  /\ UNCHANGED <<faq, gap, desk>>

-----------------------------------------------------------------------------
(* Staff: a request reads its rows, then writes. The ORM writes the        *)
(* columns that differ from what was read; the unique key refuses a second *)
(* row of a question, and the whole request with it.                       *)
Rows == [question : Questions, text : Texts, active : BOOLEAN]
Written(row, seen, new) == [column \in DOMAIN new |-> IF new[column] # seen[column] THEN new[column] ELSE row[column]]

OpenFaq(s, f, row) ==
  /\ desk[s] = NoDesk /\ f \in FaqRows /\ row # faq[f]
  /\ desk' = [desk EXCEPT ![s] = [at |-> "save", id |-> f, seen |-> faq[f], row |-> row]]
  /\ UNCHANGED <<faq, gap, ask>>

SaveFaq(s) ==
  /\ desk[s].at = "save"
  /\ LET row == Written(faq[desk[s].id], desk[s].seen, desk[s].row)
     IN  /\ FaqOf(row.question) \subseteq {desk[s].id}
         /\ faq' = [faq EXCEPT ![desk[s].id] = row]
  /\ desk' = [desk EXCEPT ![s] = NoDesk] /\ UNCHANGED <<gap, ask>>

CreateFaq(s, row) ==
  /\ desk[s] = NoDesk /\ FaqOf(row.question) = {}
  /\ \E f \in NewId(FaqIds, FaqRows) : faq' = [faq EXCEPT ![f] = row]
  /\ UNCHANGED <<gap, ask, desk>>

\* The text typed in the panel must have the aggregate's key: 409 otherwise.
KeyMatches(g, q) == gap[g].question = q

OpenGap(s, g, q, text) ==
  /\ desk[s] = NoDesk /\ g \in GapRows /\ KeyMatches(g, q)
  /\ desk' = [desk EXCEPT ![s] = [at |-> "resolve", gap |-> g, row |-> [question |-> q, text |-> text, active |-> TRUE],
                                  id |-> IF FaqOf(q) = {} THEN 0 ELSE CHOOSE f \in FaqOf(q) : TRUE,
                                  seen |-> IF FaqOf(q) = {} THEN NoRow ELSE faq[CHOOSE f \in FaqOf(q) : TRUE]]]
  /\ UNCHANGED <<faq, gap, ask>>

\* resolve_faq: the FAQ, its receipt and the removal of the aggregate commit together.
ResolveFaq(s) ==
  /\ desk[s].at = "resolve"
  /\ IF desk[s].id = 0
     THEN /\ FaqOf(desk[s].row.question) = {}
          /\ \E f \in NewId(FaqIds, FaqRows) : faq' = [faq EXCEPT ![f] = desk[s].row]
     ELSE faq' = [faq EXCEPT ![desk[s].id] = Written(@, desk[s].seen, desk[s].row)]
  /\ gap' = [gap EXCEPT ![desk[s].gap] = NoRow]
  /\ desk' = [desk EXCEPT ![s] = NoDesk] /\ UNCHANGED ask

DeskFails(s) ==
  /\ desk[s] # NoDesk /\ desk' = [desk EXCEPT ![s] = NoDesk]
  /\ UNCHANGED <<faq, gap, ask>>

\* purge_expired takes the aggregates nobody asked about for long; which ones are old is left open.
PurgeGaps(old) ==
  /\ old # {} /\ old \subseteq GapRows
  /\ gap' = [g \in GapIds |-> IF g \in old THEN NoRow ELSE gap[g]]
  /\ UNCHANGED <<faq, ask, desk>>

-----------------------------------------------------------------------------
QuestionsInit ==
  /\ faq = [f \in FaqIds |-> NoRow] /\ gap = [g \in GapIds |-> NoRow]
  /\ ask = [c \in Customers |-> NoAsk] /\ desk = [s \in Reviewers |-> NoDesk]

QuestionsNext ==
  \/ \E c \in Customers : RecordGap(c) \/ EndSearch(c) \/ \E q \in Questions : Search(c, q)
  \/ \E s \in Reviewers :
       \/ SaveFaq(s) \/ ResolveFaq(s) \/ DeskFails(s)
       \/ \E row \in Rows : CreateFaq(s, row) \/ \E f \in FaqIds : OpenFaq(s, f, row)
       \/ \E g \in GapIds, q \in Questions, text \in Texts : OpenGap(s, g, q, text)
  \/ \E old \in SUBSET GapIds : PurgeGaps(old)

QuestionsSpec == QuestionsInit /\ [][QuestionsNext]_questionVars

QuestionsTypeOK ==
  /\ faq \in [FaqIds -> Rows \cup {NoRow}] /\ gap \in [GapIds -> [question : Questions, reason : {"unknown", "ambiguous"}] \cup {NoRow}]
  /\ \A f, g \in FaqRows : faq[f].question = faq[g].question => f = g
  /\ \A f, g \in GapRows : gap[f] = gap[g] => f = g
  /\ \A c \in Customers : ask[c].at \in {"none", "told", "record"}
  /\ \A s \in Reviewers : desk[s].at \in {"none", "save", "resolve"}

\* What the installation approved for a question: its managed row alone, or the file's rows.
Approved(q) == IF FaqOf(q) = {} THEN Exact(SourceFaq, q)
               ELSE {r \in Managed : r.id \in FaqOf(q)}

\* A search answers exactly when one approved text exists for its question, with that text: neither other
\* questions that contain it, nor the cut, nor a withdrawn answer that is still in the file changes the answer.
AnswersAreApproved ==
  [][\A c \in Customers : ask[c] = NoAsk /\ ask'[c] # NoAsk =>
       IF Cardinality(Approved(ask'[c].question)) = 1
       THEN ask'[c].at = "told" /\ \E r \in Approved(ask'[c].question) : ask'[c].text = r.text
       ELSE ask'[c].at = "record"]_questionVars

\* A resolution that takes a question off the list leaves an active answer to it, as the document of the panel
\* promises. It does not hold: the managed row is read before the first write takes the lock, and only the columns
\* that differ from what was read are written, so a withdrawal that commits in between stays.
ResolvesWithActiveFaq ==
  [][\A s \in Reviewers : desk[s].at = "resolve" /\ desk'[s] = NoDesk /\ gap' # gap =>
       \E f \in FaqIds : faq'[f] # NoRow /\ faq'[f].question = desk[s].row.question /\ faq'[f].active]_questionVars
=============================================================================
