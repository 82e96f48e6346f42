----------------------------- MODULE PriceRows ------------------------------
(***************************************************************************)
(* Reading of a price workbook: the checks of the file, then one row after *)
(* the other up to the last one allowed. Cells are what the parser makes   *)
(* of them: a row is blank, or has a product and unit and the fields whose *)
(* value is refused.                                                       *)
(***************************************************************************)
EXTENDS Naturals, Sequences, SequencesExt

CONSTANTS
  PriceKeys,   \* pairs of a product id and a unit
  Fields,      \* the columns of a row, extra_column included
  FileIssues,  \* what is wrong with a file as a whole, "empty_data" apart
  MaxRows,     \* MAX_PRICE_IMPORT_ROWS
  Blank,
  NoIssue

ASSUME PriceRowsAssumption ==
  /\ MaxRows \in Nat /\ "empty_data" \notin FileIssues
  /\ NoIssue \notin FileIssues \cup {"invalid_filename", "invalid_size", "unsafe_package"}

VARIABLES
  file,    \* the workbook: its rows, and the first check of the file it fails
  step,    \* "write", "rows" or "done"
  kept,    \* the source rows parsed so far
  issues   \* pairs of a source row (0: the file) and a field or a code

parserVars == <<file, step, kept, issues>>

Contents == {Blank} \cup [key : PriceKeys, bad : SUBSET Fields]
At(i) == file.rows[i]
Filled == {i \in DOMAIN file.rows : At(i) # Blank}
KeysKept == {At(i).key : i \in ToSet(kept)}

\* Somebody fills in a workbook.
WriteRow(row) ==
  /\ step.at = "write" /\ Len(file.rows) <= MaxRows
  /\ file' = [file EXCEPT !.rows = Append(@, row)] /\ UNCHANGED <<step, kept, issues>>

\* _safe_package refuses a sheet with a cell below the last row.
\* Operators that start with "Wrong" carry one mistake the properties must notice; no action uses them.
TooLong == \E i \in Filled : i > MaxRows
BeforePackage == {"invalid_filename", "invalid_size"}
FileIssue == IF TooLong /\ file.flaw \notin BeforePackage THEN "unsafe_package" ELSE file.flaw

\* A file that fails a check is refused as a whole.
CheckFile ==
  /\ step.at = "write"
  /\ IF FileIssue = NoIssue THEN step' = [at |-> "rows", next |-> 1] /\ UNCHANGED issues
     ELSE step' = [at |-> "done"] /\ issues' = {<<0, FileIssue>>}
  /\ UNCHANGED <<file, kept>>

WrongRowIssues(i) == IF At(i).bad # {} THEN {<<i, field>> : field \in At(i).bad}
                     ELSE IF kept # <<>> /\ At(i).key = At(Last(kept)).key THEN {<<i, "duplicate">>} ELSE {}
RowIssues(i) == IF At(i).bad # {} THEN {<<i, field>> : field \in At(i).bad}
                ELSE IF At(i).key \in KeysKept THEN {<<i, "duplicate">>} ELSE {}

ReadPriceRow ==
  /\ step.at = "rows" /\ step.next <= Len(file.rows) /\ step.next <= MaxRows
  /\ IF At(step.next) = Blank THEN UNCHANGED <<kept, issues>>
     ELSE /\ issues' = issues \cup RowIssues(step.next)
          /\ kept' = IF RowIssues(step.next) = {} THEN Append(kept, step.next) ELSE kept
  /\ step' = [step EXCEPT !.next = @ + 1] /\ UNCHANGED file

\* A file with any issue yields no row.
Result == IF issues = {} THEN kept ELSE <<>>
EndRows ==
  /\ step.at = "rows" /\ (step.next > Len(file.rows) \/ step.next > MaxRows)
  /\ issues' = IF kept = <<>> /\ issues = {} THEN {<<0, "empty_data">>} ELSE issues
  /\ kept' = Result /\ step' = [at |-> "done"] /\ UNCHANGED file

ParserInit ==
  /\ \E flaw \in FileIssues \cup {NoIssue} : file = [rows |-> <<>>, flaw |-> flaw]
  /\ step = [at |-> "write"] /\ kept = <<>> /\ issues = {}

ParserNext == CheckFile \/ ReadPriceRow \/ EndRows \/ \E row \in Contents : WriteRow(row)

ParserSpec == ParserInit /\ [][ParserNext]_parserVars

Sound == /\ file.flaw = NoIssue /\ Filled # {} /\ Filled \subseteq 1..MaxRows
         /\ \A i \in Filled : At(i).bad = {} /\ \A j \in Filled \ {i} : At(i).key # At(j).key

\* A workbook is imported whole or not at all: it is accepted exactly when the file and every filled row are
\* sound and no product and unit come twice, and then every filled row is there, in the order of the sheet.
\* A workbook that is refused names every row to blame.
WholeOrNothing ==
  step.at = "done" =>
    /\ issues = {} <=> Sound
    /\ IF Sound THEN ToSet(kept) = Filled /\ \A i, j \in DOMAIN kept : i < j => kept[i] < kept[j] ELSE kept = <<>>
    /\ \A i \in Filled : <<0, FileIssue>> \in issues \/ At(i).bad = {} \/ \E issue \in issues : issue[1] = i
=============================================================================
