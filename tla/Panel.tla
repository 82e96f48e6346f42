------------------------------- MODULE Panel --------------------------------
(***************************************************************************)
(* The browser of a member of staff: the panel that is mounted, the one    *)
(* call it awaits, and the answers of the server, which may say anything   *)
(* about the record asked for. Leaving a panel forgets its state and what  *)
(* it awaits. The user is an owner, who has every button. Lists, filters,  *)
(* notices and the periodic refresh of the list are left out.              *)
(***************************************************************************)
CONSTANTS
  Numbers,    \* numbers of conversations and of unresolved questions
  Words,      \* texts somebody types
  Workfiles,  \* workbooks somebody chooses
  Empty

VARIABLES
  panel,     \* the mounted panel: its record, form, review and call
  reviewed,  \* what the user reviewed and neither left, changed nor submitted (history)
  submitted  \* what the last step asked the server to do (history)

panelVars == <<panel, reviewed, submitted>>

Idle == <<"none">>
Away == [tab |-> "away"]
Chats0 == [tab |-> "conversations", detail |-> Empty, draft |-> Empty, preview |-> Empty, call |-> <<"list">>]
Questions0 == [tab |-> "unresolved", detail |-> Empty, draft |-> Empty, call |-> <<"list">>]
Import0 == [tab |-> "import", file |-> Empty, preview |-> Empty, call |-> Idle]

On(tab) == panel.tab = tab
Free(tab) == On(tab) /\ panel.call = Idle  \* busy disables what follows
Awaits(tab, call) == On(tab) /\ panel.call = call
Keeps == UNCHANGED reviewed /\ submitted' = Empty
Leaves == reviewed' = Empty /\ submitted' = Empty
Submits(action) == reviewed' = Empty /\ submitted' = action
Action(record, text) == [tab |-> panel.tab, record |-> record, text |-> text]

-----------------------------------------------------------------------------
(* Sections and sessions: another section mounts another component. A      *)
(* session ends by log-out, its expiry, or an answer 401 to any call.      *)
Mount(start) == ~On(start.tab) /\ panel' = start /\ Leaves
Unmount == ~On("away") /\ panel' = Away /\ Leaves

Waits(call) == [panel EXCEPT !.call = call]
Arrived == Waits(Idle)

\* A list arrives, or any call fails: what it would have changed stays.
CallEnds ==
  /\ panel.tab # "away" /\ panel.call # Idle
  /\ panel' = IF panel.call = <<"send">> THEN Waits(<<"refresh">>) ELSE Arrived
  /\ Keeps

-----------------------------------------------------------------------------
(* Conversations                                                           *)
States == [mode : {"AI", "mine", "other"}, blocked : BOOLEAN]

\* Operators that start with "Wrong" carry one mistake the properties must notice; no action uses them.
WrongCleared == [panel EXCEPT !.draft = Empty]
Cleared == [panel EXCEPT !.draft = Empty, !.preview = Empty]

LoadChats ==
  /\ Free("conversations")
  /\ panel' = [Cleared EXCEPT !.detail = Empty, !.call = <<"list">>] /\ Leaves

ShowChat(c) == Free("conversations") /\ panel' = [Cleared EXCEPT !.call = <<"show", c>>] /\ Leaves

ChatArrives(c) ==
  /\ Awaits("conversations", <<"show", c>>)
  /\ \E state \in States : panel' = [Arrived EXCEPT !.detail = [id |-> c, state |-> state]]
  /\ Keeps

HasDetail == Free("conversations") /\ panel.detail # Empty
MayReply == panel.detail.state = [mode |-> "mine", blocked |-> FALSE]

TypeReply(text) ==
  /\ HasDetail /\ MayReply
  /\ panel' = [panel EXCEPT !.draft = text, !.preview = Empty] /\ Leaves

ReviewReply ==
  /\ HasDetail /\ MayReply /\ panel.draft # Empty
  /\ panel' = [panel EXCEPT !.preview = panel.draft]
  /\ reviewed' = Action(panel.detail.id, panel.draft) /\ submitted' = Empty

CancelReview ==
  /\ HasDetail /\ panel.preview # Empty
  /\ panel' = [panel EXCEPT !.preview = Empty] /\ Leaves

\* A review stays on the screen while the conversation is given back and taken again.
ChangeMode ==
  /\ HasDetail /\ (panel.detail.state.mode = "AI" \/ ~panel.detail.state.blocked)
  /\ panel' = Waits(<<"mode">>) /\ Keeps

ModeArrives ==
  /\ Awaits("conversations", <<"mode">>)
  /\ panel' = [Waits(<<"refresh">>) EXCEPT !.detail.state.mode = IF @ = "AI" THEN "mine" ELSE "AI"]
  /\ Keeps

MaySend == panel.preview # Empty /\ MayReply
Sending == [Cleared EXCEPT !.call = <<"send">>]

\* The review leaves the screen before the request does: neither a second click nor an error sends it again.
SendManual ==
  /\ HasDetail /\ MaySend
  /\ panel' = Sending /\ Submits(Action(panel.detail.id, panel.preview))

\* Both endings of a send read the conversation again.
RefreshArrives ==
  /\ Awaits("conversations", <<"refresh">>)
  /\ \E state \in States : panel' = [Arrived EXCEPT !.detail.state = state]
  /\ Keeps

-----------------------------------------------------------------------------
(* Unresolved questions: the form survives another filter and an answer    *)
(* that could not be shown, not another question.                          *)
LoadQuestions ==
  /\ Free("unresolved")
  /\ panel' = [panel EXCEPT !.detail = Empty, !.call = <<"list">>] /\ Keeps

ShowQuestion(q) == Free("unresolved") /\ panel' = Waits(<<"show", q>>) /\ Keeps

QuestionArrives(q) ==
  /\ Awaits("unresolved", <<"show", q>>)
  /\ panel' = [Arrived EXCEPT !.detail = q, !.draft = Empty] /\ Leaves

TypeAnswer(text) ==
  /\ Free("unresolved") /\ panel.detail # Empty
  /\ panel' = [panel EXCEPT !.draft = text]
  /\ reviewed' = Action(panel.detail, text) /\ submitted' = Empty

\* A refused answer stays in the form and may be sent again.
ResolveQuestion ==
  /\ Free("unresolved") /\ panel.detail # Empty /\ panel.draft # Empty
  /\ panel' = Waits(<<"resolve">>)
  /\ UNCHANGED reviewed /\ submitted' = Action(panel.detail, panel.draft)

Resolved ==
  /\ Awaits("unresolved", <<"resolve">>)
  /\ panel' = [Waits(<<"list">>) EXCEPT !.detail = Empty, !.draft = Empty] /\ Leaves

-----------------------------------------------------------------------------
(* Price import                                                            *)
Chosen(file) == [panel EXCEPT !.file = file, !.preview = Empty]
ChooseFile(file) == Free("import") /\ panel' = Chosen(file) /\ Leaves

SubmitPreview ==
  /\ Free("import") /\ panel.file # Empty
  /\ panel' = [panel EXCEPT !.preview = Empty, !.call = <<"preview">>] /\ Leaves

\* A preview with errors is shown without its button.
PreviewArrives(valid) ==
  /\ Awaits("import", <<"preview">>)
  /\ panel' = [Arrived EXCEPT !.preview = [file |-> panel.file, valid |-> valid]]
  /\ reviewed' = (IF valid THEN Action(panel.file, Empty) ELSE Empty) /\ submitted' = Empty

ConfirmImport ==
  /\ Free("import") /\ panel.preview # Empty /\ panel.preview.valid
  /\ panel' = [panel EXCEPT !.preview = Empty, !.call = <<"confirm">>]
  /\ Submits(Action(panel.preview.file, Empty))

ImportDone == Awaits("import", <<"confirm">>) /\ panel' = [Arrived EXCEPT !.file = Empty] /\ Leaves

-----------------------------------------------------------------------------
PanelInit == panel = Away /\ reviewed = Empty /\ submitted = Empty

PanelNext ==
  \/ Mount(Chats0) \/ Mount(Questions0) \/ Mount(Import0) \/ Unmount \/ CallEnds
  \/ LoadChats \/ ReviewReply \/ CancelReview \/ ChangeMode \/ ModeArrives \/ SendManual \/ RefreshArrives
  \/ LoadQuestions \/ ResolveQuestion \/ Resolved
  \/ SubmitPreview \/ ConfirmImport \/ ImportDone \/ \E valid \in BOOLEAN : PreviewArrives(valid)
  \/ \E r \in Numbers : ShowChat(r) \/ ChatArrives(r) \/ ShowQuestion(r) \/ QuestionArrives(r)
  \/ \E text \in Words : TypeReply(text) \/ TypeAnswer(text)
  \/ \E file \in Workfiles \cup {Empty} : ChooseFile(file)

PanelSpec == PanelInit /\ [][PanelNext]_panelVars

\* Whatever is slow, fails or is left and shown again in between, a confirmation submits what the user reviewed
\* for the record they reviewed it for; a reply or an import that was submitted, cancelled or left needs another
\* review, and no reply is sent from a screen that shows the conversation as blocked or not one's own.
SubmitsWhatWasReviewed ==
  [][submitted' # Empty => /\ submitted' = reviewed
                           /\ On("conversations") => MayReply]_panelVars
=============================================================================
