------------------------------ MODULE MCParts -------------------------------
(* The parts that share no state, in one run: one of them, chosen at the   *)
(* beginning, runs while the others rest.                                  *)
EXTENDS Logins, RoleChanges, ToolLoop, Admission, MCQuestions, Pages, PriceRows, MemoryReceipts, Backups, Panel

VARIABLE focus  \* the part that runs

Focus == {"logins", "roles", "tools", "admission", "questions", "pages", "rows", "memory", "backups", "panel"}

PartsInit ==
  /\ focus \in Focus
  /\ LoginsInit /\ RolesInit /\ ToolsInit /\ AdmissionInit /\ QuestionsInit /\ PagesInit /\ ParserInit
  /\ MemoryInit /\ BackupsInit /\ PanelInit
  \* A part that rests has one initial state.
  /\ focus = "pages" \/ walk = Opened("inbox")
  /\ focus = "rows" \/ file.flaw = NoIssue
  /\ role[CHOOSE u \in Staff : TRUE] = "owner"

Still(part, vs) == IF focus = part THEN TRUE ELSE UNCHANGED vs

PartsNext ==
  /\ \/ focus = "logins" /\ LoginsNext
     \/ focus = "roles" /\ RolesNext
     \/ focus = "tools" /\ ToolsNext
     \/ focus = "admission" /\ AdmissionNext
     \/ focus = "questions" /\ QuestionsNext
     \/ focus = "pages" /\ PagesNext
     \/ focus = "rows" /\ ParserNext
     \/ focus = "memory" /\ MemoryNext
     \/ focus = "backups" /\ BackupsNext
     \/ focus = "panel" /\ PanelNext
  /\ Still("logins", loginsVars) /\ Still("roles", rolesVars) /\ Still("tools", toolVars)
  /\ Still("admission", admissionVars) /\ Still("questions", questionVars) /\ Still("pages", pageVars)
  /\ Still("rows", parserVars) /\ Still("memory", memoryVars) /\ Still("backups", backupVars)
  /\ Still("panel", panelVars) /\ UNCHANGED focus

\* The five parts that have a type invariant keep it: a session belongs to a registered user, a slot that is free was given back once, a
\* table of buckets and its order agree, and a question is listed once for each reason.
PartsTypeOK == LoginsTypeOK /\ RolesTypeOK /\ ToolsTypeOK /\ AdmissionTypeOK /\ QuestionsTypeOK

partsVars == <<focus, loginsVars, rolesVars, toolVars, admissionVars, questionVars, pageVars, parserVars, memoryVars,
               backupVars, panelVars>>
PartsSpec == PartsInit /\ [][PartsNext]_partsVars /\ ToolsFairness
=============================================================================
