------------------------------ MODULE Backups -------------------------------
(***************************************************************************)
(* Backups and restores of the SQLite file by processes that may be given  *)
(* the same destination and may be killed: the file is created, filled     *)
(* from a snapshot, checked, and removed again when a check fails. What a  *)
(* check looks at is left out: it passes or fails.                         *)
(***************************************************************************)
CONSTANTS
  Processes,
  Paths,     \* destinations, outside the repository and in an owner-only directory
  NoFile

ASSUME BackupsAssumption == NoFile \notin [by : Processes, content : {"partial", "whole"}]

VARIABLES
  disk,      \* path -> the process that made its file and how far it is, or NoFile
  process,   \* what each process is doing
  reported   \* destinations reported as verified (history)

backupVars == <<disk, process, reported>>

Ended == [at |-> "none"]
EndsProcess(p) == process' = [process EXCEPT ![p] = Ended]
Reaches(p, at) == process' = [process EXCEPT ![p].at = at]
Mine(p) == process[p].path

StartCopy(p, path, kind) ==
  /\ process[p] = Ended
  /\ process' = [process EXCEPT ![p] = [at |-> "create", path |-> path, kind |-> kind]] /\ UNCHANGED <<disk, reported>>

Removed(p) == IF process[p].at = "create" THEN disk ELSE [disk EXCEPT ![Mine(p)] = NoFile]

\* O_CREAT | O_EXCL, before anything could be removed again.
\* Operators that start with "Wrong" carry one mistake the properties must notice; no action uses them.
WrongFree(path) == TRUE
FreePath(path) == disk[path] = NoFile
CreateFile(p) ==
  /\ process[p].at = "create" /\ FreePath(Mine(p))
  /\ disk' = [disk EXCEPT ![Mine(p)] = [by |-> p, content |-> "partial"]]
  /\ Reaches(p, "copy") /\ UNCHANGED reported

\* The copy and its checks: integrity and foreign keys, and with a branch code also branch and revision.
CopySnapshot(p) ==
  /\ process[p].at = "copy"
  /\ disk' = [disk EXCEPT ![Mine(p)] = [by |-> p, content |-> "whole"]]
  /\ Reaches(p, IF process[p].kind = "restore" THEN "verify" ELSE "report") /\ UNCHANGED reported

\* A restore verifies its copy for the branch after the backup has ended.
VerifyCopy(p) == process[p].at = "verify" /\ Reaches(p, "report") /\ UNCHANGED <<disk, reported>>

\* Whatever fails, only a file made by this process is removed.
CopyFails(p) ==
  /\ process[p].at \in {"create", "copy", "verify"}
  /\ disk' = Removed(p) /\ EndsProcess(p) /\ UNCHANGED reported

Report(p) == process[p].at = "report" /\ reported' = reported \cup {Mine(p)} /\ EndsProcess(p) /\ UNCHANGED disk

Killed(p) == process[p] # Ended /\ EndsProcess(p) /\ UNCHANGED <<disk, reported>>

BackupsInit ==
  /\ disk = [path \in Paths |-> NoFile] /\ process = [p \in Processes |-> Ended] /\ reported = {}

BackupsNext ==
  \E p \in Processes :
    \/ CreateFile(p) \/ CopySnapshot(p) \/ VerifyCopy(p) \/ CopyFails(p) \/ Report(p) \/ Killed(p)
    \/ \E path \in Paths, kind \in {"backup", "restore"} : StartCopy(p, path, kind)

BackupsSpec == BackupsInit /\ [][BackupsNext]_backupVars

\* A backup reported as verified is there whole, whatever other processes do at the same destination: nobody
\* overwrites it, removes it while failing, or mistakes a killed process's partial file for it.
ReportedIsWhole == \A path \in reported : \E p \in Processes : disk[path] = [by |-> p, content |-> "whole"]
=============================================================================
