-------------------------- MODULE UpdateInstaller --------------------------
(***************************************************************************)
(* Replacing the app on macOS: the shell script of PreparedUpdate and      *)
(* confirm_startup in crates/updater/src/install.rs.  The script outlives  *)
(* the app it replaces and keeps the previous version beside the new one   *)
(* until the new one confirms that it started.  The new version may crash  *)
(* or hang, the computer may stop in the middle of a command, each command *)
(* may fail, and the user may open the app at any time.  The script looks  *)
(* at the result of two commands only (lines 60 and 66); `mishaps` keeps   *)
(* what went wrong unseen.  macOS runs one process of the app at a time;   *)
(* opening it while it runs brings it to the front.                        *)
(***************************************************************************)
EXTENDS Naturals

CONSTANT MaxStarts  \* bound: starts of the app by the user

VARIABLES
  app,         \* the version at the path of the app: "old", "new", "none", or "part", no whole one
  backup,      \* the version at its path with .previous, alike
  workDir,     \* the version that waits in the installer's directory
  process,     \* the app that runs: its version, and how far its start is
  installer,   \* what the script does next
  confirmed,   \* ghost: the version that removed the backup, "none" before
  mishaps,     \* ghost: what went wrong and the script does not look at
  starts

vars == <<app, backup, workDir, process, installer, confirmed, mishaps, starts>>

IsWhole(version) == version \in {"old", "new"}

NotRunning == [version |-> "none", at |-> "none"]
Starts(version) == [version |-> version, at |-> "starting"]

\* `open`: a path without a whole app opens nothing.
Opened == IF process # NotRunning \/ ~IsWhole(app) THEN process ELSE Starts(app)

\* launch_installer; the app is about to quit.
Init ==
  /\ app = "old" /\ backup \in {"none", "old", "part"} /\ workDir = "new"
  /\ process = [version |-> "old", at |-> "quitting"]
  /\ installer = "waiting"
  /\ confirmed = "none" /\ mishaps = {} /\ starts = 0

-----------------------------------------------------------------------------
(***************************************************************************)
(* The app.  It confirms in the background once its window is open.        *)
(***************************************************************************)
Quits ==
  /\ process.at = "quitting"
  /\ process' = NotRunning
  /\ UNCHANGED <<app, backup, workDir, installer, confirmed, mishaps, starts>>

\* mishap "opened": a new version the script has just stopped runs again.
UserOpens ==
  /\ starts < MaxStarts /\ process = NotRunning /\ IsWhole(app)
  /\ starts' = starts + 1
  /\ process' = Opened
  /\ mishaps' = IF installer \in {"looking", "removing"} THEN mishaps \union {"opened"} ELSE mishaps
  /\ UNCHANGED <<app, backup, workDir, installer, confirmed>>

\* Only a new version crashes or hangs at its start.
StartGoes ==
  /\ process.at = "starting"
  /\ \/ process' = [process EXCEPT !.at = "confirming"]
     \/ process.version = "new" /\ process' \in {NotRunning, [process EXCEPT !.at = "hung"]}
  /\ UNCHANGED <<app, backup, workDir, installer, confirmed, mishaps, starts>>

\* remove_previous_version: first it looks, then it moves the backup away.
FindsBackup ==
  /\ process.at = "confirming"
  /\ process' = [process EXCEPT !.at = IF backup = "none" THEN "running" ELSE "removing"]
  /\ UNCHANGED <<app, backup, workDir, installer, confirmed, mishaps, starts>>

\* Whether the script may still need the backup when this version removes it:
\* not when the new version confirms before the script has looked again.
StillNeeded ==
  IF installer \in {"opening", "polling", "killing", "looking"} THEN process.version # "new"
  ELSE installer \in {"movingNew", "removing", "restoring"} \/ ~IsWhole(app)

\* mishap "removed": a version removes the backup that is still needed.
RemovesBackup ==
  /\ process.at = "removing"
  /\ process' = [process EXCEPT !.at = "running"]
  /\ \/ UNCHANGED <<backup, confirmed, mishaps>>
     \/ /\ backup # "none" /\ backup' = "none"
        /\ confirmed' = process.version
        /\ mishaps' = IF StillNeeded THEN mishaps \union {"removed"} ELSE mishaps
  /\ UNCHANGED <<app, workDir, installer, starts>>

-----------------------------------------------------------------------------
(***************************************************************************)
(* The script.                                                             *)
(***************************************************************************)
Goes(from, to) == installer = from /\ installer' = to

\* kill -0 of the process that started it, not of one opened since.
WaitsForQuit ==
  /\ Goes("waiting", "clearing")
  /\ process.at # "quitting"
  /\ UNCHANGED <<app, backup, workDir, process, confirmed, mishaps, starts>>

\* mishap "clear": rm leaves something at the path of the backup.
ClearsBackup ==
  /\ Goes("clearing", "movingOld")
  /\ \/ backup' = "none" /\ UNCHANGED mishaps
     \/ backup # "none" /\ backup' = "part" /\ mishaps' = mishaps \union {"clear"}
  /\ UNCHANGED <<app, workDir, process, confirmed, starts>>

\* mv moves the app into a directory that is still there.
MovesOld ==
  /\ \/ /\ Goes("movingOld", "movingNew")
        /\ app' = "none" /\ backup' = IF backup = "none" THEN app ELSE backup
        /\ UNCHANGED process
     \/ Goes("movingOld", "done") /\ process' = Opened /\ UNCHANGED <<app, backup>>
  /\ UNCHANGED <<workDir, confirmed, mishaps, starts>>

MovesNew ==
  /\ Goes("movingNew", "opening") /\ app' = workDir /\ workDir' = "none"
  /\ UNCHANGED <<backup, process, confirmed, mishaps, starts>>

\* The new version comes from another directory, where mv may have to copy.
\* As when the new version does not confirm, what is at the path of the app
\* is removed next and the backup moved back.
CannotMoveNew ==
  /\ Goes("movingNew", "removing")
  /\ app' \in {app, "part"}
  /\ UNCHANGED <<backup, workDir, process, confirmed, mishaps, starts>>

Opens ==
  /\ Goes("opening", "polling")
  /\ process' = Opened
  /\ UNCHANGED <<app, backup, workDir, confirmed, mishaps, starts>>

FindsConfirmed ==
  /\ Goes("polling", "done")
  /\ backup = "none"
  /\ UNCHANGED <<app, backup, workDir, process, confirmed, mishaps, starts>>

\* mutant: it waits for a version that still runs
GivesUpOnCrash == backup # "none" /\ process = NotRunning
GivesUp == backup # "none"

\* confirmation_timeout passed, and the backup is there when it is looked at.
TimesOut ==
  /\ Goes("polling", "killing")
  /\ GivesUp
  /\ UNCHANGED <<app, backup, workDir, process, confirmed, mishaps, starts>>

\* pkill: any process of the app that was opened from its path.
Kills ==
  /\ Goes("killing", "looking")
  /\ process' = NotRunning
  /\ UNCHANGED <<app, backup, workDir, confirmed, mishaps, starts>>

\* mutant: it does not look again
LooksNoMore == Goes("looking", "removing")
LooksAgain ==
  IF backup = "none" THEN Goes("looking", "reopening") ELSE Goes("looking", "removing")

LooksForBackup ==
  /\ LooksAgain
  /\ UNCHANGED <<app, backup, workDir, process, confirmed, mishaps, starts>>

\* mishap "remove": rm leaves a part of the app at its path.
RemovesNew ==
  /\ Goes("removing", "restoring")
  /\ \/ app' = "none" /\ UNCHANGED mishaps
     \/ app # "none" /\ app' = "part" /\ mishaps' = mishaps \union {"remove"}
  /\ UNCHANGED <<backup, workDir, process, confirmed, starts>>

\* mv moves the backup into what is still at the path of the app.
MovesBack ==
  /\ backup # "none"
  /\ app' = IF app = "none" THEN backup ELSE app
  /\ backup' = "none"
  /\ UNCHANGED mishaps

\* mishap "back": the backup does not move, and nothing looks whether it did.
Restores ==
  /\ Goes("restoring", "reopening")
  /\ MovesBack \/ (UNCHANGED <<app, backup>> /\ mishaps' = mishaps \union {"back"})
  /\ UNCHANGED <<workDir, process, confirmed, starts>>

Reopens ==
  /\ Goes("reopening", "done")
  /\ process' = Opened
  /\ UNCHANGED <<app, backup, workDir, confirmed, mishaps, starts>>

\* The computer stops, and with it the app and the script; what rm was
\* removing, or mv copying, is there in part.
Stops ==
  /\ installer \notin {"done", "died"}
  /\ installer' = "died" /\ process' = NotRunning
  /\ app' = app \/ (installer \in {"movingNew", "removing"} /\ app' = "part")
  /\ backup' = backup \/ (installer = "clearing" /\ backup # "none" /\ backup' = "part")
  /\ UNCHANGED <<workDir, confirmed, mishaps, starts>>

Script ==
  \/ WaitsForQuit \/ ClearsBackup \/ MovesOld \/ MovesNew \/ CannotMoveNew \/ Opens
  \/ FindsConfirmed \/ TimesOut \/ Kills \/ LooksForBackup \/ RemovesNew \/ Restores \/ Reopens

App == Quits \/ StartGoes \/ FindsBackup \/ RemovesBackup

Next == Script \/ App \/ UserOpens \/ Stops

Spec == Init /\ [][Next]_vars /\ WF_vars(Script) /\ WF_vars(App)

-----------------------------------------------------------------------------
TypeOK ==
  /\ {app, backup} \subseteq {"old", "new", "none", "part"}
  /\ {workDir, process.version, confirmed} \subseteq {"old", "new", "none"}
  /\ process.at \in {"none", "quitting", "starting", "hung", "confirming", "removing", "running"}
  /\ installer \in {"waiting", "clearing", "movingOld", "movingNew", "opening", "polling", "killing",
                    "looking", "removing", "restoring", "reopening", "done", "died"}
  /\ mishaps \subseteq {"clear", "remove", "back", "removed", "opened"}

\* No rm failed (lines 59, 67 and 93), and no version removed a backup that
\* the script still needed.
NothingIsLost == {"clear", "remove", "removed"} \intersect mishaps = {}

(***************************************************************************)
(* install.rs:58: when a move fails, the new version crashes or hangs, the *)
(* user opens the app meanwhile, or the computer stops, a whole version is *)
(* at the path of the app or beside it.  Once the script is done it is at  *)
(* the path, unless the move back failed (lines 68 and 94).  Neither is    *)
(* promised once an rm failed, or once a version opened by the user        *)
(* removed the backup before the script was done with it.                  *)
(***************************************************************************)
AVersionRemains ==
  NothingIsLost =>
    /\ IsWhole(app) \/ IsWhole(backup)
    /\ installer = "done" /\ "back" \notin mishaps => IsWhole(app)

(***************************************************************************)
(* install.rs:42: the previous version comes back unless the new one       *)
(* confirmed, and a new version that confirmed is kept, also when it did   *)
(* so while the script was stopping it, or the user had opened it.  The    *)
(* exceptions are those of AVersionRemains.                                *)
(***************************************************************************)
KeepsWhatConfirmed ==
  installer = "done" /\ NothingIsLost /\ "back" \notin mishaps =>
    app = IF confirmed = "new" THEN "new" ELSE "old"

Over ==
  \/ installer = "died" \/ {"opened", "removed"} \intersect mishaps # {}
  \/ installer = "done" /\ (confirmed = "new" \/ process.version # "new")

(***************************************************************************)
(* install.rs:85: a new version that hangs is stopped: whatever fails, the *)
(* script ends, and only a version that confirmed is left running, unless  *)
(* the user opens the new one again after it was stopped, or the backup    *)
(* was removed too early.                                                  *)
(***************************************************************************)
UpdateEnds == <>Over
=============================================================================
