------------------------------ MODULE MCStores ------------------------------
(***************************************************************************)
(* What the app keeps on disk, in one run: the cookie jar, the             *)
(* preferences, the history, the saved session and the tabs it holds, the  *)
(* environments, the updater and its installer.  These share no state, so  *)
(* a behavior is one of a single part and the variables of the others keep *)
(* the value they begin with.                                              *)
(***************************************************************************)
EXTENDS CookieJar

CONSTANTS
  Secrets, NoSecret, MaxEdits, MaxOthers, MaxRefusals, MaxStops,       \* of the preferences
  LIMIT, MaxSent,                                  \* of the history, and MaxChanges, MaxFaults
  Looks, MaxCaptures, MaxFaults,                                       \* of the session
  Request, Flow, Collection, Gone, NoItem, MaxStripTabs, MaxTabEdits, MaxMoves,
  MaxNames, MaxFiles, MaxTabs, MaxVariables, MaxEvents, ImportDone, Unreadable,
  Tracks, NoTrack, MaxChecks, MaxStarts                       \* of the updater, and MaxChanges

VARIABLE part

\* Of the preferences.
VARIABLES document, keyring, ids, running, memory, legacy, draft, edits, writer, typed, wanted,
          others, failures, stops, updates
\* Of the history.
VARIABLES phase, list, ended, jobs, undo, index, files, sent, kept, faulty, missing, acts, losses
\* Of the session.
VARIABLES open, look, scheduled, captured, saving, written, sessionFile, faults
\* Of the tabs.
VARIABLES items, known, view, dialog, moves, work
\* Of the environments.
VARIABLES disk, names, active, tabs, asking, import, events, astray
\* Of the updater and its installer.
VARIABLES installation, chosen, track, checks, status, offered, prepared, asked, downloading,
          progress, late, changes
VARIABLES app, backup, workDir, process, installer, confirmed, mishaps, starts

P == INSTANCE Preferences WITH
       NoId <- NoCookie, MaxFailures <- MaxRefusals, file <- document, app <- running,
       changes <- updates
H == INSTANCE History WITH app <- phase, changes <- acts, faults <- losses
S == INSTANCE SessionFile WITH saved <- written, file <- sessionFile
T == INSTANCE TabStrip WITH
       Requests <- {Request}, Flows <- {Flow}, MaxTabs <- MaxStripTabs, MaxEdits <- MaxTabEdits,
       MaxChanges <- MaxMoves, disk <- items, changes <- moves
E == INSTANCE Environments WITH NoName <- NoItem
U == INSTANCE Updater
I == INSTANCE UpdateInstaller

preferencesVars == <<document, keyring, ids, running, memory, legacy, draft, edits, writer, typed,
                     wanted, others, failures, stops, updates>>
historyVars == <<phase, list, ended, jobs, undo, index, files, sent, kept, faulty, missing, acts,
                 losses>>
sessionVars == <<open, look, scheduled, captured, saving, written, sessionFile, faults>>
stripVars == <<items, known, view, dialog, moves, work>>
environmentVars == <<disk, names, active, tabs, asking, import, events, astray>>
updaterVars == <<installation, chosen, track, checks, status, offered, prepared, asked, downloading,
                 progress, late, changes>>
installerVars == <<app, backup, workDir, process, installer, confirmed, mishaps, starts>>
storesVars == <<part, vars, preferencesVars, historyVars, sessionVars, stripVars, environmentVars,
                updaterVars, installerVars>>

\* The variables of a part that a behavior is not of.
NoPreferences ==
  /\ document = 0 /\ keyring = 0 /\ ids = 0 /\ running = 0 /\ memory = 0 /\ legacy = 0 /\ draft = 0
  /\ edits = 0 /\ writer = 0 /\ typed = 0 /\ wanted = 0 /\ others = 0 /\ failures = 0 /\ stops = 0
  /\ updates = 0
NoHistory ==
  /\ phase = 0 /\ list = 0 /\ ended = 0 /\ jobs = 0 /\ undo = 0 /\ index = 0 /\ files = 0 /\ sent = 0
  /\ kept = 0 /\ faulty = 0 /\ missing = 0 /\ acts = 0 /\ losses = 0
NoSession ==
  /\ open = 0 /\ look = 0 /\ scheduled = 0 /\ captured = 0 /\ saving = 0 /\ written = 0
  /\ sessionFile = 0 /\ faults = 0
NoStrip == items = 0 /\ known = 0 /\ view = 0 /\ dialog = 0 /\ moves = 0 /\ work = 0
NoEnvironments ==
  /\ disk = 0 /\ names = 0 /\ active = 0 /\ tabs = 0 /\ asking = 0 /\ import = 0 /\ events = 0
  /\ astray = 0
NoUpdater ==
  /\ installation = 0 /\ chosen = 0 /\ track = 0 /\ checks = 0 /\ status = 0 /\ offered = 0
  /\ prepared = 0 /\ asked = 0 /\ downloading = 0 /\ progress = 0 /\ late = 0 /\ changes = 0
NoInstaller ==
  /\ app = 0 /\ backup = 0 /\ workDir = 0 /\ process = 0 /\ installer = 0 /\ confirmed = 0
  /\ mishaps = 0 /\ starts = 0

Parts ==
  {"cookies", "preferences", "history", "session", "tabs", "environments", "updater", "installer"}
StoresInit ==
  /\ part \in Parts
  /\ Init
  /\ IF part = "preferences" THEN P!Init ELSE NoPreferences
  /\ IF part = "history" THEN H!Init ELSE NoHistory
  /\ IF part = "session" THEN S!Init ELSE NoSession
  /\ IF part = "tabs" THEN T!Init ELSE NoStrip
  /\ IF part = "environments" THEN E!Init ELSE NoEnvironments
  /\ IF part = "updater" THEN U!Init ELSE NoUpdater
  /\ IF part = "installer" THEN I!Init ELSE NoInstaller

OthersStay ==
  /\ UNCHANGED part
  /\ part # "cookies" => UNCHANGED vars
  /\ part # "preferences" => UNCHANGED preferencesVars
  /\ part # "history" => UNCHANGED historyVars
  /\ part # "session" => UNCHANGED sessionVars
  /\ part # "tabs" => UNCHANGED stripVars
  /\ part # "environments" => UNCHANGED environmentVars
  /\ part # "updater" => UNCHANGED updaterVars
  /\ part # "installer" => UNCHANGED installerVars
Goes(name, action) == part = name /\ action /\ OthersStay

StoresNext ==
  \/ Goes("cookies", Next)
  \/ Goes("preferences", P!Next)
  \/ Goes("history", H!Next)
  \/ Goes("session", S!Next)
  \/ Goes("tabs", T!Next)
  \/ Goes("environments", E!Next)
  \/ Goes("updater", U!Next)
  \/ Goes("installer", I!Next)

StoresSpec ==
  /\ StoresInit /\ [][StoresNext]_storesVars
  /\ WF_preferencesVars(part = "preferences" /\ P!Background)
  /\ WF_historyVars(part = "history" /\ H!Worker)
  /\ WF_sessionVars(part = "session" /\ S!Task)
  /\ WF_updaterVars(part = "updater" /\ U!Background /\ status # "quit")
  /\ WF_installerVars(part = "installer" /\ I!Script)
  /\ WF_installerVars(part = "installer" /\ I!App)

-----------------------------------------------------------------------------
(***************************************************************************)
(* Preferences, store.rs:277: whichever step of an edit of the proxy       *)
(* fails, and wherever the app stops, preferences.json refers to an entry  *)
(* that is in the keyring, and what is saved are credentials the user      *)
(* typed.  Edits are written one at a time in any order, and once they are *)
(* done the last one is what is saved; other settings that change          *)
(* meanwhile stay.  The lock of update_proxy is held by exactly the edit   *)
(* that is under way (TypeOK).                                             *)
(***************************************************************************)
PreferencesHold ==
  part = "preferences" =>
    /\ P!TypeOK /\ P!SavedReferenceExists /\ P!NoSecretIsLost
    /\ P!LastEditWins /\ P!OtherSettingsStay

(***************************************************************************)
(* History, history.rs:220: a request that was saved and not deleted stays *)
(* in the saved list with its files, whatever fails or wherever the app is *)
(* killed, and never without the body of its response.  A listed request   *)
(* that is opened is found, although its files may still have to be        *)
(* written.  When the app has quit, the saved list is the list, and no     *)
(* other file is left.                                                     *)
(***************************************************************************)
HistoryHolds ==
  part = "history" =>
    /\ H!TypeOK /\ H!SavedRequestsStay /\ H!RecordsAreWhole
    /\ H!OpenedRequestsAreFound /\ H!QuitSavesEverything

(***************************************************************************)
(* SessionFile, session.rs:125: the file holds what the newest saved       *)
(* session held; saves end in any order, and none replaces a session that  *)
(* was captured later.                                                     *)
(***************************************************************************)
NewestSessionStays ==
  /\ [](part = "session" => S!TypeOK /\ S!FileIsCurrent)
  /\ [][part = "session" => S!KeepsNewest]_sessionVars

(***************************************************************************)
(* TabStrip, main_view.rs:1104 and 1786: whatever is deleted, read again,  *)
(* or closed and launched again, an edit that was neither saved nor given  *)
(* up is in a tab, a page has one tab, a question is about the tab that is *)
(* shown, and the tab that was selected stays so.                          *)
(***************************************************************************)
TabsStayAsLeft ==
  /\ [](part = "tabs" => T!TypeOK /\ T!EditsSurvive /\ T!OneTabEach /\ T!QuestionsAreOfTheShown)
  /\ [][part = "tabs" => T!SelectionStep]_stripVars

(***************************************************************************)
(* Environments, environment_editor.rs:66 and environments.rs:118: other   *)
(* programs write to the directory and an import is under way, yet no      *)
(* create, rename or save replaces variables the user has not seen.  A tab *)
(* follows its file and is the only one of it, and the active environment  *)
(* stays the same file, is saved and comes back at the next launch, unless *)
(* the app could not read or write what this needs.                        *)
(***************************************************************************)
EnvironmentsAreKept ==
  /\ [](part = "environments" => E!TypeOK /\ E!TabsFollowTheirFiles /\ E!ActiveIsSaved)
  /\ [][part = "environments" => E!KeepsVariables /\ E!ActiveStays]_environmentVars

(***************************************************************************)
(* Updater, service.rs:103, and UpdateInstaller, install.rs:58: whatever   *)
(* order the answers come in, the release that is offered is one of the    *)
(* track the updater looks at.  Whichever move fails in its installation,  *)
(* and whenever the user opens the app, a whole version is at the app's    *)
(* path or beside it; once the script is done, the new one is at the path  *)
(* if it confirmed and the previous one if not.  The module states what    *)
(* this excepts: an rm that fails, a backup removed too early, and a move  *)
(* back that fails.                                                        *)
(***************************************************************************)
UpdatesFit ==
  /\ part = "updater" => U!TypeOK /\ U!OffersTheTrack
  /\ part = "installer" => I!TypeOK /\ I!AVersionRemains /\ I!KeepsWhatConfirmed

\* The part of a behavior is always the same, so these are three promises.
UnderWay ==
  \/ part = "preferences" /\ P!Writing
  \/ part = "history" /\ H!Quitting
  \/ part = "updater" /\ U!NoCheckStarts
(***************************************************************************)
(* What the app keeps is written in the end: every edit of the proxy ends  *)
(* and frees the lock, whatever fails; the worker of the history goes on   *)
(* after a failed job, so that quitting ends; what the tabs hold is saved  *)
(* some time after they stop changing; a status that keeps the updater     *)
(* from checking ends; and the script ends and stops a new version that    *)
(* hangs, with the two exceptions of UpdateEnds.                           *)
(***************************************************************************)
StoresSettle ==
  /\ UnderWay ~> ~UnderWay
  /\ <>[](part = "session" => S!IsSaved)
  /\ <>(part = "installer" => I!Over)
=============================================================================
