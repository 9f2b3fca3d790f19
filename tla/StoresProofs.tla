---------------------------- MODULE StoresProofs ----------------------------
(***************************************************************************)
(* What holds of the small parts that MCStores puts side by side, for any  *)
(* values of their constants: S is the session file, U the updater, I the  *)
(* installation of an update, P the preferences, H the history and E the   *)
(* environments.  They share no variable: the file, the app and the        *)
(* changes of P are here document, running and updates, and the app, the   *)
(* changes and the faults of H are phase, acts and losses.                 *)
(***************************************************************************)
EXTENDS Naturals, Sequences, SequenceTheorems, FiniteSetTheorems, WellFoundedInduction, TLAPS

CONSTANTS Looks, MaxCaptures, MaxFaults,          \* of SessionFile
          Tracks, NoTrack, MaxChecks, MaxChanges, \* of Updater
          MaxStarts,                              \* of UpdateInstaller
          Secrets, NoSecret, NoId, MaxEdits, MaxOthers, MaxFailures, MaxStops, \* of Preferences
          LIMIT, MaxSent,                         \* of History
          MaxNames, MaxFiles, MaxTabs, MaxVariables, MaxEvents,
          Gone, NoName, ImportDone, Unreadable    \* of Environments

VARIABLES
  open, look, scheduled, captured, saving, saved, file, faults,
  installation, chosen, track, checks, status, offered, prepared, asked, downloading,
  progress, late, changes,
  app, backup, workDir, process, installer, confirmed, mishaps, starts,
  document, keyring, ids, running, memory, legacy, draft, edits, writer, typed, wanted, others,
  failures, stops, updates,
  phase, list, ended, jobs, undo, index, files, sent, kept, faulty, missing, acts, losses,
  disk, names, active, tabs, asking, import, events, astray

S == INSTANCE SessionFile
U == INSTANCE Updater
I == INSTANCE UpdateInstaller
P == INSTANCE Preferences WITH file <- document, app <- running, changes <- updates
H == INSTANCE History WITH app <- phase, changes <- acts, faults <- losses
E == INSTANCE Environments

-----------------------------------------------------------------------------
(***************************************************************************)
(* SessionFile: any sessions, failed writes, and saves at the same time.   *)
(***************************************************************************)

(***************************************************************************)
(* A save takes a number up to `last` and a session of that number.        *)
(***************************************************************************)
LEMMA SaveType ==
  ASSUME NEW last \in Nat, NEW n \in 1 .. last, NEW session \in Looks,
         saved \in [number : 0 .. last, content : Looks \union {"none"}],
         file \in [look : Looks, number : 0 .. last],
         S!Save(n, session)
  PROVE  /\ saved' \in [number : 0 .. last, content : Looks \union {"none"}]
         /\ file' \in [look : Looks, number : 0 .. last]
<1>1. n \in 0 .. last  OBVIOUS
<1>2. CASE saved' = saved /\ file' = file  BY <1>2
<1>3. CASE /\ saved' = [number |-> n, content |-> session]
           /\ file' = IF session # saved.content THEN [look |-> session, number |-> n]
                      ELSE [file EXCEPT !.number = n]
  BY <1>1, <1>3
<1>4. QED  BY <1>2, <1>3 DEF S!Save, S!Fails

(***************************************************************************)
(* The numbers that are being saved are among those captured, also when    *)
(* another session is captured.                                            *)
(***************************************************************************)
LEMMA NextCapture ==
  ASSUME captured \in Nat
  PROVE  /\ captured + 1 \in Nat /\ captured + 1 \in 1 .. captured + 1
         /\ 1 .. captured \subseteq 1 .. captured + 1
         /\ 0 .. captured \subseteq 0 .. captured + 1
BY SMT

LEMMA NothingIsSaved == DOMAIN S!NothingSaving = {}
BY DEF S!NothingSaving

LEMMA SessionTypeInductive == S!TypeOK /\ [S!Next]_(S!vars) => S!TypeOK'
<1> SUFFICES ASSUME S!TypeOK, [S!Next]_(S!vars) PROVE S!TypeOK'  OBVIOUS
<1> USE DEF S!TypeOK
<1>1. ASSUME NEW to \in Looks, S!Change(to) PROVE S!TypeOK'
  BY <1>1 DEF S!Change, S!Schedules
<1>2. CASE S!Checkpoint
  <2>1. captured' = captured + 1 /\ scheduled' = FALSE  BY <1>2 DEF S!Checkpoint
  <2>2. /\ DOMAIN saving' = DOMAIN saving \union {captured + 1}
        /\ \A n \in DOMAIN saving' : saving'[n] = IF n = captured + 1 THEN look ELSE saving[n]
    BY <1>2 DEF S!Checkpoint
  <2>3. DOMAIN saving' \subseteq 1 .. captured'  BY <2>1, <2>2, NextCapture
  <2>4. \A n \in DOMAIN saving' : saving'[n] \in Looks  BY <2>2
  <2>5. /\ saved' \in [number : 0 .. captured', content : Looks \union {"none"}]
        /\ file' \in [look : Looks, number : 0 .. captured']
    BY <1>2, <2>1, NextCapture DEF S!Checkpoint
  <2>6. QED  BY <1>2, <2>1, <2>3, <2>4, <2>5, NextCapture DEF S!Checkpoint
<1>3. ASSUME NEW n \in 1 .. MaxCaptures + 1, S!SaveInBackground(n) PROVE S!TypeOK'
  <2>1. n \in 1 .. captured /\ saving[n] \in Looks /\ S!Save(n, saving[n])
    BY <1>3 DEF S!SaveInBackground
  <2>2. /\ saved' \in [number : 0 .. captured, content : Looks \union {"none"}]
        /\ file' \in [look : Looks, number : 0 .. captured]
    BY <2>1, SaveType
  <2>3. QED  BY <1>3, <2>2 DEF S!SaveInBackground
<1>4. CASE S!Close
  <2>1. captured' = captured + 1 /\ S!Save(captured + 1, look)  BY <1>4 DEF S!Close
  <2>2. /\ saved' \in [number : 0 .. captured', content : Looks \union {"none"}]
        /\ file' \in [look : Looks, number : 0 .. captured']
    BY <2>1, NextCapture, SaveType
  <2>3. QED  BY <1>4, <2>1, <2>2, NextCapture DEF S!Close
<1>5. CASE S!Kill
  <2>1. captured' = 0 /\ scheduled' = FALSE /\ look' = file.look  BY <1>5 DEF S!Kill
  <2>2. DOMAIN saving' = {}  BY <1>5, NothingIsSaved DEF S!Kill
  <2>3. saved' \in [number : 0 .. 0, content : Looks \union {"none"}]  BY <1>5 DEF S!Kill
  <2>4. file' \in [look : Looks, number : 0 .. 0]  BY <1>5 DEF S!Kill
  <2>5. QED  BY <2>1, <2>2, <2>3, <2>4
<1>6. CASE UNCHANGED S!vars
  BY <1>6 DEF S!vars
<1>7. QED  BY <1>1, <1>2, <1>3, <1>4, <1>5, <1>6 DEF S!Next, S!Task

LEMMA SessionStarts == ASSUME S!Init PROVE S!TypeOK
<1>1. DOMAIN saving = {}  BY NothingIsSaved DEF S!Init
<1>2. captured = 0 /\ look \in Looks /\ scheduled = FALSE  BY DEF S!Init
<1>3. saved \in [number : 0 .. 0, content : Looks \union {"none"}]  BY DEF S!Init
<1>4. file \in [look : Looks, number : 0 .. 0]  BY DEF S!Init
<1>5. QED  BY <1>1, <1>2, <1>3, <1>4 DEF S!TypeOK

(***************************************************************************)
(* In every reachable state, the numbers of the sessions that are being    *)
(* saved, that was saved last and that the file holds are among those that *)
(* were captured since the app started.                                    *)
(***************************************************************************)
THEOREM SessionTypeCorrect == S!Spec => []S!TypeOK
<1>1. S!Init => S!TypeOK  BY SessionStarts
<1>2. QED  BY <1>1, SessionTypeInductive, PTL DEF S!Spec

-----------------------------------------------------------------------------
(***************************************************************************)
(* A save that is older than the newest one is left out, so what is saved  *)
(* and what the file holds go together.  A failed write changes neither.   *)
(***************************************************************************)
SessionInv == S!FileIsCurrent /\ file.number <= saved.number

LEMMA SaveKeepsInvariant ==
  ASSUME S!TypeOK, SessionInv, NEW n \in Nat, NEW session \in Looks, S!Save(n, session)
  PROVE  SessionInv' /\ file'.number >= file.number
<1> USE DEF S!TypeOK, SessionInv, S!FileIsCurrent
<1>1. CASE saved' = saved /\ file' = file  BY <1>1
<1>2. CASE /\ ~S!IsOlder(n)
           /\ saved' = [number |-> n, content |-> session]
           /\ file' = IF session # saved.content THEN [look |-> session, number |-> n]
                      ELSE [file EXCEPT !.number = n]
  <2>1. n >= saved.number  BY <1>2 DEF S!IsOlder
  <2>2. saved'.number = n /\ saved'.content = session  BY <1>2
  <2>3. file'.number = n  BY <1>2
  <2>4. file'.look = session \/ session = "none"  BY <1>2
  <2>5. QED  BY <2>1, <2>2, <2>3, <2>4
<1>3. QED  BY <1>1, <1>2 DEF S!Save, S!Fails

LEMMA SessionInductive ==
  ASSUME S!TypeOK, SessionInv, [S!Next]_(S!vars)
  PROVE  SessionInv' /\ S!KeepsNewest
<1> USE DEF S!TypeOK
<1>1. CASE UNCHANGED <<saved, file>>
  BY <1>1 DEF SessionInv, S!FileIsCurrent, S!KeepsNewest
<1>2. ASSUME NEW n \in Nat, NEW session \in Looks, S!Save(n, session)
      PROVE  SessionInv' /\ S!KeepsNewest
  <2>1. SessionInv' /\ file'.number >= file.number  BY <1>2, SaveKeepsInvariant
  <2>2. file.number \in Nat /\ file'.number \in Nat
    BY <1>2 DEF S!Save, S!Fails
  <2>3. QED  BY <2>1, <2>2 DEF S!KeepsNewest
<1>3. ASSUME NEW n \in 1 .. MaxCaptures + 1, S!SaveInBackground(n) PROVE SessionInv' /\ S!KeepsNewest
  <2>1. n \in Nat /\ saving[n] \in Looks /\ S!Save(n, saving[n])
    BY <1>3 DEF S!SaveInBackground
  <2>2. QED  BY <1>2, <2>1
<1>4. CASE S!Close
  <2>1. captured + 1 \in Nat /\ S!Save(captured + 1, look)  BY <1>4 DEF S!Close
  <2>2. QED  BY <1>2, <2>1
<1>5. CASE S!Kill
  BY <1>5 DEF S!Kill, SessionInv, S!FileIsCurrent, S!KeepsNewest
<1>6. QED
  BY <1>1, <1>3, <1>4, <1>5 DEF S!Next, S!Task, S!Change, S!Checkpoint, S!vars

LEMMA SessionInvStarts == S!Init => SessionInv
BY DEF S!Init, SessionInv, S!FileIsCurrent

LEMMA SessionInvHolds == S!Spec => [](S!TypeOK /\ SessionInv)
<1>1. S!Init => SessionInv  BY SessionInvStarts
<1>2. S!TypeOK /\ SessionInv /\ [S!Next]_(S!vars) => SessionInv'  BY SessionInductive
<1>3. QED  BY <1>1, <1>2, SessionTypeCorrect, PTL DEF S!Spec

(***************************************************************************)
(* The file holds what the newest saved session held: writes that fail and *)
(* saves that end late change nothing about it.                            *)
(***************************************************************************)
THEOREM FileHoldsTheNewest == S!Spec => []S!FileIsCurrent
<1>1. SessionInv => S!FileIsCurrent  BY DEF SessionInv
<1>2. QED  BY <1>1, SessionInvHolds, PTL

(***************************************************************************)
(* However many saves are under way and in whatever order they end, none   *)
(* replaces a session that was captured later.                             *)
(***************************************************************************)
THEOREM NoSaveGoesBack == S!Spec => S!NewestStays
<1>1. S!TypeOK /\ SessionInv /\ [S!Next]_(S!vars) => [S!KeepsNewest]_(S!vars)  BY SessionInductive
<1>2. QED  BY <1>1, SessionInvHolds, PTL DEF S!Spec, S!NewestStays

-----------------------------------------------------------------------------
(***************************************************************************)
(* Updater: any tracks, answers on their way, changes of the preferences.  *)
(***************************************************************************)

(***************************************************************************)
(* The latest check is unanswered exactly while "checking" is shown, and   *)
(* asked about the track; an answer to an earlier one changes nothing.     *)
(* What is downloaded is of the track, which does not change meanwhile.    *)
(***************************************************************************)
LatestAsked ==
  /\ checks \in DOMAIN asked <=> status = "checking"
  /\ status = "checking" => asked[checks] = track /\ U!HasManifest
Loads == status \in U!Busy => downloading = track
UpdaterInv == U!TypeOK /\ LatestAsked /\ Loads /\ U!OffersTheTrack

LEMMA UpdaterInit == NoTrack \notin Tracks /\ U!Init => UpdaterInv
<1> SUFFICES ASSUME NoTrack \notin Tracks, U!Init PROVE UpdaterInv  OBVIOUS
<1>0. /\ installation \in U!Installations /\ chosen \in Tracks /\ track = chosen
      /\ offered = NoTrack /\ prepared = NoTrack /\ downloading = NoTrack
      /\ progress = FALSE /\ late = FALSE
  BY DEF U!Init
<1>1. CASE U!Installed
  <2>1. status = "checking" /\ checks = 1 /\ DOMAIN asked = {1} /\ asked[1] = track
    BY <1>1 DEF U!Init
  <2>2. /\ checks \in Nat /\ DOMAIN asked \subseteq 1 .. checks
        /\ \A n \in DOMAIN asked : asked[n] \in Tracks
    BY <2>1 DEF U!Init
  <2>3. U!TypeOK
    <3>1. status \in U!Busy \union {"idle", "checking", "upToDate", "available", "ready", "managed",
                                  "error", "quit"}
      BY <2>1
    <3>2. status \notin U!Busy \union {"available", "ready"}  BY <2>1 DEF U!Busy
    <3>3. progress \in BOOLEAN /\ late \in BOOLEAN  BY <1>0
    <3>4. /\ (offered # NoTrack) = (status = "available")
          /\ (downloading # NoTrack) = (status \in U!Busy)
          /\ (prepared # NoTrack) = (status = "ready")
      BY <1>0, <3>2
    <3>5. QED  BY <1>0, <2>2, <3>1, <3>3, <3>4 DEF U!TypeOK
  <2>4. LatestAsked  BY <1>1, <2>1 DEF LatestAsked, U!Installed, U!HasManifest
  <2>5. QED  BY <1>0, <2>1, <2>3, <2>4 DEF UpdaterInv, Loads, U!OffersTheTrack, U!Busy
<1>2. CASE ~U!Installed
  <2>1. status = "idle" /\ checks = 0 /\ DOMAIN asked = {}  BY <1>2 DEF U!Init
  <2>2. /\ checks \in Nat /\ DOMAIN asked \subseteq 1 .. checks
        /\ \A n \in DOMAIN asked : asked[n] \in Tracks
    BY <2>1
  <2>3. U!TypeOK
    <3>1. status \in U!Busy \union {"idle", "checking", "upToDate", "available", "ready", "managed",
                                  "error", "quit"}
      BY <2>1
    <3>2. status \notin U!Busy \union {"available", "ready"}  BY <2>1 DEF U!Busy
    <3>3. progress \in BOOLEAN /\ late \in BOOLEAN  BY <1>0
    <3>4. /\ (offered # NoTrack) = (status = "available")
          /\ (downloading # NoTrack) = (status \in U!Busy)
          /\ (prepared # NoTrack) = (status = "ready")
      BY <1>0, <3>2
    <3>5. QED  BY <1>0, <2>2, <3>1, <3>3, <3>4 DEF U!TypeOK
  <2>4. LatestAsked  BY <2>1 DEF LatestAsked
  <2>5. QED  BY <1>0, <2>1, <2>3, <2>4 DEF UpdaterInv, Loads, U!OffersTheTrack, U!Busy
<1>3. QED  BY <1>1, <1>2

(***************************************************************************)
(* A check that starts becomes the latest one; the numbers of the others   *)
(* are lower.                                                              *)
(***************************************************************************)
LEMMA CheckStarts ==
  ASSUME U!TypeOK, NEW on \in Tracks,
         checks' = checks + 1,
         asked' = [n \in DOMAIN asked \union {checks + 1} |-> IF n = checks + 1 THEN on ELSE asked[n]]
  PROVE  /\ checks' \in Nat /\ checks' \in DOMAIN asked' /\ asked'[checks'] = on
         /\ DOMAIN asked' \subseteq 1 .. checks'
         /\ \A n \in DOMAIN asked' : asked'[n] \in Tracks
<1>1. checks \in Nat /\ DOMAIN asked \subseteq 1 .. checks  BY DEF U!TypeOK
<1>2. DOMAIN asked' = DOMAIN asked \union {checks + 1}  OBVIOUS
<1>3. \A n \in DOMAIN asked' : asked'[n] = IF n = checks + 1 THEN on ELSE asked[n]  OBVIOUS
<1>4. \A n \in DOMAIN asked' : asked'[n] \in Tracks  BY <1>2, <1>3 DEF U!TypeOK
<1>5. QED  BY <1>1, <1>2, <1>3, <1>4

(***************************************************************************)
(* check(), which changes neither what is loaded nor what is ready.        *)
(***************************************************************************)
LEMMA CheckKeeps == NoTrack \notin Tracks /\ UpdaterInv /\ U!Check => UpdaterInv'
<1> SUFFICES ASSUME NoTrack \notin Tracks, UpdaterInv, U!Check PROVE UpdaterInv'  OBVIOUS
<1> USE DEF UpdaterInv, U!TypeOK, LatestAsked, Loads, U!OffersTheTrack, U!Busy, U!MayCheck, U!HasManifest
<1>0. UNCHANGED <<installation, chosen, track, prepared, downloading, progress, late, changes>>
  BY DEF U!Check
<1>1. CASE ~U!MayCheck(status)
  BY <1>0, <1>1 DEF U!Check, U!Checks
<1>2. CASE U!MayCheck(status) /\ ~U!HasManifest
  BY <1>0, <1>2 DEF U!Check, U!Checks
<1>3. CASE U!MayCheck(status) /\ U!HasManifest
  <2>1. /\ status' = "checking" /\ offered' = NoTrack /\ checks' = checks + 1
        /\ asked' = [n \in DOMAIN asked \union {checks + 1} |-> IF n = checks + 1 THEN track ELSE asked[n]]
    BY <1>3 DEF U!Check, U!Checks
  <2>2. /\ checks' \in Nat /\ checks' \in DOMAIN asked' /\ asked'[checks'] = track
        /\ DOMAIN asked' \subseteq 1 .. checks'
        /\ \A n \in DOMAIN asked' : asked'[n] \in Tracks
    BY <2>1, CheckStarts
  <2>3. status \notin U!Busy /\ status # "ready"  BY <1>3
  <2>4. QED  BY <1>0, <1>3, <2>1, <2>2, <2>3
<1>4. QED  BY <1>1, <1>2, <1>3

(***************************************************************************)
(* follow_track(): an answer to a check of the earlier track is not the    *)
(* latest one's any more.                                                  *)
(***************************************************************************)
LEMMA FollowKeeps ==
  ASSUME NoTrack \notin Tracks, UpdaterInv, NEW to \in Tracks, U!ChangePreferences(to)
  PROVE  UpdaterInv'
<1> USE DEF UpdaterInv, U!TypeOK, LatestAsked, Loads, U!OffersTheTrack, U!Busy, U!MayCheck, U!HasManifest
<1>0. /\ UNCHANGED <<installation, downloading, progress>>
      /\ chosen' = to /\ late' = (to # track /\ status \in U!Busy)
  BY DEF U!ChangePreferences
<1>1. CASE to = track \/ status \in U!Busy
  <2>1. UNCHANGED <<track, prepared, offered, status, checks, asked>>
    BY <1>1 DEF U!ChangePreferences, U!FollowTrack
  <2>2. QED  BY <1>0, <1>1, <2>1
<1>2. CASE ~(to = track \/ status \in U!Busy) /\ ~U!HasManifest
  <2>1. /\ track' = to /\ prepared' = NoTrack /\ status' = "managed" /\ offered' = NoTrack
        /\ UNCHANGED <<checks, asked>>
    BY <1>2 DEF U!ChangePreferences, U!FollowTrack, U!Checks
  <2>2. status # "checking"  BY <1>2
  <2>3. QED  BY <1>0, <1>2, <2>1, <2>2
<1>3. CASE ~(to = track \/ status \in U!Busy) /\ U!HasManifest
  <2>1. /\ track' = to /\ prepared' = NoTrack
        /\ status' = "checking" /\ offered' = NoTrack /\ checks' = checks + 1
        /\ asked' = [n \in DOMAIN asked \union {checks + 1} |-> IF n = checks + 1 THEN to ELSE asked[n]]
    BY <1>3 DEF U!ChangePreferences, U!FollowTrack, U!Checks
  <2>2. /\ checks' \in Nat /\ checks' \in DOMAIN asked' /\ asked'[checks'] = to
        /\ DOMAIN asked' \subseteq 1 .. checks'
        /\ \A n \in DOMAIN asked' : asked'[n] \in Tracks
    BY <2>1, CheckStarts
  <2>3. QED  BY <1>0, <1>3, <2>1, <2>2
<1>4. QED  BY <1>1, <1>2, <1>3

LEMMA AnswerKeeps ==
  ASSUME NoTrack \notin Tracks, UpdaterInv, NEW n, U!Answer(n)
  PROVE  UpdaterInv'
<1> USE DEF UpdaterInv, U!TypeOK, LatestAsked, Loads, U!OffersTheTrack, U!Busy, U!HasManifest
<1>0. /\ UNCHANGED <<installation, chosen, track, checks, prepared, downloading, progress, late>>
      /\ n \in DOMAIN asked
      /\ DOMAIN asked' = DOMAIN asked \ {n}
      /\ \A m \in DOMAIN asked' : asked'[m] = asked[m]
  BY DEF U!Answer
<1>1. CASE checks = n
  <2>1. status = "checking" /\ asked[n] = track  BY <1>0, <1>1
  <2>2. PICK answer \in {"available", "upToDate", "error"} :
          /\ status' = answer
          /\ offered' = IF answer = "available" THEN asked[n] ELSE NoTrack
    BY <1>1 DEF U!Answer, U!IsLatest
  <2>3. QED  BY <1>0, <1>1, <2>1, <2>2
<1>2. CASE checks # n
  <2>1. UNCHANGED <<status, offered>>  BY <1>2 DEF U!Answer, U!IsLatest
  <2>2. QED  BY <1>0, <1>2, <2>1
<1>3. QED  BY <1>1, <1>2

LEMMA UpdaterInductive == NoTrack \notin Tracks /\ UpdaterInv /\ [U!Next]_(U!vars) => UpdaterInv'
<1> SUFFICES ASSUME NoTrack \notin Tracks, UpdaterInv, [U!Next]_(U!vars) PROVE UpdaterInv'  OBVIOUS
<1>1. CASE U!Download
  BY <1>1 DEF U!Download, UpdaterInv, U!TypeOK, LatestAsked, Loads, U!OffersTheTrack, U!Busy, U!HasManifest
<1>2. CASE U!Downloaded
  BY <1>2 DEF U!Downloaded, UpdaterInv, U!TypeOK, LatestAsked, Loads, U!OffersTheTrack, U!Busy, U!HasManifest
<1>3. CASE U!Prepared
  BY <1>3 DEF U!Prepared, UpdaterInv, U!TypeOK, LatestAsked, Loads, U!OffersTheTrack, U!Busy, U!HasManifest
<1>4. CASE U!Fails
  BY <1>4 DEF U!Fails, UpdaterInv, U!TypeOK, LatestAsked, Loads, U!OffersTheTrack, U!Busy, U!HasManifest
<1>5. CASE U!Relaunch
  BY <1>5 DEF U!Relaunch, UpdaterInv, U!TypeOK, LatestAsked, Loads, U!OffersTheTrack, U!Busy, U!HasManifest
<1>6. CASE UNCHANGED U!vars
  BY <1>6 DEF U!vars, UpdaterInv, U!TypeOK, LatestAsked, Loads, U!OffersTheTrack, U!Busy, U!HasManifest
<1>7. QED
  BY <1>1, <1>2, <1>3, <1>4, <1>5, <1>6, CheckKeeps, FollowKeeps, AnswerKeeps
  DEF U!Next, U!Background

LEMMA UpdaterInvHolds == ASSUME NoTrack \notin Tracks PROVE U!Spec => []UpdaterInv
<1>1. U!Init => UpdaterInv  BY UpdaterInit
<1>2. UpdaterInv /\ [U!Next]_(U!vars) => UpdaterInv'  BY UpdaterInductive
<1>3. QED  BY <1>1, <1>2, PTL DEF U!Spec

(***************************************************************************)
(* Every reachable state is well formed: a release is offered, loaded or   *)
(* ready exactly while the status says so.                                 *)
(***************************************************************************)
THEOREM UpdaterTypeCorrect == ASSUME NoTrack \notin Tracks PROVE U!Spec => []U!TypeOK
<1>1. UpdaterInv => U!TypeOK  BY DEF UpdaterInv
<1>2. QED  BY <1>1, UpdaterInvHolds, PTL

(***************************************************************************)
(* Whatever order the answers come in and whenever the track changes, the  *)
(* release that is offered or ready is one of the track looked at.         *)
(***************************************************************************)
THEOREM OffersAreOfTheTrack == ASSUME NoTrack \notin Tracks PROVE U!Spec => []U!OffersTheTrack
<1>1. UpdaterInv => U!OffersTheTrack  BY DEF UpdaterInv
<1>2. QED  BY <1>1, UpdaterInvHolds, PTL

-----------------------------------------------------------------------------
(***************************************************************************)
(* UpdateInstaller: any starts by the user, at any time, and any command   *)
(* that fails.                                                             *)
(***************************************************************************)
Paths == {"old", "new", "none", "part"}
Processes == [version : {"old", "new", "none"},
              at : {"none", "quitting", "starting", "hung", "confirming", "removing", "running"}]

(***************************************************************************)
(* Where the versions are while the script is at each of its steps.  As    *)
(* long as nothing was lost, the backup is there from the first move until *)
(* a new version confirms or the script moves it back, and only a process  *)
(* opened after the second move is of a new version.                       *)
(***************************************************************************)
OldInPlace == app = "old" /\ confirmed # "new"
Unconfirmed == backup = "old" /\ confirmed # "new"
Confirmed == backup = "none" /\ confirmed = "new"

Place ==
  /\ installer \in {"waiting", "clearing", "movingOld"} => OldInPlace /\ workDir = "new"
  /\ installer \in {"waiting", "clearing"} => process.version # "new"
  /\ installer = "movingOld" => backup = "none"
  /\ installer = "movingNew" => app = "none" /\ Unconfirmed /\ workDir = "new"
  /\ installer \in {"opening", "polling", "killing", "looking"} =>
       app = "new" /\ (Unconfirmed \/ Confirmed)
  /\ installer = "removing" => Unconfirmed
  /\ installer = "restoring" => app = "none" /\ Unconfirmed
  /\ installer \in {"reopening", "done"} =>
       \/ OldInPlace /\ backup = "none"
       \/ app = "new" /\ Confirmed
       \/ app = "none" /\ Unconfirmed /\ "back" \in mishaps
  /\ installer = "died" => I!IsWhole(app) \/ backup = "old"

InstallerInv ==
  /\ I!TypeOK
  /\ process \in Processes
  /\ I!NothingIsLost => Place

-----------------------------------------------------------------------------
LEMMA InstallerInit == I!Init => InstallerInv
BY DEF I!Init, InstallerInv, I!TypeOK, Processes, Place, OldInPlace

LEMMA OpenedProcess ==
  ASSUME process \in Processes, app \in Paths
  PROVE  /\ I!Opened \in Processes
         /\ I!Opened = process \/ I!Opened.version = app
BY DEF I!Opened, I!IsWhole, Processes, Paths, I!Starts

(***************************************************************************)
(* The app.                                                                *)
(***************************************************************************)
LEMMA AppKeeps ==
  ASSUME InstallerInv, I!App
  PROVE  InstallerInv'
<1> USE DEF InstallerInv, I!TypeOK, Place, OldInPlace, Unconfirmed, Confirmed, I!NotRunning, Processes,
            I!NothingIsLost, I!IsWhole
<1>1. CASE I!Quits  BY <1>1 DEF I!Quits
<1>2. CASE I!StartGoes  BY <1>2 DEF I!StartGoes
<1>3. CASE I!FindsBackup  BY <1>3 DEF I!FindsBackup
<1>4. CASE I!RemovesBackup
  <2>1. /\ process' = [process EXCEPT !.at = "running"] /\ process' \in Processes
        /\ UNCHANGED <<app, workDir, installer>>
    BY <1>4 DEF I!RemovesBackup
  <2>2. CASE UNCHANGED <<backup, confirmed, mishaps>>  BY <2>1, <2>2
  <2>3. CASE backup' = "none" /\ backup # "none" /\ confirmed' = process.version
    <3>1. mishaps' = IF I!StillNeeded THEN mishaps \union {"removed"} ELSE mishaps
      BY <1>4, <2>3 DEF I!RemovesBackup
    <3>2. CASE I!StillNeeded  BY <2>1, <2>3, <3>1, <3>2
    <3>3. CASE ~I!StillNeeded
      <4>1. I!TypeOK' /\ mishaps' = mishaps  BY <2>1, <2>3, <3>1, <3>3
      <4>2. CASE installer \in {"opening", "polling", "killing", "looking"}
        BY <2>1, <2>3, <3>3, <4>1, <4>2 DEF I!StillNeeded
      <4>3. CASE installer \in {"movingNew", "removing", "restoring"}  BY <3>3, <4>3 DEF I!StillNeeded
      <4>4. CASE installer \in {"waiting", "clearing", "movingOld", "reopening", "done", "died"}
        BY <2>1, <2>3, <3>3, <4>1, <4>4 DEF I!StillNeeded
      <4>5. QED  BY <4>2, <4>3, <4>4
    <3>4. QED  BY <3>2, <3>3
  <2>4. QED  BY <1>4, <2>2, <2>3 DEF I!RemovesBackup
<1>5. QED  BY <1>1, <1>2, <1>3, <1>4 DEF I!App

LEMMA UserKeeps ==
  ASSUME InstallerInv, I!UserOpens
  PROVE  InstallerInv'
<1>1. /\ process' = I!Opened
      /\ mishaps' \in {mishaps, mishaps \union {"opened"}}
      /\ UNCHANGED <<app, backup, workDir, installer, confirmed>>
  BY DEF I!UserOpens
<1>2. I!Opened \in Processes /\ (I!Opened = process \/ I!Opened.version = app)
  BY OpenedProcess DEF InstallerInv, I!TypeOK, Paths
<1>3. QED
  BY <1>1, <1>2
  DEF InstallerInv, I!TypeOK, Place, OldInPlace, Unconfirmed, Confirmed, Processes, I!NothingIsLost, I!IsWhole

(***************************************************************************)
(* The script, step by step.                                               *)
(***************************************************************************)
LEMMA ScriptKeeps ==
  ASSUME InstallerInv, I!Script
  PROVE  InstallerInv'
<1> USE DEF InstallerInv, I!TypeOK, Place, OldInPlace, Unconfirmed, Confirmed, I!NotRunning, Processes,
            I!NothingIsLost, I!Goes
<1>0. I!Opened \in Processes /\ (I!Opened = process \/ I!Opened.version = app)
  BY OpenedProcess DEF Paths
<1>1. CASE I!WaitsForQuit  BY <1>1 DEF I!WaitsForQuit
<1>2. CASE I!ClearsBackup  BY <1>2 DEF I!ClearsBackup
<1>3. CASE I!MovesOld  BY <1>0, <1>3 DEF I!MovesOld
<1>4. CASE I!MovesNew  BY <1>4 DEF I!MovesNew
<1>5. CASE I!CannotMoveNew  BY <1>5 DEF I!CannotMoveNew
<1>6. CASE I!Opens  BY <1>0, <1>6 DEF I!Opens
<1>7. CASE I!FindsConfirmed  BY <1>7 DEF I!FindsConfirmed
<1>8. CASE I!TimesOut  BY <1>8 DEF I!TimesOut
<1>9. CASE I!Kills  BY <1>9 DEF I!Kills
<1>10. CASE I!LooksForBackup  BY <1>10 DEF I!LooksForBackup, I!LooksAgain
<1>11. CASE I!RemovesNew  BY <1>11 DEF I!RemovesNew
<1>12. CASE I!Restores  BY <1>12 DEF I!Restores, I!MovesBack
<1>13. CASE I!Reopens  BY <1>0, <1>13 DEF I!Reopens
<1>14. QED
  BY <1>1, <1>2, <1>3, <1>4, <1>5, <1>6, <1>7, <1>8, <1>9, <1>10, <1>11, <1>12, <1>13 DEF I!Script

LEMMA StopKeeps ==
  ASSUME InstallerInv, I!Stops
  PROVE  InstallerInv'
<1> USE DEF InstallerInv, I!TypeOK, Place, OldInPlace, Unconfirmed, Confirmed, I!NothingIsLost, I!IsWhole
<1>1. process' \in Processes  BY DEF I!Stops, I!NotRunning, Processes
<1>2. I!TypeOK'  BY <1>1 DEF I!Stops, I!NotRunning
<1>3. I!NothingIsLost' => I!IsWhole(app)' \/ backup' = "old"  BY DEF I!Stops
<1>4. QED  BY <1>1, <1>2, <1>3 DEF I!Stops

LEMMA InstallerInductive == InstallerInv /\ [I!Next]_(I!vars) => InstallerInv'
<1>1. ASSUME InstallerInv, UNCHANGED I!vars PROVE InstallerInv'
  BY <1>1
  DEF I!vars, InstallerInv, I!TypeOK, Place, OldInPlace, Unconfirmed, Confirmed, Processes,
      I!NothingIsLost, I!IsWhole
<1>2. QED  BY <1>1, AppKeeps, UserKeeps, ScriptKeeps, StopKeeps DEF I!Next

LEMMA InstallerInvHolds == I!Spec => []InstallerInv
BY InstallerInit, InstallerInductive, PTL DEF I!Spec

-----------------------------------------------------------------------------
(***************************************************************************)
(* install.rs:58: whichever command fails, whenever the user opens the app *)
(* and wherever the computer stops, a whole version is at the path of the  *)
(* app or beside it, and at the path once the script is done and could     *)
(* move it back; unless an rm failed or the backup was removed too early.  *)
(***************************************************************************)
THEOREM VersionRemains == I!Spec => []I!AVersionRemains
<1>1. InstallerInv => I!AVersionRemains
  BY DEF InstallerInv, Place, OldInPlace, Unconfirmed, I!TypeOK, I!AVersionRemains, I!IsWhole
<1>2. QED  BY <1>1, InstallerInvHolds, PTL

(***************************************************************************)
(* install.rs:42: once the script is done, the new version is in place if  *)
(* it confirmed, whoever opened it, and the previous one if it did not;    *)
(* with the same exceptions.                                               *)
(***************************************************************************)
THEOREM ConfirmedIsKept == I!Spec => []I!KeepsWhatConfirmed
<1>1. InstallerInv => I!KeepsWhatConfirmed
  BY DEF InstallerInv, Place, OldInPlace, Unconfirmed, Confirmed, I!KeepsWhatConfirmed
<1>2. QED  BY <1>1, InstallerInvHolds, PTL

-----------------------------------------------------------------------------
(***************************************************************************)
(* Preferences: any secrets and any number of edits, failures and starts.  *)
(***************************************************************************)
NamesAssumed == NoSecret \notin Secrets /\ NoId \notin Nat

EntryIds == Nat \union {NoId}
Proxies == [custom : BOOLEAN, secret : P!All, lost : BOOLEAN]
Memories == [proxy : Proxies, id : EntryIds, other : Nat]
Places == {"waiting", "restoring", "staging", "staged", "cleaning", "done", "told"}
Edits == [proxy : Proxies, at : Places, page : BOOLEAN, before : Memories, id : EntryIds,
          staged : BOOLEAN, result : {"none", "ok", "error"}]
Active == {"restoring", "staging", "staged", "cleaning"}

PreferencesTyped ==
  /\ document \in [custom : BOOLEAN, id : EntryIds, other : Nat, plain : P!All]
  /\ keyring = [i \in DOMAIN keyring |-> keyring[i]]
  /\ DOMAIN keyring \subseteq 1 .. ids /\ \A i \in DOMAIN keyring : keyring[i] \in Secrets
  /\ ids \in Nat /\ document.id \in 1 .. ids \union {NoId} /\ running \in {"off", "loading", "on"}
  /\ memory \in Memories /\ legacy \in BOOLEAN /\ draft \in Proxies
  /\ edits \in Seq(Edits) /\ writer \in 0 .. Len(edits)
  /\ others \in Nat /\ updates \in Nat /\ typed \subseteq P!All /\ wanted \in P!All

\* The file: what it refers to exists, and is what the app in memory has.
FileFits ==
  /\ running # "off" =>
       /\ document.id = memory.id /\ document.other = memory.other /\ document.custom = memory.proxy.custom
       /\ legacy = (document.plain # NoSecret)
  /\ P!SavedReferenceExists /\ P!NoSecretIsLost /\ P!OtherSettingsStay

\* Who has the lock is the one under way, and nothing but its own id is new.
EditFits(e) ==
  /\ e.before.id = memory.id /\ e.before.proxy = memory.proxy
  /\ e.at = "restoring" => ~legacy /\ memory.id # NoId /\ memory.proxy.lost /\ ~e.staged
  /\ e.at \in {"staging", "staged"} =>
       /\ e.staged /\ e.id \in 1 .. ids /\ e.id # memory.id
       /\ e.proxy.secret \in Secrets /\ e.proxy.secret \in typed /\ ~e.proxy.lost
  /\ e.at = "staged" => e.id \in DOMAIN keyring /\ keyring[e.id] = e.proxy.secret
LockFits ==
  /\ running = "off" => edits = <<>>
  /\ running = "loading" => Len(edits) <= 1
  /\ running = "loading" /\ edits # <<>> =>
       (legacy \/ edits[1].result = "ok") /\ ~edits[1].before.proxy.lost
  /\ writer # 0 => edits[writer].at \in Active
  /\ \A n \in DOMAIN edits :
       /\ edits[n].at \in Active => n = writer
       /\ edits[n].at \in Active \ {"cleaning"} => EditFits(edits[n])
       /\ edits[n].at = "cleaning" => edits[n].id # memory.id /\ edits[n].result # "none"
       /\ edits[n].at = "waiting" => ~edits[n].staged
       /\ edits[n].at \notin {"cleaning", "done", "told"} => edits[n].result = "none"

\* Every proxy's secret was typed, or is empty because it could not be read.
Known(proxy) == proxy.secret \in typed \/ (proxy.secret = NoSecret /\ proxy.lost)
CredentialsRead == running = "on" \/ (running = "loading" /\ (legacy \/ edits # <<>>))
SecretsFit ==
  /\ CredentialsRead => Known(memory.proxy)
  /\ running = "on" => Known(draft)
  /\ running = "loading" => ~memory.proxy.lost
  /\ running = "loading" /\ ~legacy /\ edits = <<>> => memory.proxy.secret = NoSecret
  /\ running # "off" /\ ~legacy /\ memory.proxy.lost => memory.proxy.secret = NoSecret
  /\ CredentialsRead /\ (legacy \/ ~memory.proxy.lost) => memory.proxy.secret = P!Saved
  /\ \A n \in DOMAIN edits : edits[n].at = "waiting" =>
       Known(edits[n].proxy) /\ (legacy => edits[n].proxy.secret \in typed)
  /\ legacy /\ running = "on" => draft.secret \in typed

\* What was typed last is saved or will be.
Cleared == wanted = NoSecret /\
  (memory.proxy.lost \/ \E n \in DOMAIN edits : edits[n].at # "waiting" /\ edits[n].before.proxy.lost)
Reaches(proxy) ==
  /\ Cleared \/ proxy.secret = wanted \/ (proxy.lost /\ ~legacy /\ proxy.secret = NoSecret)
  /\ proxy.lost =>
       \/ Cleared
       \/ /\ P!Saved = wanted
          /\ writer # 0 /\ edits[writer].at \in {"staging", "staged"} => edits[writer].proxy.secret = wanted
WishesFit ==
  /\ running = "on" => Reaches(draft)
  /\ running = "loading" => wanted = P!Saved
  /\ edits # <<>> =>
       LET last == edits[Len(edits)] IN
       /\ last.at = "waiting" => Reaches(last.proxy)
       /\ last.at # "waiting" => writer \in {0, Len(edits)}
       /\ last.at \in {"staging", "staged"} => last.proxy.secret = wanted \/ Cleared
       /\ last.at = "restoring" => P!Saved = wanted \/ Cleared
       /\ last.result = "ok" =>
            /\ P!Saved = wanted \/ Cleared
            /\ document.custom = last.proxy.custom
            /\ memory.proxy.lost => last.before.proxy.lost

PreferencesInv == PreferencesTyped /\ FileFits /\ LockFits /\ SecretsFit /\ WishesFit

-----------------------------------------------------------------------------
LEMMA PreferencesTypeFollows == ASSUME PreferencesInv PROVE P!TypeOK
<1>1. PreferencesTyped /\ LockFits  BY DEF PreferencesInv
<1>2. memory.proxy.secret \in P!All /\ draft.secret \in P!All /\ document.plain \in P!All
  BY <1>1 DEF PreferencesTyped, Memories, Proxies
<1>3. (writer # 0) = \E n \in DOMAIN edits : edits[n].at \in Active
  <2>1. DOMAIN edits = 1 .. Len(edits) /\ Len(edits) \in Nat  BY <1>1, LenProperties DEF PreferencesTyped
  <2>2. writer # 0 => writer \in DOMAIN edits  BY <1>1, <2>1 DEF PreferencesTyped
  <2>3. \A n \in DOMAIN edits : n # 0  BY <2>1
  <2>4. QED  BY <1>1, <2>2, <2>3 DEF LockFits
<1>4. QED  BY <1>1, <1>2, <1>3 DEF P!TypeOK, PreferencesTyped, Active

LEMMA EditMoves ==
  ASSUME edits \in Seq(Edits), NEW n \in DOMAIN edits, NEW e \in Edits, edits' = [edits EXCEPT ![n] = e]
  PROVE  /\ edits' \in Seq(Edits) /\ Len(edits') = Len(edits) /\ DOMAIN edits' = DOMAIN edits
         /\ DOMAIN edits = 1 .. Len(edits) /\ Len(edits) \in DOMAIN edits /\ n <= Len(edits) /\ n # 0
         /\ edits # <<>> /\ edits' # <<>> /\ Len(edits) \in Nat
         /\ edits'[n] = e /\ \A m \in DOMAIN edits : m # n => edits'[m] = edits[m]
<1>1. DOMAIN edits = 1 .. Len(edits) /\ Len(edits) \in Nat  BY LenProperties
<1>2. n \in 1 .. Len(edits) /\ Len(edits) >= 1  BY <1>1
<1>3. edits' \in Seq(Edits) /\ Len(edits') = Len(edits)
  BY <1>1, <1>2, ExceptSeq
<1>4. DOMAIN edits' = DOMAIN edits /\ edits'[n] = e /\ \A m \in DOMAIN edits : m # n => edits'[m] = edits[m]
  BY <1>1
<1>5. edits # <<>> /\ edits' # <<>>
  BY <1>2, <1>3, EmptySeq
<1>6. QED  BY <1>1, <1>2, <1>3, <1>4, <1>5

-----------------------------------------------------------------------------
(***************************************************************************)
(* A step of edit n, which becomes e: what of it disturbs the others.      *)
(***************************************************************************)
EditStep(n, e) ==
  /\ edits' = [edits EXCEPT ![n] = e]
  /\ writer' = IF e.at \in Active THEN n ELSE 0
  /\ UNCHANGED <<running, draft, typed, wanted, others, updates>>
  /\ running # "off" /\ writer \in {0, n} /\ edits[n].at \notin {"done", "told"} /\ e.at # "waiting"
  /\ edits[n].at = "waiting" /\ n # Len(edits) => e.at = "done" /\ UNCHANGED <<document, memory, legacy, keyring>>
  \* what stays well formed
  /\ document' \in [custom : BOOLEAN, id : EntryIds, other : Nat, plain : P!All]
  /\ memory' \in Memories /\ legacy' \in BOOLEAN /\ ids' \in Nat
  /\ keyring' = [i \in DOMAIN keyring' |-> keyring'[i]]
  /\ DOMAIN keyring' \subseteq 1 .. ids' /\ \A i \in DOMAIN keyring' : keyring'[i] \in Secrets
  /\ document'.id \in 1 .. ids' \union {NoId}
  \* what the file and the memory have
  /\ document'.id = memory'.id /\ document'.other = memory'.other /\ document'.custom = memory'.proxy.custom
  /\ legacy' = (document'.plain # NoSecret) /\ memory'.other = memory.other
  /\ P!SavedReferenceExists' /\ P!NoSecretIsLost'
  \* what e has
  /\ e.at \in Active \ {"cleaning"} => EditFits(e)' /\ e.result = "none"
  /\ e.at = "cleaning" => e.id # memory'.id /\ e.result # "none"
  \* the secrets
  /\ legacy' => legacy
  /\ legacy' \/ e.result = "ok"
       \/ running = "on"
  /\ Known(memory.proxy)'
  /\ running = "loading" => ~memory'.proxy.lost /\ ~e.before.proxy.lost
  /\ ~legacy' /\ memory'.proxy.lost => memory'.proxy.secret = NoSecret
  /\ legacy' \/ ~memory'.proxy.lost => memory'.proxy.secret = P!Saved'
  \* what was typed last
  /\ memory'.proxy.lost = memory.proxy.lost \/ e.before.proxy.lost
  /\ edits[n].at # "waiting" => e.before.proxy = edits[n].before.proxy
  /\ P!Saved' = P!Saved \/ (edits[n].at = "staged" /\ P!Saved' = edits[n].proxy.secret)
       \/ (n = Len(edits) /\ (P!Saved' = wanted \/ Cleared))
  /\ e.at \in {"staging", "staged"} =>
       \/ n = Len(edits) /\ (e.proxy.secret = wanted \/ Cleared)
       \/ edits[n].at = "staging" /\ e.proxy = edits[n].proxy
  /\ n = Len(edits) =>
       /\ e.at = "restoring" => P!Saved' = wanted \/ Cleared
       /\ e.result = "ok" =>
            /\ P!Saved' = wanted \/ Cleared
            /\ document'.custom = e.proxy.custom
            /\ memory'.proxy.lost => e.before.proxy.lost

LEMMA ClearedStays ==
  ASSUME PreferencesInv, NEW n \in DOMAIN edits, NEW e \in Edits, EditStep(n, e), Cleared
  PROVE  Cleared'
<1>1. edits \in Seq(Edits)  BY DEF PreferencesInv, PreferencesTyped
<1>2. edits' = [edits EXCEPT ![n] = e] /\ e.at # "waiting" /\ wanted' = wanted
      /\ (memory'.proxy.lost = memory.proxy.lost \/ e.before.proxy.lost)
      /\ (edits[n].at # "waiting" => e.before.proxy = edits[n].before.proxy)
  BY DEF EditStep
<1>3. DOMAIN edits' = DOMAIN edits /\ edits'[n] = e /\ \A m \in DOMAIN edits : m # n => edits'[m] = edits[m]
  BY <1>1, <1>2, EditMoves
<1>4. CASE memory.proxy.lost  BY <1>2, <1>3, <1>4 DEF Cleared
<1>5. CASE ~memory.proxy.lost
  <2>1. PICK m \in DOMAIN edits : edits[m].at # "waiting" /\ edits[m].before.proxy.lost
    BY <1>5 DEF Cleared
  <2>2. edits'[m].at # "waiting" /\ edits'[m].before.proxy.lost  BY <1>2, <1>3, <2>1
  <2>3. QED  BY <1>2, <1>3, <2>2 DEF Cleared
<1>6. QED  BY <1>4, <1>5

LEMMA EditSteps ==
  ASSUME PreferencesInv, NEW n \in DOMAIN edits, NEW e \in Edits, EditStep(n, e)
  PROVE  PreferencesInv'
<1>0. PreferencesTyped /\ FileFits /\ LockFits /\ SecretsFit /\ WishesFit  BY DEF PreferencesInv
<1>1. /\ edits' \in Seq(Edits) /\ Len(edits') = Len(edits) /\ DOMAIN edits' = DOMAIN edits
      /\ DOMAIN edits = 1 .. Len(edits) /\ Len(edits) \in DOMAIN edits /\ n <= Len(edits) /\ n # 0
      /\ edits # <<>> /\ edits' # <<>> /\ Len(edits) \in Nat
      /\ edits'[n] = e /\ \A m \in DOMAIN edits : m # n => edits'[m] = edits[m]
  BY <1>0, EditMoves DEF PreferencesTyped, EditStep
<1>2. Cleared => Cleared'  BY ClearedStays
<1>3. \A m \in DOMAIN edits : m # n => edits[m].at \notin Active
  BY <1>0, <1>1 DEF LockFits, EditStep
<1>4. PreferencesTyped'
  <2>1. writer' \in 0 .. Len(edits')  BY <1>1 DEF EditStep
  <2>2. QED  BY <1>0, <1>1, <2>1 DEF PreferencesTyped, EditStep
<1>5. FileFits'
  <2>1. document'.other = others'  BY <1>0 DEF FileFits, P!OtherSettingsStay, EditStep
  <2>2. QED  BY <2>1 DEF FileFits, P!OtherSettingsStay, EditStep
<1>6. LockFits'
  <2>1. running' # "off" /\ (running' = "loading" => Len(edits') <= 1)
    BY <1>0, <1>1 DEF LockFits, EditStep
  <2>2. running' = "loading" => (legacy' \/ edits'[1].result = "ok") /\ ~edits'[1].before.proxy.lost
    <3>1. running' = "loading" => n = 1  BY <1>1, <2>1
    <3>2. QED  BY <1>1, <3>1 DEF EditStep
  <2>3. writer' # 0 => edits'[writer'].at \in Active  BY <1>1 DEF EditStep
  <2>4. ASSUME NEW m \in DOMAIN edits
        PROVE  /\ edits'[m].at \in Active => m = writer'
               /\ edits'[m].at \in Active \ {"cleaning"} => EditFits(edits[m])'
               /\ edits'[m].at = "cleaning" => edits'[m].id # memory'.id /\ edits'[m].result # "none"
               /\ edits'[m].at = "waiting" => ~edits'[m].staged
               /\ edits'[m].at \notin {"cleaning", "done", "told"} => edits'[m].result = "none"
    <3>1. CASE m = n
      <4>1. edits'[m] = e  BY <1>1, <3>1
      <4>2. e.at \in Places  BY DEF Edits
      <4>3. QED  BY <3>1, <4>1, <4>2 DEF EditStep, Places, Active, EditFits
    <3>2. CASE m # n
      <4>1. edits'[m] = edits[m] /\ edits[m].at \notin Active  BY <1>1, <1>3, <3>2
      <4>2. QED  BY <1>0, <4>1 DEF LockFits, Active
    <3>3. QED  BY <3>1, <3>2
  <2>5. QED  BY <1>1, <2>1, <2>2, <2>3, <2>4 DEF LockFits
<1>7. SecretsFit'
  <2>1. \A m \in DOMAIN edits' : edits'[m].at = "waiting" =>
          Known(edits[m].proxy)' /\ (legacy' => edits'[m].proxy.secret \in typed')
    <3>1. \A m \in DOMAIN edits' : edits'[m].at = "waiting" => edits'[m] = edits[m] /\ m \in DOMAIN edits
      BY <1>1 DEF EditStep
    <3>2. QED  BY <1>0, <3>1 DEF SecretsFit, Known, EditStep
  <2>2. CredentialsRead' => Known(memory.proxy)'  BY DEF EditStep
  <2>3. running' = "on" => Known(draft)'  BY <1>0 DEF SecretsFit, Known, EditStep
  <2>4. QED  BY <1>0, <1>1, <2>1, <2>2, <2>3 DEF SecretsFit, EditStep
<1>8. WishesFit'
  <2>1. ASSUME NEW proxy, Reaches(proxy)
        PROVE  Reaches(proxy)'
    <3>1. Cleared' \/ proxy.secret = wanted \/ (proxy.lost /\ ~legacy' /\ proxy.secret = NoSecret)
      BY <1>2, <2>1 DEF Reaches, EditStep
    <3>2. ASSUME proxy.lost, ~Cleared'
          PROVE  /\ P!Saved' = wanted
                 /\ writer' # 0 /\ edits'[writer'].at \in {"staging", "staged"} => edits'[writer'].proxy.secret = wanted
      <4>1. P!Saved = wanted /\ (writer # 0 /\ edits[writer].at \in {"staging", "staged"} => edits[writer].proxy.secret = wanted)
        BY <1>2, <2>1, <3>2 DEF Reaches
      <4>2. edits[n].at \in {"staging", "staged"} => edits[n].proxy.secret = wanted
        <5>1. edits[n].at \in {"staging", "staged"} => writer = n  BY <1>0 DEF LockFits, Active
        <5>2. QED  BY <1>1, <4>1, <5>1
      <4>3. P!Saved' = wanted  BY <1>2, <3>2, <4>1, <4>2 DEF EditStep
      <4>4. e.at \in {"staging", "staged"} => e.proxy.secret = wanted  BY <1>2, <3>2, <4>2 DEF EditStep
      <4>5. writer' # 0 => writer' = n  BY DEF EditStep
      <4>6. QED  BY <1>1, <4>3, <4>4, <4>5
    <3>3. wanted' = wanted  BY DEF EditStep
    <3>4. QED  BY <3>1, <3>2, <3>3 DEF Reaches
  <2>2. running' = "on" => Reaches(draft)'
    <3>1. Reaches(draft) => Reaches(draft)'
      <4>1. draft' = draft  BY DEF EditStep
      <4>2. QED  BY <2>1, <4>1 DEF Reaches
    <3>2. QED  BY <1>0, <3>1 DEF WishesFit, EditStep
  <2>3. running' = "loading" => wanted' = P!Saved'
    <3>1. SUFFICES ASSUME running = "loading" PROVE wanted = P!Saved'  BY DEF EditStep
    <3>2. n = Len(edits) /\ n = 1 /\ Len(edits) = 1  BY <1>0, <1>1, <3>1 DEF LockFits
    <3>3. ~Cleared
      <4>1. ~memory.proxy.lost  BY <1>0, <3>1 DEF SecretsFit
      <4>2. ~edits[1].before.proxy.lost  BY <1>0, <1>1, <3>1 DEF LockFits
      <4>3. \A m \in DOMAIN edits : m = 1  BY <1>1, <3>2
      <4>4. QED  BY <4>1, <4>2, <4>3 DEF Cleared
    <3>4. edits[n].at = "staged" => edits[n].proxy.secret = wanted
      BY <1>0, <1>1, <3>2, <3>3 DEF WishesFit
    <3>5. P!Saved = wanted  BY <1>0, <3>1 DEF WishesFit
    <3>6. QED  BY <3>2, <3>3, <3>4, <3>5 DEF EditStep
  <2>4. CASE n = Len(edits)
    <3>1. edits'[Len(edits')] = e  BY <1>1, <2>4
    <3>2. e.at # "waiting" /\ writer' \in {0, Len(edits')} /\ wanted' = wanted
      BY <1>1, <2>4 DEF EditStep
    <3>3. e.at \in {"staging", "staged"} => e.proxy.secret = wanted \/ Cleared'
      <4>1. edits[n].at = "staging" => edits[n].proxy.secret = wanted \/ Cleared'
        BY <1>0, <1>1, <1>2, <2>4 DEF WishesFit
      <4>2. QED  BY <1>2, <4>1 DEF EditStep
    <3>4. /\ e.at = "restoring" => P!Saved' = wanted \/ Cleared'
          /\ e.result = "ok" =>
               /\ P!Saved' = wanted \/ Cleared'
               /\ document'.custom = e.proxy.custom
               /\ memory'.proxy.lost => e.before.proxy.lost
      BY <1>2, <2>4 DEF EditStep
    <3>5. QED  BY <2>2, <2>3, <3>1, <3>2, <3>3, <3>4 DEF WishesFit
  <2>5. CASE n # Len(edits)
    <3>1. edits'[Len(edits')] = edits[Len(edits)]  BY <1>1, <2>5
    <3> DEFINE last == edits[Len(edits)]
    <3>2. last.at = "waiting" => Reaches(last.proxy)'
      <4>1. last.at = "waiting" => Reaches(last.proxy)  BY <1>0, <1>1 DEF WishesFit
      <4>2. edits'[Len(edits)] = edits[Len(edits)] /\ Len(edits') = Len(edits)  BY <1>1, <2>5
      <4>3. QED  BY <2>1, <4>1, <4>2 DEF Reaches
    <3>3. last.at # "waiting" => edits[n].at = "waiting"
      <4>1. last.at # "waiting" => writer \in {0, Len(edits)}  BY <1>0, <1>1 DEF WishesFit
      <4>2. edits[n].at \in Active => n = writer  BY <1>0 DEF LockFits
      <4>3. edits[n].at \in Places
        <5>1. edits[n] \in Edits  BY <1>0, <1>1, ElementOfSeq DEF PreferencesTyped
        <5>2. QED  BY <5>1 DEF Edits
      <4>4. QED  BY <1>1, <2>5, <4>1, <4>2, <4>3 DEF EditStep, Places, Active
    <3>4. last.at # "waiting" => writer' = 0 /\ UNCHANGED <<document, memory, legacy, keyring>>
      BY <2>5, <3>3 DEF EditStep, Active
    <3>5. last.at # "waiting" => P!Saved' = P!Saved  BY <3>4 DEF P!Saved
    <3>6. last.at \notin Active  BY <1>1, <1>3, <2>5
    <3>7. last.at = "waiting" => last.result = "none"  BY <1>0, <1>1 DEF LockFits
    <3>8. last.result = "ok" =>
            /\ P!Saved' = wanted \/ Cleared'
            /\ document'.custom = last.proxy.custom
            /\ memory'.proxy.lost => last.before.proxy.lost
      BY <1>0, <1>1, <1>2, <3>4, <3>5, <3>7 DEF WishesFit
    <3>9. /\ last.at = "waiting" => Reaches(edits[Len(edits)].proxy)'
          /\ last.at # "waiting" => writer' \in {0, Len(edits')}
          /\ last.at \notin {"staging", "staged", "restoring"} /\ wanted' = wanted
      BY <3>2, <3>4, <3>6 DEF Active, EditStep
    <3> HIDE DEF last
    <3>10. edits'[Len(edits')] = last  BY <3>1 DEF last
    <3>11. QED  BY <2>2, <2>3, <3>8, <3>9, <3>10 DEF WishesFit
  <2>6. QED  BY <2>4, <2>5
<1>9. QED  BY <1>4, <1>5, <1>6, <1>7, <1>8 DEF PreferencesInv

-----------------------------------------------------------------------------
LEMMA OnlyEdit ==
  ASSUME PreferencesInv, running = "loading", NEW n \in DOMAIN edits
  PROVE  /\ n = 1 /\ Len(edits) = 1 /\ ~memory.proxy.lost
         /\ (legacy \/ edits[n].result = "ok") /\ ~edits[n].before.proxy.lost
<1>1. DOMAIN edits = 1 .. Len(edits) /\ Len(edits) \in Nat  BY LenProperties DEF PreferencesInv, PreferencesTyped
<1>2. Len(edits) <= 1  BY DEF PreferencesInv, LockFits
<1>3. n = 1 /\ Len(edits) = 1  BY <1>1, <1>2
<1>4. edits # <<>>  BY <1>3
<1>5. QED  BY <1>3, <1>4 DEF PreferencesInv, LockFits, SecretsFit

LEMMA EditOfMany == ASSUME PreferencesInv, NEW n \in DOMAIN edits
  PROVE /\ edits[n] \in Edits /\ edits[n].at \in Places /\ edits[n].before.id \in EntryIds
        /\ edits[n].before \in Memories /\ edits[n].before.proxy \in Proxies /\ edits[n].proxy \in Proxies
        /\ n \in Nat /\ n # 0 /\ n <= Len(edits) /\ Len(edits) \in DOMAIN edits /\ edits # <<>>
<1>1. edits \in Seq(Edits) /\ DOMAIN edits = 1 .. Len(edits) /\ Len(edits) \in Nat
  BY LenProperties DEF PreferencesInv, PreferencesTyped
<1>2. edits[n] \in Edits  BY <1>1, ElementOfSeq
<1>3. n # 0 /\ n <= Len(edits) /\ Len(edits) >= 1 /\ Len(edits) \in DOMAIN edits /\ edits # <<>>
  BY <1>1, EmptySeq
<1>4. QED  BY <1>1, <1>2, <1>3 DEF Edits, Memories

(***************************************************************************)
(* A step that leaves the file and the memory alone, and what the file     *)
(* refers to.                                                              *)
(***************************************************************************)
Unsaved(n, e) ==
  /\ edits' = [edits EXCEPT ![n] = e]
  /\ writer' = IF e.at \in Active THEN n ELSE 0
  /\ UNCHANGED <<document, memory, legacy, running, draft, typed, wanted, others, updates>>
  /\ running # "off" /\ writer \in {0, n} /\ edits[n].at \notin {"done", "told"} /\ e.at # "waiting"
  /\ edits[n].at = "waiting" /\ n # Len(edits) => e.at = "done" /\ keyring' = keyring
  /\ keyring' = [i \in DOMAIN keyring' |-> keyring'[i]] /\ ids' \in Nat /\ ids' >= ids
  /\ DOMAIN keyring' \subseteq 1 .. ids' /\ \A i \in DOMAIN keyring' : keyring'[i] \in Secrets
  /\ document.id \in DOMAIN keyring => document.id \in DOMAIN keyring' /\ keyring'[document.id] = keyring[document.id]
  /\ document.id \in DOMAIN keyring' => document.id \in DOMAIN keyring
  /\ e.at \in Active \ {"cleaning"} => EditFits(e)' /\ e.result = "none"
  /\ e.at = "cleaning" => e.id # memory.id /\ e.result # "none"
  /\ IF edits[n].at = "waiting" THEN e.before.proxy \in {memory.proxy, edits[n].before.proxy}
     ELSE e.before.proxy = edits[n].before.proxy
  /\ edits[n].at = "cleaning" => e.result = edits[n].result
  /\ e.at \in {"staging", "staged"} =>
       \/ n = Len(edits) /\ (e.proxy.secret = wanted \/ Cleared)
       \/ edits[n].at = "staging" /\ e.proxy = edits[n].proxy
  /\ n = Len(edits) =>
       /\ e.at = "restoring" => P!Saved = wanted \/ Cleared
       /\ e.result = "ok" =>
            /\ P!Saved = wanted \/ Cleared
            /\ document.custom = e.proxy.custom
            /\ memory.proxy.lost => e.before.proxy.lost

LEMMA UnsavedKeeps ==
  ASSUME PreferencesInv, NEW n \in DOMAIN edits, NEW e \in Edits, Unsaved(n, e)
  PROVE  PreferencesInv'
<1>0. PreferencesTyped /\ FileFits /\ LockFits /\ SecretsFit /\ WishesFit  BY DEF PreferencesInv
<1>1. P!Saved' = P!Saved /\ P!SavedReferenceExists' /\ P!NoSecretIsLost'
  <2>1. P!Saved' = P!Saved  BY DEF Unsaved, P!Saved
  <2>2. P!SavedReferenceExists'  BY <1>0 DEF Unsaved, FileFits, P!SavedReferenceExists
  <2>3. QED  BY <1>0, <2>1, <2>2 DEF Unsaved, FileFits, P!NoSecretIsLost
<1>2. edits # <<>> /\ CredentialsRead
  BY <1>0, EditOfMany DEF Unsaved, CredentialsRead, PreferencesTyped
<1>3. /\ Known(memory.proxy)' 
      /\ ~legacy /\ memory.proxy.lost => memory.proxy.secret = NoSecret
      /\ legacy \/ ~memory.proxy.lost => memory.proxy.secret = P!Saved
  BY <1>0, <1>2 DEF Unsaved, SecretsFit, Known
<1>4. running = "loading" => ~memory.proxy.lost /\ ~e.before.proxy.lost /\ (legacy \/ e.result = "ok")
  <2>1. SUFFICES ASSUME running = "loading" PROVE ~memory.proxy.lost /\ ~e.before.proxy.lost /\ (legacy \/ e.result = "ok")
    OBVIOUS
  <2>2. ~memory.proxy.lost /\ (legacy \/ edits[n].result = "ok") /\ ~edits[n].before.proxy.lost
    BY <2>1, OnlyEdit
  <2>3. edits[n].at # "cleaning" => edits[n].result = "none"
    BY <1>0, EditOfMany DEF LockFits, Unsaved, Places
  <2>4. QED  BY <2>2, <2>3 DEF Unsaved
<1>5. /\ document.id \in 1 .. ids \union {NoId} /\ ids \in Nat  BY <1>0 DEF PreferencesTyped
<1>6. document.id \in 1 .. ids' \union {NoId}  BY <1>5 DEF Unsaved
<1>7. running = "loading" \/ running = "on"  BY <1>0 DEF PreferencesTyped, Unsaved
<1>8. EditStep(n, e)
  BY <1>0, <1>1, <1>3, <1>4, <1>6, <1>7 DEF EditStep, Unsaved, PreferencesTyped, FileFits
<1>9. QED  BY <1>8, EditSteps

(***************************************************************************)
(* A step that saves an edit.                                              *)
(***************************************************************************)
Future(edit) == IF edit.id \in DOMAIN keyring THEN keyring[edit.id] ELSE NoSecret

\* An edit that holds the lock and would be saved well.
Saveable(n, edit) ==
  /\ running # "off" /\ writer \in {0, n} /\ edits[n].at \in {"waiting", "restoring", "staged"}
  /\ edits[n].at = "waiting" => n = Len(edits)
  /\ edits[n].at # "waiting" => edit.before.proxy = edits[n].before.proxy
  /\ edit.before.id = memory.id /\ edit.before.proxy = memory.proxy
  /\ edit.staged => edit.id # memory.id
  /\ edit.id = NoId \/ edit.id \in DOMAIN keyring
  /\ Future(edit) \in typed
  /\ IF edit.proxy.lost THEN edit.proxy.secret = NoSecret /\ memory.proxy.lost
     ELSE edit.proxy.secret = Future(edit)
  /\ IF n = Len(edits) THEN Future(edit) = wanted \/ Cleared
     ELSE Future(edit) = P!Saved \/ (edits[n].at = "staged" /\ Future(edit) = edits[n].proxy.secret)

LEMMA FinishesKeep ==
  ASSUME NamesAssumed, PreferencesInv, NEW n \in DOMAIN edits, NEW edit \in Edits, Saveable(n, edit), P!Finishes(n, edit),
         UNCHANGED <<keyring, ids, running, draft, typed, wanted, others, updates>>
  PROVE  PreferencesInv'
<1>0. PreferencesTyped /\ FileFits /\ LockFits /\ SecretsFit /\ WishesFit  BY DEF PreferencesInv
<1>1. /\ edit.proxy \in Proxies /\ edit.before.id \in EntryIds /\ edit.id \in EntryIds /\ edit.staged \in BOOLEAN
      /\ edit.proxy.custom \in BOOLEAN /\ memory \in Memories /\ memory.id \in EntryIds /\ memory.other \in Nat
      /\ edit.proxy.lost \in BOOLEAN /\ memory.proxy.lost \in BOOLEAN
  BY <1>0 DEF Edits, Memories, Proxies, PreferencesTyped
<1> DEFINE done(result) == [edit EXCEPT !.at = "done", !.result = result]
           cleans(id, result) == [edit EXCEPT !.at = "cleaning", !.id = id, !.result = result]
<1>2. \A result \in {"ok", "error"} :
        /\ done(result) \in Edits /\ done(result).at = "done" /\ done(result).result = result
        /\ done(result).proxy = edit.proxy /\ done(result).before = edit.before
  BY DEF Edits, Places
<1>3. \A result \in {"ok", "error"}, id \in EntryIds :
        /\ cleans(id, result) \in Edits /\ cleans(id, result).at = "cleaning"
        /\ cleans(id, result).result = result /\ cleans(id, result).id = id
        /\ cleans(id, result).proxy = edit.proxy /\ cleans(id, result).before = edit.before
  BY DEF Edits, Places
<1> HIDE DEF done, cleans
<1>4. ASSUME P!Persist(P!Saves(edit)), memory' = P!Saves(edit), legacy' = FALSE,
             IF edit.before.id \in {edit.id, NoId} THEN P!Ends(n, edit, "ok")
             ELSE edits' = [edits EXCEPT ![n] = cleans(edit.before.id, "ok")] /\ writer' = n
      PROVE  PreferencesInv'
  <2>1. PICK e \in Edits :
          /\ edits' = [edits EXCEPT ![n] = e] /\ writer' = (IF e.at \in Active THEN n ELSE 0)
          /\ e.at \in {"done", "cleaning"} /\ e.result = "ok"
          /\ e.proxy = edit.proxy /\ e.before = edit.before
          /\ e.at = "cleaning" => e.id # edit.id
    <3>1. CASE edit.before.id \in {edit.id, NoId}
      <4>1. edits' = [edits EXCEPT ![n] = done("ok")] /\ writer' = 0  BY <1>4, <3>1 DEF P!Ends, done
      <4>2. QED  BY <1>2, <4>1 DEF Active
    <3>2. CASE edit.before.id \notin {edit.id, NoId}
      <4>1. edits' = [edits EXCEPT ![n] = cleans(edit.before.id, "ok")] /\ writer' = n  BY <1>4, <3>2
      <4>2. /\ cleans(edit.before.id, "ok") \in Edits /\ cleans(edit.before.id, "ok").at = "cleaning"
            /\ cleans(edit.before.id, "ok").result = "ok" /\ cleans(edit.before.id, "ok").id # edit.id
            /\ cleans(edit.before.id, "ok").proxy = edit.proxy /\ cleans(edit.before.id, "ok").before = edit.before
        BY <1>1, <1>3, <3>2
      <4>3. QED  BY <4>1, <4>2 DEF Active
    <3>3. QED  BY <3>1, <3>2
  <2>2. /\ memory' \in Memories /\ memory'.proxy = edit.proxy /\ memory'.id = edit.id /\ memory'.other = memory.other
    BY <1>1, <1>4 DEF P!Saves, Memories
  <2>3. /\ document' \in [custom : BOOLEAN, id : EntryIds, other : Nat, plain : P!All]
        /\ document'.custom = edit.proxy.custom /\ document'.id = edit.id /\ document'.other = memory.other
        /\ document'.plain = NoSecret
    <3>1. document' = [custom |-> memory'.proxy.custom, id |-> memory'.id, other |-> memory'.other, plain |-> NoSecret]
      BY <1>4 DEF P!Persist, P!Document
    <3>2. NoSecret \in P!All  BY DEF P!All
    <3>3. QED  BY <1>1, <2>2, <3>1, <3>2
  <2>4. P!Saved' = Future(edit)  BY <2>3 DEF P!Saved, Future
  <2>5. P!SavedReferenceExists' /\ P!NoSecretIsLost'
    BY <2>3, <2>4 DEF P!SavedReferenceExists, P!NoSecretIsLost, Saveable
  <2>6. document'.id \in 1 .. ids \union {NoId}  BY <1>0, <2>3 DEF PreferencesTyped, Saveable
  <2>7. running = "loading" => ~memory'.proxy.lost /\ ~e.before.proxy.lost
    BY <1>1, <2>1, <2>2, OnlyEdit DEF Saveable
  <2>8. /\ Known(memory.proxy)'
        /\ memory'.proxy.lost => memory'.proxy.secret = NoSecret
        /\ ~memory'.proxy.lost => memory'.proxy.secret = P!Saved'
    BY <2>2, <2>4 DEF Saveable, Known
  <2>9. memory'.proxy.lost = memory.proxy.lost \/ e.before.proxy.lost
    BY <1>1, <2>1, <2>2 DEF Saveable
  <2>10. /\ P!Saved' = P!Saved \/ (edits[n].at = "staged" /\ P!Saved' = edits[n].proxy.secret)
              \/ (n = Len(edits) /\ (P!Saved' = wanted \/ Cleared))
         /\ n = Len(edits) => P!Saved' = wanted \/ Cleared
    BY <2>4 DEF Saveable
  <2>11. memory'.proxy.lost => e.before.proxy.lost
    BY <2>1, <2>2 DEF Saveable
  <2>12. keyring' = keyring /\ ids' = ids /\ document.other = memory.other  BY <1>0 DEF FileFits, Saveable
  <2>13. EditStep(n, e)
    BY <1>0, <1>4, <2>1, <2>2, <2>3, <2>5, <2>6, <2>7, <2>8, <2>9, <2>10, <2>11, <2>12
    DEF EditStep, Saveable, PreferencesTyped, Active
  <2>14. QED  BY <2>13, EditSteps
<1>5. ASSUME UNCHANGED <<document, memory, legacy>>,
             IF ~edit.staged THEN P!Ends(n, edit, "error")
             ELSE edits' = [edits EXCEPT ![n] = cleans(edit.id, "error")] /\ writer' = n
      PROVE  PreferencesInv'
  <2>1. PICK e \in Edits :
          /\ edits' = [edits EXCEPT ![n] = e] /\ writer' = (IF e.at \in Active THEN n ELSE 0)
          /\ e.at \in {"done", "cleaning"} /\ e.result = "error"
          /\ e.proxy = edit.proxy /\ e.before = edit.before
          /\ e.at = "cleaning" => e.id # memory.id
    <3>1. CASE ~edit.staged
      <4>1. edits' = [edits EXCEPT ![n] = done("error")] /\ writer' = 0  BY <1>5, <3>1 DEF P!Ends, done
      <4>2. QED  BY <1>2, <4>1 DEF Active
    <3>2. CASE edit.staged
      <4>1. edits' = [edits EXCEPT ![n] = cleans(edit.id, "error")] /\ writer' = n  BY <1>5, <3>2
      <4>2. /\ cleans(edit.id, "error") \in Edits /\ cleans(edit.id, "error").at = "cleaning"
            /\ cleans(edit.id, "error").result = "error" /\ cleans(edit.id, "error").id # memory.id
            /\ cleans(edit.id, "error").proxy = edit.proxy /\ cleans(edit.id, "error").before = edit.before
        BY <1>1, <1>3, <3>2 DEF Saveable
      <4>3. QED  BY <4>1, <4>2 DEF Active
    <3>3. QED  BY <3>1, <3>2
  <2>2. Unsaved(n, e)
    BY <1>0, <1>5, <2>1 DEF Unsaved, Saveable, PreferencesTyped, Active
  <2>3. QED  BY <2>2, UnsavedKeeps
<1>6. P!Unused(edit) = edit.id  BY DEF P!Unused
<1>7. QED  BY <1>4, <1>5, <1>6 DEF P!Finishes, cleans

(***************************************************************************)
(* A step that looks where the credentials of an edit belong.              *)
(***************************************************************************)
Stageable(n, edit, changed) ==
  /\ running # "off" /\ writer \in {0, n} /\ edits[n].at \in {"waiting", "restoring"}
  /\ edits[n].at = "waiting" => n = Len(edits)
  /\ edits[n].at # "waiting" => edit.before.proxy = edits[n].before.proxy
  /\ edit.before.id = memory.id /\ edit.before.proxy = memory.proxy /\ ~edit.staged /\ edit.result = "none"
  /\ ~changed =>
       /\ ~legacy
       /\ IF edit.proxy.lost THEN edit.proxy.secret = NoSecret /\ memory.proxy.lost
          ELSE edit.proxy.secret = P!Saved
       /\ n = Len(edits) => P!Saved = wanted \/ Cleared
  /\ changed =>
       /\ n = Len(edits) /\ (edit.proxy.secret = wanted \/ Cleared)
       /\ edit.proxy.secret \in typed /\ ~edit.proxy.lost
       /\ ~legacy => edit.proxy.secret # memory.proxy.secret

LEMMA StagesKeep ==
  ASSUME NamesAssumed, PreferencesInv, NEW n \in DOMAIN edits, NEW edit \in Edits, NEW changed \in BOOLEAN,
         Stageable(n, edit, changed), P!Stages(n, edit, changed),
         UNCHANGED <<keyring, running, draft, typed, wanted, others, updates>>
  PROVE  PreferencesInv'
<1>0. PreferencesTyped /\ FileFits /\ LockFits /\ SecretsFit /\ WishesFit  BY DEF PreferencesInv
<1>1. /\ edit.proxy \in Proxies /\ edit.before.id \in EntryIds /\ edit.id \in EntryIds /\ edit.staged \in BOOLEAN
      /\ edit.proxy.custom \in BOOLEAN /\ edit.proxy.secret \in P!All
  BY DEF Edits, Memories, Proxies
<1>2. /\ document.id = memory.id /\ (document.id = NoId \/ document.id \in DOMAIN keyring) /\ ids \in Nat
      /\ (~legacy => document.plain = NoSecret) /\ P!Saved \in typed /\ NoId \notin DOMAIN keyring
      /\ memory.id # ids + 1 /\ document.custom = memory.proxy.custom
  <2>1. document.id = memory.id /\ document.custom = memory.proxy.custom
    BY <1>0 DEF FileFits, Stageable
  <2>2. NoId \notin DOMAIN keyring /\ ids \in Nat  BY <1>0 DEF NamesAssumed, PreferencesTyped
  <2>3. memory.id # ids + 1  BY <1>0, <2>1, <2>2 DEF PreferencesTyped, NamesAssumed
  <2>4. QED  BY <1>0, <2>1, <2>2, <2>3 DEF FileFits, P!SavedReferenceExists, P!NoSecretIsLost, Stageable
<1>3. CASE edit.proxy = edit.before.proxy /\ ~legacy
  <2>1. ~changed  BY <1>3 DEF Stageable
  <2>2. P!Ends(n, edit, "ok") /\ UNCHANGED <<document, memory, legacy, ids>>  BY <1>3 DEF P!Stages
  <2>3. PICK e \in Edits :
          /\ edits' = [edits EXCEPT ![n] = e] /\ writer' = 0
          /\ e.at = "done" /\ e.result = "ok" /\ e.proxy = edit.proxy /\ e.before = edit.before
    <3>1. [edit EXCEPT !.at = "done", !.result = "ok"] \in Edits  BY DEF Edits, Places
    <3>2. QED  BY <2>2, <3>1 DEF P!Ends, Edits
  <2>4. Unsaved(n, e)
    BY <1>0, <1>2, <1>3, <2>1, <2>2, <2>3 DEF Unsaved, Stageable, PreferencesTyped, Active
  <2>5. QED  BY <2>4, UnsavedKeeps
<1>4. CASE ~(edit.proxy = edit.before.proxy /\ ~legacy) /\ ~changed
  <2>1. PICK e \in Edits : e = [edit EXCEPT !.id = edit.before.id]
    <3>1. [edit EXCEPT !.id = edit.before.id] \in Edits  BY <1>1 DEF Edits
    <3>2. QED  BY <3>1
  <2>2. P!Finishes(n, e) /\ ids' = ids  BY <1>4, <2>1 DEF P!Stages
  <2>3. e.id = edit.before.id /\ e.proxy = edit.proxy /\ e.before = edit.before /\ e.staged = edit.staged
    BY <2>1 DEF Edits
  <2>4. Future(e) = P!Saved
    BY <1>2, <1>4, <2>3 DEF Future, P!Saved, Stageable
  <2>5. Saveable(n, e)
    BY <1>2, <1>4, <2>3, <2>4 DEF Saveable, Stageable
  <2>6. QED  BY <2>2, <2>5, FinishesKeep
<1>5. CASE changed /\ edit.proxy.secret = NoSecret
  <2>1. PICK e \in Edits : e = [edit EXCEPT !.id = NoId]
    <3>1. [edit EXCEPT !.id = NoId] \in Edits  BY DEF Edits, EntryIds
    <3>2. QED  BY <3>1
  <2>2. ~(edit.proxy = edit.before.proxy /\ ~legacy)  BY <1>5 DEF Stageable
  <2>3. P!Finishes(n, e) /\ ids' = ids  BY <1>5, <2>1, <2>2 DEF P!Stages
  <2>4. e.id = NoId /\ e.proxy = edit.proxy /\ e.before = edit.before /\ e.staged = edit.staged
    BY <2>1 DEF Edits
  <2>5. Future(e) = NoSecret  BY <1>2, <2>4 DEF Future
  <2>6. Saveable(n, e)
    BY <1>5, <2>4, <2>5 DEF Saveable, Stageable
  <2>7. QED  BY <2>3, <2>6, FinishesKeep
<1>6. CASE changed /\ edit.proxy.secret # NoSecret
  <2>1. ~(edit.proxy = edit.before.proxy /\ ~legacy)  BY <1>6 DEF Stageable
  <2>2. /\ P!Waits(n, [edit EXCEPT !.id = ids + 1, !.staged = TRUE], "staging")
        /\ ids' = ids + 1 /\ UNCHANGED <<document, memory, legacy>>
    BY <1>6, <2>1 DEF P!Stages
  <2>3. PICK e \in Edits :
          /\ edits' = [edits EXCEPT ![n] = e] /\ writer' = n
          /\ e.at = "staging" /\ e.result = "none" /\ e.proxy = edit.proxy /\ e.before = edit.before
          /\ e.id = ids + 1 /\ e.staged
    <3>1. ids + 1 \in EntryIds  BY <1>2 DEF EntryIds
    <3> DEFINE e1 == [edit EXCEPT !.id = ids + 1, !.staged = TRUE]
    <3>2. /\ e1 \in Edits /\ e1.result = edit.result /\ e1.proxy = edit.proxy /\ e1.before = edit.before
          /\ e1.id = ids + 1 /\ e1.staged = TRUE
      BY <3>1 DEF Edits
    <3> DEFINE e0 == [e1 EXCEPT !.at = "staging"]
    <3>3. edits' = [edits EXCEPT ![n] = e0] /\ writer' = n  BY <2>2 DEF P!Waits
    <3> HIDE DEF e1
    <3>4. /\ e0 \in Edits /\ e0.at = "staging" /\ e0.result = e1.result /\ e0.proxy = e1.proxy
          /\ e0.before = e1.before /\ e0.id = e1.id /\ e0.staged = e1.staged
      BY <3>2 DEF Edits, Places
    <3> HIDE DEF e0
    <3>5. QED  BY <3>2, <3>3, <3>4 DEF Stageable
  <2>4. edit.proxy.secret \in Secrets  BY <1>1, <1>6 DEF P!All
  <2>5. EditFits(e)'
    <3>1. e.id \in 1 .. ids'  BY <1>2, <2>2, <2>3
    <3>2. QED  BY <1>2, <1>6, <2>2, <2>3, <2>4, <3>1 DEF EditFits, Stageable
  <2>6. ids' \in Nat /\ ids' >= ids /\ DOMAIN keyring \subseteq 1 .. ids'  BY <1>0, <1>2, <2>2 DEF PreferencesTyped
  <2>7. Unsaved(n, e)
    BY <1>0, <1>6, <2>2, <2>3, <2>5, <2>6 DEF Unsaved, Stageable, PreferencesTyped, Active
  <2>8. QED  BY <2>7, UnsavedKeeps
<1>7. QED  BY <1>3, <1>4, <1>5, <1>6

-----------------------------------------------------------------------------
(***************************************************************************)
(* The steps of an edit.                                                   *)
(***************************************************************************)
LEMMA EndsFit ==
  ASSUME NEW n, NEW edit \in Edits, NEW result \in {"ok", "error"}, P!Ends(n, edit, result)
  PROVE  \E e \in Edits :
           /\ edits' = [edits EXCEPT ![n] = e] /\ writer' = 0
           /\ e.at = "done" /\ e.result = result /\ e.proxy = edit.proxy /\ e.before = edit.before
<1> DEFINE e0 == [edit EXCEPT !.at = "done", !.result = result]
<1>1. edits' = [edits EXCEPT ![n] = e0] /\ writer' = 0  BY DEF P!Ends
<1>2. e0 \in Edits /\ e0.at = "done" /\ e0.result = result /\ e0.proxy = edit.proxy /\ e0.before = edit.before
  BY DEF Edits, Places
<1> HIDE DEF e0
<1>3. QED  BY <1>1, <1>2

LEMMA WaitsFit ==
  ASSUME NEW n, NEW edit \in Edits, NEW at \in Places, P!Waits(n, edit, at)
  PROVE  \E e \in Edits :
           /\ edits' = [edits EXCEPT ![n] = e] /\ writer' = n
           /\ e.at = at /\ e.result = edit.result /\ e.proxy = edit.proxy /\ e.before = edit.before
           /\ e.id = edit.id /\ e.staged = edit.staged
<1> DEFINE e0 == [edit EXCEPT !.at = at]
<1>1. edits' = [edits EXCEPT ![n] = e0] /\ writer' = n  BY DEF P!Waits
<1>2. /\ e0 \in Edits /\ e0.at = at /\ e0.result = edit.result /\ e0.proxy = edit.proxy /\ e0.before = edit.before
      /\ e0.id = edit.id /\ e0.staged = edit.staged
  BY DEF Edits
<1> HIDE DEF e0
<1>3. QED  BY <1>1, <1>2

LEMMA EndsKeep ==
  ASSUME PreferencesInv, NEW n \in DOMAIN edits, NEW edit \in Edits, NEW result \in {"ok", "error"}, P!Ends(n, edit, result),
         running # "off", writer \in {0, n}, edits[n].at \notin {"done", "told"},
         IF edits[n].at = "waiting" THEN edit.before.proxy \in {memory.proxy, edits[n].before.proxy}
         ELSE edit.before.proxy = edits[n].before.proxy,
         edits[n].at # "cleaning", n = Len(edits) => result = "error",
         UNCHANGED <<document, memory, legacy, keyring, ids, running, draft, typed, wanted, others, updates>>
  PROVE  PreferencesInv'
<1>0. PreferencesTyped  BY DEF PreferencesInv
<1>1. PICK e \in Edits :
        /\ edits' = [edits EXCEPT ![n] = e] /\ writer' = 0
        /\ e.at = "done" /\ e.result = result /\ e.proxy = edit.proxy /\ e.before = edit.before
  BY EndsFit
<1>2. Unsaved(n, e)  BY <1>0, <1>1 DEF Unsaved, PreferencesTyped, Active
<1>3. QED  BY <1>2, UnsavedKeeps

LEMMA RestoresKeep ==
  ASSUME NamesAssumed, PreferencesInv, NEW n \in DOMAIN edits, P!Restores(n)
  PROVE  PreferencesInv'
<1>0. PreferencesTyped /\ FileFits /\ LockFits /\ SecretsFit /\ WishesFit  BY DEF PreferencesInv
<1>1. /\ edits[n].at = "restoring" /\ UNCHANGED <<keyring, running, draft, typed, wanted, others, updates>>
  BY DEF P!Restores, P!ghosts
<1>2. /\ edits[n] \in Edits /\ edits[n].proxy \in Proxies /\ writer = n /\ running # "off"
      /\ EditFits(edits[n]) /\ edits[n].result = "none" /\ edits # <<>>
  BY <1>0, <1>1, EditOfMany DEF LockFits, Active
<1>3. /\ edits[n].before.id = memory.id /\ edits[n].before.proxy = memory.proxy /\ ~legacy /\ ~edits[n].staged
  BY <1>1, <1>2 DEF EditFits
<1>4. CASE edits[n].before.id \in DOMAIN keyring
           /\ P!Stages(n, [edits[n] EXCEPT !.proxy.secret = keyring[edits[n].before.id], !.proxy.lost = FALSE], FALSE)
  <2> DEFINE e == [edits[n] EXCEPT !.proxy.secret = keyring[edits[n].before.id], !.proxy.lost = FALSE]
             secret == keyring[edits[n].before.id]
  <2>1. P!Saved = secret
    BY <1>0, <1>2, <1>3, <1>4 DEF FileFits, P!Saved
  <2>2. secret \in P!All  BY <1>0, <1>4 DEF PreferencesTyped, P!All
  <2> HIDE DEF secret
  <2>3. /\ e \in Edits /\ e.before = edits[n].before /\ e.staged = edits[n].staged /\ e.result = edits[n].result
        /\ ~e.proxy.lost /\ e.proxy.secret = secret
    BY <1>2, <2>2 DEF Edits, Proxies, secret
  <2> HIDE DEF e
  <2>4. n = Len(edits) => P!Saved = wanted \/ Cleared  BY <1>0, <1>1, <1>2 DEF WishesFit
  <2>5. Stageable(n, e, FALSE)
    BY <1>1, <1>2, <1>3, <2>1, <2>3, <2>4 DEF Stageable
  <2>6. P!Stages(n, e, FALSE)  BY <1>4 DEF e
  <2>7. QED  BY <1>1, <2>3, <2>5, <2>6, StagesKeep
<1>5. CASE P!Ends(n, edits[n], "error") /\ UNCHANGED <<document, memory, legacy, ids>>
  BY <1>1, <1>2, <1>5, EndsKeep
<1>6. QED  BY <1>4, <1>5 DEF P!Restores

LEMMA WritesEntryKeeps ==
  ASSUME NamesAssumed, PreferencesInv, NEW n \in DOMAIN edits, P!WritesEntry(n)
  PROVE  PreferencesInv'
<1>0. PreferencesTyped /\ FileFits /\ LockFits /\ SecretsFit /\ WishesFit  BY DEF PreferencesInv
<1>1. /\ edits[n].at = "staging" /\ UNCHANGED <<document, ids, running, memory, legacy, draft, typed, wanted, others, updates>>
  BY DEF P!WritesEntry, P!ghosts
<1>2. /\ edits[n] \in Edits /\ writer = n /\ running # "off"
      /\ EditFits(edits[n]) /\ edits[n].result = "none" /\ edits # <<>>
  BY <1>0, <1>1, EditOfMany DEF LockFits, Active
<1>3. /\ edits[n].before.id = memory.id /\ edits[n].before.proxy = memory.proxy /\ edits[n].staged
      /\ edits[n].id \in 1 .. ids /\ edits[n].id # memory.id /\ edits[n].proxy.secret \in Secrets
      /\ edits[n].proxy.secret \in typed /\ ~edits[n].proxy.lost
  BY <1>1, <1>2 DEF EditFits
<1>4. CASE keyring' = P!With(edits[n].id, edits[n].proxy.secret) /\ P!Waits(n, edits[n], "staged")
  <2>1. PICK e \in Edits :
           /\ edits' = [edits EXCEPT ![n] = e] /\ writer' = n
           /\ e.at = "staged" /\ e.result = "none" /\ e.proxy = edits[n].proxy /\ e.before = edits[n].before
           /\ e.id = edits[n].id /\ e.staged = edits[n].staged
    BY <1>2, <1>4, WaitsFit DEF Places
  <2>2. /\ keyring' = [i \in DOMAIN keyring' |-> keyring'[i]]
        /\ DOMAIN keyring' = DOMAIN keyring \union {e.id} /\ keyring'[e.id] = e.proxy.secret
        /\ \A i \in DOMAIN keyring : i # e.id => keyring'[i] = keyring[i]
    BY <1>4, <2>1 DEF P!With
  <2>3. EditFits(e)'  BY <1>1, <1>3, <2>1, <2>2 DEF EditFits
  <2>4. document.id = memory.id  BY <1>0, <1>2 DEF FileFits
  <2>5. DOMAIN keyring' \subseteq 1 .. ids' /\ \A i \in DOMAIN keyring' : keyring'[i] \in Secrets
    BY <1>0, <1>1, <1>3, <2>1, <2>2 DEF PreferencesTyped
  <2>6. Unsaved(n, e)
    BY <1>0, <1>1, <1>2, <1>3, <2>1, <2>2, <2>3, <2>4, <2>5 DEF Unsaved, PreferencesTyped, Active
  <2>7. QED  BY <2>6, UnsavedKeeps
<1>5. CASE P!Ends(n, edits[n], "error") /\ UNCHANGED keyring
  BY <1>1, <1>2, <1>5, EndsKeep
<1>6. QED  BY <1>4, <1>5 DEF P!WritesEntry

LEMMA ReplacesKeep ==
  ASSUME NamesAssumed, PreferencesInv, NEW n \in DOMAIN edits, P!Replaces(n)
  PROVE  PreferencesInv'
<1>0. PreferencesTyped /\ FileFits /\ LockFits /\ SecretsFit /\ WishesFit  BY DEF PreferencesInv
<1>1. /\ edits[n].at = "staged" /\ UNCHANGED <<keyring, ids, running, draft, typed, wanted, others, updates>>
  BY DEF P!Replaces, P!ghosts
<1>2. /\ edits[n] \in Edits /\ writer = n /\ running # "off"
      /\ EditFits(edits[n]) /\ edits[n].result = "none" /\ edits # <<>>
  BY <1>0, <1>1, EditOfMany DEF LockFits, Active
<1>3. n = Len(edits) => edits[n].proxy.secret = wanted \/ Cleared
  BY <1>0, <1>1, <1>2 DEF WishesFit
<1>4. Future(edits[n]) = edits[n].proxy.secret  BY <1>1, <1>2 DEF EditFits, Future
<1>5. Saveable(n, edits[n])
  BY <1>1, <1>2, <1>3, <1>4 DEF EditFits, Saveable
<1>6. QED  BY <1>1, <1>2, <1>5, FinishesKeep DEF P!Replaces

LEMMA DeletesEntryKeeps ==
  ASSUME NamesAssumed, PreferencesInv, NEW n \in DOMAIN edits, P!DeletesEntry(n)
  PROVE  PreferencesInv'
<1>0. PreferencesTyped /\ FileFits /\ LockFits /\ SecretsFit /\ WishesFit  BY DEF PreferencesInv
<1>1. /\ edits[n].at = "cleaning" /\ UNCHANGED <<document, ids, running, memory, legacy, draft, typed, wanted, others, updates>>
      /\ P!Ends(n, edits[n], edits[n].result) /\ (keyring' = P!Without(edits[n].id) \/ keyring' = keyring)
  BY DEF P!DeletesEntry, P!ghosts
<1>2. /\ edits[n] \in Edits /\ writer = n /\ running # "off" /\ edits[n].id # memory.id /\ edits # <<>>
      /\ edits[n].result \in {"ok", "error"}
  <2>1. edits[n] \in Edits /\ edits # <<>>  BY EditOfMany
  <2>2. QED  BY <1>0, <1>1, <2>1 DEF LockFits, Active, Edits
<1>3. PICK e \in Edits :
        /\ edits' = [edits EXCEPT ![n] = e] /\ writer' = 0
        /\ e.at = "done" /\ e.result = edits[n].result /\ e.proxy = edits[n].proxy /\ e.before = edits[n].before
  BY <1>1, <1>2, EndsFit
<1>4. document.id = memory.id  BY <1>0, <1>2 DEF FileFits
<1>5. /\ keyring' = [i \in DOMAIN keyring' |-> keyring'[i]]
      /\ \A i \in DOMAIN keyring' : i \in DOMAIN keyring /\ keyring'[i] = keyring[i]
      /\ \A i \in DOMAIN keyring : i # edits[n].id => i \in DOMAIN keyring'
  BY <1>0, <1>1 DEF PreferencesTyped, P!Without
<1>6. n = Len(edits) /\ e.result = "ok" =>
        /\ P!Saved = wanted \/ Cleared
        /\ document.custom = e.proxy.custom
        /\ memory.proxy.lost => e.before.proxy.lost
  BY <1>0, <1>2, <1>3 DEF WishesFit
<1>7. Unsaved(n, e)
  BY <1>0, <1>1, <1>2, <1>3, <1>4, <1>5, <1>6 DEF Unsaved, PreferencesTyped, Active
<1>8. QED  BY <1>7, UnsavedKeeps

LEMMA StartKeeps ==
  ASSUME NamesAssumed, PreferencesInv, NEW n \in DOMAIN edits, P!Start(n)
  PROVE  PreferencesInv'
<1>0. PreferencesTyped /\ FileFits /\ LockFits /\ SecretsFit /\ WishesFit  BY DEF PreferencesInv
<1> DEFINE old     == memory.proxy
           edit    == [edits[n] EXCEPT !.before = memory]
           changed == edit.proxy.secret # old.secret
           Now(proxy) == [edit EXCEPT !.proxy = proxy]
<1>1. /\ edits[n].at = "waiting" /\ writer = 0 /\ running # "off"
      /\ UNCHANGED <<keyring, running, draft, typed, wanted, others, updates>>
  BY DEF P!Start, P!ghosts
<1>2. /\ edits[n] \in Edits /\ edits[n].proxy \in Proxies /\ edits # <<>> /\ memory \in Memories
      /\ edits[n].result = "none" /\ ~edits[n].staged /\ memory.proxy \in Proxies
      /\ edits[n].proxy.secret \in P!All /\ edits[n].proxy.custom \in BOOLEAN /\ edits[n].proxy.lost \in BOOLEAN
      /\ legacy \in BOOLEAN /\ memory.proxy.lost \in BOOLEAN
  <2>1. edits[n] \in Edits /\ edits[n].proxy \in Proxies /\ edits # <<>>  BY EditOfMany
  <2>2. memory \in Memories /\ memory.proxy \in Proxies  BY <1>0 DEF PreferencesTyped, Memories
  <2>3. QED  BY <1>0, <1>1, <2>1, <2>2 DEF LockFits, Proxies, PreferencesTyped
<1>3. CredentialsRead /\ (legacy \/ ~old.lost => old.secret = P!Saved) /\ (~legacy /\ old.lost => old.secret = NoSecret)
  <2>1. CredentialsRead  BY <1>0, <1>1, <1>2 DEF CredentialsRead, PreferencesTyped
  <2>2. QED  BY <1>0, <1>1, <2>1 DEF SecretsFit
<1>4. /\ edit \in Edits /\ edit.proxy = edits[n].proxy /\ edit.before = memory /\ edit.staged = edits[n].staged
      /\ edit.result = "none" /\ edit.id = edits[n].id
  BY <1>2 DEF Edits
<1>5. changed \in BOOLEAN  OBVIOUS
<1>6. Known(edits[n].proxy) /\ (legacy => edits[n].proxy.secret \in typed)
  BY <1>0, <1>1 DEF SecretsFit
<1>7. ASSUME NEW proxy \in Proxies
      PROVE  /\ Now(proxy) \in Edits /\ Now(proxy).proxy = proxy /\ Now(proxy).before = memory
             /\ Now(proxy).staged = edits[n].staged /\ Now(proxy).result = "none"
  <2> HIDE DEF edit
  <2>1. QED  BY <1>4 DEF Edits
<1>8. CASE n # Len(edits)
  <2>1. P!Ends(n, edits[n], "ok") /\ UNCHANGED <<document, memory, legacy, ids>>  BY <1>8 DEF P!Start, P!IsNewest
  <2>2. QED  BY <1>1, <1>2, <1>8, <2>1, EndsKeep
<1>9. CASE n = Len(edits)
  <2>0. Reaches(edits[n].proxy)  BY <1>0, <1>1, <1>2, <1>9 DEF WishesFit
  <2>1. CASE edit.proxy.lost /\ ~old.lost /\ ~legacy
    <3> DEFINE proxy == [edit.proxy EXCEPT !.secret = old.secret, !.lost = FALSE]
    <3>1. P!Stages(n, Now(proxy), FALSE)  BY <1>9, <2>1 DEF P!Start, P!IsNewest
    <3>2. proxy \in Proxies /\ proxy.secret = old.secret /\ ~proxy.lost
      BY <1>2, <1>4 DEF Proxies
    <3>3. P!Saved = wanted \/ Cleared  BY <1>4, <2>0, <2>1 DEF Reaches
    <3> HIDE DEF proxy, Now, edit
    <3>4. Stageable(n, Now(proxy), FALSE)
      BY <1>1, <1>2, <1>3, <1>7, <1>9, <2>1, <3>2, <3>3 DEF Stageable
    <3>5. Now(proxy) \in Edits  BY <1>7, <3>2
    <3>6. QED  BY <1>1, <3>1, <3>4, <3>5, StagesKeep
  <2>2. CASE old.lost /\ ~changed /\ ~legacy
    <3>1. ~(edit.proxy.lost /\ ~old.lost /\ ~legacy)  BY <2>2
    <3>2. P!Saved = wanted \/ Cleared
      BY <1>3, <1>4, <2>0, <2>2 DEF Reaches, Cleared
    <3>3. CASE edit.proxy.custom /\ memory.id # NoId
      <4>1. P!Waits(n, edit, "restoring") /\ UNCHANGED <<document, memory, legacy, ids, failures>>
        BY <1>9, <2>2, <3>1, <3>3 DEF P!Start, P!IsNewest
      <4> HIDE DEF edit
      <4>2. PICK e \in Edits :
              /\ edits' = [edits EXCEPT ![n] = e] /\ writer' = n
              /\ e.at = "restoring" /\ e.result = "none" /\ e.proxy = edit.proxy /\ e.before = memory
              /\ e.staged = edits[n].staged
        BY <1>4, <4>1, WaitsFit DEF Places
      <4>3. EditFits(e)'  BY <1>1, <1>2, <2>2, <3>3, <4>1, <4>2 DEF EditFits
      <4>4. Unsaved(n, e)
        BY <1>0, <1>1, <1>9, <3>2, <4>1, <4>2, <4>3 DEF Unsaved, PreferencesTyped, Active
      <4>5. QED  BY <4>4, UnsavedKeeps
    <3>4. CASE ~(edit.proxy.custom /\ memory.id # NoId)
      <4> DEFINE proxy == [edit.proxy EXCEPT !.lost = ~edit.proxy.custom]
      <4>1. P!Stages(n, Now(proxy), FALSE)  BY <1>9, <2>2, <3>1, <3>4 DEF P!Start, P!IsNewest
      <4>2. proxy \in Proxies /\ proxy.secret = old.secret /\ (proxy.lost <=> ~edit.proxy.custom)
        BY <1>2, <1>4, <2>2 DEF Proxies
      <4>3. old.secret = NoSecret  BY <1>3, <2>2
      <4>4. memory.id = NoId => P!Saved = NoSecret
        <5>1. document.id = memory.id /\ document.plain = NoSecret  BY <1>0, <1>1, <2>2 DEF FileFits
        <5>2. NoId \notin DOMAIN keyring  BY <1>0 DEF PreferencesTyped, NamesAssumed
        <5>3. QED  BY <5>1, <5>2 DEF P!Saved
      <4> HIDE DEF proxy, Now
      <4>5. IF proxy.lost THEN proxy.secret = NoSecret /\ memory.proxy.lost ELSE proxy.secret = P!Saved
        BY <2>2, <3>4, <4>2, <4>3, <4>4
      <4> HIDE DEF edit
      <4>6. Stageable(n, Now(proxy), FALSE)
        BY <1>1, <1>2, <1>7, <1>9, <2>2, <3>2, <4>2, <4>5 DEF Stageable
      <4>7. Now(proxy) \in Edits  BY <1>7, <4>2
      <4>8. QED  BY <1>1, <4>1, <4>6, <4>7, StagesKeep
    <3>5. QED  BY <3>3, <3>4
  <2>3. CASE ~(edit.proxy.lost /\ ~old.lost /\ ~legacy) /\ ~(old.lost /\ ~changed /\ ~legacy)
    <3> DEFINE proxy == [edit.proxy EXCEPT !.lost = FALSE]
    <3>1. P!Stages(n, Now(proxy), changed \/ legacy)  BY <1>9, <2>3 DEF P!Start, P!IsNewest
    <3>2. proxy \in Proxies /\ proxy.secret = edits[n].proxy.secret /\ ~proxy.lost
      BY <1>2, <1>4 DEF Proxies
    <3>3. edits[n].proxy.secret \in typed /\ (edits[n].proxy.secret = wanted \/ Cleared)
      <4>1. CASE legacy  BY <1>6, <2>0, <4>1 DEF Reaches
      <4>2. CASE ~legacy /\ edits[n].proxy.lost /\ edits[n].proxy.secret = NoSecret
        <5>1. old.lost  BY <1>4, <2>3, <4>2
        <5>2. ~changed  BY <1>3, <1>4, <4>2, <5>1
        <5>3. QED  BY <2>3, <4>2, <5>1, <5>2
      <4>3. CASE ~legacy /\ ~(edits[n].proxy.lost /\ edits[n].proxy.secret = NoSecret)
        BY <1>6, <2>0, <4>3 DEF Known, Reaches
      <4>4. QED  BY <4>1, <4>2, <4>3
    <3>4. ~(changed \/ legacy) => ~old.lost /\ old.secret = P!Saved /\ edits[n].proxy.secret = old.secret
      BY <1>3, <1>4, <2>3
    <3>5. ~legacy /\ (changed \/ legacy) => edits[n].proxy.secret # memory.proxy.secret
      BY <1>4
    <3> HIDE DEF proxy, Now, edit
    <3>6. Stageable(n, Now(proxy), changed \/ legacy)
      <4>1. CASE changed \/ legacy
        BY <1>1, <1>2, <1>7, <1>9, <3>2, <3>3, <3>5, <4>1 DEF Stageable
      <4>2. CASE ~(changed \/ legacy)
        BY <1>1, <1>2, <1>7, <1>9, <3>2, <3>3, <3>4, <4>2 DEF Stageable
      <4>3. QED  BY <4>1, <4>2
    <3>7. Now(proxy) \in Edits  BY <1>7, <3>2
    <3>8. (changed \/ legacy) \in BOOLEAN  BY <1>2
    <3>9. QED  BY <1>1, <3>1, <3>6, <3>7, <3>8, StagesKeep
  <2>4. QED  BY <2>1, <2>2, <2>3
<1>10. QED  BY <1>8, <1>9

LEMMA ToldKeeps ==
  ASSUME NamesAssumed, PreferencesInv, NEW n \in DOMAIN edits, P!Told(n)
  PROVE  PreferencesInv'
<1>0. PreferencesTyped /\ FileFits /\ LockFits /\ SecretsFit /\ WishesFit  BY DEF PreferencesInv
<1> DEFINE e == [edits[n] EXCEPT !.at = "told"]
<1>1. /\ n = Len(edits) /\ edits[n].at = "done" /\ edits' = [edits EXCEPT ![n] = e] /\ running = "on"
      /\ draft' = draft \/ (draft' = memory.proxy /\ edits[n].result = "ok")
      /\ UNCHANGED <<document, keyring, ids, running, memory, legacy, writer, typed, wanted, others, updates>>
  <2>1. edits' = [edits EXCEPT ![n].at = "told"]  BY DEF P!Told
  <2>2. edits' = [edits EXCEPT ![n] = e]  BY <2>1
  <2>3. QED  BY <2>2 DEF P!Told, P!ghosts, P!counts
<1>2. /\ edits[n] \in Edits /\ edits # <<>>  BY EditOfMany
<1>3. e \in Edits /\ e.at = "told" /\ e.before = edits[n].before /\ e.result = edits[n].result /\ e.proxy = edits[n].proxy
  BY <1>2 DEF Edits, Places
<1> HIDE DEF e
<1>4. /\ edits' \in Seq(Edits) /\ Len(edits') = Len(edits) /\ DOMAIN edits' = DOMAIN edits
      /\ edits'[n] = e /\ n # 0 /\ \A m \in DOMAIN edits : m # n => edits'[m] = edits[m]
      /\ DOMAIN edits = 1 .. Len(edits) /\ Len(edits) \in Nat /\ edits' # <<>>
  BY <1>0, <1>1, <1>3, EditMoves DEF PreferencesTyped
<1>5. P!Saved' = P!Saved /\ (Cleared => Cleared')
  <2>1. P!Saved' = P!Saved  BY <1>1 DEF P!Saved
  <2>2. \A m \in DOMAIN edits : edits[m].at # "waiting" =>
          edits'[m].at # "waiting" /\ edits'[m].before.proxy = edits[m].before.proxy
    BY <1>3, <1>4
  <2>3. QED  BY <1>1, <1>4, <2>1, <2>2 DEF Cleared
<1>6. writer = 0
  <2>1. writer \in {0, n}  BY <1>0, <1>1, <1>2 DEF WishesFit
  <2>2. QED  BY <1>0, <1>1, <2>1 DEF LockFits, Active
<1>7. draft' \in Proxies /\ Known(draft)' /\ (legacy => draft'.secret \in typed)
  <2>1. memory.proxy \in Proxies  BY <1>0 DEF PreferencesTyped, Memories
  <2>2. Known(memory.proxy) /\ Known(draft) /\ (legacy => draft.secret \in typed)
    BY <1>0, <1>1 DEF SecretsFit, CredentialsRead
  <2>3. legacy => memory.proxy.secret \in typed
    BY <1>0, <1>1 DEF SecretsFit, CredentialsRead, FileFits, P!NoSecretIsLost
  <2>4. QED  BY <1>0, <1>1, <2>1, <2>2, <2>3 DEF PreferencesTyped, Known
<1>8. PreferencesTyped'
  BY <1>0, <1>1, <1>4, <1>7 DEF PreferencesTyped
<1>9. FileFits'
  BY <1>0, <1>1, <1>5 DEF FileFits, P!SavedReferenceExists, P!NoSecretIsLost, P!OtherSettingsStay
<1>10. LockFits'
  <2>1. \A m \in DOMAIN edits' : edits'[m].at \notin Active
    BY <1>0, <1>3, <1>4, <1>6 DEF LockFits, Active
  <2>2. ASSUME NEW m \in DOMAIN edits'
        PROVE  /\ edits'[m].at = "waiting" => ~edits'[m].staged
               /\ edits'[m].at \notin {"cleaning", "done", "told"} => edits'[m].result = "none"
    BY <1>0, <1>3, <1>4 DEF LockFits
  <2>3. QED  BY <1>1, <1>4, <1>6, <2>1, <2>2 DEF LockFits, Active
<1>11. SecretsFit'
  <2>1. \A m \in DOMAIN edits' : edits'[m].at = "waiting" => edits'[m] = edits[m] /\ m \in DOMAIN edits
    BY <1>3, <1>4
  <2>2. \A m \in DOMAIN edits' : edits'[m].at = "waiting" =>
          Known(edits[m].proxy)' /\ (legacy' => edits'[m].proxy.secret \in typed')
    BY <1>0, <1>1, <2>1 DEF SecretsFit, Known
  <2>3. QED  BY <1>0, <1>1, <1>5, <1>7, <2>2 DEF SecretsFit, CredentialsRead, Known
<1>12. Reaches(draft)'
  <2>1. CASE draft' = draft
    BY <1>0, <1>1, <1>5, <1>6, <2>1 DEF WishesFit, Reaches
  <2>2. CASE draft' = memory.proxy /\ edits[n].result = "ok"
    <3>1. P!Saved = wanted \/ Cleared  BY <1>0, <1>1, <1>2, <2>2 DEF WishesFit
    <3>2. (legacy \/ ~memory.proxy.lost => memory.proxy.secret = P!Saved)
          /\ (~legacy /\ memory.proxy.lost => memory.proxy.secret = NoSecret)
      BY <1>0, <1>1 DEF SecretsFit, CredentialsRead
    <3>3. QED  BY <1>1, <1>5, <1>6, <2>2, <3>1, <3>2 DEF Reaches
  <2>3. QED  BY <1>1, <2>1, <2>2
<1>13. WishesFit'
  <2>1. edits'[Len(edits')] = e  BY <1>1, <1>4
  <2>2. e.result = "ok" => /\ P!Saved' = wanted \/ Cleared'
                           /\ document'.custom = e.proxy.custom
                           /\ memory'.proxy.lost => e.before.proxy.lost
    BY <1>0, <1>1, <1>2, <1>3, <1>5 DEF WishesFit
  <2>3. QED  BY <1>1, <1>3, <1>6, <1>12, <2>1, <2>2 DEF WishesFit
<1>14. QED  BY <1>8, <1>9, <1>10, <1>11, <1>13 DEF PreferencesInv

LEMMA EditKeeps ==
  ASSUME NamesAssumed, PreferencesInv, NEW n \in DOMAIN edits, P!Edit(n)
  PROVE  PreferencesInv'
BY StartKeeps, RestoresKeep, WritesEntryKeeps, ReplacesKeep, DeletesEntryKeeps, ToldKeeps DEF P!Edit

-----------------------------------------------------------------------------
(***************************************************************************)
(* The app, the page and the other settings.                               *)
(***************************************************************************)
LEMMA NothingWaits ==
  ASSUME PreferencesTyped, edits = <<>>
  PROVE  writer = 0 /\ Len(edits) = 0 /\ DOMAIN edits = {}
<1>1. Len(edits) = 0 /\ DOMAIN edits = 1 .. Len(edits)  BY LenProperties, EmptySeq DEF PreferencesTyped
<1>2. QED  BY <1>1 DEF PreferencesTyped

LEMMA LoadKeeps ==
  ASSUME PreferencesInv, P!Load
  PROVE  PreferencesInv'
<1>0. PreferencesTyped /\ FileFits /\ LockFits  BY DEF PreferencesInv
<1>1. /\ edits = <<>> /\ edits' = <<>> /\ writer = 0 /\ writer' = 0 /\ running' = "loading"
      /\ Len(edits') = 0 /\ DOMAIN edits' = {}
      /\ UNCHANGED <<document, keyring, ids, draft, typed, others, updates>>
  BY <1>0, NothingWaits DEF P!Load, LockFits, P!counts
<1>2. /\ memory'.proxy.custom = document.custom /\ memory'.proxy.secret = document.plain /\ ~memory'.proxy.lost
      /\ memory'.id = document.id /\ memory'.other = document.other /\ memory' \in Memories
      /\ legacy' = (document.plain # NoSecret)
  BY <1>0 DEF P!Load, PreferencesTyped, Memories, Proxies
<1>3. P!Saved' = P!Saved /\ wanted' = P!Saved /\ P!Saved \in typed /\ typed \subseteq P!All
  BY <1>0, <1>1 DEF P!Load, P!Saved, FileFits, P!NoSecretIsLost, PreferencesTyped
<1>4. legacy' => P!Saved' = document.plain  BY <1>2, <1>3 DEF P!Saved
<1>5. PreferencesTyped'  BY <1>0, <1>1, <1>2, <1>3 DEF PreferencesTyped
<1>6. FileFits'  BY <1>0, <1>1, <1>2, <1>3 DEF FileFits, P!SavedReferenceExists, P!NoSecretIsLost, P!OtherSettingsStay
<1>7. LockFits'  BY <1>1 DEF LockFits
<1>8. SecretsFit'  BY <1>1, <1>2, <1>3, <1>4 DEF SecretsFit, CredentialsRead, Known
<1>9. WishesFit'  BY <1>1, <1>3 DEF WishesFit
<1>10. QED  BY <1>5, <1>6, <1>7, <1>8, <1>9 DEF PreferencesInv

LEMMA MigratedKeeps ==
  ASSUME PreferencesInv, P!Migrated
  PROVE  PreferencesInv'
<1>0. PreferencesTyped /\ FileFits /\ LockFits /\ SecretsFit /\ WishesFit  BY DEF PreferencesInv
<1>1. /\ running = "loading" /\ edits # <<>> /\ edits[1].at = "done" /\ running' = "on"
      /\ draft' = memory'.proxy /\ memory.proxy \in Proxies
      /\ UNCHANGED <<document, keyring, ids, legacy, edits, writer, typed, wanted, others, updates>>
      /\ memory'.id = memory.id /\ memory'.other = memory.other /\ memory' \in Memories
      /\ memory'.proxy.custom = memory.proxy.custom /\ memory'.proxy.secret = memory.proxy.secret
      /\ memory'.proxy.lost = (memory.proxy.lost \/ edits[1].result = "error")
  <2>1. memory \in Memories /\ memory.proxy \in Proxies  BY <1>0 DEF PreferencesTyped, Memories
  <2>2. (memory.proxy.lost \/ edits[1].result = "error") \in BOOLEAN  BY <2>1 DEF Proxies
  <2> DEFINE proxy == [memory.proxy EXCEPT !.lost = @ \/ edits[1].result = "error"]
  <2>3. /\ proxy \in Proxies /\ proxy.custom = memory.proxy.custom /\ proxy.secret = memory.proxy.secret
        /\ proxy.lost = (memory.proxy.lost \/ edits[1].result = "error")
    BY <2>1, <2>2 DEF Proxies
  <2>4. memory' = [memory EXCEPT !.proxy = proxy] /\ draft' = proxy  BY DEF P!Migrated, P!Opens
  <2> HIDE DEF proxy
  <2>5. memory' \in Memories /\ memory'.proxy = proxy /\ memory'.id = memory.id /\ memory'.other = memory.other
    BY <2>1, <2>3, <2>4 DEF Memories
  <2>6. QED  BY <2>1, <2>3, <2>4, <2>5 DEF P!Migrated, P!Opens, P!ghosts, P!counts
<1>2. Len(edits) = 1 /\ DOMAIN edits = {1} /\ writer = 0
  <2>1. DOMAIN edits = 1 .. Len(edits) /\ Len(edits) \in Nat /\ Len(edits) # 0
    BY <1>0, <1>1, LenProperties, EmptySeq DEF PreferencesTyped
  <2>2. Len(edits) = 1  BY <1>0, <1>1, <2>1 DEF LockFits
  <2>3. writer \in {0, 1}  BY <1>0, <2>2 DEF PreferencesTyped
  <2>4. QED  BY <1>0, <1>1, <2>1, <2>2, <2>3 DEF LockFits, Active
<1>3. /\ ~memory.proxy.lost /\ wanted = P!Saved /\ P!Saved' = P!Saved /\ P!Saved \in typed
      /\ memory.proxy.secret = P!Saved /\ (legacy \/ edits[1].result = "ok")
  BY <1>0, <1>1 DEF SecretsFit, WishesFit, P!Saved, FileFits, P!NoSecretIsLost, LockFits, CredentialsRead
<1>4. PreferencesTyped'
  <2>1. draft' \in Proxies  BY <1>1 DEF Memories
  <2>2. QED  BY <1>0, <1>1, <2>1 DEF PreferencesTyped
<1>5. FileFits'
  BY <1>0, <1>1, <1>3 DEF FileFits, P!SavedReferenceExists, P!NoSecretIsLost, P!OtherSettingsStay
<1>6. LockFits'  BY <1>0, <1>1, <1>2 DEF LockFits, Active
<1>7. SecretsFit'
  BY <1>1, <1>2, <1>3 DEF SecretsFit, CredentialsRead, Known
<1>8. WishesFit'
  <2>1. Reaches(draft)'  BY <1>1, <1>2, <1>3 DEF Reaches
  <2>2. QED  BY <1>0, <1>1, <1>2, <1>3, <2>1 DEF WishesFit
<1>9. QED  BY <1>4, <1>5, <1>6, <1>7, <1>8 DEF PreferencesInv

LEMMA ReadCredentialsKeeps ==
  ASSUME NamesAssumed, PreferencesInv, P!ReadCredentials
  PROVE  PreferencesInv'
<1>0. PreferencesTyped /\ FileFits /\ LockFits /\ SecretsFit /\ WishesFit  BY DEF PreferencesInv
<1>1. /\ running = "loading" /\ edits = <<>> /\ ~legacy /\ running' = "on"
      /\ UNCHANGED <<document, keyring, ids, legacy, edits, writer, typed, wanted, others, updates>>
      /\ writer = 0 /\ Len(edits) = 0 /\ DOMAIN edits = {}
      /\ memory \in Memories /\ memory.proxy \in Proxies
  BY <1>0, NothingWaits DEF P!ReadCredentials, P!Opens, P!ghosts, PreferencesTyped, Memories
<1>2. /\ ~memory.proxy.lost /\ memory.proxy.secret = NoSecret /\ wanted = P!Saved /\ P!Saved' = P!Saved
      /\ P!Saved \in typed /\ document.plain = NoSecret /\ document.id = memory.id
      /\ NoId \notin DOMAIN keyring
  <2>1. NoId \notin DOMAIN keyring  BY <1>0 DEF PreferencesTyped, NamesAssumed
  <2>2. QED  BY <1>0, <1>1, <2>1 DEF SecretsFit, WishesFit, P!Saved, FileFits, P!NoSecretIsLost
<1>3. PICK proxy \in Proxies :
        /\ memory' = [memory EXCEPT !.proxy = proxy] /\ draft' = proxy /\ proxy.custom = memory.proxy.custom
        /\ IF proxy.lost THEN proxy.secret = NoSecret ELSE proxy.secret = P!Saved
  <2> DEFINE read == [memory.proxy EXCEPT !.secret = IF memory.id = NoId THEN NoSecret ELSE keyring[memory.id]]
             lost == [memory.proxy EXCEPT !.lost = TRUE]
  <2>1. \/ memory' = [memory EXCEPT !.proxy = read] /\ draft' = read
             /\ (memory.id = NoId \/ memory.id \in DOMAIN keyring)
        \/ memory' = [memory EXCEPT !.proxy = lost] /\ draft' = lost
    BY DEF P!ReadCredentials, P!Opens
  <2>2. lost \in Proxies /\ lost.lost /\ lost.custom = memory.proxy.custom /\ lost.secret = NoSecret
    BY <1>1, <1>2 DEF Proxies
  <2>3. memory.id = NoId \/ memory.id \in DOMAIN keyring =>
          /\ (IF memory.id = NoId THEN NoSecret ELSE keyring[memory.id]) = P!Saved
          /\ P!Saved \in P!All
    BY <1>0, <1>2 DEF P!Saved, PreferencesTyped
  <2>4. memory.id = NoId \/ memory.id \in DOMAIN keyring =>
          read \in Proxies /\ ~read.lost /\ read.custom = memory.proxy.custom /\ read.secret = P!Saved
    BY <1>1, <1>2, <2>3 DEF Proxies
  <2> HIDE DEF read, lost
  <2>5. QED  BY <2>1, <2>2, <2>4
<1>4. /\ memory' \in Memories /\ memory'.proxy = proxy /\ memory'.id = memory.id /\ memory'.other = memory.other
      /\ proxy.lost \in BOOLEAN
  BY <1>1, <1>3 DEF Memories, Proxies
<1>5. PreferencesTyped'  BY <1>0, <1>1, <1>3, <1>4 DEF PreferencesTyped
<1>6. FileFits'
  BY <1>0, <1>1, <1>2, <1>3, <1>4 DEF FileFits, P!SavedReferenceExists, P!NoSecretIsLost, P!OtherSettingsStay
<1>7. LockFits'  BY <1>1 DEF LockFits
<1>8. SecretsFit'
  BY <1>1, <1>2, <1>3, <1>4 DEF SecretsFit, CredentialsRead, Known
<1>9. WishesFit'
  <2>1. Reaches(draft)'  BY <1>1, <1>2, <1>3, <1>4 DEF Reaches
  <2>2. QED  BY <1>1, <2>1 DEF WishesFit
<1>10. QED  BY <1>5, <1>6, <1>7, <1>8, <1>9 DEF PreferencesInv

LEMMA AppStopKeeps ==
  ASSUME NamesAssumed, PreferencesInv, P!Stop
  PROVE  PreferencesInv'
<1>0. PreferencesTyped /\ FileFits /\ LockFits  BY DEF PreferencesInv
<1>1. /\ running # "off" /\ running' = "off" /\ edits' = <<>> /\ writer' = 0
      /\ UNCHANGED <<document, ids, memory, legacy, draft, typed, wanted, others, updates>>
  BY DEF P!Stop, P!ghosts
<1>2. edits' \in Seq(Edits) /\ Len(edits') = 0 /\ DOMAIN edits' = {}
  BY <1>1, EmptySeq, LenProperties
<1>3. /\ keyring' = [i \in DOMAIN keyring' |-> keyring'[i]]
      /\ DOMAIN keyring' \subseteq 1 .. ids /\ \A i \in DOMAIN keyring' : keyring'[i] \in Secrets
      /\ document.id \in DOMAIN keyring => document.id \in DOMAIN keyring' /\ keyring'[document.id] = keyring[document.id]
      /\ document.id \in DOMAIN keyring' => document.id \in DOMAIN keyring
  <2>1. CASE keyring' = keyring  BY <1>0, <2>1 DEF PreferencesTyped
  <2>2. CASE /\ writer # 0 /\ edits[writer].at = "staging"
             /\ keyring' = P!With(edits[writer].id, edits[writer].proxy.secret)
    <3>1. writer \in DOMAIN edits  BY <1>0, <2>2, LenProperties DEF PreferencesTyped
    <3>2. EditFits(edits[writer])  BY <1>0, <2>2, <3>1 DEF LockFits, Active
    <3>3. edits[writer].id \in 1 .. ids /\ edits[writer].proxy.secret \in Secrets /\ edits[writer].id # document.id
      BY <1>0, <1>1, <2>2, <3>2 DEF EditFits, FileFits
    <3>4. QED  BY <1>0, <2>2, <3>3 DEF PreferencesTyped, P!With
  <2>3. QED  BY <2>1, <2>2 DEF P!Stop
<1>4. P!Saved' = P!Saved  BY <1>1, <1>3 DEF P!Saved
<1>5. PreferencesTyped'  BY <1>0, <1>1, <1>2, <1>3 DEF PreferencesTyped
<1>6. FileFits'
  BY <1>0, <1>1, <1>3, <1>4 DEF FileFits, P!SavedReferenceExists, P!NoSecretIsLost, P!OtherSettingsStay
<1>7. LockFits'  BY <1>1, <1>2 DEF LockFits
<1>8. SecretsFit'  BY <1>1, <1>2 DEF SecretsFit, CredentialsRead
<1>9. WishesFit'  BY <1>1 DEF WishesFit
<1>10. QED  BY <1>5, <1>6, <1>7, <1>8, <1>9 DEF PreferencesInv

\* The page's save, and the edit that moves the credentials of an old version.
Appended(e) ==
  /\ edits' = Append(edits, e)
  /\ e.at = "waiting" /\ e.result = "none" /\ ~e.staged
  /\ UNCHANGED <<document, keyring, ids, running, memory, legacy, writer, others, updates>>
  /\ running = "on" \/ (running = "loading" /\ edits = <<>> /\ legacy /\ wanted' = wanted /\ ~e.before.proxy.lost)
  /\ typed \subseteq typed' /\ typed' \subseteq P!All /\ wanted' \in P!All /\ draft' \in Proxies
  /\ running = "on" => Known(draft)' /\ (legacy => draft'.secret \in typed') /\ Reaches(draft)'
  /\ Known(e.proxy)' /\ (legacy => e.proxy.secret \in typed') /\ Reaches(e.proxy)'

LEMMA AppendMoves ==
  ASSUME PreferencesTyped, NEW e \in Edits, edits' = Append(edits, e)
  PROVE  /\ edits' \in Seq(Edits) /\ Len(edits') = Len(edits) + 1 /\ edits'[Len(edits')] = e
         /\ DOMAIN edits = 1 .. Len(edits) /\ DOMAIN edits' = 1 .. Len(edits) + 1 /\ Len(edits) \in Nat
         /\ edits' # <<>> /\ \A m \in DOMAIN edits : edits'[m] = edits[m]
<1>1. edits \in Seq(Edits) /\ Len(edits) \in Nat /\ DOMAIN edits = 1 .. Len(edits)
  BY LenProperties DEF PreferencesTyped
<1>2. /\ edits' \in Seq(Edits) /\ Len(edits') = Len(edits) + 1 /\ edits'[Len(edits) + 1] = e
      /\ \A m \in 1 .. Len(edits) : edits'[m] = edits[m]
  BY <1>1, AppendProperties
<1>3. DOMAIN edits' = 1 .. Len(edits')  BY <1>2, LenProperties
<1>4. edits' # <<>>  BY <1>1, <1>2, EmptySeq
<1>5. QED  BY <1>1, <1>2, <1>3, <1>4

LEMMA AppendedKeeps ==
  ASSUME PreferencesInv, NEW e \in Edits, Appended(e)
  PROVE  PreferencesInv'
<1>0. PreferencesTyped /\ FileFits /\ LockFits /\ SecretsFit /\ WishesFit  BY DEF PreferencesInv
<1>1. /\ edits' \in Seq(Edits) /\ Len(edits') = Len(edits) + 1 /\ edits'[Len(edits')] = e
      /\ DOMAIN edits = 1 .. Len(edits) /\ DOMAIN edits' = 1 .. Len(edits) + 1 /\ Len(edits) \in Nat
      /\ edits' # <<>> /\ \A m \in DOMAIN edits : edits'[m] = edits[m]
  BY <1>0, AppendMoves DEF Appended
<1>2. \A m \in DOMAIN edits' : m \in DOMAIN edits \/ edits'[m] = e  BY <1>1
<1>3. P!Saved' = P!Saved  BY DEF Appended, P!Saved
<1>4. PreferencesTyped'
  <2>1. writer' \in 0 .. Len(edits')  BY <1>0, <1>1 DEF PreferencesTyped, Appended
  <2>2. QED  BY <1>0, <1>1, <2>1 DEF PreferencesTyped, Appended
<1>5. FileFits'
  BY <1>0, <1>3 DEF FileFits, Appended, P!SavedReferenceExists, P!NoSecretIsLost, P!OtherSettingsStay
<1>6. LockFits'
  <2>1. running' = "loading" => Len(edits') = 1 /\ edits'[1] = e /\ legacy'
    BY <1>0, <1>1, EmptySeq DEF Appended
  <2>2. writer' # 0 => edits'[writer'].at \in Active
    <3>1. writer # 0 => writer \in DOMAIN edits  BY <1>0, <1>1 DEF PreferencesTyped
    <3>2. QED  BY <1>0, <1>1, <3>1 DEF LockFits, Appended
  <2>3. ASSUME NEW m \in DOMAIN edits'
        PROVE  /\ edits'[m].at \in Active => m = writer'
               /\ edits'[m].at \in Active \ {"cleaning"} => EditFits(edits[m])'
               /\ edits'[m].at = "cleaning" => edits'[m].id # memory'.id /\ edits'[m].result # "none"
               /\ edits'[m].at = "waiting" => ~edits'[m].staged
               /\ edits'[m].at \notin {"cleaning", "done", "told"} => edits'[m].result = "none"
    <3>1. CASE m \in DOMAIN edits
      BY <1>0, <1>1, <3>1 DEF LockFits, EditFits, Appended
    <3>2. CASE edits'[m] = e  BY <3>2 DEF Appended, Active
    <3>3. QED  BY <1>2, <3>1, <3>2
  <2>4. running' # "off"  BY DEF Appended
  <2>5. running' = "loading" => ~edits'[1].before.proxy.lost
    BY <2>1 DEF Appended
  <2>6. running' = "loading" => Len(edits') <= 1 /\ (legacy' \/ edits'[1].result = "ok")
    <3>1. 1 <= 1  OBVIOUS
    <3>2. running' = "loading" => Len(edits') <= 1  BY <2>1, <3>1, Zenon
    <3>3. running' = "loading" => legacy'  BY <2>1, Zenon
    <3>4. QED  BY <3>2, <3>3, Zenon
  <2>7. QED  BY <2>2, <2>3, <2>4, <2>5, <2>6 DEF LockFits
<1>7. SecretsFit'
  <2>1. \A m \in DOMAIN edits' : edits'[m].at = "waiting" =>
          Known(edits[m].proxy)' /\ (legacy' => edits'[m].proxy.secret \in typed')
    BY <1>0, <1>1, <1>2 DEF SecretsFit, Known, Appended
  <2>2. CredentialsRead' => CredentialsRead  BY DEF CredentialsRead, Appended
  <2>3. QED  BY <1>0, <1>1, <1>3, <2>1, <2>2 DEF SecretsFit, Known, Appended
<1>8. WishesFit'
  <2>1. running' = "loading" => wanted' = P!Saved'  BY <1>0, <1>3 DEF WishesFit, Appended
  <2>2. QED  BY <1>1, <2>1 DEF WishesFit, Appended
<1>9. QED  BY <1>4, <1>5, <1>6, <1>7, <1>8 DEF PreferencesInv

LEMMA NewEditFits ==
  ASSUME PreferencesTyped, NEW proxy \in Proxies, NEW page \in BOOLEAN, P!NewEdit(proxy, page)
  PROVE  \E e \in Edits :
           /\ edits' = Append(edits, e) /\ e.proxy = proxy /\ e.before = memory
           /\ e.at = "waiting" /\ e.result = "none" /\ ~e.staged
<1> DEFINE e == [proxy |-> proxy, at |-> "waiting", page |-> page, before |-> memory,
                 id |-> NoId, staged |-> FALSE, result |-> "none"]
<1>1. e \in Edits  BY DEF PreferencesTyped, Edits, Places, EntryIds
<1>2. QED  BY <1>1 DEF P!NewEdit

LEMMA MigrateKeeps ==
  ASSUME PreferencesInv, P!Migrate
  PROVE  PreferencesInv'
<1>0. PreferencesTyped /\ FileFits /\ LockFits /\ SecretsFit /\ WishesFit  BY DEF PreferencesInv
<1>1. /\ running = "loading" /\ legacy /\ edits = <<>> /\ memory.proxy \in Proxies
      /\ UNCHANGED <<document, keyring, ids, running, memory, legacy, draft, writer, typed, wanted, others, updates>>
  BY <1>0 DEF P!Migrate, P!ghosts, P!counts, PreferencesTyped, Memories
<1>2. PICK e \in Edits : /\ edits' = Append(edits, e) /\ e.proxy = memory.proxy /\ e.before = memory
                         /\ e.at = "waiting" /\ e.result = "none" /\ ~e.staged
  BY <1>0, <1>1, NewEditFits DEF P!Migrate
<1>3. ~memory.proxy.lost /\ memory.proxy.secret = P!Saved /\ wanted = P!Saved /\ P!Saved \in typed
  BY <1>0, <1>1 DEF SecretsFit, CredentialsRead, WishesFit, FileFits, P!NoSecretIsLost
<1>4. Reaches(e.proxy)'  BY <1>1, <1>2, <1>3 DEF Reaches
<1>5. Appended(e)  BY <1>0, <1>1, <1>2, <1>3, <1>4 DEF Appended, Known, PreferencesTyped
<1>6. QED  BY <1>5, AppendedKeeps

LEMMA SaveKeeps ==
  ASSUME PreferencesInv, NEW proxy \in Proxies, P!Save(proxy),
         typed \subseteq typed', typed' \subseteq P!All, wanted' \in P!All,
         proxy.secret \in typed' \/ (proxy.secret = NoSecret /\ proxy.lost),
         legacy => proxy.secret \in typed',
         \/ proxy.secret = wanted' /\ ~proxy.lost
         \/ /\ proxy.secret = draft.secret /\ (proxy.lost = draft.lost) /\ wanted' = wanted
  PROVE  PreferencesInv'
<1>0. PreferencesTyped /\ FileFits /\ LockFits /\ SecretsFit /\ WishesFit  BY DEF PreferencesInv
<1>1. /\ running = "on" /\ draft' = proxy
      /\ UNCHANGED <<document, keyring, ids, running, memory, legacy, writer, others, updates>>
  BY DEF P!Save, P!counts
<1>2. PICK e \in Edits : /\ edits' = Append(edits, e) /\ e.proxy = proxy /\ e.before = memory
                         /\ e.at = "waiting" /\ e.result = "none" /\ ~e.staged
  BY <1>0, NewEditFits DEF P!Save
<1>3. /\ DOMAIN edits = 1 .. Len(edits) /\ DOMAIN edits' = 1 .. Len(edits) + 1 /\ Len(edits) \in Nat
      /\ \A m \in DOMAIN edits : edits'[m] = edits[m]
  BY <1>0, <1>2, AppendMoves
<1>4. Reaches(proxy)'
  <2>1. CASE proxy.secret = wanted' /\ ~proxy.lost  BY <2>1 DEF Reaches
  <2>2. CASE /\ proxy.secret = draft.secret /\ (proxy.lost = draft.lost) /\ wanted' = wanted
    <3>1. Reaches(draft)  BY <1>0, <1>1 DEF WishesFit
    <3>2. Cleared => Cleared'  BY <1>1, <1>3, <2>2 DEF Cleared
    <3>3. P!Saved' = P!Saved  BY <1>1 DEF P!Saved
    <3>4. writer # 0 => edits'[writer] = edits[writer]  BY <1>0, <1>3 DEF PreferencesTyped
    <3>5. QED  BY <1>1, <2>2, <3>1, <3>2, <3>3, <3>4 DEF Reaches
  <2>3. QED  BY <2>1, <2>2
<1>5. Appended(e)
  BY <1>1, <1>2, <1>4 DEF Appended, Known, Reaches
<1>6. QED  BY <1>5, AppendedKeeps

LEMMA TypesKeeps ==
  ASSUME PreferencesInv, NEW secret \in P!All, P!Types(secret)
  PROVE  PreferencesInv'
<1>0. PreferencesTyped  BY DEF PreferencesInv
<1> DEFINE proxy == [draft EXCEPT !.secret = secret, !.lost = FALSE]
<1>1. P!Save(proxy) /\ typed' = typed \union {secret} /\ wanted' = secret  BY DEF P!Types
<1>2. proxy \in Proxies /\ proxy.secret = secret /\ ~proxy.lost  BY <1>0 DEF PreferencesTyped, Proxies
<1> HIDE DEF proxy
<1>3. typed' \subseteq P!All  BY <1>0, <1>1 DEF PreferencesTyped
<1>4. QED  BY <1>1, <1>2, <1>3, SaveKeeps

LEMMA TogglesKeeps ==
  ASSUME PreferencesInv, P!Toggles
  PROVE  PreferencesInv'
<1>0. PreferencesTyped /\ SecretsFit  BY DEF PreferencesInv
<1> DEFINE proxy == [draft EXCEPT !.custom = ~@]
<1>1. P!Save(proxy) /\ typed' = typed /\ wanted' = wanted /\ running = "on"  BY DEF P!Toggles, P!Save
<1>2. proxy \in Proxies /\ proxy.secret = draft.secret /\ (proxy.lost = draft.lost)
  BY <1>0 DEF PreferencesTyped, Proxies
<1>3. Known(draft) /\ (legacy => draft.secret \in typed)  BY <1>0, <1>1 DEF SecretsFit
<1> HIDE DEF proxy
<1>4. typed' \subseteq P!All /\ wanted' \in P!All  BY <1>0, <1>1 DEF PreferencesTyped
<1>5. QED  BY <1>1, <1>2, <1>3, <1>4, SaveKeeps DEF Known

LEMMA OtherKeeps ==
  ASSUME PreferencesInv,
         /\ UNCHANGED <<keyring, ids, running, legacy, draft, edits, writer, typed, wanted>>
         /\ document'.id = document.id /\ document'.plain = document.plain /\ document'.custom = document.custom
         /\ memory'.proxy = memory.proxy /\ memory'.id = memory.id
         /\ (running # "off" => document'.other = memory'.other) /\ document'.other = others'
         /\ document' \in [custom : BOOLEAN, id : EntryIds, other : Nat, plain : P!All] /\ memory' \in Memories
         /\ others' \in Nat /\ updates' \in Nat
  PROVE  PreferencesInv'
<1>0. PreferencesTyped /\ FileFits /\ LockFits /\ SecretsFit /\ WishesFit  BY DEF PreferencesInv
<1>1. P!Saved' = P!Saved /\ (Cleared' <=> Cleared)  BY DEF P!Saved, Cleared
<1>2. PreferencesTyped'  BY <1>0 DEF PreferencesTyped
<1>3. FileFits'
  BY <1>0, <1>1 DEF FileFits, P!SavedReferenceExists, P!NoSecretIsLost, P!OtherSettingsStay
<1>4. LockFits'  BY <1>0 DEF LockFits, EditFits
<1>5. SecretsFit'  BY <1>0, <1>1 DEF SecretsFit, CredentialsRead, Known
<1>6. WishesFit'
  <2>1. \A proxy : Reaches(proxy) => Reaches(proxy)'  BY <1>1 DEF Reaches
  <2>2. Reaches(draft) => Reaches(draft)'  BY <2>1 DEF Reaches
  <2>3. edits # <<>> => (Reaches(edits[Len(edits)].proxy) => Reaches(edits[Len(edits)].proxy)')
    BY <2>1 DEF Reaches
  <2>4. QED  BY <1>0, <1>1, <2>2, <2>3 DEF WishesFit
<1>7. QED  BY <1>2, <1>3, <1>4, <1>5, <1>6 DEF PreferencesInv

LEMMA UpdatesOtherKeeps ==
  ASSUME PreferencesInv, P!UpdatesOther
  PROVE  PreferencesInv'
<1>0. PreferencesTyped /\ FileFits  BY DEF PreferencesInv
<1>1. /\ running = "on" /\ ~legacy /\ updates' = updates + 1 /\ memory \in Memories
      /\ UNCHANGED <<keyring, ids, running, legacy, draft, edits, writer, typed, wanted>>
  BY <1>0 DEF P!UpdatesOther, P!MayUpdate, PreferencesTyped
<1>2. CASE UNCHANGED <<document, memory, others>>
  BY <1>0, <1>1, <1>2, OtherKeeps DEF PreferencesTyped, FileFits, P!OtherSettingsStay
<1>3. CASE LET preferences == [memory EXCEPT !.other = updates + 1] IN
           P!Persist(preferences) /\ memory' = preferences /\ others' = preferences.other
  <2>1. /\ memory' \in Memories /\ memory'.other = updates + 1 /\ memory'.proxy = memory.proxy
        /\ memory'.id = memory.id /\ others' = memory'.other /\ document' = P!Document(memory')
        /\ updates + 1 \in Nat
    BY <1>0, <1>1, <1>3 DEF Memories, P!Persist, PreferencesTyped
  <2>2. /\ document'.custom = memory'.proxy.custom /\ document'.id = memory'.id /\ document'.other = memory'.other
        /\ document'.plain = NoSecret /\ document' \in [custom : BOOLEAN, id : EntryIds, other : Nat, plain : P!All]
    BY <2>1 DEF P!Document, Memories, Proxies, P!All
  <2>3. document.id = memory.id /\ document.custom = memory.proxy.custom /\ document.plain = NoSecret
    BY <1>0, <1>1 DEF FileFits
  <2>4. QED  BY <1>1, <2>1, <2>2, <2>3, OtherKeeps
<1>4. QED  BY <1>2, <1>3 DEF P!UpdatesOther

-----------------------------------------------------------------------------
LEMMA PreferencesInit == ASSUME NamesAssumed, P!Init PROVE PreferencesInv
<1>1. PICK start \in {"new", "saved", "plain"}, secret \in Secrets :
        /\ document = [custom |-> TRUE, other |-> 0, id |-> IF start = "saved" THEN 1 ELSE NoId,
                   plain |-> IF start = "plain" THEN secret ELSE NoSecret]
        /\ keyring = [i \in IF start = "saved" THEN {1} ELSE {} |-> secret]
        /\ typed = {IF start = "new" THEN NoSecret ELSE secret}
  BY DEF P!Init
<1>2. /\ ids = 1 /\ running = "off" /\ legacy = FALSE /\ edits = <<>> /\ writer = 0
      /\ wanted = NoSecret /\ others = 0 /\ updates = 0 /\ draft = memory.proxy
      /\ memory = [proxy |-> [custom |-> TRUE, secret |-> NoSecret, lost |-> FALSE], id |-> NoId, other |-> 0]
  BY DEF P!Init
<1>3. edits \in Seq(Edits) /\ Len(edits) = 0 /\ DOMAIN edits = {}  BY <1>2, EmptySeq, LenProperties
<1>4. memory \in Memories /\ draft \in Proxies  BY <1>2 DEF Memories, Proxies, EntryIds, P!All
<1>5. secret # NoSecret /\ secret \in P!All  BY DEF NamesAssumed, P!All
<1>10. /\ keyring = [i \in DOMAIN keyring |-> keyring[i]] /\ writer \in 0 .. Len(edits)
       /\ typed \subseteq P!All /\ wanted \in P!All /\ 1 .. ids = {1}
  BY <1>1, <1>2, <1>3, <1>5 DEF P!All
<1>11. document \in [custom : BOOLEAN, id : EntryIds, other : Nat, plain : P!All]
  BY <1>1, <1>5 DEF EntryIds, P!All
<1>6. CASE start = "new"
  <2>1. document = [custom |-> TRUE, other |-> 0, id |-> NoId, plain |-> NoSecret]
        /\ DOMAIN keyring = {} /\ typed = {NoSecret}
    BY <1>1, <1>6
  <2>2. PreferencesTyped  BY <1>2, <1>3, <1>4, <1>10, <1>11, <2>1 DEF PreferencesTyped
  <2>3. P!Saved \in typed  BY <2>1 DEF P!Saved
  <2>4. FileFits  BY <1>2, <2>1, <2>3 DEF FileFits, P!SavedReferenceExists, P!NoSecretIsLost, P!OtherSettingsStay
  <2>5. QED  BY <1>2, <1>3, <2>2, <2>4 DEF PreferencesInv, LockFits, SecretsFit, WishesFit, CredentialsRead
<1>7. CASE start = "saved"
  <2>1. document = [custom |-> TRUE, other |-> 0, id |-> 1, plain |-> NoSecret]
        /\ DOMAIN keyring = {1} /\ keyring[1] = secret /\ typed = {secret}
    BY <1>1, <1>7
  <2>2. PreferencesTyped  BY <1>2, <1>3, <1>4, <1>10, <1>11, <2>1 DEF PreferencesTyped
  <2>3. P!Saved \in typed  BY <2>1 DEF P!Saved
  <2>4. FileFits  BY <1>2, <2>1, <2>3 DEF FileFits, P!SavedReferenceExists, P!NoSecretIsLost, P!OtherSettingsStay
  <2>5. QED  BY <1>2, <1>3, <2>2, <2>4 DEF PreferencesInv, LockFits, SecretsFit, WishesFit, CredentialsRead
<1>8. CASE start = "plain"
  <2>1. document = [custom |-> TRUE, other |-> 0, id |-> NoId, plain |-> secret]
        /\ DOMAIN keyring = {} /\ typed = {secret}
    BY <1>1, <1>8
  <2>2. PreferencesTyped  BY <1>2, <1>3, <1>4, <1>10, <1>11, <2>1 DEF PreferencesTyped
  <2>3. P!Saved \in typed  BY <1>5, <2>1 DEF P!Saved
  <2>4. FileFits  BY <1>2, <2>1, <2>3 DEF FileFits, P!SavedReferenceExists, P!NoSecretIsLost, P!OtherSettingsStay
  <2>5. QED  BY <1>2, <1>3, <2>2, <2>4 DEF PreferencesInv, LockFits, SecretsFit, WishesFit, CredentialsRead
<1>9. QED  BY <1>6, <1>7, <1>8

LEMMA PreferencesInductive == ASSUME NamesAssumed, PreferencesInv, [P!Next]_(P!vars) PROVE PreferencesInv'
<1>1. CASE UNCHANGED P!vars
  <2>1. PreferencesTyped /\ FileFits  BY DEF PreferencesInv
  <2>2. UNCHANGED <<document, keyring, ids, running, memory, legacy, draft, edits, writer, typed, wanted, others, updates>>
    BY <1>1 DEF P!vars
  <2>3. QED  BY <2>1, <2>2, OtherKeeps DEF PreferencesTyped, FileFits, P!OtherSettingsStay
<1>2. CASE P!Migrate  BY <1>2, MigrateKeeps
<1>3. CASE P!Migrated  BY <1>3, MigratedKeeps
<1>4. CASE P!ReadCredentials  BY <1>4, ReadCredentialsKeeps
<1>5. ASSUME NEW n \in DOMAIN edits, P!Edit(n) PROVE PreferencesInv'  BY <1>5, EditKeeps
<1>6. ASSUME NEW secret \in P!All, P!Types(secret) PROVE PreferencesInv'  BY <1>6, TypesKeeps
<1>7. CASE P!Toggles  BY <1>7, TogglesKeeps
<1>8. CASE P!UpdatesOther  BY <1>8, UpdatesOtherKeeps
<1>9. CASE P!Load  BY <1>9, LoadKeeps
<1>10. CASE P!Stop  BY <1>10, AppStopKeeps
<1>11. QED
  BY <1>1, <1>2, <1>3, <1>4, <1>5, <1>6, <1>7, <1>8, <1>9, <1>10 DEF P!Next, P!Background, P!User

LEMMA PreferencesInvHolds == ASSUME NamesAssumed PROVE P!Spec => []PreferencesInv
<1>1. P!Init => PreferencesInv  BY PreferencesInit
<1>2. PreferencesInv /\ [P!Next]_(P!vars) => PreferencesInv'  BY PreferencesInductive
<1>3. QED  BY <1>1, <1>2, PTL DEF P!Spec

LEMMA LastFollows == ASSUME PreferencesInv PROVE P!LastEditWins
<1>0. PreferencesTyped /\ WishesFit /\ LockFits  BY DEF PreferencesInv
<1>1. SUFFICES ASSUME P!Quiet, edits # <<>>, P!Last(edits).result = "ok"
               PROVE  /\ document.custom = P!Last(edits).proxy.custom
                      /\ P!Saved = wanted \/ (wanted = NoSecret /\ \E n \in DOMAIN edits : edits[n].before.proxy.lost)
  BY DEF P!LastEditWins
<1>2. P!Last(edits) = edits[Len(edits)]  BY DEF P!Last
<1>3. Len(edits) \in DOMAIN edits
  <2>1. DOMAIN edits = 1 .. Len(edits) /\ Len(edits) \in Nat /\ Len(edits) # 0
    BY <1>0, <1>1, LenProperties, EmptySeq DEF PreferencesTyped
  <2>2. QED  BY <2>1
<1>4. /\ P!Saved = wanted \/ Cleared
      /\ document.custom = edits[Len(edits)].proxy.custom
      /\ memory.proxy.lost => edits[Len(edits)].before.proxy.lost
  BY <1>0, <1>1, <1>2 DEF WishesFit
<1>5. Cleared => wanted = NoSecret /\ \E n \in DOMAIN edits : edits[n].before.proxy.lost
  BY <1>3, <1>4 DEF Cleared
<1>6. QED  BY <1>2, <1>4, <1>5

-----------------------------------------------------------------------------
(***************************************************************************)
(* store.rs:211: the app, its one lock and what is saved always fit: who   *)
(* holds the lock is the edit that is under way.                           *)
(***************************************************************************)
THEOREM PreferencesTypeCorrect == ASSUME NamesAssumed PROVE P!Spec => []P!TypeOK
<1>1. PreferencesInv => P!TypeOK  BY PreferencesTypeFollows
<1>2. QED  BY <1>1, PreferencesInvHolds, PTL

(***************************************************************************)
(* preferences/README.md:23: in every state, whichever step of an edit     *)
(* failed and wherever the app stopped, what the file refers to is in the  *)
(* keyring.                                                                *)
(***************************************************************************)
THEOREM ReferenceAlwaysExists == ASSUME NamesAssumed PROVE P!Spec => []P!SavedReferenceExists
<1>1. PreferencesInv => P!SavedReferenceExists  BY DEF PreferencesInv, FileFits
<1>2. QED  BY <1>1, PreferencesInvHolds, PTL

(***************************************************************************)
(* store.rs:125 and :233: what is saved are always credentials the user    *)
(* typed: an old version's are not dropped before the keyring has them,    *)
(* and the empty fields of a failed read never replace them.               *)
(***************************************************************************)
THEOREM CredentialsAreKept == ASSUME NamesAssumed PROVE P!Spec => []P!NoSecretIsLost
<1>1. PreferencesInv => P!NoSecretIsLost  BY DEF PreferencesInv, FileFits
<1>2. QED  BY <1>1, PreferencesInvHolds, PTL

(***************************************************************************)
(* store.rs:211: of any number of edits that waited for the lock, whatever *)
(* order they took it in, the last one is what is saved.                   *)
(***************************************************************************)
THEOREM LastEditAlwaysWins == ASSUME NamesAssumed PROVE P!Spec => []P!LastEditWins
<1>1. PreferencesInv => P!LastEditWins  BY LastFollows
<1>2. QED  BY <1>1, PreferencesInvHolds, PTL

(***************************************************************************)
(* store.rs:294: a setting that changes while an edit has the keyring open *)
(* is never written over by that edit.                                     *)
(***************************************************************************)
THEOREM OtherSettingsAlwaysStay == ASSUME NamesAssumed PROVE P!Spec => []P!OtherSettingsStay
<1>1. PreferencesInv => P!OtherSettingsStay  BY DEF PreferencesInv, FileFits
<1>2. QED  BY <1>1, PreferencesInvHolds, PTL

-----------------------------------------------------------------------------
(***************************************************************************)
(* History: any limit and any number of requests, changes and faults.      *)
(***************************************************************************)
SizesAssumed == LIMIT \in Nat /\ MaxSent \in Nat

FileOps == [do : {"write", "remove"}, id : H!Requests, extension : H!Extensions]
OpSet == FileOps \union {[do |-> "removeAll"], [do |-> "removeIndex"]}
           \union [do : {"index"}, list : SUBSET H!Requests, ended : SUBSET H!Requests]
           \union [do : {"read"}, id : H!Requests]
JobSet == [kind : {"save", "change", "read", "quit"}, id : Nat, about : SUBSET H!Requests, ops : Seq(OpSet)]

OfIndex(op) == op.do \in {"index", "removeIndex"}
WritesFile(op, id, extension) == op.do = "write" /\ op.id = id /\ op.extension = extension
RemovesFile(op, id, extension) ==
  op.do = "removeAll" \/ (op.do = "remove" /\ op.id = id /\ op.extension = extension)
RemovesOf(op, id) == op.do = "removeAll" \/ (op.do = "remove" /\ op.id = id)
\* An operation after which a request is saved as it was.
Spares(op, id) == ~RemovesOf(op, id) /\ op.do # "removeIndex" /\ (op.do = "index" => id \in op.list)

HistoryTyped ==
  /\ phase \in {"open", "quitting", "closed"} /\ jobs \in Seq(JobSet)
  /\ list \subseteq sent /\ sent \subseteq H!Requests /\ ended \subseteq sent /\ undo \subseteq sent
  /\ Cardinality(list) <= LIMIT /\ Cardinality(index.list) <= LIMIT
  /\ index = [list |-> index.list, ended |-> index.ended]
  /\ index.list \subseteq sent /\ index.ended \subseteq index.list
  /\ files \subseteq sent \X H!Extensions /\ losses \in Nat

\* Jobs are what the changes of the list made them.
JobsFit ==
  \A n \in DOMAIN jobs :
    /\ jobs[n].about \subseteq sent
    /\ jobs[n].kind = "save" =>
         jobs[n].id \in jobs[n].about /\ jobs[n].about \intersect list \subseteq {jobs[n].id}
    /\ jobs[n].kind = "change" => jobs[n].about \intersect list = {}
    /\ jobs[n].kind = "quit" => n = Len(jobs) /\ phase # "open"
    /\ \A k \in DOMAIN jobs[n].ops :
         LET op == jobs[n].ops[k] IN
         /\ OfIndex(op) => k = Len(jobs[n].ops)
         /\ op.do = "index" => op.list \subseteq sent /\ Cardinality(op.list) <= LIMIT
         /\ op.do \in {"write", "read"} => op.id \in jobs[n].about

\* What is kept is saved, and nothing that waits takes it away.
KeptFits ==
  /\ kept \subseteq list
  /\ \A id \in kept :
       /\ id \in index.list /\ \A extension \in H!Extensions : <<id, extension>> \in files
       /\ \A n \in DOMAIN jobs : \A k \in DOMAIN jobs[n].ops : Spares(jobs[n].ops[k], id)

\* What is to be saved will be, by the job that began it or has it whole.
SavesFit ==
  \A n \in DOMAIN jobs : jobs[n].kind = "save" /\ jobs[n].id \in list =>
    /\ \A extension \in H!Extensions :
         \/ \E k \in DOMAIN jobs[n].ops : WritesFile(jobs[n].ops[k], jobs[n].id, extension)
         \/ n = 1 /\ <<jobs[n].id, extension>> \in files
    /\ \/ \E k \in DOMAIN jobs[n].ops : jobs[n].ops[k].do = "index"
       \/ n = 1 /\ jobs[n].id \in index.list
    /\ \A m \in DOMAIN jobs : m >= n =>
         \A k \in DOMAIN jobs[m].ops : Spares(jobs[m].ops[k], jobs[n].id)

ListFits ==
  \A id \in list :
    id \in kept \/ id \in faulty \/ \E n \in DOMAIN jobs : jobs[n].kind = "save" /\ jobs[n].id = id

\* What the saved list has, or will have for a while.
Changing(id, n) == jobs[n].kind \in {"save", "change"} /\ id \in jobs[n].about
Told(id) == id \in kept \/ id \in faulty \/ \E n \in DOMAIN jobs : Changing(id, n)
ChangesFit ==
  \A n \in DOMAIN jobs : \A id \in jobs[n].about \ list : jobs[n].kind \in {"save", "change"} =>
    \/ \E m \in DOMAIN jobs : m > n /\ Changing(id, m)
    \/ /\ \A m \in DOMAIN jobs : m >= n =>
            \A k \in DOMAIN jobs[m].ops : jobs[m].ops[k].do = "index" => id \notin jobs[m].ops[k].list
       /\ (\E k \in DOMAIN jobs[n].ops : OfIndex(jobs[n].ops[k])) \/ (n = 1 /\ id \notin index.list)
IndexFits ==
  /\ \A id \in index.list : Told(id)
  /\ \A n \in DOMAIN jobs : \A k \in DOMAIN jobs[n].ops :
       jobs[n].ops[k].do = "index" => \A id \in jobs[n].ops[k].list : Told(id)
  /\ ChangesFit

\* A request that is read is there, or is written before.
ReadsFit ==
  \A n \in DOMAIN jobs : \A k \in DOMAIN jobs[n].ops :
    jobs[n].ops[k].do = "read" /\ jobs[n].ops[k].id \notin faulty =>
      LET id == jobs[n].ops[k].id IN
      \/ /\ <<id, "json">> \in files
         /\ \A m \in DOMAIN jobs : m <= n => \A j \in DOMAIN jobs[m].ops : ~RemovesOf(jobs[m].ops[j], id)
      \/ \E w \in DOMAIN jobs :
           /\ w < n /\ id \in jobs[w].about
           /\ \E j \in DOMAIN jobs[w].ops : WritesFile(jobs[w].ops[j], id, "json")
           /\ \A m \in DOMAIN jobs : m >= w /\ m <= n =>
                \A j \in DOMAIN jobs[m].ops : ~RemovesOf(jobs[m].ops[j], id)

\* Bodies are written before records and removed after them.
BodiesPaired ==
  \A n \in DOMAIN jobs : \A k \in DOMAIN jobs[n].ops :
    LET op == jobs[n].ops[k] IN
    /\ op.do = "write" /\ op.extension = "json" =>
         \/ k > 1 /\ WritesFile(jobs[n].ops[k - 1], op.id, "body")
         \/ k = 1 /\ n = 1 /\ <<op.id, "body">> \in files
    /\ op.do = "remove" /\ op.extension = "body" =>
         \/ k > 1 /\ jobs[n].ops[k - 1] = H!Op("remove", op.id, "json")
         \/ k = 1 /\ n = 1 /\ <<op.id, "json">> \notin files
    /\ op.do = "removeAll" => \A id \in sent \ jobs[n].about :
         /\ \A extension \in H!Extensions : <<id, extension>> \notin files
         /\ \A m \in DOMAIN jobs : m <= n => \A j \in DOMAIN jobs[m].ops :
              \A extension \in H!Extensions : ~WritesFile(jobs[m].ops[j], id, extension)
BodiesFit == H!RecordsAreWhole /\ BodiesPaired

\* While nothing failed: all that waits leads to the list and its files.
Leads(op) ==
  \/ op.do = "index" /\ op.list = list /\ op.ended \intersect list = ended \intersect list
  \/ op.do = "removeIndex" /\ list = {}
NoIndexOf(n) == \A k \in DOMAIN jobs[n].ops : ~OfIndex(jobs[n].ops[k])
IndexLeads ==
  \/ \E n \in DOMAIN jobs :
       /\ \E k \in DOMAIN jobs[n].ops : Leads(jobs[n].ops[k])
       /\ \A m \in DOMAIN jobs : m > n => NoIndexOf(m)
  \/ /\ \A n \in DOMAIN jobs : NoIndexOf(n)
     /\ index.list = list /\ index.ended = ended \intersect list
FilesLead ==
  \A id \in sent \ list, extension \in H!Extensions :
    /\ <<id, extension>> \in files =>
         \E m \in DOMAIN jobs : \E j \in DOMAIN jobs[m].ops : RemovesFile(jobs[m].ops[j], id, extension)
    /\ \A n \in DOMAIN jobs : \A k \in DOMAIN jobs[n].ops : WritesFile(jobs[n].ops[k], id, extension) =>
         \E m \in DOMAIN jobs : \E j \in DOMAIN jobs[m].ops :
           (m > n \/ (m = n /\ j > k)) /\ RemovesFile(jobs[m].ops[j], id, extension)
HistoryEndsFit ==
  /\ missing \subseteq faulty
  /\ phase = "closed" => \A n \in DOMAIN jobs : jobs[n].about \subseteq faulty
  /\ losses = 0 =>
       /\ faulty = {} /\ undo = {} /\ (phase = "closed" => jobs = <<>>)
       /\ IndexLeads /\ FilesLead

HistoryInv ==
  /\ HistoryTyped /\ JobsFit /\ KeptFits /\ SavesFit /\ ListFits
  /\ IndexFits /\ ReadsFit /\ BodiesFit /\ HistoryEndsFit

-----------------------------------------------------------------------------
LEMMA SameOperators ==
  /\ \A Q : H!Cardinality(Q) = Cardinality(Q)
  /\ \A f : H!IsInjective(f) <=> IsInjective(f)
<1>1. \A Q : H!Cardinality(Q) = Cardinality(Q)  BY DEF H!Cardinality, Cardinality
<1>2. \A f : H!IsInjective(f) <=> IsInjective(f)  BY DEF H!IsInjective, IsInjective
<1>3. QED  BY <1>1, <1>2

(***************************************************************************)
(* Sequences of operations.                                                *)
(***************************************************************************)
LEMMA ListedOnce ==
  ASSUME NEW Q, IsFiniteSet(Q)
  PROVE  /\ H!SetToSeq(Q) \in Seq(Q) /\ Len(H!SetToSeq(Q)) \in Nat
         /\ \A x \in Q : \E k \in 1 .. Len(H!SetToSeq(Q)) : H!SetToSeq(Q)[k] = x
<1>1. Cardinality(Q) \in Nat /\ ExistsBijection(1 .. Cardinality(Q), Q)  BY FS_CardinalityType
<1>2. PICK b \in Bijection(1 .. Cardinality(Q), Q) : TRUE  BY <1>1 DEF ExistsBijection
<1>3. b \in [1 .. Cardinality(Q) -> Q] /\ IsInjective(b)
  BY <1>2 DEF Bijection, Injection, IsInjective
<1>4. H!SetToSeq(Q) \in [1 .. Cardinality(Q) -> Q] /\ IsInjective(H!SetToSeq(Q))
  BY <1>3, SameOperators DEF H!SetToSeq
<1>5. Len(H!SetToSeq(Q)) = Cardinality(Q) /\ H!SetToSeq(Q) \in Seq(Q)
  <2>1. H!SetToSeq(Q) \in Seq(Q)  BY <1>1, <1>4
  <2>2. 1 .. Len(H!SetToSeq(Q)) = 1 .. Cardinality(Q) /\ Len(H!SetToSeq(Q)) \in Nat
    BY <1>4, <2>1, LenProperties
  <2>3. \A i, j \in Nat : 1 .. i = 1 .. j => i = j  OBVIOUS
  <2>4. QED  BY <1>1, <2>1, <2>2, <2>3
<1>6. H!SetToSeq(Q) \in Injection(1 .. Cardinality(Q), Q)
  BY <1>4 DEF Injection, IsInjective
<1>7. IsFiniteSet(1 .. Cardinality(Q)) /\ Cardinality(1 .. Cardinality(Q)) = Cardinality(Q)
  BY <1>1, FS_Interval
<1>8. H!SetToSeq(Q) \in Surjection(1 .. Cardinality(Q), Q)
  BY <1>6, <1>7, FS_Injection
<1>9. QED  BY <1>1, <1>5, <1>8 DEF Surjection

LEMMA OddAndEven ==
  ASSUME NEW n \in Nat, NEW l \in Nat, n \in 1 .. 2 * l
  PROVE  /\ (n + 1) \div 2 \in 1 .. l
         /\ n % 2 = 1 \/ (n % 2 = 0 /\ n > 1 /\ (n - 1) % 2 = 1 /\ ((n - 1) + 1) \div 2 = (n + 1) \div 2)
BY SMT

LEMMA PlacesOf ==
  ASSUME NEW k \in Nat, NEW l \in Nat, k \in 1 .. l
  PROVE  /\ 2 * k \in 1 .. 2 * l /\ (2 * k + 1) \div 2 = k /\ (2 * k) % 2 = 0
         /\ 2 * k - 1 \in 1 .. 2 * l /\ ((2 * k - 1) + 1) \div 2 = k /\ (2 * k - 1) % 2 = 1
BY SMT

\* What removing the files of some requests is.
RemovesThose(ops, Q) ==
  /\ ops \in Seq(FileOps)
  /\ \A k \in DOMAIN ops :
       /\ ops[k].do = "remove" /\ ops[k].id \in Q
       /\ ops[k].extension = "body" => k > 1 /\ ops[k - 1] = H!Op("remove", ops[k].id, "json")
  /\ \A id \in Q, extension \in H!Extensions : \E k \in DOMAIN ops : RemovesFile(ops[k], id, extension)

LEMMA RemovalsFit ==
  ASSUME NEW Q \in SUBSET H!Requests, IsFiniteSet(Q)
  PROVE  RemovesThose(H!RemovesAll(Q), Q)
<1> DEFINE order == H!SetToSeq(Q)
           ops == H!RemovesAll(Q)
           l == Len(order)
<1>1. order \in Seq(Q) /\ l \in Nat /\ \A x \in Q : \E k \in 1 .. l : order[k] = x
  BY ListedOnce
<1>2. \A k \in 1 .. l : order[k] \in Q  BY <1>1, ElementOfSeq
<1>3. ops = [n \in 1 .. 2 * l |-> H!Removes(order[(n + 1) \div 2])[2 - (n % 2)]]  BY DEF H!RemovesAll
<1> HIDE DEF order, ops, l
<1>4. 2 * l \in Nat  BY <1>1
<1>5. DOMAIN ops = 1 .. 2 * l  BY <1>3
<1>6. ASSUME NEW n \in 1 .. 2 * l
      PROVE  /\ (n + 1) \div 2 \in 1 .. l
             /\ \/ n % 2 = 1 /\ ops[n] = H!Op("remove", order[(n + 1) \div 2], "json")
                \/ /\ n % 2 = 0 /\ n > 1 /\ ops[n] = H!Op("remove", order[(n + 1) \div 2], "body")
                   /\ (n - 1) % 2 = 1 /\ ((n - 1) + 1) \div 2 = (n + 1) \div 2
  <2>0. n \in Nat  BY <1>4
  <2>1. (n + 1) \div 2 \in 1 .. l /\ (n % 2 = 1 \/ (n % 2 = 0 /\ n > 1 /\ (n - 1) % 2 = 1 /\ ((n - 1) + 1) \div 2 = (n + 1) \div 2))
    BY <1>1, <2>0, OddAndEven
  <2>2. ops[n] = H!Removes(order[(n + 1) \div 2])[2 - (n % 2)]  BY <1>3
  <2>3. n % 2 = 1 => ops[n] = H!Removes(order[(n + 1) \div 2])[1]  BY <2>2
  <2>4. n % 2 = 0 => ops[n] = H!Removes(order[(n + 1) \div 2])[2]
    <3>1. ASSUME n % 2 = 0 PROVE 2 - (n % 2) = 2  BY <3>1
    <3>2. QED  BY <2>2, <3>1
  <2>5. QED  BY <2>1, <2>3, <2>4 DEF H!Removes
<1>7. ASSUME NEW n \in 1 .. 2 * l
      PROVE  \E id \in Q : \/ ops[n] = H!Op("remove", id, "json")
                           \/ n > 1 /\ ops[n] = H!Op("remove", id, "body") /\ ops[n - 1] = H!Op("remove", id, "json")
  <2>1. n - 1 \in 1 .. 2 * l \/ n = 1  BY <1>4
  <2>2. order[(n + 1) \div 2] \in Q  BY <1>2, <1>6
  <2>3. n > 1 /\ (n - 1) % 2 = 1 /\ ((n - 1) + 1) \div 2 = (n + 1) \div 2 =>
          ops[n - 1] = H!Op("remove", order[(n + 1) \div 2], "json")
    <3>1. SUFFICES ASSUME n > 1, (n - 1) % 2 = 1, ((n - 1) + 1) \div 2 = (n + 1) \div 2
                   PROVE  ops[n - 1] = H!Op("remove", order[(n + 1) \div 2], "json")
      OBVIOUS
    <3>2. ops[n - 1] = H!Op("remove", order[((n - 1) + 1) \div 2], "json")  BY <1>6, <2>1, <3>1
    <3>3. QED  BY <3>1, <3>2
  <2>4. QED  BY <1>6, <2>2, <2>3
<1>8. \A n \in 1 .. 2 * l : ops[n] \in FileOps
  <2>1. \A id \in Q : H!Op("remove", id, "json") \in FileOps /\ H!Op("remove", id, "body") \in FileOps
    BY DEF FileOps, H!Op, H!Extensions
  <2>2. QED  BY <1>7, <2>1
<1>13. ops \in Seq(FileOps)
  BY <1>3, <1>4, <1>8
<1>9. ASSUME NEW n \in 1 .. 2 * l
      PROVE  /\ ops[n].do = "remove" /\ ops[n].id \in Q
             /\ ops[n].extension = "body" => n > 1 /\ ops[n - 1] = H!Op("remove", ops[n].id, "json")
  <2>1. PICK id \in Q : \/ ops[n] = H!Op("remove", id, "json")
                        \/ n > 1 /\ ops[n] = H!Op("remove", id, "body") /\ ops[n - 1] = H!Op("remove", id, "json")
    BY <1>7
  <2>2. CASE ops[n] = H!Op("remove", id, "json")  BY <2>2 DEF H!Op
  <2>3. CASE n > 1 /\ ops[n] = H!Op("remove", id, "body") /\ ops[n - 1] = H!Op("remove", id, "json")
    <3>1. ops[n].do = "remove" /\ ops[n].id = id  BY <2>3 DEF H!Op
    <3>2. QED  BY <2>3, <3>1
  <2>4. QED  BY <2>1, <2>2, <2>3
<1>10. ASSUME NEW id \in Q, NEW extension \in H!Extensions
       PROVE  \E k \in DOMAIN ops : RemovesFile(ops[k], id, extension)
  <2>1. PICK k \in 1 .. l : order[k] = id  BY <1>1
  <2>2. k \in Nat  BY <1>1
  <2>3. /\ 2 * k \in 1 .. 2 * l /\ (2 * k + 1) \div 2 = k /\ (2 * k) % 2 = 0
        /\ 2 * k - 1 \in 1 .. 2 * l /\ ((2 * k - 1) + 1) \div 2 = k /\ (2 * k - 1) % 2 = 1
    BY <1>1, <2>2, PlacesOf
  <2>4. CASE extension = "body"
    <3>1. ops[2 * k] = H!Op("remove", order[(2 * k + 1) \div 2], "body")  BY <1>6, <2>3
    <3>2. ops[2 * k] = H!Op("remove", id, "body")  BY <2>1, <2>3, <3>1
    <3>3. QED  BY <1>5, <2>3, <2>4, <3>2 DEF RemovesFile, H!Op
  <2>5. CASE extension = "json"
    <3>1. ops[2 * k - 1] = H!Op("remove", order[((2 * k - 1) + 1) \div 2], "json")  BY <1>6, <2>3
    <3>2. ops[2 * k - 1] = H!Op("remove", id, "json")  BY <2>1, <2>3, <3>1
    <3>3. QED  BY <1>5, <2>3, <2>5, <3>2 DEF RemovesFile, H!Op
  <2>6. QED  BY <2>4, <2>5 DEF H!Extensions
<1>11. RemovesThose(ops, Q)  BY <1>5, <1>13, <1>9, <1>10 DEF RemovesThose
<1>12. QED  BY <1>11 DEF ops

-----------------------------------------------------------------------------
(***************************************************************************)
(* How the queue changes: a job is added, its first operation is done, or  *)
(* it goes.                                                                *)
(***************************************************************************)
LEMMA Added ==
  ASSUME jobs \in Seq(JobSet), NEW job \in JobSet, jobs' = Append(jobs, job)
  PROVE  /\ jobs' \in Seq(JobSet) /\ Len(jobs) \in Nat /\ Len(jobs') = Len(jobs) + 1
         /\ DOMAIN jobs = 1 .. Len(jobs) /\ DOMAIN jobs' = 1 .. Len(jobs) + 1
         /\ jobs'[Len(jobs) + 1] = job /\ \A n \in DOMAIN jobs : jobs'[n] = jobs[n]
<1>1. Len(jobs) \in Nat /\ DOMAIN jobs = 1 .. Len(jobs)  BY LenProperties
<1>2. /\ jobs' \in Seq(JobSet) /\ Len(jobs') = Len(jobs) + 1 /\ jobs'[Len(jobs) + 1] = job
      /\ \A n \in 1 .. Len(jobs) : jobs'[n] = jobs[n]
  BY AppendProperties
<1>3. DOMAIN jobs' = 1 .. Len(jobs')  BY <1>2, LenProperties
<1>4. QED  BY <1>1, <1>2, <1>3

LEMMA Begun ==
  ASSUME jobs \in Seq(JobSet), jobs # <<>>
  PROVE  /\ Len(jobs) \in Nat /\ DOMAIN jobs = 1 .. Len(jobs) /\ 1 \in DOMAIN jobs /\ H!Current = jobs[1]
         /\ \A n \in DOMAIN jobs :
              /\ jobs[n] \in JobSet /\ jobs[n].ops \in Seq(OpSet) /\ Len(jobs[n].ops) \in Nat
              /\ DOMAIN jobs[n].ops = 1 .. Len(jobs[n].ops)
              /\ \A k \in DOMAIN jobs[n].ops : jobs[n].ops[k] \in OpSet
<1>1. Len(jobs) \in Nat /\ DOMAIN jobs = 1 .. Len(jobs) /\ Len(jobs) # 0  BY LenProperties, EmptySeq
<1>2. ASSUME NEW n \in DOMAIN jobs
      PROVE  /\ jobs[n] \in JobSet /\ jobs[n].ops \in Seq(OpSet) /\ Len(jobs[n].ops) \in Nat
             /\ DOMAIN jobs[n].ops = 1 .. Len(jobs[n].ops)
             /\ \A k \in DOMAIN jobs[n].ops : jobs[n].ops[k] \in OpSet
  <2>1. jobs[n] \in JobSet  BY <1>1, ElementOfSeq
  <2>2. jobs[n].ops \in Seq(OpSet)  BY <2>1 DEF JobSet
  <2>3. QED  BY <2>1, <2>2, LenProperties, ElementOfSeq
<1>3. QED  BY <1>1, <1>2 DEF H!Current, H!Taken

LEMMA Done ==
  ASSUME jobs \in Seq(JobSet), jobs # <<>>, H!Current.ops # <<>>, jobs' = H!OpDone
  PROVE  /\ jobs' \in Seq(JobSet) /\ Len(jobs') = Len(jobs) /\ DOMAIN jobs' = DOMAIN jobs /\ jobs' # <<>>
         /\ \A n \in DOMAIN jobs :
              /\ jobs'[n].kind = jobs[n].kind /\ jobs'[n].id = jobs[n].id /\ jobs'[n].about = jobs[n].about
              /\ n # 1 => jobs'[n] = jobs[n]
         /\ Head(H!Current.ops) = jobs[1].ops[1] /\ 1 \in DOMAIN jobs[1].ops
         /\ Len(jobs'[1].ops) = Len(jobs[1].ops) - 1
         /\ \A k \in DOMAIN jobs'[1].ops : k + 1 \in DOMAIN jobs[1].ops /\ jobs'[1].ops[k] = jobs[1].ops[k + 1]
         /\ \A k \in DOMAIN jobs[1].ops : k # 1 => k - 1 \in DOMAIN jobs'[1].ops
                                          /\ jobs'[1].ops[k - 1] = jobs[1].ops[k]
<1>1. /\ Len(jobs) \in Nat /\ DOMAIN jobs = 1 .. Len(jobs) /\ 1 \in DOMAIN jobs /\ H!Current = jobs[1]
      /\ jobs[1] \in JobSet /\ jobs[1].ops \in Seq(OpSet) /\ Len(jobs[1].ops) \in Nat
      /\ DOMAIN jobs[1].ops = 1 .. Len(jobs[1].ops)
  BY Begun
<1> DEFINE job == [jobs[1] EXCEPT !.ops = Tail(@)]
<1>2. /\ Tail(jobs[1].ops) \in Seq(OpSet) /\ Len(Tail(jobs[1].ops)) = Len(jobs[1].ops) - 1
      /\ \A k \in 1 .. Len(Tail(jobs[1].ops)) : Tail(jobs[1].ops)[k] = jobs[1].ops[k + 1]
      /\ Head(jobs[1].ops) = jobs[1].ops[1] /\ Len(jobs[1].ops) # 0
  <2>1. jobs[1].ops # <<>>  BY <1>1
  <2>2. Len(jobs[1].ops) # 0  BY <1>1, <2>1, EmptySeq
  <2>3. QED  BY <1>1, <2>1, <2>2, HeadTailProperties
<1>3. DOMAIN Tail(jobs[1].ops) = 1 .. Len(jobs[1].ops) - 1  BY <1>2, LenProperties
<1>4. /\ job \in JobSet /\ job.ops = Tail(jobs[1].ops)
      /\ job.kind = jobs[1].kind /\ job.id = jobs[1].id /\ job.about = jobs[1].about
  BY <1>1, <1>2 DEF JobSet
<1>5. jobs' = [jobs EXCEPT ![1] = job]  BY <1>1 DEF H!OpDone, H!Taken
<1> HIDE DEF job
<1>6. jobs' \in Seq(JobSet) /\ Len(jobs') = Len(jobs)  BY <1>1, <1>4, <1>5, ExceptSeq
<1>7. DOMAIN jobs' = DOMAIN jobs /\ jobs'[1] = job /\ \A n \in DOMAIN jobs : n # 1 => jobs'[n] = jobs[n]
  BY <1>1, <1>5
<1>8. jobs' # <<>>  BY <1>1, <1>6, EmptySeq
<1>9. \A n \in DOMAIN jobs : jobs'[n].kind = jobs[n].kind /\ jobs'[n].id = jobs[n].id /\ jobs'[n].about = jobs[n].about
  BY <1>4, <1>7
<1>13. DOMAIN jobs'[1].ops = 1 .. Len(jobs[1].ops) - 1 /\ jobs'[1].ops = Tail(jobs[1].ops)
       /\ Len(jobs'[1].ops) = Len(jobs[1].ops) - 1
  BY <1>2, <1>3, <1>4, <1>7
<1>10. \A k \in DOMAIN jobs'[1].ops : k + 1 \in DOMAIN jobs[1].ops /\ jobs'[1].ops[k] = jobs[1].ops[k + 1]
  <2>1. \A k \in 1 .. Len(jobs[1].ops) - 1 : k + 1 \in 1 .. Len(jobs[1].ops)  BY <1>1
  <2>2. QED  BY <1>1, <1>2, <1>13, <2>1
<1>11. \A k \in DOMAIN jobs[1].ops : k # 1 => k - 1 \in DOMAIN jobs'[1].ops /\ jobs'[1].ops[k - 1] = jobs[1].ops[k]
  <2>1. SUFFICES ASSUME NEW k \in 1 .. Len(jobs[1].ops), k # 1
                 PROVE  k - 1 \in 1 .. Len(jobs[1].ops) - 1 /\ jobs[1].ops[(k - 1) + 1] = jobs[1].ops[k]
    BY <1>1, <1>2, <1>13
  <2>2. (k - 1) + 1 = k /\ k - 1 \in 1 .. Len(jobs[1].ops) - 1  BY <1>1, <2>1
  <2>3. QED  BY <2>2
<1>14. Head(H!Current.ops) = jobs[1].ops[1] /\ 1 \in DOMAIN jobs[1].ops  BY <1>1, <1>2
<1>12. QED  BY <1>6, <1>7, <1>8, <1>9, <1>10, <1>11, <1>13, <1>14

LEMMA TakenJobGoes ==
  ASSUME jobs \in Seq(JobSet), jobs # <<>>, jobs' = H!RemoveAt(jobs, H!Taken)
  PROVE  /\ jobs' \in Seq(JobSet) /\ Len(jobs') = Len(jobs) - 1 /\ DOMAIN jobs' = 1 .. Len(jobs) - 1
         /\ \A n \in DOMAIN jobs' : n + 1 \in DOMAIN jobs /\ jobs'[n] = jobs[n + 1]
         /\ \A n \in DOMAIN jobs : n # 1 => n - 1 \in DOMAIN jobs' /\ jobs'[n - 1] = jobs[n]
<1>1. Len(jobs) \in Nat /\ DOMAIN jobs = 1 .. Len(jobs) /\ 1 \in DOMAIN jobs  BY Begun
<1>2. H!RemoveAt(jobs, 1) = SubSeq(jobs, 1, 0) \o SubSeq(jobs, 2, Len(jobs))  BY DEF H!RemoveAt
<1>3. SubSeq(jobs, 1, 0) = <<>> /\ SubSeq(jobs, 2, Len(jobs)) = Tail(jobs)
  BY SubSeqEmpty, TailIsSubSeq
<1>4. Tail(jobs) \in Seq(JobSet) /\ Len(Tail(jobs)) = Len(jobs) - 1
      /\ \A n \in 1 .. Len(Tail(jobs)) : Tail(jobs)[n] = jobs[n + 1]
  BY HeadTailProperties
<1>5. jobs' = Tail(jobs)  BY <1>2, <1>3, <1>4, ConcatEmptySeq DEF H!Taken
<1>6. DOMAIN jobs' = 1 .. Len(jobs) - 1  BY <1>4, <1>5, LenProperties
<1>7. \A n \in DOMAIN jobs' : n + 1 \in DOMAIN jobs /\ jobs'[n] = jobs[n + 1]  BY <1>1, <1>4, <1>5, <1>6
<1>8. ASSUME NEW n \in 1 .. Len(jobs), n # 1
      PROVE  n - 1 \in 1 .. Len(jobs) - 1 /\ jobs'[n - 1] = jobs[n]
  <2>1. n - 1 \in 1 .. Len(jobs) - 1 /\ (n - 1) + 1 = n  BY <1>1, <1>8
  <2>2. jobs'[n - 1] = jobs[(n - 1) + 1]  BY <1>6, <1>7, <2>1
  <2>3. QED  BY <2>1, <2>2
<1>9. QED  BY <1>1, <1>4, <1>5, <1>6, <1>7, <1>8

-----------------------------------------------------------------------------
(***************************************************************************)
(* A change of the list, with the job that saves it.                       *)
(***************************************************************************)
OpFits(job, k) ==
  LET op == job.ops[k] IN
  /\ OfIndex(op) => k = Len(job.ops)
  /\ op.do = "index" => op.list = list' /\ op.ended \intersect list' = ended' \intersect list'
  /\ op.do = "removeIndex" => list' = {}
  /\ op.do = "removeAll" => list' = {} /\ sent' = sent /\ job.about = sent
  /\ op.do = "remove" => op.id \notin list'
  /\ op.do = "write" => op.id \notin sent /\ op.id \in job.about
  /\ op.do = "read" => op.id \in list /\ op.id \in list' /\ op.id \in job.about
  /\ op.do = "write" /\ op.extension = "json" => k > 1 /\ WritesFile(job.ops[k - 1], op.id, "body")
  /\ op.do = "remove" /\ op.extension = "body" => k > 1 /\ job.ops[k - 1] = H!Op("remove", op.id, "json")

Queued(job) ==
  /\ jobs' = Append(jobs, job) /\ phase = "open"
  /\ UNCHANGED <<index, files, faulty, missing, losses>>
  /\ sent \subseteq sent' /\ sent' \subseteq H!Requests
  /\ list' \subseteq list \union (sent' \ sent) /\ Cardinality(list') <= LIMIT
  /\ ended' \subseteq sent' /\ undo' \subseteq undo /\ kept' = kept \intersect list'
  /\ job.about \subseteq sent'
  /\ job.kind = "save" => /\ job.id \in job.about /\ job.about \intersect list' \subseteq {job.id}
                          /\ job.id \notin sent /\ sent' \subseteq sent \union {job.id}
  /\ job.kind = "change" => job.about \intersect list' = {}
  /\ job.kind # "save" => sent' = sent
  /\ IF job.kind = "quit" THEN phase' = "quitting" ELSE phase' = "open"
  /\ \A k \in DOMAIN job.ops : OpFits(job, k)
  /\ IF job.kind \in {"save", "change"} THEN \E k \in DOMAIN job.ops : OfIndex(job.ops[k])
     ELSE list' = list /\ ended' = ended /\ \A k \in DOMAIN job.ops : ~OfIndex(job.ops[k])
  /\ \A id \in list \ list' : id \in job.about /\ job.kind \in {"save", "change"}
  \* what is listed from now on is written
  /\ \A id \in list' \ list : job.kind = "save" /\ job.id = id
  /\ job.kind = "save" /\ job.id \in list' =>
       /\ \A extension \in H!Extensions : \E k \in DOMAIN job.ops : WritesFile(job.ops[k], job.id, extension)
       /\ \E k \in DOMAIN job.ops : job.ops[k].do = "index"
  \* what is not any more is removed
  /\ \A id \in sent' \ list', extension \in H!Extensions : id \in list \/ id \notin sent =>
       \E j \in DOMAIN job.ops :
         /\ RemovesFile(job.ops[j], id, extension)
         /\ \A k \in DOMAIN job.ops : WritesFile(job.ops[k], id, extension) => j > k

LEMMA QueuedTyped ==
  ASSUME HistoryInv, NEW job \in JobSet, Queued(job)
  PROVE  HistoryTyped' /\ JobsFit'
<1>0. HistoryTyped /\ JobsFit  BY DEF HistoryInv
<1>1. /\ jobs' \in Seq(JobSet) /\ Len(jobs) \in Nat /\ Len(jobs') = Len(jobs) + 1
      /\ DOMAIN jobs = 1 .. Len(jobs) /\ DOMAIN jobs' = 1 .. Len(jobs) + 1
      /\ jobs'[Len(jobs) + 1] = job /\ \A n \in DOMAIN jobs : jobs'[n] = jobs[n]
  BY <1>0, Added DEF HistoryTyped, Queued
<1>2. /\ list' \subseteq sent' /\ sent \subseteq sent' /\ Cardinality(list') <= LIMIT
      /\ \A id \in sent : id \in list' => id \in list
  BY <1>0 DEF HistoryTyped, Queued
<1>3. HistoryTyped'
  <2>1. phase' \in {"open", "quitting", "closed"}  BY DEF Queued
  <2>2. files' \subseteq sent' \X H!Extensions  BY <1>0, <1>2 DEF HistoryTyped, Queued
  <2>3. QED  BY <1>0, <1>1, <1>2, <2>1, <2>2 DEF HistoryTyped, Queued
<1>4. JobsFit'
  <2>1. ASSUME NEW n \in DOMAIN jobs
        PROVE  /\ jobs'[n].about \subseteq sent'
               /\ jobs'[n].kind = "save" =>
                    jobs'[n].id \in jobs'[n].about /\ jobs'[n].about \intersect list' \subseteq {jobs'[n].id}
               /\ jobs'[n].kind = "change" => jobs'[n].about \intersect list' = {}
               /\ jobs'[n].kind # "quit"
               /\ \A k \in DOMAIN jobs'[n].ops :
                    LET op == jobs'[n].ops[k] IN
                    /\ OfIndex(op) => k = Len(jobs'[n].ops)
                    /\ op.do = "index" => op.list \subseteq sent' /\ Cardinality(op.list) <= LIMIT
                    /\ op.do \in {"write", "read"} => op.id \in jobs'[n].about
    <3>1. jobs'[n] = jobs[n]  BY <1>1
    <3>2. jobs[n].kind # "quit"  BY <1>0 DEF JobsFit, Queued
    <3>3. jobs[n].about \intersect list' \subseteq jobs[n].about \intersect list
      BY <1>0, <1>2 DEF JobsFit
    <3>4. QED  BY <1>0, <1>2, <3>1, <3>2, <3>3 DEF JobsFit
  <2>2. /\ job.about \subseteq sent'
        /\ job.kind = "save" => job.id \in job.about /\ job.about \intersect list' \subseteq {job.id}
        /\ job.kind = "change" => job.about \intersect list' = {}
        /\ job.kind = "quit" => phase' # "open"
        /\ \A k \in DOMAIN job.ops :
             LET op == job.ops[k] IN
             /\ OfIndex(op) => k = Len(job.ops)
             /\ op.do = "index" => op.list \subseteq sent' /\ Cardinality(op.list) <= LIMIT
             /\ op.do \in {"write", "read"} => op.id \in job.about
    BY <1>2 DEF Queued, OpFits
  <2>3. \A n \in DOMAIN jobs' : n \in DOMAIN jobs \/ (n = Len(jobs') /\ jobs'[n] = job)
    BY <1>1
  <2>4. QED  BY <2>1, <2>2, <2>3 DEF JobsFit
<1>5. QED  BY <1>3, <1>4

LEMMA QueuedSpares ==
  ASSUME HistoryInv, NEW job, Queued(job), NEW id \in list', NEW k \in DOMAIN job.ops
  PROVE  Spares(job.ops[k], id)
<1>1. OpFits(job, k)  BY DEF Queued
<1>2. QED  BY <1>1 DEF OpFits, Spares, RemovesOf, OfIndex

LEMMA QueuedKept ==
  ASSUME HistoryInv, NEW job \in JobSet, Queued(job)
  PROVE  KeptFits' /\ SavesFit' /\ ListFits'
<1>0. HistoryTyped /\ JobsFit /\ KeptFits /\ SavesFit /\ ListFits  BY DEF HistoryInv
<1>1. /\ Len(jobs) \in Nat /\ DOMAIN jobs = 1 .. Len(jobs) /\ DOMAIN jobs' = 1 .. Len(jobs) + 1
      /\ jobs'[Len(jobs) + 1] = job /\ \A n \in DOMAIN jobs : jobs'[n] = jobs[n]
  BY <1>0, Added DEF HistoryTyped, Queued
<1>2. \A n \in DOMAIN jobs' : n \in DOMAIN jobs \/ (n = Len(jobs) + 1 /\ jobs'[n] = job)  BY <1>1
<1>3. \A id \in list' : \A k \in DOMAIN job.ops : Spares(job.ops[k], id)  BY QueuedSpares
<1>4. UNCHANGED <<index, files, faulty>> /\ kept' = kept \intersect list'
      /\ \A id \in sent : id \in list' => id \in list
  BY DEF Queued
<1>5. KeptFits'
  BY <1>0, <1>1, <1>2, <1>3, <1>4 DEF KeptFits
<1>6. SavesFit'
  <2>1. SUFFICES ASSUME NEW n \in DOMAIN jobs', jobs'[n].kind = "save", jobs'[n].id \in list'
                 PROVE  /\ \A extension \in H!Extensions :
                             \/ \E k \in DOMAIN jobs'[n].ops : WritesFile(jobs'[n].ops[k], jobs'[n].id, extension)
                             \/ n = 1 /\ <<jobs'[n].id, extension>> \in files'
                        /\ \/ \E k \in DOMAIN jobs'[n].ops : jobs'[n].ops[k].do = "index"
                           \/ n = 1 /\ jobs'[n].id \in index'.list
                        /\ \A m \in DOMAIN jobs' : m >= n =>
                             \A k \in DOMAIN jobs'[m].ops : Spares(jobs'[m].ops[k], jobs'[n].id)
    BY DEF SavesFit
  <2>2. CASE n \in DOMAIN jobs
    <3>1. jobs'[n] = jobs[n] /\ jobs[n].id \in list  BY <1>0, <1>1, <1>4, <2>1, <2>2 DEF JobsFit
    <3>2. \A m \in DOMAIN jobs' : m >= n => \A k \in DOMAIN jobs'[m].ops : Spares(jobs'[m].ops[k], jobs[n].id)
      BY <1>0, <1>1, <1>2, <1>3, <2>1, <2>2, <3>1 DEF SavesFit
    <3>3. QED  BY <1>0, <1>4, <2>1, <2>2, <3>1, <3>2 DEF SavesFit
  <2>3. CASE n = Len(jobs) + 1 /\ jobs'[n] = job
    <3>1. \A m \in DOMAIN jobs' : m >= n => jobs'[m] = job  BY <1>1, <2>3
    <3>2. QED  BY <1>3, <2>1, <2>3, <3>1 DEF Queued
  <2>4. QED  BY <1>2, <2>2, <2>3
<1>7. ListFits'
  <2>1. SUFFICES ASSUME NEW id \in list'
                 PROVE  \/ id \in kept' \/ id \in faulty'
                        \/ \E n \in DOMAIN jobs' : jobs'[n].kind = "save" /\ jobs'[n].id = id
    BY DEF ListFits
  <2>2. CASE id \in list
    <3>1. \A n \in DOMAIN jobs : n \in DOMAIN jobs' /\ jobs'[n] = jobs[n]  BY <1>1
    <3>2. QED  BY <1>0, <1>4, <2>1, <2>2, <3>1 DEF ListFits
  <2>3. CASE id \notin list
    <3>1. job.kind = "save" /\ job.id = id /\ Len(jobs) + 1 \in DOMAIN jobs'
      BY <1>1, <2>1, <2>3 DEF Queued
    <3>2. QED  BY <1>1, <3>1
  <2>4. QED  BY <2>2, <2>3
<1>8. QED  BY <1>5, <1>6, <1>7

LEMMA QueuedIndex ==
  ASSUME HistoryInv, NEW job \in JobSet, Queued(job)
  PROVE  IndexFits'
<1>0. HistoryTyped /\ JobsFit /\ KeptFits /\ ListFits /\ IndexFits  BY DEF HistoryInv
<1>1. /\ Len(jobs) \in Nat /\ DOMAIN jobs = 1 .. Len(jobs) /\ DOMAIN jobs' = 1 .. Len(jobs) + 1
      /\ jobs'[Len(jobs) + 1] = job /\ \A n \in DOMAIN jobs : jobs'[n] = jobs[n]
      /\ \A n \in DOMAIN jobs : n \in DOMAIN jobs' /\ n < Len(jobs) + 1
  BY <1>0, Added DEF HistoryTyped, Queued
<1>b. PICK last : last = Len(jobs) + 1  OBVIOUS
<1>2. \A n \in DOMAIN jobs' : n \in DOMAIN jobs \/ (n = Len(jobs) + 1 /\ jobs'[n] = job)  BY <1>1
<1>3. UNCHANGED <<index, files, faulty>> /\ kept' = kept \intersect list'
      /\ \A id \in sent : id \in list' => id \in list
  BY DEF Queued
<1>4. \A k \in DOMAIN job.ops : job.ops[k].do = "index" => job.ops[k].list = list'
  BY DEF Queued, OpFits
<1>5. \A id : Told(id) => Told(id)'
  <2>1. SUFFICES ASSUME NEW id, Told(id) PROVE Told(id)'  OBVIOUS
  <2>2. CASE \E n \in DOMAIN jobs : Changing(id, n)
    <3>1. PICK n \in DOMAIN jobs : Changing(id, n)  BY <2>2
    <3>2. Changing(id, n)' /\ n \in DOMAIN jobs'  BY <1>1, <1>b, <3>1 DEF Changing
    <3>3. QED  BY <3>2 DEF Told
  <2>3. CASE id \in kept /\ id \notin list'
    <3>1. id \in job.about /\ job.kind \in {"save", "change"}  BY <1>0, <2>3 DEF KeptFits, Queued
    <3>2. last \in DOMAIN jobs' /\ Changing(id, last)'  BY <1>1, <1>b, <3>1 DEF Changing
    <3>3. QED  BY <3>2 DEF Told
  <2>4. CASE id \in faulty \/ id \in kept \intersect list'  BY <1>3, <2>4 DEF Told
  <2>5. QED  BY <2>1, <2>2, <2>3, <2>4 DEF Told
<1>6. \A id \in list' : Told(id)'
  <2>1. SUFFICES ASSUME NEW id \in list' PROVE Told(id)'  OBVIOUS
  <2>2. CASE id \in list
    <3>1. id \in kept \/ id \in faulty \/ \E n \in DOMAIN jobs : jobs[n].kind = "save" /\ jobs[n].id = id
      BY <1>0, <2>2 DEF ListFits
    <3>2. Told(id)  BY <1>0, <3>1 DEF Told, Changing, JobsFit
    <3>3. QED  BY <1>5, <3>2
  <2>3. CASE id \notin list
    <3>1. job.kind = "save" /\ id \in job.about  BY <2>3 DEF Queued
    <3>2. last \in DOMAIN jobs' /\ Changing(id, last)'  BY <1>1, <1>b, <3>1 DEF Changing
    <3>3. QED  BY <3>2 DEF Told
  <2>4. QED  BY <2>2, <2>3
<1>7. \A id \in index'.list : Told(id)'  BY <1>0, <1>3, <1>5 DEF IndexFits, ChangesFit
<1>8. \A n \in DOMAIN jobs' : \A k \in DOMAIN jobs'[n].ops :
        jobs'[n].ops[k].do = "index" => \A id \in jobs'[n].ops[k].list : Told(id)'
  BY <1>0, <1>1, <1>2, <1>4, <1>5, <1>6 DEF IndexFits, ChangesFit
<1>9. ASSUME NEW n \in DOMAIN jobs', NEW id \in jobs'[n].about \ list', jobs'[n].kind \in {"save", "change"}
      PROVE  \/ \E m \in DOMAIN jobs' : m > n /\ Changing(id, m)'
             \/ /\ \A m \in DOMAIN jobs' : m >= n =>
                     \A k \in DOMAIN jobs'[m].ops : jobs'[m].ops[k].do = "index" => id \notin jobs'[m].ops[k].list
                /\ (\E k \in DOMAIN jobs'[n].ops : OfIndex(jobs'[n].ops[k])) \/ (n = 1 /\ id \notin index'.list)
  <2>1. CASE n \in DOMAIN jobs /\ id \in list
    <3>1. id \in job.about /\ job.kind \in {"save", "change"}  BY <1>9, <2>1 DEF Queued
    <3>2. last \in DOMAIN jobs' /\ Changing(id, last)' /\ last > n
      BY <1>1, <1>b, <2>1, <3>1 DEF Changing
    <3>3. QED  BY <3>2
  <2>2. CASE n \in DOMAIN jobs /\ id \notin list
    <3>1. jobs'[n] = jobs[n] /\ id \in jobs[n].about \ list  BY <1>1, <1>9, <2>2
    <3>2. CASE \E m \in DOMAIN jobs : m > n /\ Changing(id, m)
      <4>1. PICK m \in DOMAIN jobs : m > n /\ Changing(id, m)  BY <3>2
      <4>2. m \in DOMAIN jobs' /\ Changing(id, m)'  BY <1>1, <4>1 DEF Changing
      <4>3. QED  BY <4>1, <4>2
    <3>3. CASE ~\E m \in DOMAIN jobs : m > n /\ Changing(id, m)
      <4>1. /\ \A m \in DOMAIN jobs : m >= n =>
                 \A k \in DOMAIN jobs[m].ops : jobs[m].ops[k].do = "index" => id \notin jobs[m].ops[k].list
            /\ (\E k \in DOMAIN jobs[n].ops : OfIndex(jobs[n].ops[k])) \/ (n = 1 /\ id \notin index.list)
        BY <1>0, <1>9, <2>2, <3>1, <3>3 DEF IndexFits, ChangesFit
      <4>2. \A m \in DOMAIN jobs' : m >= n =>
              \A k \in DOMAIN jobs'[m].ops : jobs'[m].ops[k].do = "index" => id \notin jobs'[m].ops[k].list
        BY <1>1, <1>2, <1>4, <1>9, <4>1
      <4>3. QED  BY <1>3, <3>1, <4>1, <4>2
    <3>4. QED  BY <3>2, <3>3
  <2>3. CASE n = Len(jobs) + 1 /\ jobs'[n] = job
    <3>1. \A m \in DOMAIN jobs' : m >= n => jobs'[m] = job  BY <1>1, <2>3
    <3>2. \E k \in DOMAIN job.ops : OfIndex(job.ops[k])  BY <1>9, <2>3 DEF Queued
    <3>3. QED  BY <1>4, <1>9, <2>3, <3>1, <3>2
  <2>4. QED  BY <1>2, <2>1, <2>2, <2>3
<1>10. QED  BY <1>7, <1>8, <1>9 DEF IndexFits, ChangesFit

LEMMA QueuedReads ==
  ASSUME HistoryInv, NEW job \in JobSet, Queued(job)
  PROVE  ReadsFit'
<1>0. HistoryTyped /\ JobsFit /\ KeptFits /\ SavesFit /\ ListFits /\ ReadsFit  BY DEF HistoryInv
<1>1. /\ Len(jobs) \in Nat /\ DOMAIN jobs = 1 .. Len(jobs) /\ DOMAIN jobs' = 1 .. Len(jobs) + 1
      /\ jobs'[Len(jobs) + 1] = job /\ \A n \in DOMAIN jobs : jobs'[n] = jobs[n]
      /\ \A n \in DOMAIN jobs : n \in DOMAIN jobs' /\ n < Len(jobs) + 1
  BY <1>0, Added DEF HistoryTyped, Queued
<1>2. \A n \in DOMAIN jobs' : n \in DOMAIN jobs \/ (n = Len(jobs) + 1 /\ jobs'[n] = job)  BY <1>1
<1>3. UNCHANGED <<files, faulty>>  BY DEF Queued
<1>4. SUFFICES ASSUME NEW n \in DOMAIN jobs', NEW k \in DOMAIN jobs'[n].ops,
                      jobs'[n].ops[k].do = "read", jobs'[n].ops[k].id \notin faulty,
                      NEW id, id = jobs'[n].ops[k].id
               PROVE  \/ /\ <<id, "json">> \in files
                         /\ \A m \in DOMAIN jobs' : m <= n => \A j \in DOMAIN jobs'[m].ops : ~RemovesOf(jobs'[m].ops[j], id)
                      \/ \E w \in DOMAIN jobs' :
                           /\ w < n /\ id \in jobs'[w].about
                           /\ \E j \in DOMAIN jobs'[w].ops : WritesFile(jobs'[w].ops[j], id, "json")
                           /\ \A m \in DOMAIN jobs' : m >= w /\ m <= n =>
                                \A j \in DOMAIN jobs'[m].ops : ~RemovesOf(jobs'[m].ops[j], id)
  BY <1>3 DEF ReadsFit
<1>5. CASE n \in DOMAIN jobs
  <2>1. jobs'[n] = jobs[n] /\ \A m \in DOMAIN jobs' : m <= n => m \in DOMAIN jobs /\ jobs'[m] = jobs[m]
    BY <1>1, <1>5
  <2>2. CASE /\ <<id, "json">> \in files
             /\ \A m \in DOMAIN jobs : m <= n => \A j \in DOMAIN jobs[m].ops : ~RemovesOf(jobs[m].ops[j], id)
    BY <2>1, <2>2
  <2>3. CASE \E w \in DOMAIN jobs :
               /\ w < n /\ id \in jobs[w].about
               /\ \E j \in DOMAIN jobs[w].ops : WritesFile(jobs[w].ops[j], id, "json")
               /\ \A m \in DOMAIN jobs : m >= w /\ m <= n =>
                    \A j \in DOMAIN jobs[m].ops : ~RemovesOf(jobs[m].ops[j], id)
    <3>1. PICK w \in DOMAIN jobs :
               /\ w < n /\ id \in jobs[w].about
               /\ \E j \in DOMAIN jobs[w].ops : WritesFile(jobs[w].ops[j], id, "json")
               /\ \A m \in DOMAIN jobs : m >= w /\ m <= n =>
                    \A j \in DOMAIN jobs[m].ops : ~RemovesOf(jobs[m].ops[j], id)
      BY <2>3
    <3>2. w \in DOMAIN jobs' /\ jobs'[w] = jobs[w]  BY <1>1
    <3>3. QED  BY <2>1, <3>1, <3>2
  <2>4. QED  BY <1>0, <1>4, <1>5, <2>1, <2>2, <2>3 DEF ReadsFit
<1>6. CASE n = Len(jobs) + 1 /\ jobs'[n] = job
  <2>1. id \in list /\ id \in list'  BY <1>4, <1>6 DEF Queued, OpFits
  <2>2. \A j \in DOMAIN job.ops : ~RemovesOf(job.ops[j], id)  BY <2>1, QueuedSpares DEF Spares
  <2>3. CASE id \in kept
    <3>1. <<id, "json">> \in files  BY <1>0, <2>3 DEF KeptFits, H!Extensions
    <3>2. \A m \in DOMAIN jobs : \A j \in DOMAIN jobs[m].ops : ~RemovesOf(jobs[m].ops[j], id)
      BY <1>0, <2>3 DEF KeptFits, Spares
    <3>3. QED  BY <1>1, <1>2, <2>2, <3>1, <3>2
  <2>4. CASE \E w \in DOMAIN jobs : jobs[w].kind = "save" /\ jobs[w].id = id
    <3>1. PICK w \in DOMAIN jobs : jobs[w].kind = "save" /\ jobs[w].id = id  BY <2>4
    <3>2. /\ \/ \E j \in DOMAIN jobs[w].ops : WritesFile(jobs[w].ops[j], id, "json")
             \/ w = 1 /\ <<id, "json">> \in files
          /\ \A m \in DOMAIN jobs : m >= w => \A j \in DOMAIN jobs[m].ops : ~RemovesOf(jobs[m].ops[j], id)
      BY <1>0, <2>1, <3>1 DEF SavesFit, Spares, H!Extensions
    <3>3. id \in jobs[w].about  BY <1>0, <3>1 DEF JobsFit
    <3>4. \A m \in DOMAIN jobs' : m >= w => \A j \in DOMAIN jobs'[m].ops : ~RemovesOf(jobs'[m].ops[j], id)
      BY <1>1, <1>2, <2>2, <3>2
    <3>5. CASE w = 1 /\ <<id, "json">> \in files
      <4>1. \A m \in DOMAIN jobs' : m >= w  BY <1>1, <3>5
      <4>2. QED  BY <3>4, <3>5, <4>1
    <3>6. CASE \E j \in DOMAIN jobs[w].ops : WritesFile(jobs[w].ops[j], id, "json")
      <4>1. w \in DOMAIN jobs' /\ jobs'[w] = jobs[w] /\ w < n  BY <1>1, <1>6
      <4>2. QED  BY <3>3, <3>4, <3>6, <4>1
    <3>7. QED  BY <3>2, <3>5, <3>6
  <2>5. QED  BY <1>0, <1>4, <2>1, <2>3, <2>4 DEF ListFits
<1>7. QED  BY <1>2, <1>5, <1>6

LEMMA QueuedBodies ==
  ASSUME HistoryInv, NEW job \in JobSet, Queued(job)
  PROVE  BodiesFit'
<1>0. HistoryTyped /\ JobsFit /\ BodiesFit  BY DEF HistoryInv
<1>1. /\ Len(jobs) \in Nat /\ DOMAIN jobs = 1 .. Len(jobs) /\ DOMAIN jobs' = 1 .. Len(jobs) + 1
      /\ jobs'[Len(jobs) + 1] = job /\ \A n \in DOMAIN jobs : jobs'[n] = jobs[n]
  BY <1>0, Added DEF HistoryTyped, Queued
<1>2. \A n \in DOMAIN jobs' : n \in DOMAIN jobs \/ (n = Len(jobs) + 1 /\ jobs'[n] = job)  BY <1>1
<1>3. UNCHANGED <<files, faulty>> /\ sent \subseteq sent'  BY DEF Queued
<1>4. \A id \in sent' \ sent, extension \in H!Extensions :
        /\ <<id, extension>> \notin files
        /\ \A m \in DOMAIN jobs : \A j \in DOMAIN jobs[m].ops : ~WritesFile(jobs[m].ops[j], id, extension)
  BY <1>0 DEF HistoryTyped, JobsFit, WritesFile
<1>5. H!RecordsAreWhole'
  BY <1>0, <1>3, <1>4 DEF BodiesFit, BodiesPaired, H!RecordsAreWhole, H!Extensions
<1>6. ASSUME NEW n \in DOMAIN jobs', NEW k \in DOMAIN jobs'[n].ops, NEW op, op = jobs'[n].ops[k]
      PROVE  /\ op.do = "write" /\ op.extension = "json" =>
                  \/ k > 1 /\ WritesFile(jobs'[n].ops[k - 1], op.id, "body")
                  \/ k = 1 /\ n = 1 /\ <<op.id, "body">> \in files'
             /\ op.do = "remove" /\ op.extension = "body" =>
                  \/ k > 1 /\ jobs'[n].ops[k - 1] = H!Op("remove", op.id, "json")
                  \/ k = 1 /\ n = 1 /\ <<op.id, "json">> \notin files'
             /\ op.do = "removeAll" => \A id \in sent' \ jobs'[n].about :
                  /\ \A extension \in H!Extensions : <<id, extension>> \notin files'
                  /\ \A m \in DOMAIN jobs' : m <= n => \A j \in DOMAIN jobs'[m].ops :
                       \A extension \in H!Extensions : ~WritesFile(jobs'[m].ops[j], id, extension)
  <2>1. CASE n \in DOMAIN jobs
    <3>1. jobs'[n] = jobs[n] /\ \A m \in DOMAIN jobs' : m <= n => m \in DOMAIN jobs /\ jobs'[m] = jobs[m]
      BY <1>1, <2>1
    <3>2. op.do = "removeAll" => \A id \in sent' \ jobs[n].about :
             /\ \A extension \in H!Extensions : <<id, extension>> \notin files
             /\ \A m \in DOMAIN jobs : m <= n => \A j \in DOMAIN jobs[m].ops :
                  \A extension \in H!Extensions : ~WritesFile(jobs[m].ops[j], id, extension)
      BY <1>0, <1>4, <1>6, <2>1, <3>1 DEF BodiesFit, BodiesPaired
    <3>3. op.do = "removeAll" => \A id \in sent' \ jobs'[n].about :
             /\ \A extension \in H!Extensions : <<id, extension>> \notin files'
             /\ \A m \in DOMAIN jobs' : m <= n => \A j \in DOMAIN jobs'[m].ops :
                  \A extension \in H!Extensions : ~WritesFile(jobs'[m].ops[j], id, extension)
      BY <1>3, <3>1, <3>2
    <3>4. QED  BY <1>0, <1>3, <1>6, <2>1, <3>1, <3>3 DEF BodiesFit, BodiesPaired
  <2>2. CASE n = Len(jobs) + 1 /\ jobs'[n] = job
    <3>1. OpFits(job, k)  BY <1>6, <2>2 DEF Queued
    <3>2. op.do = "removeAll" => sent' \ jobs'[n].about = {}  BY <1>6, <2>2, <3>1 DEF OpFits
    <3>3. QED  BY <1>6, <2>2, <3>1, <3>2 DEF OpFits
  <2>3. QED  BY <1>2, <2>1, <2>2
<1>7. QED  BY <1>5, <1>6 DEF BodiesFit, BodiesPaired

LEMMA QueuedEnds ==
  ASSUME HistoryInv, NEW job \in JobSet, Queued(job)
  PROVE  HistoryEndsFit'
<1>0. HistoryTyped /\ JobsFit /\ HistoryEndsFit  BY DEF HistoryInv
<1>1. /\ Len(jobs) \in Nat /\ DOMAIN jobs = 1 .. Len(jobs) /\ DOMAIN jobs' = 1 .. Len(jobs) + 1
      /\ jobs'[Len(jobs) + 1] = job /\ \A n \in DOMAIN jobs : jobs'[n] = jobs[n]
      /\ Len(jobs) + 1 \in DOMAIN jobs' /\ \A n \in DOMAIN jobs : n \in DOMAIN jobs' /\ n < Len(jobs) + 1
  BY <1>0, Added DEF HistoryTyped, Queued
<1>2. \A n \in DOMAIN jobs' : n \in DOMAIN jobs \/ (n = Len(jobs) + 1 /\ jobs'[n] = job)  BY <1>1
<1>3. UNCHANGED <<index, files, faulty, missing, losses>> /\ phase' # "closed"
      /\ undo' \subseteq undo /\ \A id \in sent : id \in list' => id \in list
  BY DEF Queued
<1>4. ASSUME losses = 0 PROVE IndexLeads'
  <2>1. CASE job.kind \in {"save", "change"}
    <3>1. PICK k \in DOMAIN job.ops : OfIndex(job.ops[k])  BY <2>1 DEF Queued
    <3>2. Leads(job.ops[k])'  BY <3>1 DEF Queued, OpFits, Leads, OfIndex
    <3>3. \A m \in DOMAIN jobs' : m > Len(jobs) + 1 => NoIndexOf(m)'  BY <1>1
    <3>4. QED  BY <1>1, <3>2, <3>3 DEF IndexLeads
  <2>2. CASE job.kind \notin {"save", "change"}
    <3>1. list' = list /\ ended' = ended /\ \A k \in DOMAIN job.ops : ~OfIndex(job.ops[k])
      BY <2>2 DEF Queued
    <3>a. PICK last : last = Len(jobs) + 1  OBVIOUS
    <3>b. NoIndexOf(last)'  BY <1>1, <3>1, <3>a DEF NoIndexOf
    <3>c. ASSUME NEW n \in DOMAIN jobs, NoIndexOf(n) PROVE NoIndexOf(n)'
      BY <1>1, <3>c DEF NoIndexOf
    <3>2. ASSUME NEW n \in DOMAIN jobs', n \in DOMAIN jobs => NoIndexOf(n) PROVE NoIndexOf(n)'
      BY <1>2, <3>2, <3>a, <3>b, <3>c
    <3>3. CASE \E n \in DOMAIN jobs :
                 /\ \E k \in DOMAIN jobs[n].ops : Leads(jobs[n].ops[k])
                 /\ \A m \in DOMAIN jobs : m > n => NoIndexOf(m)
      <4>1. PICK n \in DOMAIN jobs :
                 /\ \E k \in DOMAIN jobs[n].ops : Leads(jobs[n].ops[k])
                 /\ \A m \in DOMAIN jobs : m > n => NoIndexOf(m)
        BY <3>3
      <4>2. \E k \in DOMAIN jobs'[n].ops : Leads(jobs[n].ops[k])'
        BY <1>1, <3>1, <4>1 DEF Leads
      <4>3. ASSUME NEW m \in DOMAIN jobs', m > n PROVE NoIndexOf(m)'  BY <3>2, <4>1, <4>3
      <4>4. QED  BY <1>1, <4>2, <4>3 DEF IndexLeads
    <3>4. CASE /\ \A n \in DOMAIN jobs : NoIndexOf(n)
               /\ index.list = list /\ index.ended = ended \intersect list
      <4>1. ASSUME NEW n \in DOMAIN jobs' PROVE NoIndexOf(n)'  BY <3>2, <3>4, <4>1
      <4>2. QED  BY <1>3, <3>1, <3>4, <4>1 DEF IndexLeads
    <3>5. QED  BY <1>0, <1>4, <3>3, <3>4 DEF HistoryEndsFit, IndexLeads
  <2>3. QED  BY <2>1, <2>2
<1>5. ASSUME losses = 0 PROVE FilesLead'
  <2>1. SUFFICES ASSUME NEW id \in sent' \ list', NEW extension \in H!Extensions
                 PROVE  /\ <<id, extension>> \in files' =>
                             \E m \in DOMAIN jobs' : \E j \in DOMAIN jobs'[m].ops : RemovesFile(jobs'[m].ops[j], id, extension)
                        /\ \A n \in DOMAIN jobs' : \A k \in DOMAIN jobs'[n].ops : WritesFile(jobs'[n].ops[k], id, extension) =>
                             \E m \in DOMAIN jobs' : \E j \in DOMAIN jobs'[m].ops :
                               (m > n \/ (m = n /\ j > k)) /\ RemovesFile(jobs'[m].ops[j], id, extension)
    BY DEF FilesLead
  <2>2. CASE id \in list \/ id \notin sent
    <3>1. PICK j \in DOMAIN job.ops :
            /\ RemovesFile(job.ops[j], id, extension)
            /\ \A k \in DOMAIN job.ops : WritesFile(job.ops[k], id, extension) => j > k
      BY <2>1, <2>2 DEF Queued
    <3>2. Len(jobs) + 1 \in DOMAIN jobs' /\ j \in DOMAIN jobs'[Len(jobs) + 1].ops
          /\ RemovesFile(jobs'[Len(jobs) + 1].ops[j], id, extension)
      BY <1>1, <3>1
    <3>3. ASSUME NEW n \in DOMAIN jobs', NEW k \in DOMAIN jobs'[n].ops, WritesFile(jobs'[n].ops[k], id, extension)
          PROVE  Len(jobs) + 1 > n \/ (Len(jobs) + 1 = n /\ j > k)
      BY <1>1, <1>2, <3>1, <3>3
    <3>4. QED  BY <3>2, <3>3
  <2>3. CASE id \in sent /\ id \notin list
    <3>0. FilesLead  BY <1>0, <1>5 DEF HistoryEndsFit
    <3>1. <<id, extension>> \in files' =>
            \E m \in DOMAIN jobs' : \E j \in DOMAIN jobs'[m].ops : RemovesFile(jobs'[m].ops[j], id, extension)
      BY <1>1, <1>3, <2>3, <3>0 DEF FilesLead
    <3>2. ASSUME NEW n \in DOMAIN jobs', NEW k \in DOMAIN jobs'[n].ops, WritesFile(jobs'[n].ops[k], id, extension)
          PROVE  \E m \in DOMAIN jobs' : \E j \in DOMAIN jobs'[m].ops :
                   (m > n \/ (m = n /\ j > k)) /\ RemovesFile(jobs'[m].ops[j], id, extension)
      <4>1. n \in DOMAIN jobs
        <5>1. SUFFICES ASSUME jobs'[n] = job PROVE FALSE  BY <1>2
        <5>2. job.ops[k].id \notin sent  BY <3>2, <5>1 DEF Queued, OpFits, WritesFile
        <5>3. QED  BY <2>3, <3>2, <5>1, <5>2 DEF WritesFile
      <4>2. WritesFile(jobs[n].ops[k], id, extension) /\ k \in DOMAIN jobs[n].ops  BY <1>1, <3>2, <4>1
      <4>3. PICK m \in DOMAIN jobs : \E j \in DOMAIN jobs[m].ops :
                   (m > n \/ (m = n /\ j > k)) /\ RemovesFile(jobs[m].ops[j], id, extension)
        BY <2>3, <3>0, <4>1, <4>2 DEF FilesLead
      <4>4. m \in DOMAIN jobs' /\ jobs'[m] = jobs[m]  BY <1>1
      <4>5. QED  BY <4>3, <4>4
    <3>3. QED  BY <3>1, <3>2
  <2>4. QED  BY <2>2, <2>3
<1>6. QED  BY <1>0, <1>3, <1>4, <1>5 DEF HistoryEndsFit

LEMMA QueuedKeeps ==
  ASSUME HistoryInv, NEW job \in JobSet, Queued(job)
  PROVE  HistoryInv'
BY QueuedTyped, QueuedKept, QueuedIndex, QueuedReads, QueuedBodies, QueuedEnds DEF HistoryInv

-----------------------------------------------------------------------------
(***************************************************************************)
(* The jobs of the changes.                                                *)
(***************************************************************************)
LEMMA SmallestOf ==
  ASSUME NEW T, T \subseteq Nat, T # {}
  PROVE  \E n \in T : \A m \in T : n <= m
<1>1. PICK n \in T : \A m \in T : ~(<<m, n>> \in OpToRel(<, Nat))
  BY NatLessThanWellFounded, WFMin
<1>2. \A m \in T : ~(m < n)  BY <1>1 DEF OpToRel
<1>3. QED  BY <1>2

LEMMA FewRequests ==
  ASSUME SizesAssumed, NEW Q \in SUBSET H!Requests
  PROVE  IsFiniteSet(Q) /\ Cardinality(Q) \in Nat
<1>1. IsFiniteSet(H!Requests)  BY FS_Interval DEF SizesAssumed, H!Requests
<1>2. QED  BY <1>1, FS_Subset, FS_CardinalityType

\* What is not beyond LIMIT is no more than LIMIT.
LEMMA NewestFit ==
  ASSUME SizesAssumed, NEW all \in SUBSET H!Requests
  PROVE  Cardinality(all \ H!Oldest(all)) <= LIMIT
<1> DEFINE rest == all \ H!Oldest(all)
<1>1. CASE rest = {}  BY <1>1, FS_EmptySet DEF SizesAssumed
<1>2. CASE rest # {}
  <2>1. rest \subseteq Nat
    <3>1. H!Requests \subseteq Nat  BY DEF SizesAssumed, H!Requests
    <3>2. QED  BY <3>1
  <2>2. PICK m \in rest : \A id \in rest : m <= id  BY <1>2, <2>1, SmallestOf
  <2>3. rest \subseteq {newer \in all : newer >= m}  BY <2>1, <2>2
  <2>4. IsFiniteSet({newer \in all : newer >= m}) /\ Cardinality({newer \in all : newer >= m}) \in Nat
    BY FewRequests
  <2>5. Cardinality({newer \in all : newer >= m}) <= LIMIT
    BY <2>2, <2>4, SameOperators DEF H!Oldest, SizesAssumed
  <2>6. Cardinality(rest) \in Nat /\ Cardinality(rest) <= Cardinality({newer \in all : newer >= m})
    BY <2>3, <2>4, FewRequests, FS_Subset
  <2>7. QED  BY <2>4, <2>5, <2>6 DEF SizesAssumed
<1>3. QED  BY <1>1, <1>2

\* A removal of files that ends with the index, after some other operations.
IndexLast(ops, pre, Q, to, over) ==
  /\ ops \in Seq(OpSet) /\ Len(ops) \in Nat /\ DOMAIN ops = 1 .. Len(ops)
  /\ Len(ops) > Len(pre) /\ \A k \in 1 .. Len(pre) : ops[k] = pre[k]
  /\ Len(ops) \in DOMAIN ops /\ ops[Len(ops)] = [do |-> "index", list |-> to, ended |-> over]
  /\ \A k \in DOMAIN ops : k > Len(pre) /\ k # Len(ops) =>
       /\ ops[k].do = "remove" /\ ops[k].id \in Q
       /\ ops[k].extension = "body" => k > 1 /\ ops[k - 1] = H!Op("remove", ops[k].id, "json")
  /\ \A id \in Q, extension \in H!Extensions :
       \E k \in DOMAIN ops : k > Len(pre) /\ RemovesFile(ops[k], id, extension)

LEMMA RemovalThenIndex ==
  ASSUME SizesAssumed, NEW pre \in Seq(FileOps), NEW Q \in SUBSET H!Requests,
         NEW to \in SUBSET H!Requests, NEW over \in SUBSET H!Requests
  PROVE  IndexLast(pre \o H!RemovesAll(Q) \o H!WriteIndex(to, over), pre, Q, to, over)
<1> DEFINE mid == H!RemovesAll(Q)
           last == [do |-> "index", list |-> to, ended |-> over]
           ops == pre \o H!RemovesAll(Q) \o H!WriteIndex(to, over)
           p == Len(pre)
           r == Len(mid)
<1>1. RemovesThose(mid, Q)  BY FewRequests, RemovalsFit
<1> HIDE DEF mid
<1>2. mid \in Seq(FileOps) /\ p \in Nat /\ r \in Nat /\ DOMAIN mid = 1 .. r
  BY <1>1, LenProperties DEF RemovesThose
<1>3. /\ pre \o mid \in Seq(FileOps) /\ Len(pre \o mid) = p + r
      /\ \A i \in 1 .. p + r : (pre \o mid)[i] = IF i <= p THEN pre[i] ELSE mid[i - p]
  BY <1>2, ConcatProperties
<1>4. FileOps \subseteq OpSet /\ last \in OpSet  BY DEF OpSet
<1>5. pre \o mid \in Seq(OpSet)  BY <1>3, <1>4
<1>6. ops = (pre \o mid) \o <<last>>  BY DEF mid, H!WriteIndex
<1> HIDE DEF ops
<1>7. ops = Append(pre \o mid, last)  BY <1>4, <1>5, <1>6, AppendIsConcat
<1> HIDE DEF last
<1>8. /\ ops \in Seq(OpSet) /\ Len(ops) = p + r + 1 /\ ops[p + r + 1] = last
      /\ \A i \in 1 .. p + r : ops[i] = (pre \o mid)[i]
  BY <1>3, <1>4, <1>5, <1>7, AppendProperties
<1>9. DOMAIN ops = 1 .. p + r + 1  BY <1>8, LenProperties
<1>10. \A k \in 1 .. p : ops[k] = pre[k]  BY <1>2, <1>3, <1>8
<1>11. \A k \in 1 .. r : p + k \in 1 .. p + r /\ p + k \in DOMAIN ops /\ ops[p + k] = mid[k]
  <2>1. ASSUME NEW k \in 1 .. r
        PROVE  p + k \in 1 .. p + r /\ p + k \in DOMAIN ops /\ ops[p + k] = mid[k]
    <3>1. p + k \in 1 .. p + r /\ ~(p + k <= p) /\ (p + k) - p = k /\ p + k \in 1 .. p + r + 1
      BY <1>2
    <3>2. ops[p + k] = mid[(p + k) - p]  BY <1>3, <1>8, <3>1
    <3>3. QED  BY <1>9, <3>1, <3>2
  <2>2. QED  BY <2>1
<1>12. ASSUME NEW k \in DOMAIN ops, k > p, k # Len(ops)
       PROVE  /\ ops[k].do = "remove" /\ ops[k].id \in Q
              /\ ops[k].extension = "body" => k > 1 /\ ops[k - 1] = H!Op("remove", ops[k].id, "json")
  <2>1. PICK i \in 1 .. r : k = p + i
    <3>0. k \in 1 .. p + r + 1 /\ k # p + r + 1 /\ k > p  BY <1>8, <1>9, <1>12
    <3>1. k - p \in 1 .. r /\ k = p + (k - p)
      <4>1. \A a, b \in Nat : \A i \in 1 .. a + b + 1 : i # a + b + 1 /\ i > a => i - a \in 1 .. b /\ i = a + (i - a)
        OBVIOUS
      <4>2. QED  BY <1>2, <3>0, <4>1
    <3>2. QED  BY <3>1
  <2>2. ops[k] = mid[i]  BY <1>11, <2>1
  <2>3. /\ mid[i].do = "remove" /\ mid[i].id \in Q
        /\ mid[i].extension = "body" => i > 1 /\ mid[i - 1] = H!Op("remove", mid[i].id, "json")
    BY <1>1, <1>2 DEF RemovesThose
  <2>4. ASSUME i > 1 PROVE k > 1 /\ ops[k - 1] = mid[i - 1]
    <3>1. i - 1 \in 1 .. r /\ k - 1 = p + (i - 1)  BY <1>2, <2>1, <2>4
    <3>2. ops[p + (i - 1)] = mid[i - 1]  BY <1>11, <3>1
    <3>3. QED  BY <1>2, <2>1, <2>4, <3>1, <3>2
  <2>5. QED  BY <2>2, <2>3, <2>4
<1>13. ASSUME NEW id \in Q, NEW extension \in H!Extensions
       PROVE  \E k \in DOMAIN ops : k > p /\ RemovesFile(ops[k], id, extension)
  <2>1. PICK i \in 1 .. r : RemovesFile(mid[i], id, extension)  BY <1>1, <1>2 DEF RemovesThose
  <2>2. p + i > p /\ p + i \in DOMAIN ops /\ ops[p + i] = mid[i]  BY <1>2, <1>11
  <2>3. QED  BY <2>1, <2>2
<1>14. Len(ops) \in Nat /\ Len(ops) > p /\ Len(ops) \in DOMAIN ops  BY <1>2, <1>8, <1>9
<1>15. IndexLast(ops, pre, Q, to, over)  BY <1>8, <1>9, <1>10, <1>12, <1>13, <1>14 DEF last, IndexLast
<1>16. QED  BY <1>15 DEF ops

LEMMA RecordKeeps ==
  ASSUME SizesAssumed, HistoryInv, NEW id \in H!Requests, H!Record(id)
  PROVE  HistoryInv'
<1> DEFINE removed == H!Oldest(list \union {id})
           entries == (list \union {id}) \ removed
           pre == <<H!Op("write", id, "body"), H!Op("write", id, "json")>>
           ops == pre \o H!RemovesAll(removed) \o H!WriteIndex(entries, ended)
           job == H!Job("save", id, {id} \union removed, ops)
<1>0. /\ sent \subseteq H!Requests /\ list \subseteq sent /\ ended \subseteq sent /\ kept \subseteq list
  BY DEF HistoryInv, HistoryTyped, KeptFits
<1>1. /\ phase = "open" /\ id \notin sent /\ jobs' = Append(jobs, job) /\ list' = entries
      /\ kept' = kept \ removed /\ sent' = sent \union {id}
      /\ UNCHANGED <<phase, ended, undo, index, files, faulty, missing, losses>>
  BY DEF H!Record, H!Queues
<1>2. removed \subseteq list \union {id}  BY DEF H!Oldest
<1>3. list \union {id} \in SUBSET H!Requests /\ removed \in SUBSET H!Requests /\ entries \in SUBSET H!Requests
      /\ ended \in SUBSET H!Requests
  BY <1>0, <1>2
<1>4. Cardinality(entries) <= LIMIT  BY <1>3, NewestFit
<1>5. pre \in Seq(FileOps) /\ Len(pre) = 2 /\ pre[1] = H!Op("write", id, "body") /\ pre[2] = H!Op("write", id, "json")
  <2>1. H!Op("write", id, "body") \in FileOps /\ H!Op("write", id, "json") \in FileOps
    BY DEF H!Op, FileOps, H!Extensions
  <2>2. QED  BY <2>1
<1>a. ops = pre \o H!RemovesAll(removed) \o H!WriteIndex(entries, ended)  OBVIOUS
<1> HIDE DEF removed, pre, ops, entries
<1>6. /\ ops \in Seq(OpSet) /\ Len(ops) \in Nat /\ DOMAIN ops = 1 .. Len(ops) /\ Len(ops) > 2
      /\ ops[1] = H!Op("write", id, "body") /\ ops[2] = H!Op("write", id, "json")
      /\ Len(ops) \in DOMAIN ops /\ ops[Len(ops)] = [do |-> "index", list |-> entries, ended |-> ended]
      /\ \A k \in DOMAIN ops : k > 2 /\ k # Len(ops) =>
           /\ ops[k].do = "remove" /\ ops[k].id \in removed
           /\ ops[k].extension = "body" => k > 1 /\ ops[k - 1] = H!Op("remove", ops[k].id, "json")
      /\ \A x \in removed, extension \in H!Extensions :
           \E k \in DOMAIN ops : k > 2 /\ RemovesFile(ops[k], x, extension)
  <2>1. \A k \in 1 .. Len(pre) : k \in {1, 2}  BY <1>5
  <2>2. 1 \in 1 .. Len(pre) /\ 2 \in 1 .. Len(pre)  BY <1>5
  <2>3. IndexLast(ops, pre, removed, entries, ended)  BY <1>3, <1>5, <1>a, RemovalThenIndex
  <2>4. QED  BY <1>5, <2>2, <2>3 DEF IndexLast
<1> USE DEF entries
<1>7. job.kind = "save" /\ job.id = id /\ job.about = {id} \union removed /\ job.ops = ops /\ job \in JobSet
  BY <1>3, <1>6 DEF H!Job, JobSet, H!Requests
<1> HIDE DEF job
<1>8. \A k \in DOMAIN ops : k = 1 \/ k = 2 \/ (k > 2 /\ k # Len(ops)) \/ k = Len(ops)
  BY <1>6
<1>9. ASSUME NEW k \in DOMAIN job.ops PROVE OpFits(job, k)
  <2>1. CASE k = 1
    <3>1. job.ops[k] = H!Op("write", id, "body")  BY <1>6, <1>7, <2>1
    <3>2. QED  BY <1>1, <1>7, <3>1 DEF OpFits, H!Op, OfIndex, WritesFile
  <2>2. CASE k = 2
    <3>1. job.ops[k] = H!Op("write", id, "json") /\ k > 1 /\ job.ops[k - 1] = H!Op("write", id, "body")
      BY <1>6, <1>7, <2>2
    <3>2. QED  BY <1>1, <1>7, <3>1 DEF OpFits, H!Op, OfIndex, WritesFile
  <2>3. CASE k > 2 /\ k # Len(ops)
    <3>1. /\ job.ops[k].do = "remove" /\ job.ops[k].id \in removed
          /\ job.ops[k].extension = "body" => k > 1 /\ job.ops[k - 1] = H!Op("remove", job.ops[k].id, "json")
      BY <1>6, <1>7, <1>9, <2>3
    <3>2. QED  BY <1>1, <3>1 DEF OpFits, OfIndex
  <2>4. CASE k = Len(ops)
    <3>1. job.ops[k] = [do |-> "index", list |-> entries, ended |-> ended] /\ k = Len(job.ops)
      BY <1>6, <1>7, <2>4
    <3>2. QED  BY <1>1, <3>1 DEF OpFits, OfIndex
  <2>5. QED  BY <1>7, <1>8, <1>9, <2>1, <2>2, <2>3, <2>4
<1>10. \A k \in DOMAIN ops, x \in H!Requests, extension \in H!Extensions : WritesFile(ops[k], x, extension) => k \in {1, 2}
  <2>1. \A k \in DOMAIN ops : k > 2 => ops[k].do # "write"
    <3>1. ops[Len(ops)].do # "write"  BY <1>6
    <3>2. QED  BY <1>6, <3>1
  <2>2. QED  BY <1>8, <2>1 DEF WritesFile
<1>11. \A extension \in H!Extensions : \E k \in DOMAIN ops : WritesFile(ops[k], id, extension)
  <2>1. 1 \in DOMAIN ops /\ 2 \in DOMAIN ops  BY <1>6
  <2>2. WritesFile(ops[1], id, "body") /\ WritesFile(ops[2], id, "json")  BY <1>6 DEF WritesFile, H!Op
  <2>3. QED  BY <2>1, <2>2 DEF H!Extensions
<1>12. ASSUME NEW x \in sent' \ list', NEW extension \in H!Extensions, x \in list \/ x \notin sent
       PROVE  \E j \in DOMAIN ops :
                /\ RemovesFile(ops[j], x, extension)
                /\ \A k \in DOMAIN ops : WritesFile(ops[k], x, extension) => j > k
  <2>1. x \in removed /\ x \in H!Requests  BY <1>0, <1>1, <1>12
  <2>2. PICK j \in DOMAIN ops : j > 2 /\ RemovesFile(ops[j], x, extension)  BY <1>6, <2>1
  <2>3. \A k \in DOMAIN ops : WritesFile(ops[k], x, extension) => j > k
    <3>1. j > 1 /\ j > 2  BY <1>6, <2>2
    <3>2. QED  BY <1>10, <2>1, <3>1
  <2>4. QED  BY <2>2, <2>3
<1>13. \E k \in DOMAIN ops : OfIndex(ops[k]) /\ ops[k].do = "index"  BY <1>6 DEF OfIndex
<1>14. job.about \subseteq sent' /\ job.about \intersect list' \subseteq {id} /\ kept' = kept \intersect list'
       /\ list' \subseteq list \union (sent' \ sent) /\ sent' \subseteq H!Requests
  BY <1>0, <1>1, <1>2, <1>7
<1>15. Queued(job)
  BY <1>0, <1>1, <1>4, <1>7, <1>9, <1>11, <1>12, <1>13, <1>14 DEF Queued
<1>16. QED  BY <1>7, <1>15, QueuedKeeps

LEMMA EndKeeps ==
  ASSUME SizesAssumed, HistoryInv, NEW id \in H!Requests, H!End(id)
  PROVE  HistoryInv'
<1> DEFINE job == H!Job("change", 0, {}, H!WriteIndex(list, ended \union {id}))
<1>0. /\ sent \subseteq H!Requests /\ list \subseteq sent /\ ended \subseteq sent /\ kept \subseteq list
      /\ Cardinality(list) <= LIMIT
  BY DEF HistoryInv, HistoryTyped, KeptFits
<1>1. /\ phase = "open" /\ id \in list /\ jobs' = Append(jobs, job) /\ ended' = ended \union {id}
      /\ UNCHANGED <<phase, list, undo, index, files, sent, kept, faulty, missing, losses>>
  BY DEF H!End, H!Queues
<1>2. /\ job.kind = "change" /\ job.about = {}
      /\ job.ops = <<[do |-> "index", list |-> list, ended |-> ended \union {id}]>>
  BY DEF H!Job, H!WriteIndex
<1>3. job \in JobSet
  <2>1. [do |-> "index", list |-> list, ended |-> ended \union {id}] \in OpSet  BY <1>0 DEF OpSet
  <2>2. <<[do |-> "index", list |-> list, ended |-> ended \union {id}]>> \in Seq(OpSet)  BY <2>1
  <2>3. QED  BY <2>2 DEF H!Job, JobSet, H!WriteIndex
<1> HIDE DEF job
<1>4. DOMAIN job.ops = {1} /\ Len(job.ops) = 1
      /\ job.ops[1] = [do |-> "index", list |-> list, ended |-> ended \union {id}]
  BY <1>2
<1>5. \A k \in DOMAIN job.ops : OpFits(job, k)  BY <1>1, <1>4 DEF OpFits, OfIndex
<1>6. Queued(job)
  <2>1. \E k \in DOMAIN job.ops : OfIndex(job.ops[k])  BY <1>4 DEF OfIndex
  <2>2. kept' = kept \intersect list'  BY <1>0, <1>1
  <2>3. QED  BY <1>0, <1>1, <1>2, <1>5, <2>1, <2>2 DEF Queued
<1>7. QED  BY <1>3, <1>6, QueuedKeeps

LEMMA DeletesKeep ==
  ASSUME SizesAssumed, HistoryInv, NEW id \in H!Requests, H!Deletes(id), phase = "open", undo' \subseteq undo,
         UNCHANGED <<phase, ended, index, files, sent, faulty, missing, losses>>
  PROVE  HistoryInv'
<1> DEFINE removed == {id} \intersect list
           ops == H!RemovesAll(removed) \o H!WriteIndex(list \ {id}, ended)
           job == H!Job("change", 0, removed, ops)
<1>0. /\ sent \subseteq H!Requests /\ list \subseteq sent /\ ended \subseteq sent /\ kept \subseteq list
      /\ Cardinality(list) <= LIMIT
  BY DEF HistoryInv, HistoryTyped, KeptFits
<1>1. jobs' = Append(jobs, job) /\ list' = list \ {id} /\ kept' = kept \ {id}
  BY DEF H!Deletes, H!Queues
<1>2. removed \in SUBSET H!Requests /\ list \ {id} \in SUBSET H!Requests /\ ended \in SUBSET H!Requests /\ list \in SUBSET H!Requests
  BY <1>0
<1>3. Cardinality(list \ {id}) <= LIMIT
  <2>1. Cardinality(list \ {id}) <= Cardinality(list) /\ Cardinality(list \ {id}) \in Nat /\ Cardinality(list) \in Nat
    BY <1>2, FewRequests, FS_Subset
  <2>2. QED  BY <1>0, <2>1 DEF SizesAssumed
<1>4. /\ ops \in Seq(OpSet) /\ Len(ops) \in Nat /\ DOMAIN ops = 1 .. Len(ops)
      /\ Len(ops) \in DOMAIN ops /\ ops[Len(ops)] = [do |-> "index", list |-> list \ {id}, ended |-> ended]
      /\ \A k \in DOMAIN ops : k # Len(ops) =>
           /\ ops[k].do = "remove" /\ ops[k].id \in removed
           /\ ops[k].extension = "body" => k > 1 /\ ops[k - 1] = H!Op("remove", ops[k].id, "json")
      /\ \A x \in removed, extension \in H!Extensions : \E k \in DOMAIN ops : RemovesFile(ops[k], x, extension)
  <2>1. <<>> \in Seq(FileOps) /\ Len(<<>>) = 0  BY EmptySeq
  <2>2. H!RemovesAll(removed) \in Seq(FileOps)  BY <1>2, FewRequests, RemovalsFit DEF RemovesThose
  <2>3. <<>> \o H!RemovesAll(removed) = H!RemovesAll(removed)  BY <2>2, ConcatEmptySeq
  <2>a. PICK pre : pre = <<>>  OBVIOUS
  <2>4. ops = pre \o H!RemovesAll(removed) \o H!WriteIndex(list \ {id}, ended)  BY <2>3, <2>a
  <2>b. pre \in Seq(FileOps) /\ Len(pre) = 0  BY <2>1, <2>a
  <2> HIDE DEF ops, removed
  <2>5. IndexLast(ops, pre, removed, list \ {id}, ended)  BY <1>2, <2>b, <2>4, RemovalThenIndex
  <2>6. \A k \in DOMAIN ops : k > Len(pre)  BY <2>b, <2>5 DEF IndexLast
  <2>7. QED  BY <2>5, <2>6 DEF IndexLast
<1> HIDE DEF ops
<1>5. job.kind = "change" /\ job.about = removed /\ job.ops = ops /\ job \in JobSet
  BY <1>2, <1>4 DEF H!Job, JobSet
<1> HIDE DEF job
<1>6. ASSUME NEW k \in DOMAIN job.ops PROVE OpFits(job, k)
  <2>1. CASE k # Len(ops)
    <3>1. /\ job.ops[k].do = "remove" /\ job.ops[k].id \in removed
          /\ job.ops[k].extension = "body" => k > 1 /\ job.ops[k - 1] = H!Op("remove", job.ops[k].id, "json")
      BY <1>4, <1>5, <1>6, <2>1
    <3>2. QED  BY <1>1, <3>1 DEF OpFits, OfIndex
  <2>2. CASE k = Len(ops)
    <3>1. job.ops[k] = [do |-> "index", list |-> list \ {id}, ended |-> ended] /\ k = Len(job.ops)
      BY <1>4, <1>5, <2>2
    <3>2. QED  BY <1>1, <3>1 DEF OpFits, OfIndex
  <2>3. QED  BY <2>1, <2>2
<1>7. ASSUME NEW x \in sent' \ list', NEW extension \in H!Extensions, x \in list \/ x \notin sent
      PROVE  \E j \in DOMAIN ops :
               /\ RemovesFile(ops[j], x, extension)
               /\ \A k \in DOMAIN ops : WritesFile(ops[k], x, extension) => j > k
  <2>1. x \in removed  BY <1>1, <1>7
  <2>2. PICK j \in DOMAIN ops : RemovesFile(ops[j], x, extension)  BY <1>4, <2>1
  <2>3. \A k \in DOMAIN ops : ops[k].do # "write"
    <3>1. ops[Len(ops)].do # "write"  BY <1>4
    <3>2. QED  BY <1>4, <3>1
  <2>4. QED  BY <2>2, <2>3 DEF WritesFile
<1>8. /\ kept' = kept \intersect list' /\ job.about \subseteq sent' /\ job.about \intersect list' = {}
      /\ \A x \in list \ list' : x \in job.about
  BY <1>0, <1>1, <1>5
<1>9. \E k \in DOMAIN ops : OfIndex(ops[k])  BY <1>4 DEF OfIndex
<1>10. Queued(job)
  BY <1>0, <1>1, <1>3, <1>5, <1>6, <1>7, <1>8, <1>9 DEF Queued
<1>11. QED  BY <1>5, <1>10, QueuedKeeps

LEMMA ClearKeeps ==
  ASSUME SizesAssumed, HistoryInv, H!Clear
  PROVE  HistoryInv'
<1> DEFINE ops == <<[do |-> "removeAll"], [do |-> "removeIndex"]>>
           job == H!Job("change", 0, sent, ops)
<1>0. sent \subseteq H!Requests /\ ended \subseteq sent  BY DEF HistoryInv, HistoryTyped
<1>1. /\ phase = "open" /\ list' = {} /\ kept' = {} /\ jobs' = Append(jobs, job)
      /\ UNCHANGED <<phase, ended, undo, index, files, sent, faulty, missing, losses>>
  BY DEF H!Clear, H!Queues
<1>2. /\ ops \in Seq(OpSet) /\ DOMAIN ops = {1, 2} /\ Len(ops) = 2
      /\ ops[1] = [do |-> "removeAll"] /\ ops[2] = [do |-> "removeIndex"]
  <2>1. [do |-> "removeAll"] \in OpSet /\ [do |-> "removeIndex"] \in OpSet  BY DEF OpSet
  <2>2. QED  BY <2>1
<1>a. ops[1].do = "removeAll" /\ ops[2].do = "removeIndex"  OBVIOUS
<1> HIDE DEF ops
<1>3. job.kind = "change" /\ job.about = sent /\ job.ops = ops /\ job \in JobSet
  BY <1>0, <1>2 DEF H!Job, JobSet
<1> HIDE DEF job
<1>4. \A k \in DOMAIN job.ops : OpFits(job, k)  BY <1>1, <1>2, <1>3, <1>a DEF OpFits, OfIndex
<1>5. Cardinality(list') <= LIMIT  BY <1>1, FS_EmptySet DEF SizesAssumed
<1>6. \A x \in sent' \ list', extension \in H!Extensions : \E j \in DOMAIN ops :
        /\ RemovesFile(ops[j], x, extension)
        /\ \A k \in DOMAIN ops : WritesFile(ops[k], x, extension) => j > k
  <2>1. 1 \in DOMAIN ops /\ \A x, extension : RemovesFile(ops[1], x, extension)  BY <1>2, <1>a DEF RemovesFile
  <2>2. \A k \in DOMAIN ops : ops[k].do # "write"  BY <1>2, <1>a
  <2>3. QED  BY <2>1, <2>2 DEF WritesFile
<1>7. \E k \in DOMAIN ops : OfIndex(ops[k])  BY <1>2, <1>a DEF OfIndex
<1>8. /\ list' \subseteq list \union (sent' \ sent) /\ kept' = kept \intersect list'
      /\ job.about \subseteq sent' /\ job.about \intersect list' = {} /\ \A x \in list \ list' : x \in job.about
  BY <1>1, <1>3 DEF HistoryInv, HistoryTyped
<1>9. Queued(job)
  BY <1>0, <1>1, <1>3, <1>4, <1>5, <1>6, <1>7, <1>8 DEF Queued
<1>10. QED  BY <1>3, <1>9, QueuedKeeps

LEMMA OpenKeeps ==
  ASSUME SizesAssumed, HistoryInv, NEW id \in H!Requests, H!Open(id)
  PROVE  HistoryInv'
<1> DEFINE ops == <<[do |-> "read", id |-> id]>>
           job == H!Job("read", id, {id}, ops)
<1>0. /\ sent \subseteq H!Requests /\ list \subseteq sent /\ ended \subseteq sent /\ kept \subseteq list
      /\ Cardinality(list) <= LIMIT
  BY DEF HistoryInv, HistoryTyped, KeptFits
<1>1. /\ phase = "open" /\ id \in list /\ jobs' = Append(jobs, job)
      /\ UNCHANGED <<phase, list, ended, undo, index, files, sent, kept, faulty, missing, losses>>
  BY DEF H!Open, H!Reads, H!Queues
<1>2. ops \in Seq(OpSet) /\ DOMAIN ops = {1} /\ Len(ops) = 1 /\ ops[1] = [do |-> "read", id |-> id]
  <2>1. [do |-> "read", id |-> id] \in OpSet  BY DEF OpSet
  <2>2. QED  BY <2>1
<1> HIDE DEF ops
<1>3. job.kind = "read" /\ job.about = {id} /\ job.ops = ops /\ job \in JobSet
  BY <1>2 DEF H!Job, JobSet, H!Requests
<1> HIDE DEF job
<1>4. \A k \in DOMAIN job.ops : OpFits(job, k) /\ ~OfIndex(job.ops[k])
  BY <1>1, <1>2, <1>3 DEF OpFits, OfIndex
<1>5. kept' = kept \intersect list' /\ job.about \subseteq sent'  BY <1>0, <1>1, <1>3
<1>6. Queued(job)
  BY <1>0, <1>1, <1>3, <1>4, <1>5 DEF Queued
<1>7. QED  BY <1>3, <1>6, QueuedKeeps

LEMMA QuitKeeps ==
  ASSUME SizesAssumed, HistoryInv, H!Quit
  PROVE  HistoryInv'
<1> DEFINE job == H!Job("quit", 0, {}, <<>>)
<1>0. /\ sent \subseteq H!Requests /\ list \subseteq sent /\ ended \subseteq sent /\ kept \subseteq list
      /\ Cardinality(list) <= LIMIT
  BY DEF HistoryInv, HistoryTyped, KeptFits
<1>1. /\ phase = "open" /\ phase' = "quitting" /\ jobs' = Append(jobs, job)
      /\ UNCHANGED <<list, ended, undo, index, files, sent, kept, faulty, missing, losses>>
  BY DEF H!Quit, H!Queues
<1>2. job.kind = "quit" /\ job.about = {} /\ DOMAIN job.ops = {} /\ job \in JobSet
  <2>1. <<>> \in Seq(OpSet) /\ DOMAIN <<>> = {}  BY EmptySeq
  <2>2. QED  BY <2>1 DEF H!Job, JobSet
<1> HIDE DEF job
<1>3. Queued(job)
  <2>1. kept' = kept \intersect list'  BY <1>0, <1>1
  <2>2. QED  BY <1>0, <1>1, <1>2, <2>1 DEF Queued
<1>4. QED  BY <1>2, <1>3, QueuedKeeps

LEMMA PanelKeeps ==
  ASSUME SizesAssumed, HistoryInv, H!Panel \/ H!Clear \/ H!Quit
  PROVE  HistoryInv'
<1>1. ASSUME NEW id \in H!Requests, H!Delete(id) PROVE HistoryInv'
  BY <1>1, DeletesKeep DEF H!Delete
<1>2. ASSUME NEW id \in H!Requests, H!Undo(id) PROVE HistoryInv'
  BY <1>2, DeletesKeep DEF H!Undo
<1>3. QED  BY <1>1, <1>2, RecordKeeps, EndKeeps, OpenKeeps, ClearKeeps, QuitKeeps DEF H!Panel

-----------------------------------------------------------------------------
(***************************************************************************)
(* The worker does an operation.                                           *)
(***************************************************************************)
Shift(op) ==
  /\ op \in OpSet /\ H!Does(op) /\ phase # "closed" /\ 1 \in DOMAIN jobs[1].ops
  /\ jobs' \in Seq(JobSet) /\ Len(jobs') = Len(jobs)
  /\ Len(jobs) \in Nat /\ DOMAIN jobs = 1 .. Len(jobs) /\ DOMAIN jobs' = DOMAIN jobs /\ 1 \in DOMAIN jobs
  /\ \A n \in DOMAIN jobs :
       /\ jobs'[n].kind = jobs[n].kind /\ jobs'[n].id = jobs[n].id /\ jobs'[n].about = jobs[n].about
       /\ DOMAIN jobs[n].ops = 1 .. Len(jobs[n].ops) /\ Len(jobs[n].ops) \in Nat
       /\ DOMAIN jobs'[n].ops \subseteq Nat \ {0}
       /\ Len(jobs'[n].ops) = (IF n = 1 THEN Len(jobs[n].ops) - 1 ELSE Len(jobs[n].ops))
       /\ \A k \in DOMAIN jobs'[n].ops : \E o \in DOMAIN jobs[n].ops :
            o = (IF n = 1 THEN k + 1 ELSE k) /\ jobs'[n].ops[k] = jobs[n].ops[o]
       /\ \A o \in DOMAIN jobs[n].ops : (n = 1 /\ o = 1) \/ \E k \in DOMAIN jobs'[n].ops :
            o = (IF n = 1 THEN k + 1 ELSE k) /\ jobs'[n].ops[k] = jobs[n].ops[o]
  /\ UNCHANGED <<phase, list, ended, undo, sent, kept, faulty, losses>>

LEMMA Shifted ==
  ASSUME HistoryTyped, H!Works, NEW op, op = jobs[1].ops[1]
  PROVE  Shift(op)
<1>1. jobs \in Seq(JobSet) /\ jobs # <<>> /\ H!Current.ops # <<>> /\ jobs' = H!OpDone  BY DEF HistoryTyped, H!Works
<1>2. /\ Len(jobs) \in Nat /\ DOMAIN jobs = 1 .. Len(jobs) /\ 1 \in DOMAIN jobs
      /\ \A n \in DOMAIN jobs :
           /\ DOMAIN jobs[n].ops = 1 .. Len(jobs[n].ops) /\ Len(jobs[n].ops) \in Nat
           /\ \A k \in DOMAIN jobs[n].ops : jobs[n].ops[k] \in OpSet
  BY <1>1, Begun
<1>3. /\ jobs' \in Seq(JobSet) /\ Len(jobs') = Len(jobs) /\ DOMAIN jobs' = DOMAIN jobs /\ jobs' # <<>>
      /\ \A n \in DOMAIN jobs :
           /\ jobs'[n].kind = jobs[n].kind /\ jobs'[n].id = jobs[n].id /\ jobs'[n].about = jobs[n].about
           /\ n # 1 => jobs'[n] = jobs[n]
      /\ Head(H!Current.ops) = jobs[1].ops[1] /\ 1 \in DOMAIN jobs[1].ops
      /\ Len(jobs'[1].ops) = Len(jobs[1].ops) - 1
      /\ \A k \in DOMAIN jobs'[1].ops : k + 1 \in DOMAIN jobs[1].ops /\ jobs'[1].ops[k] = jobs[1].ops[k + 1]
      /\ \A k \in DOMAIN jobs[1].ops : k # 1 => k - 1 \in DOMAIN jobs'[1].ops
                                       /\ jobs'[1].ops[k - 1] = jobs[1].ops[k]
  BY <1>1, Done
<1>4. H!Does(op) /\ phase # "closed" /\ op \in OpSet  BY <1>2, <1>3 DEF H!Works
<1>5. ASSUME NEW n \in DOMAIN jobs
      PROVE  /\ DOMAIN jobs'[n].ops \subseteq Nat \ {0}
             /\ Len(jobs'[n].ops) = (IF n = 1 THEN Len(jobs[n].ops) - 1 ELSE Len(jobs[n].ops))
             /\ \A k \in DOMAIN jobs'[n].ops : \E o \in DOMAIN jobs[n].ops :
                  o = (IF n = 1 THEN k + 1 ELSE k) /\ jobs'[n].ops[k] = jobs[n].ops[o]
             /\ \A o \in DOMAIN jobs[n].ops : (n = 1 /\ o = 1) \/ \E k \in DOMAIN jobs'[n].ops :
                  o = (IF n = 1 THEN k + 1 ELSE k) /\ jobs'[n].ops[k] = jobs[n].ops[o]
  <2>1. CASE n # 1
    <3>1. jobs'[n] = jobs[n]  BY <1>3, <2>1
    <3>2. QED  BY <1>2, <2>1, <3>1
  <2>2. CASE n = 1
    <3>1. jobs'[1] \in JobSet /\ 1 \in DOMAIN jobs'  BY <1>2, <1>3, ElementOfSeq
    <3>2. jobs'[1].ops \in Seq(OpSet)  BY <3>1 DEF JobSet
    <3>3. DOMAIN jobs'[1].ops = 1 .. Len(jobs'[1].ops)  BY <3>2, LenProperties
    <3>4. ASSUME NEW o \in DOMAIN jobs[1].ops, o # 1
          PROVE  \E k \in DOMAIN jobs'[1].ops : o = k + 1 /\ jobs'[1].ops[k] = jobs[1].ops[o]
      <4>1. o - 1 \in DOMAIN jobs'[1].ops /\ jobs'[1].ops[o - 1] = jobs[1].ops[o] /\ o = (o - 1) + 1
        BY <1>2, <1>3, <3>4
      <4>2. QED  BY <4>1
    <3>5. QED  BY <1>2, <1>3, <2>2, <3>3, <3>4
  <2>3. QED  BY <2>1, <2>2
<1>6. QED  BY <1>2, <1>3, <1>4, <1>5 DEF H!Works, Shift

\* What an operation leaves of the files and the saved list.
LEMMA Effects ==
  ASSUME NEW op \in OpSet, H!Does(op)
  PROVE  /\ files' \subseteq files \union {<<op.id, op.extension>>}
         /\ op.do # "write" => files' \subseteq files
         /\ \A id, extension : WritesFile(op, id, extension) => files' = files \union {<<id, extension>>}
         /\ \A id \in H!Requests, extension \in H!Extensions :
              RemovesFile(op, id, extension) => <<id, extension>> \notin files'
         /\ \A id \in H!Requests, extension \in H!Extensions :
              ~RemovesOf(op, id) /\ <<id, extension>> \in files => <<id, extension>> \in files'
         /\ op.do = "index" => index' = [list |-> op.list, ended |-> op.ended \intersect op.list]
         /\ op.do = "removeIndex" => index' = [list |-> {}, ended |-> {}]
         /\ ~OfIndex(op) => index' = index
         /\ op.do # "read" => missing' = missing
         /\ op.do = "read" => missing' = missing \union {id \in {op.id} : <<id, "json">> \notin files}
<1>1. CASE op \in FileOps /\ op.do = "write"
  BY <1>1 DEF H!Does, WritesFile, RemovesFile, RemovesOf, OfIndex
<1>2. CASE op \in FileOps /\ op.do = "remove"
  BY <1>2 DEF H!Does, WritesFile, RemovesFile, RemovesOf, OfIndex
<1>3. CASE op.do = "removeAll"
  BY <1>3 DEF H!Does, WritesFile, RemovesFile, RemovesOf, OfIndex
<1>4. CASE op.do = "removeIndex"
  BY <1>4 DEF H!Does, WritesFile, RemovesFile, RemovesOf, OfIndex
<1>5. CASE op.do = "index"
  BY <1>5 DEF H!Does, WritesFile, RemovesFile, RemovesOf, OfIndex
<1>6. CASE op.do = "read"
  BY <1>6 DEF H!Does, WritesFile, RemovesFile, RemovesOf, OfIndex
<1>7. QED  BY <1>1, <1>2, <1>3, <1>4, <1>5, <1>6 DEF OpSet, FileOps

LEMMA WorksTyped ==
  ASSUME SizesAssumed, HistoryInv, H!Works
  PROVE  HistoryTyped' /\ JobsFit'
<1>0. HistoryTyped /\ JobsFit  BY DEF HistoryInv
<1>1. PICK op : op = jobs[1].ops[1]  OBVIOUS
<1>2. Shift(op)  BY <1>0, <1>1, Shifted
<1>3. op \in OpSet /\ H!Does(op)  BY <1>2 DEF Shift
<1>4. HistoryTyped'
  <2>1. /\ index' = [list |-> index'.list, ended |-> index'.ended]
        /\ index'.list \subseteq sent /\ index'.ended \subseteq index'.list /\ Cardinality(index'.list) <= LIMIT
    <3>1. CASE op.do = "index"
      <4>1. index' = [list |-> op.list, ended |-> op.ended \intersect op.list]  BY <1>3, <3>1, Effects
      <4>2. op.list \subseteq sent /\ Cardinality(op.list) <= LIMIT  BY <1>0, <1>1, <1>2, <3>1 DEF JobsFit, Shift
      <4>3. QED  BY <4>1, <4>2
    <3>2. CASE op.do = "removeIndex"
      <4>1. index' = [list |-> {}, ended |-> {}]  BY <1>3, <3>2, Effects
      <4>2. QED  BY <4>1, FS_EmptySet DEF SizesAssumed
    <3>3. CASE ~OfIndex(op)
      <4>1. index' = index  BY <1>3, <3>3, Effects
      <4>2. QED  BY <1>0, <4>1 DEF HistoryTyped
    <3>4. QED  BY <3>1, <3>2, <3>3 DEF OfIndex
  <2>2. files' \subseteq sent \X H!Extensions
    <3>1. CASE op.do = "write"
      <4>1. op.id \in sent  BY <1>0, <1>1, <1>2, <3>1 DEF JobsFit, Shift
      <4>2. op.extension \in H!Extensions  BY <1>3, <3>1 DEF OpSet, FileOps
      <4>3. QED  BY <1>0, <1>3, <4>1, <4>2, Effects DEF HistoryTyped
    <3>2. CASE op.do # "write"  BY <1>0, <1>3, <3>2, Effects DEF HistoryTyped
    <3>3. QED  BY <3>1, <3>2
  <2>3. QED  BY <1>0, <1>2, <2>1, <2>2 DEF HistoryTyped, Shift
<1>5. JobsFit'
  <2>1. ASSUME NEW n \in DOMAIN jobs, NEW k \in DOMAIN jobs'[n].ops
        PROVE  LET o == jobs'[n].ops[k] IN
               /\ OfIndex(o) => k = Len(jobs'[n].ops)
               /\ o.do = "index" => o.list \subseteq sent' /\ Cardinality(o.list) <= LIMIT
               /\ o.do \in {"write", "read"} => o.id \in jobs'[n].about
    <3>1. PICK i \in DOMAIN jobs[n].ops : i = (IF n = 1 THEN k + 1 ELSE k) /\ jobs'[n].ops[k] = jobs[n].ops[i]
      BY <1>2, <2>1 DEF Shift
    <3>2. k \in Nat /\ Len(jobs[n].ops) \in Nat /\ jobs'[n].about = jobs[n].about /\ sent' = sent
          /\ Len(jobs'[n].ops) = (IF n = 1 THEN Len(jobs[n].ops) - 1 ELSE Len(jobs[n].ops))
      BY <1>2, <2>1 DEF Shift
    <3>3. i = Len(jobs[n].ops) => k = Len(jobs'[n].ops)  BY <3>1, <3>2
    <3>4. QED  BY <1>0, <3>1, <3>2, <3>3 DEF JobsFit
  <2>2. QED  BY <1>0, <1>2, <2>1 DEF JobsFit, Shift
<1>6. QED  BY <1>4, <1>5

LEMMA WorksKept ==
  ASSUME SizesAssumed, HistoryInv, H!Works
  PROVE  KeptFits' /\ SavesFit' /\ ListFits'
<1>0. HistoryTyped /\ JobsFit /\ KeptFits /\ SavesFit /\ ListFits  BY DEF HistoryInv
<1>1. PICK op : op = jobs[1].ops[1]  OBVIOUS
<1>2. Shift(op)  BY <1>0, <1>1, Shifted
<1>3. op \in OpSet /\ H!Does(op) /\ list \subseteq H!Requests  BY <1>0, <1>2 DEF Shift, HistoryTyped
<1>4. ASSUME NEW id \in list, Spares(op, id)
      PROVE  /\ id \in index.list => id \in index'.list
             /\ op.do = "index" => id \in index'.list
             /\ \A extension \in H!Extensions : <<id, extension>> \in files => <<id, extension>> \in files'
  <2>1. ~RemovesOf(op, id) /\ op.do # "removeIndex" /\ (op.do = "index" => id \in op.list)
    BY <1>4 DEF Spares
  <2>2. op.do = "index" => id \in index'.list  BY <1>3, <2>1, Effects
  <2>3. op.do # "index" => index' = index  BY <1>3, <2>1, Effects DEF OfIndex
  <2>4. QED  BY <1>3, <2>1, <2>2, <2>3, Effects
<1>5. \A id, n : n \in DOMAIN jobs /\ (\A k \in DOMAIN jobs[n].ops : Spares(jobs[n].ops[k], id)) =>
                 \A k \in DOMAIN jobs'[n].ops : Spares(jobs'[n].ops[k], id)
  BY <1>2 DEF Shift
<1>6. KeptFits'
  <2>1. kept' = kept /\ list' = list /\ kept \subseteq list /\ DOMAIN jobs' = DOMAIN jobs  BY <1>0, <1>2 DEF KeptFits, Shift
  <2>2. ASSUME NEW id \in kept
        PROVE  /\ id \in index'.list /\ \A extension \in H!Extensions : <<id, extension>> \in files'
               /\ \A n \in DOMAIN jobs : \A k \in DOMAIN jobs'[n].ops : Spares(jobs'[n].ops[k], id)
    <3>1. Spares(op, id)  BY <1>0, <1>1, <1>2 DEF KeptFits, Shift
    <3>2. QED  BY <1>0, <1>4, <1>5, <2>1, <3>1 DEF KeptFits
  <2>3. QED  BY <2>1, <2>2 DEF KeptFits
<1>7. SavesFit'
  <2>0. DOMAIN jobs' = DOMAIN jobs /\ list' = list
        /\ \A n \in DOMAIN jobs : jobs'[n].kind = jobs[n].kind /\ jobs'[n].id = jobs[n].id
    BY <1>2 DEF Shift
  <2>1. SUFFICES ASSUME NEW n \in DOMAIN jobs, jobs[n].kind = "save", jobs[n].id \in list, NEW id, id = jobs[n].id
                 PROVE  /\ \A extension \in H!Extensions :
                             \/ \E k \in DOMAIN jobs'[n].ops : WritesFile(jobs'[n].ops[k], id, extension)
                             \/ n = 1 /\ <<id, extension>> \in files'
                        /\ \/ \E k \in DOMAIN jobs'[n].ops : jobs'[n].ops[k].do = "index"
                           \/ n = 1 /\ id \in index'.list
                        /\ \A m \in DOMAIN jobs : m >= n =>
                             \A k \in DOMAIN jobs'[m].ops : Spares(jobs'[m].ops[k], id)
    BY <2>0 DEF SavesFit
  <2>2. /\ \A extension \in H!Extensions :
             \/ \E k \in DOMAIN jobs[n].ops : WritesFile(jobs[n].ops[k], id, extension)
             \/ n = 1 /\ <<id, extension>> \in files
        /\ \/ \E k \in DOMAIN jobs[n].ops : jobs[n].ops[k].do = "index"
           \/ n = 1 /\ id \in index.list
        /\ \A m \in DOMAIN jobs : m >= n =>
             \A k \in DOMAIN jobs[m].ops : Spares(jobs[m].ops[k], id)
    BY <1>0, <2>1 DEF SavesFit
  <2>3. \A m \in DOMAIN jobs : m >= n => \A k \in DOMAIN jobs'[m].ops : Spares(jobs'[m].ops[k], id)
    BY <1>5, <2>2
  <2>4. n = 1 => Spares(op, id)
    <3>1. n = 1 => n >= n  OBVIOUS
    <3>2. QED  BY <1>1, <1>2, <2>2, <3>1 DEF Shift
  <2>5. ASSUME NEW extension \in H!Extensions
        PROVE  \/ \E k \in DOMAIN jobs'[n].ops : WritesFile(jobs'[n].ops[k], id, extension)
               \/ n = 1 /\ <<id, extension>> \in files'
    <3>1. CASE n = 1 /\ <<id, extension>> \in files  BY <1>4, <2>1, <2>4, <3>1
    <3>2. CASE \E k \in DOMAIN jobs[n].ops : WritesFile(jobs[n].ops[k], id, extension)
      <4>1. PICK k \in DOMAIN jobs[n].ops : WritesFile(jobs[n].ops[k], id, extension)  BY <3>2
      <4>2. CASE n = 1 /\ k = 1
        <5>1. WritesFile(op, id, extension)  BY <1>1, <4>1, <4>2
        <5>2. <<id, extension>> \in files'  BY <1>3, <5>1, Effects
        <5>3. QED  BY <4>2, <5>2
      <4>3. CASE ~(n = 1 /\ k = 1)  BY <1>2, <4>1, <4>3 DEF Shift
      <4>4. QED  BY <4>2, <4>3
    <3>3. QED  BY <2>2, <3>1, <3>2
  <2>6. \/ \E k \in DOMAIN jobs'[n].ops : jobs'[n].ops[k].do = "index"
        \/ n = 1 /\ id \in index'.list
    <3>1. CASE n = 1 /\ id \in index.list  BY <1>4, <2>1, <2>4, <3>1
    <3>2. CASE \E k \in DOMAIN jobs[n].ops : jobs[n].ops[k].do = "index"
      <4>1. PICK k \in DOMAIN jobs[n].ops : jobs[n].ops[k].do = "index"  BY <3>2
      <4>2. CASE n = 1 /\ k = 1  BY <1>1, <1>4, <2>1, <2>4, <4>1, <4>2
      <4>3. CASE ~(n = 1 /\ k = 1)  BY <1>2, <4>1, <4>3 DEF Shift
      <4>4. QED  BY <4>2, <4>3
    <3>3. QED  BY <2>2, <3>1, <3>2
  <2>7. QED  BY <2>3, <2>5, <2>6
<1>8. ListFits'  BY <1>0, <1>2 DEF ListFits, Shift
<1>9. QED  BY <1>6, <1>7, <1>8

LEMMA WorksIndex ==
  ASSUME SizesAssumed, HistoryInv, H!Works
  PROVE  IndexFits'
<1>0. HistoryTyped /\ JobsFit /\ IndexFits  BY DEF HistoryInv
<1>1. PICK op : op = jobs[1].ops[1]  OBVIOUS
<1>2. Shift(op)  BY <1>0, <1>1, Shifted
<1>3. op \in OpSet /\ H!Does(op) /\ DOMAIN jobs' = DOMAIN jobs /\ list' = list /\ 1 \in DOMAIN jobs
      /\ \A n \in DOMAIN jobs : jobs'[n].kind = jobs[n].kind /\ jobs'[n].about = jobs[n].about
  BY <1>2 DEF Shift
<1>4. \A id : Told(id) => Told(id)'  BY <1>2 DEF Told, Changing, Shift
<1>5. \A n \in DOMAIN jobs : \A k \in DOMAIN jobs'[n].ops :
        \E o \in DOMAIN jobs[n].ops : jobs'[n].ops[k] = jobs[n].ops[o]
  BY <1>2 DEF Shift
<1>6. op.do = "index" => \A id \in op.list : Told(id)  BY <1>0, <1>1, <1>2 DEF IndexFits, ChangesFit, Shift
<1>7. \/ op.do = "index" /\ index'.list = op.list
      \/ op.do = "removeIndex" /\ index'.list = {}
      \/ ~OfIndex(op) /\ index' = index
  <2>1. op.do = "index" => index'.list = op.list  BY <1>3, Effects
  <2>2. op.do = "removeIndex" => index'.list = {}  BY <1>3, Effects
  <2>3. ~OfIndex(op) => index' = index  BY <1>3, Effects
  <2>4. QED  BY <2>1, <2>2, <2>3 DEF OfIndex
<1>8. \A id \in index'.list : Told(id)'  BY <1>0, <1>4, <1>6, <1>7 DEF IndexFits, ChangesFit
<1>9. \A n \in DOMAIN jobs' : \A k \in DOMAIN jobs'[n].ops :
        jobs'[n].ops[k].do = "index" => \A id \in jobs'[n].ops[k].list : Told(id)'
  BY <1>0, <1>3, <1>4, <1>5 DEF IndexFits, ChangesFit
<1>10. ASSUME NEW n \in DOMAIN jobs, NEW id \in jobs[n].about \ list, jobs[n].kind \in {"save", "change"}
       PROVE  \/ \E m \in DOMAIN jobs' : m > n /\ Changing(id, m)'
              \/ /\ \A m \in DOMAIN jobs' : m >= n =>
                      \A k \in DOMAIN jobs'[m].ops : jobs'[m].ops[k].do = "index" => id \notin jobs'[m].ops[k].list
                 /\ (\E k \in DOMAIN jobs'[n].ops : OfIndex(jobs'[n].ops[k])) \/ (n = 1 /\ id \notin index'.list)
  <2>1. CASE \E m \in DOMAIN jobs : m > n /\ Changing(id, m)
    BY <1>3, <2>1 DEF Changing
  <2>2. CASE /\ \A m \in DOMAIN jobs : m >= n =>
                  \A k \in DOMAIN jobs[m].ops : jobs[m].ops[k].do = "index" => id \notin jobs[m].ops[k].list
             /\ (\E k \in DOMAIN jobs[n].ops : OfIndex(jobs[n].ops[k])) \/ (n = 1 /\ id \notin index.list)
    <3>1. \A m \in DOMAIN jobs' : m >= n =>
            \A k \in DOMAIN jobs'[m].ops : jobs'[m].ops[k].do = "index" => id \notin jobs'[m].ops[k].list
      BY <1>3, <1>5, <2>2
    <3>2. n = 1 /\ op.do = "index" => id \notin op.list
      <4>1. n = 1 => n >= n  OBVIOUS
      <4>2. QED  BY <1>1, <1>2, <2>2, <4>1 DEF Shift
    <3>3. CASE n = 1 /\ (id \notin index.list \/ OfIndex(op))
      <4>1. id \notin index'.list  BY <1>7, <3>2, <3>3 DEF OfIndex
      <4>2. QED  BY <3>1, <3>3, <4>1
    <3>4. CASE ~(n = 1 /\ (id \notin index.list \/ OfIndex(op)))
      <4>1. PICK k \in DOMAIN jobs[n].ops : OfIndex(jobs[n].ops[k])  BY <2>2, <3>4
      <4>2. ~(n = 1 /\ k = 1)  BY <1>1, <3>4, <4>1
      <4>3. \E i \in DOMAIN jobs'[n].ops : jobs'[n].ops[i] = jobs[n].ops[k]  BY <1>2, <4>2 DEF Shift
      <4>4. QED  BY <3>1, <4>1, <4>3
    <3>5. QED  BY <3>3, <3>4
  <2>3. QED  BY <1>0, <1>10, <2>1, <2>2 DEF IndexFits, ChangesFit
<1>11. QED  BY <1>3, <1>8, <1>9, <1>10 DEF IndexFits, ChangesFit

LEMMA WorksReads ==
  ASSUME SizesAssumed, HistoryInv, H!Works
  PROVE  ReadsFit' /\ (missing \subseteq faulty => missing' \subseteq faulty)
<1>0. HistoryTyped /\ JobsFit /\ ReadsFit  BY DEF HistoryInv
<1>1. PICK op : op = jobs[1].ops[1]  OBVIOUS
<1>2. Shift(op)  BY <1>0, <1>1, Shifted
<1>3. op \in OpSet /\ H!Does(op) /\ DOMAIN jobs' = DOMAIN jobs /\ faulty' = faulty /\ 1 \in DOMAIN jobs
      /\ DOMAIN jobs = 1 .. Len(jobs) /\ Len(jobs) \in Nat /\ 1 \in DOMAIN jobs[1].ops
      /\ \A n \in DOMAIN jobs : jobs'[n].about = jobs[n].about
  BY <1>2 DEF Shift
<1>4. \A id, n : n \in DOMAIN jobs /\ (\A k \in DOMAIN jobs[n].ops : ~RemovesOf(jobs[n].ops[k], id)) =>
                 \A k \in DOMAIN jobs'[n].ops : ~RemovesOf(jobs'[n].ops[k], id)
  BY <1>2 DEF Shift
<1>5. ReadsFit'
  <2>1. SUFFICES ASSUME NEW n \in DOMAIN jobs, NEW k \in DOMAIN jobs'[n].ops,
                        jobs'[n].ops[k].do = "read", jobs'[n].ops[k].id \notin faulty,
                        NEW id, id = jobs'[n].ops[k].id
                 PROVE  \/ /\ <<id, "json">> \in files'
                           /\ \A m \in DOMAIN jobs : m <= n => \A j \in DOMAIN jobs'[m].ops : ~RemovesOf(jobs'[m].ops[j], id)
                        \/ \E w \in DOMAIN jobs :
                             /\ w < n /\ id \in jobs'[w].about
                             /\ \E j \in DOMAIN jobs'[w].ops : WritesFile(jobs'[w].ops[j], id, "json")
                             /\ \A m \in DOMAIN jobs : m >= w /\ m <= n =>
                                  \A j \in DOMAIN jobs'[m].ops : ~RemovesOf(jobs'[m].ops[j], id)
    BY <1>3 DEF ReadsFit
  <2>2. PICK o \in DOMAIN jobs[n].ops : jobs'[n].ops[k] = jobs[n].ops[o]  BY <1>2, <2>1 DEF Shift
  <2>3. id \in H!Requests
    <3>1. jobs'[n] \in JobSet  BY <1>2, <2>1, ElementOfSeq DEF Shift
    <3>2. jobs'[n].ops \in Seq(OpSet)  BY <3>1 DEF JobSet
    <3>3. jobs'[n].ops[k] \in OpSet  BY <2>1, <3>2, ElementOfSeq, LenProperties
    <3>4. QED  BY <2>1, <3>3 DEF OpSet, FileOps
  <2>4. CASE /\ <<id, "json">> \in files
             /\ \A m \in DOMAIN jobs : m <= n => \A j \in DOMAIN jobs[m].ops : ~RemovesOf(jobs[m].ops[j], id)
    <3>1. 1 <= n  BY <1>3, <2>1
    <3>2. ~RemovesOf(op, id)  BY <1>1, <1>3, <2>4, <3>1
    <3>3. <<id, "json">> \in files'  BY <1>3, <2>3, <2>4, <3>2, Effects DEF H!Extensions
    <3>4. QED  BY <1>4, <2>4, <3>3
  <2>5. CASE \E w \in DOMAIN jobs :
               /\ w < n /\ id \in jobs[w].about
               /\ \E j \in DOMAIN jobs[w].ops : WritesFile(jobs[w].ops[j], id, "json")
               /\ \A m \in DOMAIN jobs : m >= w /\ m <= n =>
                    \A j \in DOMAIN jobs[m].ops : ~RemovesOf(jobs[m].ops[j], id)
    <3>1. PICK w \in DOMAIN jobs :
               /\ w < n /\ id \in jobs[w].about
               /\ \E j \in DOMAIN jobs[w].ops : WritesFile(jobs[w].ops[j], id, "json")
               /\ \A m \in DOMAIN jobs : m >= w /\ m <= n =>
                    \A j \in DOMAIN jobs[m].ops : ~RemovesOf(jobs[m].ops[j], id)
      BY <2>5
    <3>2. PICK j \in DOMAIN jobs[w].ops : WritesFile(jobs[w].ops[j], id, "json")  BY <3>1
    <3>3. CASE w = 1 /\ j = 1
      <4>1. WritesFile(op, id, "json")  BY <1>1, <3>2, <3>3
      <4>2. <<id, "json">> \in files'  BY <1>3, <4>1, Effects
      <4>3. \A m \in DOMAIN jobs : m >= w  BY <1>3, <3>3
      <4>4. QED  BY <1>4, <3>1, <4>2, <4>3
    <3>4. CASE ~(w = 1 /\ j = 1)
      <4>1. \E i \in DOMAIN jobs'[w].ops : jobs'[w].ops[i] = jobs[w].ops[j]  BY <1>2, <3>4 DEF Shift
      <4>2. QED  BY <1>3, <1>4, <3>1, <3>2, <4>1
    <3>5. QED  BY <3>3, <3>4
  <2>6. QED  BY <1>0, <2>1, <2>2, <2>4, <2>5 DEF ReadsFit
<1>6. ASSUME missing \subseteq faulty PROVE missing' \subseteq faulty
  <2>1. CASE op.do # "read"  BY <1>3, <1>6, <2>1, Effects
  <2>2. CASE op.do = "read"
    <3>1. missing' = missing \union {id \in {op.id} : <<id, "json">> \notin files}  BY <1>3, <2>2, Effects
    <3>2. op.id \notin faulty => <<op.id, "json">> \in files
      <4>1. \A w \in DOMAIN jobs : ~(w < 1)  BY <1>3
      <4>2. QED  BY <1>0, <1>1, <1>3, <2>2, <4>1 DEF ReadsFit
    <3>3. QED  BY <1>6, <3>1, <3>2
  <2>3. QED  BY <2>1, <2>2
<1>7. QED  BY <1>5, <1>6

LEMMA WorksBodies ==
  ASSUME SizesAssumed, HistoryInv, H!Works
  PROVE  BodiesFit'
<1>0. HistoryTyped /\ JobsFit /\ BodiesFit  BY DEF HistoryInv
<1>1. PICK op : op = jobs[1].ops[1]  OBVIOUS
<1>2. Shift(op)  BY <1>0, <1>1, Shifted
<1>3. op \in OpSet /\ H!Does(op) /\ DOMAIN jobs' = DOMAIN jobs /\ faulty' = faulty /\ sent' = sent
      /\ 1 \in DOMAIN jobs /\ DOMAIN jobs = 1 .. Len(jobs) /\ Len(jobs) \in Nat /\ 1 \in DOMAIN jobs[1].ops
      /\ sent \subseteq H!Requests /\ (\A n \in DOMAIN jobs : jobs'[n].about = jobs[n].about)
  BY <1>0, <1>2 DEF Shift, HistoryTyped
<1>4. /\ op.do = "write" /\ op.extension = "json" => <<op.id, "body">> \in files
      /\ op.do = "remove" /\ op.extension = "body" => <<op.id, "json">> \notin files
  <2>1. \A k \in DOMAIN jobs[1].ops : k = 1 => ~(k > 1)  OBVIOUS
  <2>2. op.do = "write" /\ op.extension = "json" => <<op.id, "body">> \in files
    BY <1>0, <1>1, <1>3, <2>1 DEF BodiesFit, BodiesPaired
  <2>3. op.do = "remove" /\ op.extension = "body" => <<op.id, "json">> \notin files
    BY <1>0, <1>1, <1>3, <2>1 DEF BodiesFit, BodiesPaired
  <2>4. QED  BY <2>2, <2>3
<1>5. H!RecordsAreWhole'
  <2>1. SUFFICES ASSUME NEW id \in sent, <<id, "json">> \in files', <<id, "body">> \notin files'
                 PROVE  id \in faulty
    BY <1>3 DEF H!RecordsAreWhole
  <2>2. CASE op \in FileOps /\ op.do = "write"
    <3>1. files' = files \union {<<op.id, op.extension>>} /\ op.extension \in H!Extensions
      BY <1>3, <2>2 DEF H!Does, FileOps
    <3>2. QED  BY <1>0, <1>4, <2>1, <2>2, <3>1 DEF H!Extensions, BodiesFit, BodiesPaired, H!RecordsAreWhole
  <2>3. CASE op \in FileOps /\ op.do = "remove"
    <3>1. files' = files \ {<<op.id, op.extension>>} /\ op.extension \in H!Extensions
      BY <1>3, <2>3 DEF H!Does, FileOps
    <3>2. QED  BY <1>0, <1>4, <2>1, <2>3, <3>1 DEF H!Extensions, BodiesFit, BodiesPaired, H!RecordsAreWhole
  <2>4. CASE op.do = "removeAll"  BY <1>3, <2>1, <2>4 DEF H!Does
  <2>5. CASE op.do \in {"removeIndex", "index", "read"}
    <3>1. files' = files  BY <1>3, <2>5 DEF H!Does
    <3>2. QED  BY <1>0, <2>1, <3>1 DEF BodiesFit, BodiesPaired, H!RecordsAreWhole
  <2>6. QED  BY <1>3, <2>2, <2>3, <2>4, <2>5 DEF OpSet, FileOps
<1>6. ASSUME NEW n \in DOMAIN jobs, NEW k \in DOMAIN jobs'[n].ops, NEW what, what = jobs'[n].ops[k]
      PROVE  /\ what.do = "write" /\ what.extension = "json" =>
                  \/ k > 1 /\ WritesFile(jobs'[n].ops[k - 1], what.id, "body")
                  \/ k = 1 /\ n = 1 /\ <<what.id, "body">> \in files'
             /\ what.do = "remove" /\ what.extension = "body" =>
                  \/ k > 1 /\ jobs'[n].ops[k - 1] = H!Op("remove", what.id, "json")
                  \/ k = 1 /\ n = 1 /\ <<what.id, "json">> \notin files'
             /\ what.do = "removeAll" => \A id \in sent' \ jobs'[n].about :
                  /\ \A extension \in H!Extensions : <<id, extension>> \notin files'
                  /\ \A m \in DOMAIN jobs' : m <= n => \A j \in DOMAIN jobs'[m].ops :
                       \A extension \in H!Extensions : ~WritesFile(jobs'[m].ops[j], id, extension)
  <2>1. PICK o \in DOMAIN jobs[n].ops : o = (IF n = 1 THEN k + 1 ELSE k) /\ what = jobs[n].ops[o]
    BY <1>2, <1>6 DEF Shift
  <2>2. k \in Nat \ {0} /\ o \in Nat /\ DOMAIN jobs[n].ops = 1 .. Len(jobs[n].ops) /\ Len(jobs[n].ops) \in Nat
    BY <1>2, <1>6, <2>1 DEF Shift
  <2>3. ASSUME o > 1
        PROVE  \/ k > 1 /\ jobs'[n].ops[k - 1] = jobs[n].ops[o - 1]
               \/ k = 1 /\ n = 1 /\ op = jobs[n].ops[o - 1]
    <3>1. o - 1 \in DOMAIN jobs[n].ops  BY <2>1, <2>2, <2>3
    <3>2. CASE n = 1 /\ o - 1 = 1
      <4>1. k = 1  BY <2>1, <2>2, <3>2
      <4>2. op = jobs[n].ops[o - 1]  BY <1>1, <3>2
      <4>3. QED  BY <3>2, <4>1, <4>2
    <3>3. CASE ~(n = 1 /\ o - 1 = 1)
      <4>1. PICK i \in DOMAIN jobs'[n].ops : o - 1 = (IF n = 1 THEN i + 1 ELSE i) /\ jobs'[n].ops[i] = jobs[n].ops[o - 1]
        BY <1>2, <3>1, <3>3 DEF Shift
      <4>2. i \in Nat \ {0}  BY <1>2 DEF Shift
      <4>3. i = k - 1 /\ k > 1  BY <2>1, <2>2, <2>3, <4>1, <4>2
      <4>4. QED  BY <4>1, <4>3
    <3>4. QED  BY <3>2, <3>3
  <2>4. o = 1 => n # 1  BY <2>1, <2>2
  <2>5. ASSUME what.do = "write", what.extension = "json"
        PROVE  \/ k > 1 /\ WritesFile(jobs'[n].ops[k - 1], what.id, "body")
               \/ k = 1 /\ n = 1 /\ <<what.id, "body">> \in files'
    <3>1. o > 1 /\ WritesFile(jobs[n].ops[o - 1], what.id, "body")
      BY <1>0, <2>1, <2>4, <2>5 DEF BodiesFit, BodiesPaired
    <3>2. ASSUME op = jobs[n].ops[o - 1] PROVE <<what.id, "body">> \in files'
      BY <1>3, <3>1, <3>2, Effects
    <3>3. QED  BY <2>3, <3>1, <3>2
  <2>6. ASSUME what.do = "remove", what.extension = "body"
        PROVE  \/ k > 1 /\ jobs'[n].ops[k - 1] = H!Op("remove", what.id, "json")
               \/ k = 1 /\ n = 1 /\ <<what.id, "json">> \notin files'
    <3>1. o > 1 /\ jobs[n].ops[o - 1] = H!Op("remove", what.id, "json")
      BY <1>0, <2>1, <2>4, <2>6 DEF BodiesFit, BodiesPaired
    <3>2. ASSUME op = jobs[n].ops[o - 1] PROVE <<what.id, "json">> \notin files'
      BY <1>3, <3>1, <3>2 DEF H!Op, H!Does
    <3>3. QED  BY <2>3, <3>1, <3>2
  <2>7. ASSUME what.do = "removeAll", NEW id \in sent \ jobs[n].about
        PROVE  /\ \A extension \in H!Extensions : <<id, extension>> \notin files'
               /\ \A m \in DOMAIN jobs : m <= n => \A j \in DOMAIN jobs'[m].ops :
                    \A extension \in H!Extensions : ~WritesFile(jobs'[m].ops[j], id, extension)
    <3>1. /\ \A extension \in H!Extensions : <<id, extension>> \notin files
          /\ \A m \in DOMAIN jobs : m <= n => \A j \in DOMAIN jobs[m].ops :
               \A extension \in H!Extensions : ~WritesFile(jobs[m].ops[j], id, extension)
      BY <1>0, <2>1, <2>7 DEF BodiesFit, BodiesPaired
    <3>2. \A extension \in H!Extensions : ~WritesFile(op, id, extension)
      <4>1. 1 <= n  BY <1>3, <1>6
      <4>2. QED  BY <1>1, <1>3, <3>1, <4>1
    <3>3. \A extension \in H!Extensions : <<id, extension>> \notin files'
      BY <1>3, <3>1, <3>2, Effects DEF WritesFile
    <3>4. ASSUME NEW m \in DOMAIN jobs, m <= n, NEW j \in DOMAIN jobs'[m].ops, NEW extension \in H!Extensions
          PROVE  ~WritesFile(jobs'[m].ops[j], id, extension)
      <4>1. PICK i \in DOMAIN jobs[m].ops : jobs'[m].ops[j] = jobs[m].ops[i]  BY <1>2, <3>4 DEF Shift
      <4>2. QED  BY <3>1, <3>4, <4>1
    <3>5. QED  BY <3>3, <3>4
  <2>8. QED  BY <1>3, <2>5, <2>6, <2>7
<1>7. QED  BY <1>3, <1>5, <1>6 DEF BodiesFit, BodiesPaired

LEMMA WorksEnds ==
  ASSUME SizesAssumed, HistoryInv, H!Works
  PROVE  HistoryEndsFit'
<1>0. HistoryTyped /\ JobsFit /\ HistoryEndsFit  BY DEF HistoryInv
<1>1. PICK op : op = jobs[1].ops[1]  OBVIOUS
<1>2. Shift(op)  BY <1>0, <1>1, Shifted
<1>3. op \in OpSet /\ H!Does(op) /\ DOMAIN jobs' = DOMAIN jobs /\ faulty' = faulty /\ sent' = sent /\ phase' # "closed"
      /\ list' = list /\ ended' = ended /\ losses' = losses /\ undo' = undo
      /\ 1 \in DOMAIN jobs /\ DOMAIN jobs = 1 .. Len(jobs) /\ Len(jobs) \in Nat /\ 1 \in DOMAIN jobs[1].ops
      /\ sent \subseteq H!Requests
  BY <1>0, <1>2 DEF Shift, HistoryTyped
<1>4. \A n \in DOMAIN jobs : \A k \in DOMAIN jobs'[n].ops : \E o \in DOMAIN jobs[n].ops :
        o = (IF n = 1 THEN k + 1 ELSE k) /\ jobs'[n].ops[k] = jobs[n].ops[o]
  BY <1>2 DEF Shift
<1>5. \A n \in DOMAIN jobs : \A o \in DOMAIN jobs[n].ops : ~(n = 1 /\ o = 1) => \E k \in DOMAIN jobs'[n].ops :
        o = (IF n = 1 THEN k + 1 ELSE k) /\ jobs'[n].ops[k] = jobs[n].ops[o]
  BY <1>2 DEF Shift
<1>6. \A n \in DOMAIN jobs : DOMAIN jobs'[n].ops \subseteq Nat  BY <1>2 DEF Shift
<1>7. ASSUME NEW n \in DOMAIN jobs, NoIndexOf(n) PROVE NoIndexOf(n)'  BY <1>4, <1>7 DEF NoIndexOf
<1>8. ASSUME losses = 0 PROVE IndexLeads'
  <2>1. CASE \E n \in DOMAIN jobs :
               /\ \E k \in DOMAIN jobs[n].ops : Leads(jobs[n].ops[k])
               /\ \A m \in DOMAIN jobs : m > n => NoIndexOf(m)
    <3>1. PICK n \in DOMAIN jobs :
               /\ \E k \in DOMAIN jobs[n].ops : Leads(jobs[n].ops[k])
               /\ \A m \in DOMAIN jobs : m > n => NoIndexOf(m)
      BY <2>1
    <3>2. PICK k \in DOMAIN jobs[n].ops : Leads(jobs[n].ops[k])  BY <3>1
    <3>3. CASE n = 1 /\ k = 1
      <4>1. Leads(op)  BY <1>1, <3>2, <3>3
      <4>2. Len(jobs[1].ops) = 1  BY <1>0, <1>1, <1>3, <4>1 DEF JobsFit, Leads, OfIndex
      <4>3. DOMAIN jobs'[1].ops = {}
        <5>1. \A i \in DOMAIN jobs'[1].ops : i \in Nat \ {0} /\ i + 1 \in 1 .. Len(jobs[1].ops)
          BY <1>2 DEF Shift
        <5>2. QED  BY <4>2, <5>1
      <4>4. \A m \in DOMAIN jobs : m = 1 \/ m > 1  BY <1>3
      <4>5. ASSUME NEW m \in DOMAIN jobs' PROVE NoIndexOf(m)'
        <5>1. CASE m = 1  BY <4>3, <5>1 DEF NoIndexOf
        <5>2. CASE m > 1  BY <1>3, <1>7, <3>1, <3>3, <5>2
        <5>3. QED  BY <1>3, <4>4, <5>1, <5>2
      <4>6. index'.list = list' /\ index'.ended = ended' \intersect list'
        <5>1. CASE op.do = "index" /\ op.list = list /\ op.ended \intersect list = ended \intersect list
          <6>1. index' = [list |-> op.list, ended |-> op.ended \intersect op.list]  BY <1>3, <5>1, Effects
          <6>2. QED  BY <1>3, <5>1, <6>1
        <5>2. CASE op.do = "removeIndex" /\ list = {}
          <6>1. index' = [list |-> {}, ended |-> {}]  BY <1>3, <5>2, Effects
          <6>2. QED  BY <1>3, <5>2, <6>1
        <5>3. QED  BY <4>1, <5>1, <5>2 DEF Leads
      <4>7. QED  BY <4>5, <4>6 DEF IndexLeads
    <3>4. CASE ~(n = 1 /\ k = 1)
      <4>1. PICK i \in DOMAIN jobs'[n].ops : jobs'[n].ops[i] = jobs[n].ops[k]  BY <1>5, <3>4
      <4>2. Leads(jobs[n].ops[i])'  BY <1>3, <3>2, <4>1 DEF Leads
      <4>3. ASSUME NEW m \in DOMAIN jobs', m > n PROVE NoIndexOf(m)'  BY <1>3, <1>7, <3>1, <4>3
      <4>4. n \in DOMAIN jobs'  BY <1>3
      <4>5. \E j \in DOMAIN jobs'[n].ops : Leads(jobs[n].ops[j])'  BY <4>2
      <4>6. QED  BY <4>3, <4>4, <4>5 DEF IndexLeads
    <3>5. QED  BY <3>3, <3>4
  <2>2. CASE /\ \A n \in DOMAIN jobs : NoIndexOf(n)
             /\ index.list = list /\ index.ended = ended \intersect list
    <3>1. ~OfIndex(op)  BY <1>1, <1>3, <2>2 DEF NoIndexOf
    <3>2. index' = index  BY <1>3, <3>1, Effects
    <3>3. ASSUME NEW n \in DOMAIN jobs' PROVE NoIndexOf(n)'  BY <1>3, <1>7, <2>2
    <3>4. QED  BY <1>3, <2>2, <3>2, <3>3 DEF IndexLeads
  <2>3. QED  BY <1>0, <1>8, <2>1, <2>2 DEF HistoryEndsFit, IndexLeads
<1>9. ASSUME losses = 0 PROVE FilesLead'
  <2>0. FilesLead  BY <1>0, <1>9 DEF HistoryEndsFit
  <2>1. SUFFICES ASSUME NEW id \in sent \ list, NEW extension \in H!Extensions
                 PROVE  /\ <<id, extension>> \in files' =>
                             \E m \in DOMAIN jobs : \E j \in DOMAIN jobs'[m].ops : RemovesFile(jobs'[m].ops[j], id, extension)
                        /\ \A n \in DOMAIN jobs : \A k \in DOMAIN jobs'[n].ops : WritesFile(jobs'[n].ops[k], id, extension) =>
                             \E m \in DOMAIN jobs : \E j \in DOMAIN jobs'[m].ops :
                               (m > n \/ (m = n /\ j > k)) /\ RemovesFile(jobs'[m].ops[j], id, extension)
    BY <1>3 DEF FilesLead
  <2>2. ASSUME <<id, extension>> \in files'
        PROVE  \E m \in DOMAIN jobs : \E j \in DOMAIN jobs'[m].ops : RemovesFile(jobs'[m].ops[j], id, extension)
    <3>1. CASE WritesFile(op, id, extension)
      <4>1. \E m \in DOMAIN jobs : \E j \in DOMAIN jobs[m].ops :
              (m > 1 \/ (m = 1 /\ j > 1)) /\ RemovesFile(jobs[m].ops[j], id, extension)
        BY <1>1, <1>3, <2>0, <2>1, <3>1 DEF FilesLead
      <4>2. PICK m \in DOMAIN jobs : \E j \in DOMAIN jobs[m].ops :
              (m > 1 \/ (m = 1 /\ j > 1)) /\ RemovesFile(jobs[m].ops[j], id, extension)
        BY <4>1
      <4>a. PICK j \in DOMAIN jobs[m].ops : ~(m = 1 /\ j = 1) /\ RemovesFile(jobs[m].ops[j], id, extension)
        BY <4>2
      <4>3. QED  BY <1>5, <4>a
    <3>2. CASE ~WritesFile(op, id, extension)
      <4>1. <<id, extension>> \in files  BY <1>3, <2>2, <3>2, Effects DEF WritesFile
      <4>a. PICK m \in DOMAIN jobs : \E j \in DOMAIN jobs[m].ops : RemovesFile(jobs[m].ops[j], id, extension)
        BY <2>0, <2>1, <4>1 DEF FilesLead
      <4>2. PICK j \in DOMAIN jobs[m].ops : RemovesFile(jobs[m].ops[j], id, extension)  BY <4>a
      <4>3. ~RemovesFile(op, id, extension)  BY <1>3, <2>1, <2>2, Effects
      <4>4. ~(m = 1 /\ j = 1)  BY <1>1, <4>2, <4>3
      <4>5. QED  BY <1>5, <4>2, <4>4
    <3>3. QED  BY <3>1, <3>2
  <2>3. ASSUME NEW n \in DOMAIN jobs, NEW k \in DOMAIN jobs'[n].ops, WritesFile(jobs'[n].ops[k], id, extension)
        PROVE  \E m \in DOMAIN jobs : \E j \in DOMAIN jobs'[m].ops :
                 (m > n \/ (m = n /\ j > k)) /\ RemovesFile(jobs'[m].ops[j], id, extension)
    <3>1. PICK o \in DOMAIN jobs[n].ops : o = (IF n = 1 THEN k + 1 ELSE k) /\ jobs'[n].ops[k] = jobs[n].ops[o]
      BY <1>4, <2>3
    <3>a. PICK m \in DOMAIN jobs : \E i \in DOMAIN jobs[m].ops :
            (m > n \/ (m = n /\ i > o)) /\ RemovesFile(jobs[m].ops[i], id, extension)
      BY <2>0, <2>1, <2>3, <3>1 DEF FilesLead
    <3>2. PICK i \in DOMAIN jobs[m].ops :
            (m > n \/ (m = n /\ i > o)) /\ RemovesFile(jobs[m].ops[i], id, extension)
      BY <3>a
    <3>3. k \in Nat \ {0} /\ n \in Nat \ {0} /\ m \in Nat \ {0}  BY <1>2, <1>3, <2>3 DEF Shift
    <3>4. ~(m = 1 /\ i = 1)  BY <3>1, <3>2, <3>3
    <3>5. PICK j \in DOMAIN jobs'[m].ops : i = (IF m = 1 THEN j + 1 ELSE j) /\ jobs'[m].ops[j] = jobs[m].ops[i]
      BY <1>5, <3>4
    <3>6. j \in Nat  BY <1>6
    <3>7. m > n \/ (m = n /\ j > k)  BY <3>1, <3>2, <3>3, <3>5, <3>6
    <3>8. QED  BY <3>2, <3>5, <3>7
  <2>4. QED  BY <2>2, <2>3
<1>10. missing' \subseteq faulty'  BY <1>0, <1>3, WorksReads DEF HistoryEndsFit
<1>11. QED  BY <1>0, <1>3, <1>8, <1>9, <1>10 DEF HistoryEndsFit

LEMMA WorksKeeps ==
  ASSUME SizesAssumed, HistoryInv, H!Works
  PROVE  HistoryInv'
BY WorksTyped, WorksKept, WorksIndex, WorksReads, WorksBodies, WorksEnds DEF HistoryInv

-----------------------------------------------------------------------------
(***************************************************************************)
(* A job goes, done or failed.                                             *)
(***************************************************************************)
Left ==
  /\ jobs' \in Seq(JobSet) /\ Len(jobs) \in Nat /\ Len(jobs') = Len(jobs) - 1 /\ 1 \in DOMAIN jobs
  /\ DOMAIN jobs = 1 .. Len(jobs) /\ H!Current = jobs[1]
  /\ \A n \in DOMAIN jobs' : n \in Nat \ {0} /\ \E o \in DOMAIN jobs : o = n + 1 /\ jobs'[n] = jobs[o]
  /\ \A o \in DOMAIN jobs : o = 1 \/ \E n \in DOMAIN jobs' : o = n + 1 /\ jobs'[n] = jobs[o]

LEMMA OneLeft ==
  ASSUME HistoryTyped, jobs # <<>>, jobs' = H!RemoveAt(jobs, H!Taken)
  PROVE  Left
<1>1. jobs \in Seq(JobSet)  BY DEF HistoryTyped
<1>2. /\ jobs' \in Seq(JobSet) /\ Len(jobs') = Len(jobs) - 1 /\ DOMAIN jobs' = 1 .. Len(jobs) - 1
      /\ \A n \in DOMAIN jobs' : n + 1 \in DOMAIN jobs /\ jobs'[n] = jobs[n + 1]
      /\ \A n \in DOMAIN jobs : n # 1 => n - 1 \in DOMAIN jobs' /\ jobs'[n - 1] = jobs[n]
  BY <1>1, TakenJobGoes
<1>3. Len(jobs) \in Nat /\ DOMAIN jobs = 1 .. Len(jobs) /\ 1 \in DOMAIN jobs /\ H!Current = jobs[1]
  BY <1>1, Begun
<1>4. ASSUME NEW o \in DOMAIN jobs, o # 1
      PROVE  \E n \in DOMAIN jobs' : o = n + 1 /\ jobs'[n] = jobs[o]
  <2>1. o - 1 \in DOMAIN jobs' /\ jobs'[o - 1] = jobs[o] /\ o = (o - 1) + 1  BY <1>2, <1>3, <1>4
  <2>2. QED  BY <2>1
<1>5. \A n \in DOMAIN jobs' : n \in Nat \ {0}  BY <1>2, <1>3
<1>6. QED  BY <1>2, <1>3, <1>4, <1>5 DEF Left

LEMMA OthersStay ==
  ASSUME HistoryInv, Left, UNCHANGED <<list, sent>>, faulty \subseteq faulty', files' \subseteq files,
         phase' = phase \/ phase' = "closed"
  PROVE  JobsFit' /\ SavesFit' /\ ChangesFit' /\ BodiesPaired'
<1>0. HistoryTyped /\ JobsFit /\ SavesFit /\ IndexFits /\ BodiesFit  BY DEF HistoryInv
<1>1. /\ Len(jobs) \in Nat /\ Len(jobs') = Len(jobs) - 1
      /\ \A n \in DOMAIN jobs' : n \in Nat \ {0} /\ \E o \in DOMAIN jobs : o = n + 1 /\ jobs'[n] = jobs[o]
      /\ \A o \in DOMAIN jobs : o = 1 \/ \E n \in DOMAIN jobs' : o = n + 1 /\ jobs'[n] = jobs[o]
  BY DEF Left
<1>2. JobsFit'
  <2>1. SUFFICES ASSUME NEW n \in DOMAIN jobs'
                 PROVE  /\ jobs'[n].about \subseteq sent
                        /\ jobs'[n].kind = "save" =>
                             jobs'[n].id \in jobs'[n].about /\ jobs'[n].about \intersect list \subseteq {jobs'[n].id}
                        /\ jobs'[n].kind = "change" => jobs'[n].about \intersect list = {}
                        /\ jobs'[n].kind = "quit" => n = Len(jobs') /\ phase' # "open"
                        /\ \A k \in DOMAIN jobs'[n].ops :
                             LET op == jobs'[n].ops[k] IN
                             /\ OfIndex(op) => k = Len(jobs'[n].ops)
                             /\ op.do = "index" => op.list \subseteq sent /\ Cardinality(op.list) <= LIMIT
                             /\ op.do \in {"write", "read"} => op.id \in jobs'[n].about
    BY DEF JobsFit
  <2>2. PICK o \in DOMAIN jobs : o = n + 1 /\ jobs'[n] = jobs[o]  BY <1>1
  <2>3. o = Len(jobs) => n = Len(jobs')  BY <1>1, <2>2
  <2>4. QED  BY <1>0, <2>2, <2>3 DEF JobsFit
<1>3. SavesFit'
  <2>1. SUFFICES ASSUME NEW n \in DOMAIN jobs', jobs'[n].kind = "save", jobs'[n].id \in list
                 PROVE  /\ \A extension \in H!Extensions :
                             \E k \in DOMAIN jobs'[n].ops : WritesFile(jobs'[n].ops[k], jobs'[n].id, extension)
                        /\ \E k \in DOMAIN jobs'[n].ops : jobs'[n].ops[k].do = "index"
                        /\ \A m \in DOMAIN jobs' : m >= n =>
                             \A k \in DOMAIN jobs'[m].ops : Spares(jobs'[m].ops[k], jobs'[n].id)
    BY DEF SavesFit
  <2>2. PICK o \in DOMAIN jobs : o = n + 1 /\ jobs'[n] = jobs[o]  BY <1>1
  <2>3. o # 1  BY <1>1, <2>2
  <2>4. ASSUME NEW m \in DOMAIN jobs', m >= n
        PROVE  \A k \in DOMAIN jobs'[m].ops : Spares(jobs'[m].ops[k], jobs'[n].id)
    <3>1. PICK i \in DOMAIN jobs : i = m + 1 /\ jobs'[m] = jobs[i]  BY <1>1
    <3>2. i >= o  BY <1>1, <2>2, <2>4, <3>1
    <3>3. QED  BY <1>0, <2>1, <2>2, <3>1, <3>2 DEF SavesFit
  <2>5. QED  BY <1>0, <2>1, <2>2, <2>3, <2>4 DEF SavesFit
<1>4. ChangesFit'
  <2>1. SUFFICES ASSUME NEW n \in DOMAIN jobs', NEW id \in jobs'[n].about \ list, jobs'[n].kind \in {"save", "change"}
                 PROVE  \/ \E m \in DOMAIN jobs' : m > n /\ Changing(id, m)'
                        \/ /\ \A m \in DOMAIN jobs' : m >= n =>
                                \A k \in DOMAIN jobs'[m].ops : jobs'[m].ops[k].do = "index" => id \notin jobs'[m].ops[k].list
                           /\ \E k \in DOMAIN jobs'[n].ops : OfIndex(jobs'[n].ops[k])
    BY DEF ChangesFit
  <2>2. PICK o \in DOMAIN jobs : o = n + 1 /\ jobs'[n] = jobs[o]  BY <1>1
  <2>3. o # 1  BY <1>1, <2>2
  <2>4. CASE \E i \in DOMAIN jobs : i > o /\ Changing(id, i)
    <3>1. PICK i \in DOMAIN jobs : i > o /\ Changing(id, i)  BY <2>4
    <3>2. i # 1  BY <1>1, <2>2, <3>1
    <3>3. PICK m \in DOMAIN jobs' : i = m + 1 /\ jobs'[m] = jobs[i]  BY <1>1, <3>2
    <3>4. m > n  BY <1>1, <2>2, <3>1, <3>3
    <3>5. Changing(id, m)'  BY <3>1, <3>3 DEF Changing
    <3>6. QED  BY <3>4, <3>5
  <2>5. CASE /\ \A i \in DOMAIN jobs : i >= o =>
                  \A k \in DOMAIN jobs[i].ops : jobs[i].ops[k].do = "index" => id \notin jobs[i].ops[k].list
             /\ \E k \in DOMAIN jobs[o].ops : OfIndex(jobs[o].ops[k])
    <3>1. ASSUME NEW m \in DOMAIN jobs', m >= n
          PROVE  \A k \in DOMAIN jobs'[m].ops : jobs'[m].ops[k].do = "index" => id \notin jobs'[m].ops[k].list
      <4>1. PICK i \in DOMAIN jobs : i = m + 1 /\ jobs'[m] = jobs[i]  BY <1>1
      <4>2. i >= o  BY <1>1, <2>2, <3>1, <4>1
      <4>3. QED  BY <2>5, <4>1, <4>2
    <3>2. QED  BY <2>2, <2>5, <3>1
  <2>6. QED  BY <1>0, <2>1, <2>2, <2>3, <2>4, <2>5 DEF IndexFits, ChangesFit
<1>5. BodiesPaired'
  <2>1. SUFFICES ASSUME NEW n \in DOMAIN jobs', NEW k \in DOMAIN jobs'[n].ops, NEW op, op = jobs'[n].ops[k]
                 PROVE  /\ op.do = "write" /\ op.extension = "json" =>
                             k > 1 /\ WritesFile(jobs'[n].ops[k - 1], op.id, "body")
                        /\ op.do = "remove" /\ op.extension = "body" =>
                             k > 1 /\ jobs'[n].ops[k - 1] = H!Op("remove", op.id, "json")
                        /\ op.do = "removeAll" => \A id \in sent \ jobs'[n].about :
                             /\ \A extension \in H!Extensions : <<id, extension>> \notin files'
                             /\ \A m \in DOMAIN jobs' : m <= n => \A j \in DOMAIN jobs'[m].ops :
                                  \A extension \in H!Extensions : ~WritesFile(jobs'[m].ops[j], id, extension)
    BY DEF BodiesPaired
  <2>2. PICK o \in DOMAIN jobs : o = n + 1 /\ jobs'[n] = jobs[o]  BY <1>1
  <2>3. o # 1  BY <1>1, <2>2
  <2>4. ASSUME op.do = "removeAll", NEW id \in sent \ jobs'[n].about
        PROVE  /\ \A extension \in H!Extensions : <<id, extension>> \notin files'
               /\ \A m \in DOMAIN jobs' : m <= n => \A j \in DOMAIN jobs'[m].ops :
                    \A extension \in H!Extensions : ~WritesFile(jobs'[m].ops[j], id, extension)
    <3>1. /\ \A extension \in H!Extensions : <<id, extension>> \notin files
          /\ \A i \in DOMAIN jobs : i <= o => \A j \in DOMAIN jobs[i].ops :
               \A extension \in H!Extensions : ~WritesFile(jobs[i].ops[j], id, extension)
      BY <1>0, <2>1, <2>2, <2>4 DEF BodiesFit, BodiesPaired
    <3>2. ASSUME NEW m \in DOMAIN jobs', m <= n
          PROVE  \A j \in DOMAIN jobs'[m].ops : \A extension \in H!Extensions : ~WritesFile(jobs'[m].ops[j], id, extension)
      <4>1. PICK i \in DOMAIN jobs : i = m + 1 /\ jobs'[m] = jobs[i]  BY <1>1
      <4>2. i <= o  BY <1>1, <2>2, <3>2, <4>1
      <4>3. QED  BY <3>1, <4>1, <4>2
    <3>3. QED  BY <3>1, <3>2
  <2>5. op.do = "write" /\ op.extension = "json" => k > 1 /\ WritesFile(jobs'[n].ops[k - 1], op.id, "body")
    BY <1>0, <2>1, <2>2, <2>3 DEF BodiesFit, BodiesPaired
  <2>6. op.do = "remove" /\ op.extension = "body" => k > 1 /\ jobs'[n].ops[k - 1] = H!Op("remove", op.id, "json")
    BY <1>0, <2>1, <2>2, <2>3 DEF BodiesFit, BodiesPaired
  <2>7. QED  BY <2>4, <2>5, <2>6
<1>6. QED  BY <1>2, <1>3, <1>4, <1>5

\* What a job leaves when it is done.
LEMMA FinishesKeeps ==
  ASSUME SizesAssumed, HistoryInv, H!Finishes
  PROVE  HistoryInv'
<1>0. /\ HistoryTyped /\ JobsFit /\ KeptFits /\ SavesFit /\ ListFits
      /\ IndexFits /\ ReadsFit /\ BodiesFit /\ HistoryEndsFit
  BY DEF HistoryInv
<1>1. Left  BY <1>0, OneLeft DEF H!Finishes
<1>2. /\ Len(jobs) \in Nat /\ Len(jobs') = Len(jobs) - 1 /\ 1 \in DOMAIN jobs /\ DOMAIN jobs = 1 .. Len(jobs)
      /\ H!Current = jobs[1] /\ jobs' \in Seq(JobSet)
      /\ \A n \in DOMAIN jobs' : n \in Nat \ {0} /\ \E o \in DOMAIN jobs : o = n + 1 /\ jobs'[n] = jobs[o]
      /\ \A o \in DOMAIN jobs : o = 1 \/ \E n \in DOMAIN jobs' : o = n + 1 /\ jobs'[n] = jobs[o]
  BY <1>1 DEF Left
<1>3. DOMAIN jobs[1].ops = {} /\ phase # "closed"
      /\ kept' = (IF jobs[1].kind = "save" THEN kept \union (jobs[1].about \intersect list) ELSE kept)
      /\ phase' = (IF jobs[1].kind = "quit" THEN "closed" ELSE phase)
      /\ UNCHANGED <<list, ended, undo, index, files, sent, faulty, missing, losses>>
  <2>1. jobs[1].ops = <<>>  BY <1>2 DEF H!Finishes
  <2>2. DOMAIN jobs[1].ops = {}  BY <2>1, EmptySeq
  <2>3. QED  BY <1>2, <2>2 DEF H!Finishes
<1>4. HistoryTyped'  BY <1>0, <1>2, <1>3 DEF HistoryTyped
<1>5. JobsFit' /\ SavesFit' /\ ChangesFit' /\ BodiesPaired'  BY <1>1, <1>3, OthersStay
<1>6. \A n \in DOMAIN jobs' : \E o \in DOMAIN jobs : o # 1 /\ jobs'[n] = jobs[o]  BY <1>2
<1>7. KeptFits'
  <2>1. ASSUME jobs[1].kind = "save", NEW id \in jobs[1].about \intersect list
        PROVE  /\ id \in index.list /\ \A extension \in H!Extensions : <<id, extension>> \in files
               /\ \A n \in DOMAIN jobs : \A k \in DOMAIN jobs[n].ops : Spares(jobs[n].ops[k], id)
    <3>1. id = jobs[1].id  BY <1>0, <1>2, <2>1 DEF JobsFit
    <3>2. \A n \in DOMAIN jobs : n >= 1  BY <1>2
    <3>3. QED  BY <1>0, <1>2, <1>3, <2>1, <3>1, <3>2 DEF SavesFit
  <2>2. ASSUME NEW id \in kept'
        PROVE  /\ id \in list /\ id \in index.list /\ \A extension \in H!Extensions : <<id, extension>> \in files
               /\ \A n \in DOMAIN jobs : \A k \in DOMAIN jobs[n].ops : Spares(jobs[n].ops[k], id)
    <3>1. CASE id \in kept  BY <1>0, <3>1 DEF KeptFits
    <3>2. CASE id \notin kept
      <4>1. jobs[1].kind = "save" /\ id \in jobs[1].about \intersect list  BY <1>3, <2>2, <3>2
      <4>2. QED  BY <2>1, <4>1
    <3>3. QED  BY <3>1, <3>2
  <2>3. QED  BY <1>3, <1>6, <2>2 DEF KeptFits
<1>8. kept \subseteq kept' /\ \A id \in list : Changing(id, 1) => id \in kept'
  BY <1>0, <1>2, <1>3 DEF Changing, JobsFit
<1>9. ListFits'
  <2>1. SUFFICES ASSUME NEW id \in list
                 PROVE  \/ id \in kept' \/ id \in faulty'
                        \/ \E n \in DOMAIN jobs' : jobs'[n].kind = "save" /\ jobs'[n].id = id
    BY <1>3 DEF ListFits
  <2>2. CASE \E o \in DOMAIN jobs : jobs[o].kind = "save" /\ jobs[o].id = id
    <3>1. PICK o \in DOMAIN jobs : jobs[o].kind = "save" /\ jobs[o].id = id  BY <2>2
    <3>2. CASE o = 1
      <4>1. Changing(id, 1)  BY <1>0, <3>1, <3>2 DEF Changing, JobsFit
      <4>2. QED  BY <1>8, <4>1
    <3>3. CASE o # 1  BY <1>2, <3>1, <3>3
    <3>4. QED  BY <3>2, <3>3
  <2>3. QED  BY <1>0, <1>3, <1>8, <2>2 DEF ListFits
<1>10. IndexFits'
  <2>1. ASSUME NEW id, Told(id),
               \/ id \in index.list
               \/ \E n \in DOMAIN jobs : \E k \in DOMAIN jobs[n].ops : jobs[n].ops[k].do = "index" /\ id \in jobs[n].ops[k].list
        PROVE  Told(id)'
    <3>1. CASE id \in kept \/ id \in faulty  BY <1>3, <1>8, <3>1 DEF Told
    <3>2. ASSUME NEW o \in DOMAIN jobs, o # 1, Changing(id, o) PROVE Told(id)'
      <4>1. PICK n \in DOMAIN jobs' : jobs'[n] = jobs[o]  BY <1>2, <3>2
      <4>2. Changing(id, n)'  BY <3>2, <4>1 DEF Changing
      <4>3. QED  BY <4>2 DEF Told
    <3>3. CASE Changing(id, 1) /\ id \in list  BY <1>8, <3>3 DEF Told
    <3>4. CASE Changing(id, 1) /\ id \notin list
      <4>1. \A m \in DOMAIN jobs : m >= 1  BY <1>2
      <4>2. CASE \E m \in DOMAIN jobs : m > 1 /\ Changing(id, m)
        <5>1. PICK m \in DOMAIN jobs : m > 1 /\ Changing(id, m)  BY <4>2
        <5>2. m # 1  BY <5>1
        <5>3. QED  BY <3>2, <5>1, <5>2
      <4>3. CASE ~\E m \in DOMAIN jobs : m > 1 /\ Changing(id, m)
        <5>1. /\ \A m \in DOMAIN jobs : m >= 1 =>
                   \A k \in DOMAIN jobs[m].ops : jobs[m].ops[k].do = "index" => id \notin jobs[m].ops[k].list
              /\ (\E k \in DOMAIN jobs[1].ops : OfIndex(jobs[1].ops[k])) \/ id \notin index.list
          BY <1>0, <1>2, <3>4, <4>3 DEF IndexFits, ChangesFit, Changing
        <5>2. QED  BY <1>3, <2>1, <4>1, <5>1
      <4>4. QED  BY <4>2, <4>3
    <3>5. QED  BY <2>1, <3>1, <3>2, <3>3, <3>4 DEF Told
  <2>2. \A id \in index'.list : Told(id)'  BY <1>0, <1>3, <2>1 DEF IndexFits
  <2>3. ASSUME NEW n \in DOMAIN jobs', NEW k \in DOMAIN jobs'[n].ops, jobs'[n].ops[k].do = "index",
               NEW id \in jobs'[n].ops[k].list
        PROVE  Told(id)'
    <3>1. PICK o \in DOMAIN jobs : jobs'[n] = jobs[o]  BY <1>2
    <3>2. Told(id)  BY <1>0, <2>3, <3>1 DEF IndexFits
    <3>3. QED  BY <2>1, <2>3, <3>1, <3>2
  <2>4. QED  BY <1>5, <2>2, <2>3 DEF IndexFits
<1>11. ReadsFit'
  <2>1. SUFFICES ASSUME NEW n \in DOMAIN jobs', NEW k \in DOMAIN jobs'[n].ops,
                        jobs'[n].ops[k].do = "read", jobs'[n].ops[k].id \notin faulty,
                        NEW id, id = jobs'[n].ops[k].id
                 PROVE  \/ /\ <<id, "json">> \in files
                           /\ \A m \in DOMAIN jobs' : m <= n => \A j \in DOMAIN jobs'[m].ops : ~RemovesOf(jobs'[m].ops[j], id)
                        \/ \E w \in DOMAIN jobs' :
                             /\ w < n /\ id \in jobs'[w].about
                             /\ \E j \in DOMAIN jobs'[w].ops : WritesFile(jobs'[w].ops[j], id, "json")
                             /\ \A m \in DOMAIN jobs' : m >= w /\ m <= n =>
                                  \A j \in DOMAIN jobs'[m].ops : ~RemovesOf(jobs'[m].ops[j], id)
    BY <1>3 DEF ReadsFit
  <2>2. PICK o \in DOMAIN jobs : o = n + 1 /\ jobs'[n] = jobs[o]  BY <1>2
  <2>3. CASE /\ <<id, "json">> \in files
             /\ \A m \in DOMAIN jobs : m <= o => \A j \in DOMAIN jobs[m].ops : ~RemovesOf(jobs[m].ops[j], id)
    <3>1. ASSUME NEW m \in DOMAIN jobs', m <= n
          PROVE  \A j \in DOMAIN jobs'[m].ops : ~RemovesOf(jobs'[m].ops[j], id)
      <4>1. PICK i \in DOMAIN jobs : i = m + 1 /\ jobs'[m] = jobs[i]  BY <1>2
      <4>2. i <= o  BY <1>2, <2>2, <3>1, <4>1
      <4>3. QED  BY <2>3, <4>1, <4>2
    <3>2. QED  BY <2>3, <3>1
  <2>4. CASE \E w \in DOMAIN jobs :
               /\ w < o /\ id \in jobs[w].about
               /\ \E j \in DOMAIN jobs[w].ops : WritesFile(jobs[w].ops[j], id, "json")
               /\ \A m \in DOMAIN jobs : m >= w /\ m <= o =>
                    \A j \in DOMAIN jobs[m].ops : ~RemovesOf(jobs[m].ops[j], id)
    <3>1. PICK w \in DOMAIN jobs :
               /\ w < o /\ id \in jobs[w].about
               /\ \E j \in DOMAIN jobs[w].ops : WritesFile(jobs[w].ops[j], id, "json")
               /\ \A m \in DOMAIN jobs : m >= w /\ m <= o =>
                    \A j \in DOMAIN jobs[m].ops : ~RemovesOf(jobs[m].ops[j], id)
      BY <2>4
    <3>2. w # 1  BY <1>3, <3>1
    <3>3. PICK v \in DOMAIN jobs' : w = v + 1 /\ jobs'[v] = jobs[w]  BY <1>2, <3>2
    <3>4. v < n  BY <1>2, <2>2, <3>1, <3>3
    <3>5. ASSUME NEW m \in DOMAIN jobs', m >= v, m <= n
          PROVE  \A j \in DOMAIN jobs'[m].ops : ~RemovesOf(jobs'[m].ops[j], id)
      <4>1. PICK i \in DOMAIN jobs : i = m + 1 /\ jobs'[m] = jobs[i]  BY <1>2
      <4>2. i >= w /\ i <= o  BY <1>2, <2>2, <3>3, <3>5, <4>1
      <4>3. QED  BY <3>1, <4>1, <4>2
    <3>6. QED  BY <3>1, <3>3, <3>4, <3>5
  <2>5. QED  BY <1>0, <2>1, <2>2, <2>3, <2>4 DEF ReadsFit
<1>12. BodiesFit'  BY <1>0, <1>3, <1>5 DEF BodiesFit, H!RecordsAreWhole
<1>13. HistoryEndsFit'
  <2>1. phase' = "closed" => jobs' = <<>>
    <3>1. ASSUME phase' = "closed" PROVE jobs' = <<>>
      <4>1. jobs[1].kind = "quit"  BY <1>3, <3>1
      <4>2. 1 = Len(jobs)  BY <1>0, <1>2, <4>1 DEF JobsFit
      <4>a. Len(jobs') = Len(jobs) - 1  BY <1>2
      <4>b. Len(jobs') = 1 - 1  BY <4>2, <4>a
      <4>3. Len(jobs') = 0  BY <4>b
      <4>4. QED  BY <1>2, <4>3, EmptySeq
    <3>2. QED  BY <3>1
  <2>2. phase' = "closed" => \A n \in DOMAIN jobs' : jobs'[n].about \subseteq faulty'
    <3>1. DOMAIN <<>> = {}  BY EmptySeq
    <3>2. QED  BY <2>1, <3>1
  <2>3. \A o \in DOMAIN jobs : \A k \in DOMAIN jobs[o].ops :
          \E n \in DOMAIN jobs' : o = n + 1 /\ jobs'[n] = jobs[o]
    BY <1>2, <1>3
  <2>4. ASSUME losses = 0 PROVE IndexLeads'
    <3>1. CASE \E o \in DOMAIN jobs :
                 /\ \E k \in DOMAIN jobs[o].ops : Leads(jobs[o].ops[k])
                 /\ \A m \in DOMAIN jobs : m > o => NoIndexOf(m)
      <4>1. PICK o \in DOMAIN jobs :
                 /\ \E k \in DOMAIN jobs[o].ops : Leads(jobs[o].ops[k])
                 /\ \A m \in DOMAIN jobs : m > o => NoIndexOf(m)
        BY <3>1
      <4>2. PICK n \in DOMAIN jobs' : o = n + 1 /\ jobs'[n] = jobs[o]  BY <2>3, <4>1
      <4>3. \E k \in DOMAIN jobs'[n].ops : Leads(jobs[n].ops[k])'  BY <1>3, <4>1, <4>2 DEF Leads
      <4>4. ASSUME NEW m \in DOMAIN jobs', m > n PROVE NoIndexOf(m)'
        <5>1. PICK i \in DOMAIN jobs : i = m + 1 /\ jobs'[m] = jobs[i]  BY <1>2
        <5>2. i > o  BY <1>2, <4>2, <4>4, <5>1
        <5>3. QED  BY <4>1, <5>1, <5>2 DEF NoIndexOf
      <4>5. QED  BY <4>3, <4>4 DEF IndexLeads
    <3>2. CASE /\ \A n \in DOMAIN jobs : NoIndexOf(n)
               /\ index.list = list /\ index.ended = ended \intersect list
      <4>1. ASSUME NEW n \in DOMAIN jobs' PROVE NoIndexOf(n)'  BY <1>2, <3>2 DEF NoIndexOf
      <4>2. QED  BY <1>3, <3>2, <4>1 DEF IndexLeads
    <3>3. QED  BY <1>0, <2>4, <3>1, <3>2 DEF HistoryEndsFit, IndexLeads
  <2>5. ASSUME losses = 0 PROVE FilesLead'
    <3>0. FilesLead  BY <1>0, <2>5 DEF HistoryEndsFit
    <3>1. SUFFICES ASSUME NEW id \in sent \ list, NEW extension \in H!Extensions
                   PROVE  /\ <<id, extension>> \in files =>
                               \E m \in DOMAIN jobs' : \E j \in DOMAIN jobs'[m].ops : RemovesFile(jobs'[m].ops[j], id, extension)
                          /\ \A n \in DOMAIN jobs' : \A k \in DOMAIN jobs'[n].ops : WritesFile(jobs'[n].ops[k], id, extension) =>
                               \E m \in DOMAIN jobs' : \E j \in DOMAIN jobs'[m].ops :
                                 (m > n \/ (m = n /\ j > k)) /\ RemovesFile(jobs'[m].ops[j], id, extension)
      BY <1>3 DEF FilesLead
    <3>2. <<id, extension>> \in files =>
            \E m \in DOMAIN jobs' : \E j \in DOMAIN jobs'[m].ops : RemovesFile(jobs'[m].ops[j], id, extension)
      BY <2>3, <3>0, <3>1 DEF FilesLead
    <3>3. ASSUME NEW n \in DOMAIN jobs', NEW k \in DOMAIN jobs'[n].ops, WritesFile(jobs'[n].ops[k], id, extension)
          PROVE  \E m \in DOMAIN jobs' : \E j \in DOMAIN jobs'[m].ops :
                   (m > n \/ (m = n /\ j > k)) /\ RemovesFile(jobs'[m].ops[j], id, extension)
      <4>1. PICK o \in DOMAIN jobs : o = n + 1 /\ jobs'[n] = jobs[o]  BY <1>2
      <4>2. PICK i \in DOMAIN jobs : \E j \in DOMAIN jobs[i].ops :
              (i > o \/ (i = o /\ j > k)) /\ RemovesFile(jobs[i].ops[j], id, extension)
        BY <3>0, <3>1, <3>3, <4>1 DEF FilesLead
      <4>3. PICK m \in DOMAIN jobs' : i = m + 1 /\ jobs'[m] = jobs[i]  BY <2>3, <4>2
      <4>4. i > o => m > n  BY <1>2, <4>1, <4>3
      <4>5. i = o => m = n  BY <1>2, <4>1, <4>3
      <4>6. QED  BY <4>2, <4>3, <4>4, <4>5
    <3>4. QED  BY <3>2, <3>3
  <2>6. QED  BY <1>0, <1>3, <2>1, <2>2, <2>4, <2>5 DEF HistoryEndsFit
<1>14. QED  BY <1>4, <1>5, <1>7, <1>9, <1>10, <1>11, <1>12, <1>13 DEF HistoryInv

LEMMA FailsKeeps ==
  ASSUME SizesAssumed, HistoryInv, H!Fails
  PROVE  HistoryInv'
<1>0. /\ HistoryTyped /\ JobsFit /\ KeptFits /\ SavesFit /\ ListFits
      /\ IndexFits /\ ReadsFit /\ BodiesFit /\ HistoryEndsFit
  BY DEF HistoryInv
<1>1. Left  BY <1>0, OneLeft DEF H!Fails, H!AfterFailure
<1>2. /\ Len(jobs) \in Nat /\ 1 \in DOMAIN jobs /\ DOMAIN jobs = 1 .. Len(jobs)
      /\ H!Current = jobs[1] /\ jobs' \in Seq(JobSet)
      /\ \A n \in DOMAIN jobs' : n \in Nat \ {0} /\ \E o \in DOMAIN jobs : o = n + 1 /\ jobs'[n] = jobs[o]
      /\ \A o \in DOMAIN jobs : o = 1 \/ \E n \in DOMAIN jobs' : o = n + 1 /\ jobs'[n] = jobs[o]
  BY <1>1 DEF Left
<1>3. 1 \in DOMAIN jobs[1].ops /\ Head(H!Current.ops) = jobs[1].ops[1]
  <2>1. jobs[1] \in JobSet /\ jobs \in Seq(JobSet)  BY <1>0, <1>2, ElementOfSeq DEF HistoryTyped
  <2>2. jobs[1].ops \in Seq(OpSet) /\ jobs[1].ops # <<>>  BY <1>2, <2>1 DEF JobSet, H!Fails
  <2>3. Len(jobs[1].ops) \in Nat /\ Len(jobs[1].ops) # 0 /\ DOMAIN jobs[1].ops = 1 .. Len(jobs[1].ops)
    BY <2>2, EmptySeq, LenProperties
  <2>4. Head(jobs[1].ops) = jobs[1].ops[1]  BY <2>2, HeadTailProperties
  <2>5. QED  BY <1>2, <2>3, <2>4
<1>4. /\ phase # "closed" /\ losses' = losses + 1 /\ faulty' = faulty \union jobs[1].about
      /\ files' \subseteq files /\ (jobs[1].ops[1].do # "removeAll" => files' = files)
      /\ undo' = (IF jobs[1].kind = "save" THEN undo \union {jobs[1].id} ELSE undo)
      /\ UNCHANGED <<phase, list, ended, index, sent, kept, missing>>
  BY <1>2, <1>3 DEF H!Fails
<1>5. \A n \in DOMAIN jobs' : \E o \in DOMAIN jobs : o # 1 /\ jobs'[n] = jobs[o]  BY <1>2
<1>6. HistoryTyped'
  <2>1. undo' \subseteq sent  BY <1>0, <1>2, <1>4 DEF HistoryTyped, JobsFit
  <2>2. files' \subseteq sent \X H!Extensions /\ losses' \in Nat  BY <1>0, <1>4 DEF HistoryTyped
  <2>3. QED  BY <1>0, <1>2, <1>4, <2>1, <2>2 DEF HistoryTyped
<1>7. JobsFit' /\ SavesFit' /\ ChangesFit' /\ BodiesPaired'  BY <1>1, <1>4, OthersStay
<1>8. KeptFits'
  <2>1. kept # {} => files' = files
    <3>1. kept # {} => jobs[1].ops[1].do # "removeAll"
      BY <1>0, <1>2, <1>3 DEF KeptFits, Spares, RemovesOf
    <3>2. QED  BY <1>4, <3>1
  <2>2. QED  BY <1>0, <1>4, <1>5, <2>1 DEF KeptFits
<1>9. ListFits'
  <2>1. SUFFICES ASSUME NEW id \in list
                 PROVE  \/ id \in kept' \/ id \in faulty'
                        \/ \E n \in DOMAIN jobs' : jobs'[n].kind = "save" /\ jobs'[n].id = id
    BY <1>4 DEF ListFits
  <2>2. CASE \E o \in DOMAIN jobs : jobs[o].kind = "save" /\ jobs[o].id = id
    <3>1. PICK o \in DOMAIN jobs : jobs[o].kind = "save" /\ jobs[o].id = id  BY <2>2
    <3>2. CASE o = 1  BY <1>0, <1>4, <3>1, <3>2 DEF JobsFit
    <3>3. CASE o # 1  BY <1>2, <3>1, <3>3
    <3>4. QED  BY <3>2, <3>3
  <2>3. QED  BY <1>0, <1>4, <2>2 DEF ListFits
<1>10. IndexFits'
  <2>1. ASSUME NEW id, Told(id) PROVE Told(id)'
    <3>1. CASE id \in kept \/ id \in faulty  BY <1>4, <3>1 DEF Told
    <3>2. CASE \E o \in DOMAIN jobs : Changing(id, o)
      <4>1. PICK o \in DOMAIN jobs : Changing(id, o)  BY <3>2
      <4>2. CASE o = 1  BY <1>4, <4>1, <4>2 DEF Told, Changing
      <4>3. CASE o # 1
        <5>1. PICK n \in DOMAIN jobs' : jobs'[n] = jobs[o]  BY <1>2, <4>3
        <5>2. Changing(id, n)'  BY <4>1, <5>1 DEF Changing
        <5>3. QED  BY <5>2 DEF Told
      <4>4. QED  BY <4>2, <4>3
    <3>3. QED  BY <2>1, <3>1, <3>2 DEF Told
  <2>2. \A id \in index'.list : Told(id)'  BY <1>0, <1>4, <2>1 DEF IndexFits
  <2>3. ASSUME NEW n \in DOMAIN jobs', NEW k \in DOMAIN jobs'[n].ops, jobs'[n].ops[k].do = "index",
               NEW id \in jobs'[n].ops[k].list
        PROVE  Told(id)'
    <3>1. PICK o \in DOMAIN jobs : jobs'[n] = jobs[o]  BY <1>2
    <3>2. Told(id)  BY <1>0, <2>3, <3>1 DEF IndexFits
    <3>3. QED  BY <2>1, <3>2
  <2>4. QED  BY <1>7, <2>2, <2>3 DEF IndexFits
<1>11. ReadsFit'
  <2>1. SUFFICES ASSUME NEW n \in DOMAIN jobs', NEW k \in DOMAIN jobs'[n].ops,
                        jobs'[n].ops[k].do = "read", jobs'[n].ops[k].id \notin faulty',
                        NEW id, id = jobs'[n].ops[k].id
                 PROVE  \/ /\ <<id, "json">> \in files'
                           /\ \A m \in DOMAIN jobs' : m <= n => \A j \in DOMAIN jobs'[m].ops : ~RemovesOf(jobs'[m].ops[j], id)
                        \/ \E w \in DOMAIN jobs' :
                             /\ w < n /\ id \in jobs'[w].about
                             /\ \E j \in DOMAIN jobs'[w].ops : WritesFile(jobs'[w].ops[j], id, "json")
                             /\ \A m \in DOMAIN jobs' : m >= w /\ m <= n =>
                                  \A j \in DOMAIN jobs'[m].ops : ~RemovesOf(jobs'[m].ops[j], id)
    BY DEF ReadsFit
  <2>2. PICK o \in DOMAIN jobs : o = n + 1 /\ jobs'[n] = jobs[o]  BY <1>2
  <2>a. id \notin faulty /\ id \notin jobs[1].about  BY <1>4, <2>1
  <2>3. CASE /\ <<id, "json">> \in files
             /\ \A m \in DOMAIN jobs : m <= o => \A j \in DOMAIN jobs[m].ops : ~RemovesOf(jobs[m].ops[j], id)
    <3>1. ASSUME NEW m \in DOMAIN jobs', m <= n
          PROVE  \A j \in DOMAIN jobs'[m].ops : ~RemovesOf(jobs'[m].ops[j], id)
      <4>1. PICK i \in DOMAIN jobs : i = m + 1 /\ jobs'[m] = jobs[i]  BY <1>2
      <4>2. i <= o  BY <1>2, <2>2, <3>1, <4>1
      <4>3. QED  BY <2>3, <4>1, <4>2
    <3>2. 1 <= o  BY <1>2, <2>2
    <3>3. ~RemovesOf(jobs[1].ops[1], id)  BY <1>2, <1>3, <2>3, <3>2
    <3>4. files' = files  BY <1>4, <3>3 DEF RemovesOf
    <3>5. QED  BY <2>3, <3>1, <3>4
  <2>4. CASE \E w \in DOMAIN jobs :
               /\ w < o /\ id \in jobs[w].about
               /\ \E j \in DOMAIN jobs[w].ops : WritesFile(jobs[w].ops[j], id, "json")
               /\ \A m \in DOMAIN jobs : m >= w /\ m <= o =>
                    \A j \in DOMAIN jobs[m].ops : ~RemovesOf(jobs[m].ops[j], id)
    <3>1. PICK w \in DOMAIN jobs :
               /\ w < o /\ id \in jobs[w].about
               /\ \E j \in DOMAIN jobs[w].ops : WritesFile(jobs[w].ops[j], id, "json")
               /\ \A m \in DOMAIN jobs : m >= w /\ m <= o =>
                    \A j \in DOMAIN jobs[m].ops : ~RemovesOf(jobs[m].ops[j], id)
      BY <2>4
    <3>2. w # 1  BY <2>a, <3>1
    <3>3. PICK v \in DOMAIN jobs' : w = v + 1 /\ jobs'[v] = jobs[w]  BY <1>2, <3>2
    <3>4. v < n  BY <1>2, <2>2, <3>1, <3>3
    <3>5. ASSUME NEW m \in DOMAIN jobs', m >= v, m <= n
          PROVE  \A j \in DOMAIN jobs'[m].ops : ~RemovesOf(jobs'[m].ops[j], id)
      <4>1. PICK i \in DOMAIN jobs : i = m + 1 /\ jobs'[m] = jobs[i]  BY <1>2
      <4>2. i >= w /\ i <= o  BY <1>2, <2>2, <3>3, <3>5, <4>1
      <4>3. QED  BY <3>1, <4>1, <4>2
    <3>6. QED  BY <3>1, <3>3, <3>4, <3>5
  <2>5. QED  BY <1>0, <2>1, <2>2, <2>a, <2>3, <2>4 DEF ReadsFit
<1>12. H!RecordsAreWhole'
  <2>1. SUFFICES ASSUME NEW id \in sent, <<id, "json">> \in files', <<id, "body">> \notin files'
                 PROVE  id \in faulty'
    BY <1>4 DEF H!RecordsAreWhole
  <2>2. CASE files' = files  BY <1>0, <1>4, <2>1, <2>2 DEF BodiesFit, H!RecordsAreWhole
  <2>3. CASE jobs[1].ops[1].do = "removeAll" /\ id \notin jobs[1].about
    <3>1. \A extension \in H!Extensions : <<id, extension>> \notin files
      BY <1>0, <1>2, <1>3, <2>1, <2>3 DEF BodiesFit, BodiesPaired
    <3>2. QED  BY <1>4, <2>1, <3>1 DEF H!Extensions
  <2>4. QED  BY <1>4, <2>2, <2>3
<1>13. HistoryEndsFit'
  <2>1. losses' # 0  BY <1>0, <1>4 DEF HistoryTyped
  <2>2. QED  BY <1>0, <1>4, <2>1 DEF HistoryEndsFit
<1>14. QED  BY <1>6, <1>7, <1>8, <1>9, <1>10, <1>11, <1>12, <1>13 DEF HistoryInv, BodiesFit

-----------------------------------------------------------------------------
(***************************************************************************)
(* The app is killed and started.                                          *)
(***************************************************************************)
LEMMA KillKeeps ==
  ASSUME SizesAssumed, HistoryInv, H!Kill
  PROVE  HistoryInv'
<1>0. /\ HistoryTyped /\ JobsFit /\ KeptFits /\ SavesFit /\ ListFits
      /\ IndexFits /\ ReadsFit /\ BodiesFit /\ HistoryEndsFit
  BY DEF HistoryInv
<1>1. /\ phase' = "closed" /\ losses' = losses + 1 /\ faulty' = faulty \union H!Touched
      /\ UNCHANGED <<list, ended, jobs, undo, index, files, sent, kept, missing>>
  BY DEF H!Kill
<1>2. HistoryTyped' /\ losses' # 0  BY <1>0, <1>1 DEF HistoryTyped
<1>3. JobsFit'  BY <1>0, <1>1 DEF JobsFit
<1>4. KeptFits' /\ SavesFit'  BY <1>0, <1>1 DEF KeptFits, SavesFit
<1>5. ListFits'  BY <1>0, <1>1 DEF ListFits
<1>6. IndexFits'
  <2>1. \A id : Told(id) => Told(id)'  BY <1>1 DEF Told, Changing
  <2>2. ChangesFit'  BY <1>0, <1>1 DEF IndexFits, ChangesFit, Changing
  <2>3. QED  BY <1>0, <1>1, <2>1, <2>2 DEF IndexFits
<1>7. ReadsFit'  BY <1>0, <1>1 DEF ReadsFit
<1>8. BodiesFit'
  <2>1. BodiesPaired'  BY <1>0, <1>1 DEF BodiesFit, BodiesPaired
  <2>2. QED  BY <1>0, <1>1, <2>1 DEF BodiesFit, H!RecordsAreWhole
<1>9. HistoryEndsFit'
  <2>1. \A n \in DOMAIN jobs : jobs[n].about \subseteq faulty'  BY <1>1 DEF H!Touched
  <2>2. QED  BY <1>0, <1>1, <1>2, <2>1 DEF HistoryEndsFit
<1>10. QED  BY <1>2, <1>3, <1>4, <1>5, <1>6, <1>7, <1>8, <1>9 DEF HistoryInv

LEMMA LoadedKeeps ==
  ASSUME SizesAssumed, HistoryInv, H!Load
  PROVE  HistoryInv'
<1>0. /\ HistoryTyped /\ KeptFits /\ IndexFits /\ BodiesFit /\ HistoryEndsFit  BY DEF HistoryInv
<1>1. /\ phase = "closed" /\ phase' = "open" /\ list' = index.list /\ ended' = index.ended
      /\ jobs' = <<>> /\ undo' = {}
      /\ UNCHANGED <<index, files, sent, kept, faulty, missing, losses>>
  BY DEF H!Load
<1>2. jobs' \in Seq(JobSet) /\ DOMAIN jobs' = {}  BY <1>1, EmptySeq
<1>3. HistoryTyped'  BY <1>0, <1>1, <1>2 DEF HistoryTyped
<1>4. JobsFit' /\ SavesFit' /\ ReadsFit'  BY <1>2 DEF JobsFit, SavesFit, ReadsFit
<1>5. KeptFits'  BY <1>0, <1>1, <1>2 DEF KeptFits
<1>6. \A id \in index.list : id \in kept \/ id \in faulty
  BY <1>0, <1>1 DEF IndexFits, Told, Changing, HistoryEndsFit
<1>7. ListFits'  BY <1>1, <1>6 DEF ListFits
<1>8. IndexFits'
  <2>1. ChangesFit'  BY <1>2 DEF ChangesFit
  <2>2. \A id \in index'.list : Told(id)'  BY <1>1, <1>6 DEF Told
  <2>3. QED  BY <1>2, <2>1, <2>2 DEF IndexFits
<1>9. BodiesFit'
  <2>1. BodiesPaired'  BY <1>2 DEF BodiesPaired
  <2>2. QED  BY <1>0, <1>1, <2>1 DEF BodiesFit, H!RecordsAreWhole
<1>10. HistoryEndsFit'
  <2>1. ASSUME losses = 0 PROVE IndexLeads' /\ FilesLead'
    <3>1. jobs = <<>> /\ FilesLead /\ IndexLeads  BY <1>0, <1>1, <2>1 DEF HistoryEndsFit
    <3>2. DOMAIN jobs = {}  BY <3>1, EmptySeq
    <3>3. index.list = list /\ index.ended = ended \intersect list  BY <3>1, <3>2 DEF IndexLeads
    <3>4. IndexLeads'
      <4>1. index'.list = list' /\ index'.ended = ended' \intersect list'  BY <1>0, <1>1 DEF HistoryTyped
      <4>2. QED  BY <1>2, <4>1 DEF IndexLeads
    <3>5. FilesLead'  BY <1>1, <1>2, <3>1, <3>2, <3>3 DEF FilesLead
    <3>6. QED  BY <3>4, <3>5
  <2>2. QED  BY <1>0, <1>1, <1>2, <2>1 DEF HistoryEndsFit
<1>11. QED  BY <1>3, <1>4, <1>5, <1>7, <1>8, <1>9, <1>10 DEF HistoryInv

-----------------------------------------------------------------------------
LEMMA HistoryInit ==
  ASSUME SizesAssumed, H!Init
  PROVE  HistoryInv
<1>1. DOMAIN jobs = {} /\ jobs \in Seq(JobSet)  BY EmptySeq DEF H!Init
<1>2. Cardinality({}) = 0  BY FS_EmptySet
<1>3. HistoryTyped  BY <1>1, <1>2 DEF H!Init, HistoryTyped, SizesAssumed
<1>4. JobsFit /\ SavesFit /\ ReadsFit /\ ListFits /\ KeptFits
  BY <1>1 DEF H!Init, JobsFit, SavesFit, ReadsFit, ListFits, KeptFits
<1>5. IndexFits /\ BodiesFit
  BY <1>1 DEF H!Init, IndexFits, ChangesFit, BodiesFit, BodiesPaired, H!RecordsAreWhole
<1>6. HistoryEndsFit  BY <1>1 DEF H!Init, HistoryEndsFit, IndexLeads, FilesLead, NoIndexOf
<1>7. QED  BY <1>3, <1>4, <1>5, <1>6 DEF HistoryInv

LEMMA StutterKeeps ==
  ASSUME HistoryInv, UNCHANGED H!vars
  PROVE  HistoryInv'
<1>1. UNCHANGED <<phase, list, ended, jobs, undo, index, files, sent, kept, faulty, missing, losses>>
  BY DEF H!vars
<1>2. HistoryTyped' /\ JobsFit' /\ KeptFits' /\ SavesFit' /\ ListFits'
  BY <1>1 DEF HistoryInv, HistoryTyped, JobsFit, KeptFits, SavesFit, ListFits
<1>3. IndexFits'
  <2>1. ChangesFit'  BY <1>1 DEF HistoryInv, IndexFits, ChangesFit, Changing
  <2>2. \A id : Told(id) <=> Told(id)'  BY <1>1 DEF Told, Changing
  <2>3. QED  BY <1>1, <2>1, <2>2 DEF HistoryInv, IndexFits
<1>4. ReadsFit' /\ BodiesFit'
  BY <1>1 DEF HistoryInv, ReadsFit, BodiesFit, BodiesPaired, H!RecordsAreWhole
<1>5. HistoryEndsFit'
  <2>1. IndexLeads => IndexLeads'  BY <1>1 DEF IndexLeads, NoIndexOf, Leads
  <2>2. FilesLead => FilesLead'  BY <1>1 DEF FilesLead
  <2>3. QED  BY <1>1, <2>1, <2>2 DEF HistoryInv, HistoryEndsFit
<1>6. QED  BY <1>2, <1>3, <1>4, <1>5 DEF HistoryInv

LEMMA HistoryInductive ==
  ASSUME SizesAssumed, HistoryInv, [H!Next]_(H!vars)
  PROVE  HistoryInv'
BY PanelKeeps, WorksKeeps, FinishesKeeps, FailsKeeps, KillKeeps, LoadedKeeps, StutterKeeps DEF H!Next, H!Worker

LEMMA HistoryInvHolds == ASSUME SizesAssumed PROVE H!Spec => []HistoryInv
<1>1. H!Init => HistoryInv  BY HistoryInit
<1>2. HistoryInv /\ [H!Next]_(H!vars) => HistoryInv'  BY HistoryInductive
<1>3. QED  BY <1>1, <1>2, PTL DEF H!Spec

LEMMA WhatFollows ==
  ASSUME HistoryInv
  PROVE  H!TypeOK /\ H!SavedRequestsStay /\ H!OpenedRequestsAreFound /\ H!RecordsAreWhole /\ H!QuitSavesEverything
<1>0. HistoryTyped /\ KeptFits /\ ListFits /\ BodiesFit /\ HistoryEndsFit  BY DEF HistoryInv
<1>1. H!TypeOK  BY <1>0, SameOperators DEF HistoryTyped, H!TypeOK
<1>2. H!SavedRequestsStay
  <2>1. kept \X H!Extensions \subseteq files
    <3>1. \A id \in kept, extension \in H!Extensions : <<id, extension>> \in files  BY <1>0 DEF KeptFits
    <3>2. QED  BY <3>1
  <2>2. QED  BY <1>0, <2>1 DEF KeptFits, H!SavedRequestsStay
<1>3. H!OpenedRequestsAreFound /\ H!RecordsAreWhole
  BY <1>0 DEF HistoryEndsFit, BodiesFit, H!OpenedRequestsAreFound
<1>4. H!QuitSavesEverything
  <2>1. SUFFICES ASSUME phase = "closed", losses = 0
                 PROVE  /\ index = [list |-> list, ended |-> ended \intersect list]
                        /\ files = list \X H!Extensions
    BY DEF H!QuitSavesEverything
  <2>2. jobs = <<>> /\ IndexLeads /\ FilesLead /\ faulty = {}  BY <1>0, <2>1 DEF HistoryEndsFit
  <2>3. DOMAIN jobs = {}  BY <2>2, EmptySeq
  <2>4. index.list = list /\ index.ended = ended \intersect list  BY <2>2, <2>3 DEF IndexLeads
  <2>5. \A id \in sent \ list, extension \in H!Extensions : <<id, extension>> \notin files
    BY <2>2, <2>3 DEF FilesLead
  <2>6. \A id \in list, extension \in H!Extensions : <<id, extension>> \in files
    BY <1>0, <2>2, <2>3 DEF ListFits, KeptFits
  <2>7. files = list \X H!Extensions
    <3>1. files \subseteq sent \X H!Extensions /\ list \subseteq sent  BY <1>0 DEF HistoryTyped
    <3>2. ASSUME NEW f \in files PROVE f \in list \X H!Extensions
      <4>1. PICK id \in sent, extension \in H!Extensions : f = <<id, extension>>  BY <3>1, <3>2
      <4>2. QED  BY <2>5, <3>2, <4>1
    <3>3. ASSUME NEW f \in list \X H!Extensions PROVE f \in files
      <4>1. PICK id \in list, extension \in H!Extensions : f = <<id, extension>>  BY <3>3
      <4>2. QED  BY <2>6, <4>1
    <3>4. QED  BY <3>2, <3>3
  <2>8. index = [list |-> index.list, ended |-> index.ended]  BY <1>0 DEF HistoryTyped
  <2>9. QED  BY <2>4, <2>7, <2>8
<1>5. QED  BY <1>1, <1>2, <1>3, <1>4

(***************************************************************************)
(* The list holds requests that were sent, no more than LIMIT of them, and *)
(* so does the saved one; the files are of requests that were sent         *)
(* (history.rs:94).                                                        *)
(***************************************************************************)
THEOREM HistoryTypeCorrect == ASSUME SizesAssumed PROVE H!Spec => []H!TypeOK
<1>1. HistoryInv => H!TypeOK  BY WhatFollows
<1>2. QED  BY <1>1, HistoryInvHolds, PTL

(***************************************************************************)
(* history.rs:79: a request that was saved and not deleted stays in the    *)
(* saved list with both files, however many requests are sent, whatever    *)
(* fails and wherever the app is killed.                                   *)
(***************************************************************************)
THEOREM SavedRequestsAlwaysStay == ASSUME SizesAssumed PROVE H!Spec => []H!SavedRequestsStay
<1>1. HistoryInv => H!SavedRequestsStay  BY WhatFollows
<1>2. QED  BY <1>1, HistoryInvHolds, PTL

(***************************************************************************)
(* history_panel.rs:47: a listed request that is opened is found, however  *)
(* far its save and its deletion are behind, unless a job about it failed. *)
(***************************************************************************)
THEOREM OpenedAreAlwaysFound == ASSUME SizesAssumed PROVE H!Spec => []H!OpenedRequestsAreFound
<1>1. HistoryInv => H!OpenedRequestsAreFound  BY WhatFollows
<1>2. QED  BY <1>1, HistoryInvHolds, PTL

(***************************************************************************)
(* history.rs:220: between any two file operations, a record has the body  *)
(* it came with, unless a job about it was cut off.                        *)
(***************************************************************************)
THEOREM RecordsAlwaysWhole == ASSUME SizesAssumed PROVE H!Spec => []H!RecordsAreWhole
<1>1. HistoryInv => H!RecordsAreWhole  BY WhatFollows
<1>2. QED  BY <1>1, HistoryInvHolds, PTL

(***************************************************************************)
(* history_panel.rs:80: an app that quit without a fault has saved the     *)
(* list as it is, with the files of its requests and no others.            *)
(***************************************************************************)
THEOREM QuitAlwaysSaves == ASSUME SizesAssumed PROVE H!Spec => []H!QuitSavesEverything
<1>1. HistoryInv => H!QuitSavesEverything  BY WhatFollows
<1>2. QED  BY <1>1, HistoryInvHolds, PTL

-----------------------------------------------------------------------------
(***************************************************************************)
(* Environments: any names, files, tabs and variables, and any failures.   *)
(***************************************************************************)

(***************************************************************************)
(* There is a name, and a file holds at least one variable; a missing file *)
(* is none that can be read, and the lack of a name is no name.            *)
(***************************************************************************)
FilesAssumed ==
  /\ MaxNames \in Nat \ {0} /\ MaxVariables \in Nat \ {0}
  /\ Gone \notin E!Variables \union {Unreadable} /\ NoName \notin E!Names

Contents == E!Variables \union {Gone, Unreadable}
Disks == [E!Names -> Contents]

EnvironmentsTyped ==
  /\ disk \in Disks
  /\ names \subseteq E!Names
  /\ active \in [shown : E!Names \union {NoName}, saved : E!Names \union {NoName}]
  /\ tabs \in Seq(E!TabSet)
  /\ asking \in 0 .. Len(tabs)
  /\ import \in E!Names \union {NoName, ImportDone}

(***************************************************************************)
(* The list names files that are there, and each tab follows the file of   *)
(* its name, which no other tab has.                                       *)
(***************************************************************************)
TabsFit(d, ns, ts) ==
  /\ ns \subseteq E!Listed(d)
  /\ \A j \in DOMAIN ts : ts[j].follows /\ d[ts[j].name] # Gone
  /\ \A j, q \in DOMAIN ts : ts[j].name = ts[q].name => j = q

FilesFit == "files" \notin astray => TabsFit(disk, names, tabs)

EnvironmentsInv == EnvironmentsTyped /\ FilesFit /\ E!ActiveIsSaved

(***************************************************************************)
(* A tab is written over, marked as lost, put at the end or removed.       *)
(***************************************************************************)
LEMMA PutsTab ==
  ASSUME tabs \in Seq(E!TabSet), NEW j \in DOMAIN tabs, NEW t \in E!TabSet
  PROVE  /\ E!Put(j, t) \in Seq(E!TabSet) /\ Len(E!Put(j, t)) = Len(tabs)
         /\ DOMAIN E!Put(j, t) = DOMAIN tabs
         /\ \A q \in DOMAIN tabs : E!Put(j, t)[q] = IF q = j THEN t ELSE tabs[q]
BY DEF E!Put

LEMMA LosesTabs ==
  ASSUME NEW ts \in Seq(E!TabSet), NEW n
  PROVE  /\ E!Lost(ts, n) \in Seq(E!TabSet) /\ Len(E!Lost(ts, n)) = Len(ts)
         /\ DOMAIN E!Lost(ts, n) = DOMAIN ts
         /\ \A q \in DOMAIN ts :
              /\ E!Lost(ts, n)[q].name = ts[q].name
              /\ E!Lost(ts, n)[q].follows <=> (ts[q].follows /\ ts[q].name # n)
<1>1. \A q \in DOMAIN ts : ts[q] \in E!TabSet  OBVIOUS
<1>2. \A q \in DOMAIN ts :
        LET t == [ts[q] EXCEPT !.follows = @ /\ ts[q].name # n]
        IN  t \in E!TabSet /\ t.name = ts[q].name /\ (t.follows <=> (ts[q].follows /\ ts[q].name # n))
  BY <1>1 DEF E!TabSet
<1>3. E!Lost(ts, n) = [q \in 1 .. Len(ts) |-> [ts[q] EXCEPT !.follows = @ /\ ts[q].name # n]]
  BY DEF E!Lost
<1>4. DOMAIN ts = 1 .. Len(ts) /\ Len(ts) \in Nat  OBVIOUS
<1>5. E!Lost(ts, n) \in Seq(E!TabSet)  BY <1>2, <1>3, <1>4, IsASeq
<1>6. DOMAIN E!Lost(ts, n) = 1 .. Len(ts)  BY <1>3
<1>7. Len(E!Lost(ts, n)) = Len(ts)  BY <1>4, <1>5, <1>6, LenProperties
<1>8. QED  BY <1>2, <1>3, <1>4, <1>5, <1>6, <1>7

LEMMA RemovesTab ==
  ASSUME tabs \in Seq(E!TabSet), NEW j \in DOMAIN tabs
  PROVE  /\ E!RemoveAt(tabs, j) \in Seq(E!TabSet) /\ Len(E!RemoveAt(tabs, j)) = Len(tabs) - 1
         /\ \A q \in DOMAIN E!RemoveAt(tabs, j) :
              LET p == IF q < j THEN q ELSE q + 1
              IN  p \in DOMAIN tabs \ {j} /\ E!RemoveAt(tabs, j)[q] = tabs[p]
<1>1. E!RemoveAt(tabs, j) = SubSeq(tabs, 1, j - 1) \o SubSeq(tabs, j + 1, Len(tabs))  BY DEF E!RemoveAt
<1>2. SubSeq(tabs, 1, j - 1) \in Seq(E!TabSet) /\ SubSeq(tabs, j + 1, Len(tabs)) \in Seq(E!TabSet)
  OBVIOUS
<1>3. E!RemoveAt(tabs, j) \in Seq(E!TabSet)  BY <1>1, <1>2
<1>4. Len(E!RemoveAt(tabs, j)) = Len(tabs) - 1  BY <1>1, <1>2
<1>5. DOMAIN E!RemoveAt(tabs, j) = 1 .. Len(tabs) - 1  BY <1>3, <1>4
<1>6. ASSUME NEW q \in DOMAIN E!RemoveAt(tabs, j)
      PROVE  LET p == IF q < j THEN q ELSE q + 1
             IN  p \in DOMAIN tabs \ {j} /\ E!RemoveAt(tabs, j)[q] = tabs[p]
  <2> DEFINE front == SubSeq(tabs, 1, j - 1)
             back == SubSeq(tabs, j + 1, Len(tabs))
  <2>4. j \in 1 .. Len(tabs) /\ Len(tabs) \in Nat /\ q \in 1 .. Len(tabs) - 1  BY <1>5, <1>6
  <2>5. front \in Seq(E!TabSet) /\ back \in Seq(E!TabSet) /\ E!RemoveAt(tabs, j) = front \o back
    BY <1>1, <1>2
  <2>6. Len(front) = j - 1 /\ \A i \in 1 .. j - 1 : front[i] = tabs[i]  BY <2>4
  <2>7. Len(back) = Len(tabs) - j /\ \A i \in 1 .. Len(tabs) - j : back[i] = tabs[j + i]
    BY <2>4
  <2>0. /\ Len(front) = j - 1 /\ \A i \in 1 .. j - 1 : front[i] = tabs[i]
        /\ Len(back) = Len(tabs) - j /\ \A i \in 1 .. Len(tabs) - j : back[i] = tabs[j + i]
        /\ j \in 1 .. Len(tabs) /\ Len(tabs) \in Nat
        /\ q \in 1 .. Len(tabs) - 1
        /\ front \in Seq(E!TabSet) /\ back \in Seq(E!TabSet)
        /\ E!RemoveAt(tabs, j) = front \o back
    BY <2>4, <2>5, <2>6, <2>7
  <2> HIDE DEF front, back
  <2>1. CASE q < j
    <3>1. (front \o back)[q] = tabs[q]  BY <2>0, <2>1
    <3>2. q \in DOMAIN tabs \ {j}  BY <2>0, <2>1
    <3>3. QED  BY <2>0, <2>1, <3>1, <3>2
  <2>2. CASE ~(q < j)
    <3>1. (front \o back)[q] = back[q - (j - 1)]  BY <2>0, <2>2
    <3>2. j + (q - (j - 1)) = q + 1 /\ q - (j - 1) \in 1 .. Len(tabs) - j  BY <2>0, <2>2
    <3>3. back[q - (j - 1)] = tabs[q + 1]  BY <2>0, <3>2
    <3>4. q + 1 \in DOMAIN tabs \ {j}  BY <2>0, <2>2
    <3>5. QED  BY <2>0, <2>2, <3>1, <3>3, <3>4
  <2>3. QED  BY <2>1, <2>2
<1>7. QED  BY <1>3, <1>4, <1>6

LEMMA OpensTab ==
  ASSUME FilesAssumed, NEW d \in Disks, NEW n \in E!Names
  PROVE  /\ E!Editor(d, n) \in E!TabSet /\ E!Editor(d, n).name = n
         /\ E!Editor(d, n).follows <=> d[n] # Gone
<1>1. E!Read(d, n) \in E!Variables \union {Unreadable}  BY DEF FilesAssumed, Disks, Contents, E!Read, E!Variables
<1>2. DEFINE value == IF E!Read(d, n) = Unreadable THEN 0 ELSE E!Read(d, n)
<1>3. value \in E!Variables  BY <1>1 DEF FilesAssumed, E!Variables
<1>4. PICK broken \in BOOLEAN : broken <=> E!Read(d, n) = Unreadable  BY Zenon
<1>5. PICK follows \in BOOLEAN : follows <=> d[n] # Gone  BY Zenon
<1>6. E!Editor(d, n) = [name |-> n, saved |-> value, variables |-> value,
                      broken |-> E!Read(d, n) = Unreadable, follows |-> d[n] # Gone]
  BY Zenon DEF E!Editor
<1> HIDE DEF value
<1>7. E!Editor(d, n) = [name |-> n, saved |-> value, variables |-> value,
                      broken |-> broken, follows |-> follows]
  <2>1. broken = (E!Read(d, n) = Unreadable) /\ follows = (d[n] # Gone)  BY <1>4, <1>5, Zenon
  <2>2. QED  BY <1>6, <2>1, Zenon
<1>8. QED  BY <1>3, <1>5, <1>7 DEF E!TabSet

LEMMA ListedFiles ==
  ASSUME NEW d
  PROVE  E!Listed(d) \subseteq E!Names /\ \A n \in E!Names : n \in E!Listed(d) <=> d[n] # Gone
BY DEF E!Listed

LEMMA EnvironmentsInit == ASSUME FilesAssumed, E!Init PROVE EnvironmentsInv
<1>1. 1 \in E!Names /\ 0 \in E!Variables  BY DEF FilesAssumed, E!Names, E!Variables
<1>2. EnvironmentsTyped  BY <1>1, EmptySeq DEF E!Init, EnvironmentsTyped, Disks, Contents
<1>3. FilesFit
  <2>1. 1 \in E!Listed(disk)  BY <1>1 DEF E!Init, E!Listed, FilesAssumed
  <2>2. DOMAIN tabs = {}  BY DEF E!Init
  <2>3. QED  BY <2>1, <2>2 DEF E!Init, FilesFit, TabsFit
<1>4. E!ActiveIsSaved  BY DEF E!Init, E!ActiveIsSaved
<1>5. QED  BY <1>2, <1>3, <1>4 DEF EnvironmentsInv

-----------------------------------------------------------------------------
(***************************************************************************)
(* What the helpers of the operations keep.                                *)
(***************************************************************************)
LEMMA TroubleKeeps ==
  ASSUME NEW outcome, E!Fault(outcome)
  PROVE  /\ astray \subseteq astray'
         /\ outcome \in {"list", "removes"} => "files" \in astray'
         /\ outcome = "remember" => "choice" \in astray'
BY DEF E!Fault, E!Strays, E!Happens, E!troubles

LEMMA ReloadKeeps ==
  ASSUME NEW outcome, names \subseteq E!Names, E!Reload(outcome)
  PROVE  /\ names' \subseteq E!Names
         /\ outcome # "list" => names' \subseteq E!Listed(disk')
BY ListedFiles DEF E!Reload

LEMMA ChoiceKeeps ==
  ASSUME active \in [shown : E!Names \union {NoName}, saved : E!Names \union {NoName}],
         E!ActiveIsSaved, NEW outcome, E!Fault(outcome),
         UNCHANGED active \/ \E name \in E!Names \union {NoName} : E!SetsActive(name, outcome)
  PROVE  /\ active' \in [shown : E!Names \union {NoName}, saved : E!Names \union {NoName}]
         /\ E!ActiveIsSaved'
<1>1. CASE UNCHANGED active  BY <1>1, TroubleKeeps DEF E!ActiveIsSaved
<1>2. ASSUME NEW name \in E!Names \union {NoName}, E!SetsActive(name, outcome)
      PROVE  /\ active' \in [shown : E!Names \union {NoName}, saved : E!Names \union {NoName}]
             /\ E!ActiveIsSaved'
  BY <1>2, TroubleKeeps DEF E!SetsActive, E!ActiveIsSaved
<1>3. QED  BY <1>1, <1>2

(***************************************************************************)
(* Saving a tab removes no file and leaves the other tabs' names.          *)
(***************************************************************************)
LEMMA WritesKeeps ==
  ASSUME FilesAssumed, tabs \in Seq(E!TabSet), NEW d \in Disks, NEW j \in DOMAIN tabs,
         NEW t \in E!TabSet, NEW without, NEW outcome, E!Writes(j, t, d, without, outcome)
  PROVE  /\ disk' \in Disks /\ E!Listed(d) \subseteq E!Listed(disk')
         /\ tabs' \in Seq(E!TabSet) /\ Len(tabs') = Len(tabs) /\ DOMAIN tabs' = DOMAIN tabs
         /\ \A q \in DOMAIN tabs :
              /\ tabs'[q].name = IF q = j THEN t.name ELSE tabs[q].name
              /\ (IF q = j THEN t.follows /\ t.name # without
                  ELSE tabs[q].follows /\ tabs[q].name # without) => tabs'[q].follows
<1>1. CASE t.broken \/ outcome \in {"refused", "write"}
  <2>1. disk' = d /\ tabs' = E!Lost(E!Put(j, t), without)  BY <1>1 DEF E!Writes
  <2>2. PICK ts : ts = E!Put(j, t)  OBVIOUS
  <2>3. /\ ts \in Seq(E!TabSet) /\ Len(ts) = Len(tabs) /\ DOMAIN ts = DOMAIN tabs
        /\ \A q \in DOMAIN tabs : ts[q] = IF q = j THEN t ELSE tabs[q]
    BY <2>2, PutsTab
  <2>4. tabs' = E!Lost(ts, without)  BY <2>1, <2>2
  <2>5. QED  BY <2>1, <2>3, <2>4, LosesTabs
<1>2. CASE ~(t.broken \/ outcome \in {"refused", "write"})
  <2>1. PICK u : u = [t EXCEPT !.saved = t.variables, !.follows = TRUE]  OBVIOUS
  <2>2. u \in E!TabSet /\ u.name = t.name /\ u.follows  BY <2>1 DEF E!TabSet
  <2>3. disk' = [d EXCEPT ![t.name] = t.variables] /\ tabs' = E!Lost(E!Put(j, u), without)
    BY <1>2, <2>1 DEF E!Writes
  <2>4. t.name \in E!Names /\ t.variables \in E!Variables /\ t.variables # Gone
    BY DEF E!TabSet, FilesAssumed
  <2>5. disk' \in Disks  BY <2>3, <2>4 DEF Disks, Contents
  <2>6. E!Listed(d) \subseteq E!Listed(disk')  BY <2>3, <2>4, ListedFiles DEF Disks
  <2>a. PICK ts : ts = E!Put(j, u)  OBVIOUS
  <2>b. /\ ts \in Seq(E!TabSet) /\ Len(ts) = Len(tabs) /\ DOMAIN ts = DOMAIN tabs
        /\ \A q \in DOMAIN tabs : ts[q] = IF q = j THEN u ELSE tabs[q]
    BY <2>2, <2>a, PutsTab
  <2>c. tabs' = E!Lost(ts, without)  BY <2>3, <2>a
  <2>7. tabs' \in Seq(E!TabSet) /\ Len(tabs') = Len(tabs) /\ DOMAIN tabs' = DOMAIN tabs
    BY <2>b, <2>c, LosesTabs
  <2>8. ASSUME NEW q \in DOMAIN tabs
        PROVE  /\ tabs'[q].name = IF q = j THEN t.name ELSE tabs[q].name
               /\ (IF q = j THEN t.follows /\ t.name # without
                   ELSE tabs[q].follows /\ tabs[q].name # without) => tabs'[q].follows
    BY <2>2, <2>b, <2>c, LosesTabs
  <2>9. QED  BY <2>5, <2>6, <2>7, <2>8
<1>3. QED  BY <1>1, <1>2

(***************************************************************************)
(* A file that was renamed is there under its new name only.               *)
(***************************************************************************)
LEMMA RenamesFile ==
  ASSUME FilesAssumed, disk \in Disks, NEW from \in E!Names, NEW to \in E!Names, to # from,
         E!CanRename(from, to)
  PROVE  /\ E!Renamed(from, to) \in Disks
         /\ to \in E!Listed(E!Renamed(from, to)) /\ to \notin E!Listed(disk)
         /\ \A n \in E!Listed(disk) \ {from} : n \in E!Listed(E!Renamed(from, to))
         /\ \A n \in E!Names \ {from, to} : E!Renamed(from, to)[n] = disk[n]
         /\ E!Renamed(from, to)[to] = disk[from] /\ E!Renamed(from, to)[from] = Gone
BY ListedFiles DEF E!Renamed, E!CanRename, E!Taken, Disks, Contents

(***************************************************************************)
(* Tabs of which one may have a new name, which no file had, still follow  *)
(* their files while no other file has gone.                               *)
(***************************************************************************)
LEMMA NamedTabsFit ==
  ASSUME tabs \in Seq(E!TabSet), TabsFit(disk, names, tabs), NEW j \in DOMAIN tabs, NEW to \in E!Names,
         to = tabs[j].name \/ to \notin E!Listed(disk),
         to \in E!Listed(disk'), names' \subseteq E!Listed(disk'),
         \A n \in E!Listed(disk) \ {tabs[j].name} : n \in E!Listed(disk'),
         DOMAIN tabs' = DOMAIN tabs,
         \A q \in DOMAIN tabs :
           /\ tabs'[q].name = IF q = j THEN to ELSE tabs[q].name
           /\ tabs'[q].follows
  PROVE  TabsFit(disk', names', tabs')
<1>0. \A q \in DOMAIN tabs : tabs[q] \in E!TabSet  OBVIOUS
<1>1. \A q \in DOMAIN tabs : tabs[q].name \in E!Names  BY <1>0 DEF E!TabSet
<1>2. \A q \in DOMAIN tabs : tabs[q].name \in E!Listed(disk)  BY <1>1, ListedFiles DEF TabsFit
<1>3. \A q \in DOMAIN tabs \ {j} : tabs[q].name # tabs[j].name  BY DEF TabsFit
<1>4. \A q \in DOMAIN tabs : tabs'[q].name \in E!Listed(disk')  BY <1>2, <1>3
<1>5. \A q \in DOMAIN tabs \ {j} : tabs[q].name # to  BY <1>2, <1>3
<1>6. \A p, q \in DOMAIN tabs' : tabs'[p].name = tabs'[q].name => p = q
  BY <1>5 DEF TabsFit
<1>7. QED  BY <1>4, <1>6, ListedFiles DEF TabsFit

(***************************************************************************)
(* The tabs that stay when one is removed follow their files.              *)
(***************************************************************************)
LEMMA RemainingTabsFit ==
  ASSUME tabs \in Seq(E!TabSet), TabsFit(disk, names, tabs), NEW j \in DOMAIN tabs,
         NEW d, NEW ns \in SUBSET E!Listed(d), NEW ts,
         \A n \in E!Listed(disk) \ {tabs[j].name} : n \in E!Listed(d),
         \A q \in DOMAIN ts : q \in Nat,
         \A q \in DOMAIN ts :
           LET p == IF q < j THEN q ELSE q + 1
           IN  p \in DOMAIN tabs \ {j} /\ ts[q].name = tabs[p].name /\ ts[q].follows
  PROVE  TabsFit(d, ns, ts)
<1> DEFINE At(q) == IF q < j THEN q ELSE q + 1
<1>1. \A q \in DOMAIN ts : At(q) \in DOMAIN tabs \ {j} /\ ts[q].name = tabs[At(q)].name
  OBVIOUS
<1>2. j \in Nat  OBVIOUS
<1>3. \A p, q \in DOMAIN ts : At(p) = At(q) => p = q  BY <1>2
<1>4. \A q \in DOMAIN tabs : tabs[q] \in E!TabSet  OBVIOUS
<1>5. \A q \in DOMAIN tabs : tabs[q].name \in E!Listed(disk)  BY <1>4, ListedFiles DEF TabsFit, E!TabSet
<1>6. \A q \in DOMAIN tabs \ {j} : tabs[q].name \in E!Listed(d)  BY <1>5 DEF TabsFit
<1> HIDE DEF At
<1>7. \A q \in DOMAIN ts : ts[q].name \in E!Listed(d)  BY <1>1, <1>6
<1>8. \A p, q \in DOMAIN ts : ts[p].name = ts[q].name => p = q  BY <1>1, <1>3 DEF TabsFit
<1>9. QED  BY <1>7, <1>8, ListedFiles DEF TabsFit

-----------------------------------------------------------------------------
(***************************************************************************)
(* Each operation keeps the invariant.                                     *)
(***************************************************************************)
LEMMA TabOpenKeeps ==
  ASSUME FilesAssumed, EnvironmentsInv, NEW n \in E!Names, E!Open(n)
  PROVE  EnvironmentsInv'
<1>1. EnvironmentsTyped /\ FilesFit /\ E!ActiveIsSaved  BY DEF EnvironmentsInv
<1>2. PICK t : t = E!Editor(disk, n)  OBVIOUS
<1>3. t \in E!TabSet /\ t.name = n /\ (t.follows <=> disk[n] # Gone)  BY <1>1, <1>2, OpensTab DEF EnvironmentsTyped
<1>4. /\ tabs' = Append(tabs, t) /\ asking' = 0 /\ n \in names /\ \A j \in DOMAIN tabs : tabs[j].name # n
      /\ UNCHANGED <<disk, names, active, import, astray>>
  BY <1>2 DEF E!Open, E!Show, E!TabsOf, E!troubles
<1>5. EnvironmentsTyped'  BY <1>1, <1>3, <1>4 DEF EnvironmentsTyped
<1>6. ASSUME TabsFit(disk, names, tabs)
      PROVE  TabsFit(disk', names', tabs')
  <2>1. tabs \in Seq(E!TabSet)  BY <1>1 DEF EnvironmentsTyped
  <2>2. DOMAIN tabs' = 1 .. Len(tabs) + 1 /\ Len(tabs) \in Nat /\ DOMAIN tabs = 1 .. Len(tabs)
    BY <2>1, <1>4
  <2>3. /\ tabs'[Len(tabs) + 1] = t
        /\ \A q \in DOMAIN tabs : tabs'[q] = tabs[q]
    BY <2>1, <1>4
  <2>4. disk[n] # Gone  BY <1>4, <1>6, ListedFiles DEF TabsFit
  <2>5. QED  BY <1>3, <1>4, <1>6, <2>2, <2>3, <2>4 DEF TabsFit
<1>7. FilesFit' /\ E!ActiveIsSaved'  BY <1>1, <1>4, <1>6 DEF FilesFit, E!ActiveIsSaved
<1>8. QED  BY <1>5, <1>7 DEF EnvironmentsInv

LEMMA CreateKeeps ==
  ASSUME FilesAssumed, EnvironmentsInv, NEW n \in E!Names, NEW outcome \in E!Outcomes, E!Create(n, outcome)
  PROVE  EnvironmentsInv'
<1>1. EnvironmentsTyped /\ FilesFit /\ E!ActiveIsSaved  BY DEF EnvironmentsInv
<1>2. UNCHANGED <<active, import>> /\ E!Fault(outcome) /\ E!Reload(outcome)  BY DEF E!Create
<1>3. E!ActiveIsSaved'  BY <1>2, <1>1, ChoiceKeeps DEF EnvironmentsTyped
<1>4. CASE outcome = "write"
  <2>1. UNCHANGED <<disk, tabs, asking>>  BY <1>4 DEF E!Create
  <2>2. EnvironmentsTyped'  BY <2>1, <1>1, <1>2, ReloadKeeps DEF EnvironmentsTyped
  <2>3. FilesFit'  BY <2>1, <1>1, <1>2, <1>4, ReloadKeeps, TroubleKeeps DEF EnvironmentsTyped, FilesFit, TabsFit
  <2>4. QED  BY <2>2, <2>3, <1>3 DEF EnvironmentsInv
<1>5. CASE outcome # "write"
  <2>1. disk' = [disk EXCEPT ![n] = 0] /\ E!Show(disk', n) /\ asking' = 0 /\ disk[n] = Gone
    BY <1>5 DEF E!Create, E!FirstFree
  <2>2. 0 \in E!Variables /\ 0 # Gone  BY DEF FilesAssumed, E!Variables
  <2>3. disk' \in Disks /\ disk'[n] # Gone  BY <2>1, <2>2, <1>1 DEF EnvironmentsTyped, Disks, Contents
  <2>4. PICK t : t = E!Editor(disk', n)  OBVIOUS
  <2>5. t \in E!TabSet /\ t.name = n /\ t.follows  BY <2>3, <2>4, OpensTab
  <2>6. tabs' = IF E!TabsOf(n) = {} THEN Append(tabs, t) ELSE tabs  BY <2>1, <2>4 DEF E!Show
  <2>7. tabs \in Seq(E!TabSet)  BY <1>1 DEF EnvironmentsTyped
  <2>8. tabs' \in Seq(E!TabSet)  BY <2>5, <2>6, <2>7
  <2>9. EnvironmentsTyped'  BY <2>1, <2>3, <2>8, <1>1, <1>2, ReloadKeeps DEF EnvironmentsTyped
  <2>10. ASSUME "files" \notin astray'
         PROVE  TabsFit(disk', names', tabs')
    <3>1. TabsFit(disk, names, tabs)  BY <2>10, <1>1, <1>2, TroubleKeeps DEF FilesFit
    <3>2. names' \subseteq E!Listed(disk')  BY <2>10, <1>1, <1>2, ReloadKeeps, TroubleKeeps DEF EnvironmentsTyped
    <3>3. \A j \in DOMAIN tabs : tabs[j].name # n /\ tabs[j].name \in E!Names
      <4>1. \A j \in DOMAIN tabs : tabs[j] \in E!TabSet  BY <2>7
      <4>2. QED  BY <3>1, <2>1, <4>1 DEF TabsFit, E!TabSet
    <3>4. tabs' = Append(tabs, t)  BY <2>6, <3>3 DEF E!TabsOf
    <3>5. DOMAIN tabs' = 1 .. Len(tabs) + 1 /\ Len(tabs) \in Nat /\ DOMAIN tabs = 1 .. Len(tabs)
      BY <2>7, <3>4
    <3>6. /\ tabs'[Len(tabs) + 1] = t
          /\ \A q \in DOMAIN tabs : tabs'[q] = tabs[q]
      BY <2>7, <3>4
    <3>7. \A m \in E!Names \ {n} : disk'[m] = disk[m]  BY <2>1, <1>1 DEF EnvironmentsTyped, Disks
    <3>8. QED  BY <3>1, <3>2, <3>3, <3>5, <3>6, <3>7, <2>3, <2>5 DEF TabsFit
  <2>11. QED  BY <2>9, <2>10, <1>3 DEF EnvironmentsInv, FilesFit
<1>6. QED  BY <1>4, <1>5

LEMMA TabEditKeeps ==
  ASSUME FilesAssumed, EnvironmentsInv, NEW j \in DOMAIN tabs, NEW value \in E!Variables, E!Edit(j, value)
  PROVE  EnvironmentsInv'
<1>1. EnvironmentsTyped /\ FilesFit /\ E!ActiveIsSaved  BY DEF EnvironmentsInv
<1>2. tabs[j] \in E!TabSet /\ tabs \in Seq(E!TabSet)  BY <1>1 DEF EnvironmentsTyped
<1>3. PICK t : t = [tabs[j] EXCEPT !.variables = value]  OBVIOUS
<1>4. t \in E!TabSet /\ t.name = tabs[j].name /\ t.follows = tabs[j].follows  BY <1>2, <1>3 DEF E!TabSet
<1>5. tabs' = E!Put(j, t) /\ UNCHANGED <<disk, names, active, asking, astray, import>>
  BY <1>3 DEF E!Edit, E!troubles
<1>6. /\ tabs' \in Seq(E!TabSet) /\ Len(tabs') = Len(tabs) /\ DOMAIN tabs' = DOMAIN tabs
      /\ \A q \in DOMAIN tabs : tabs'[q] = IF q = j THEN t ELSE tabs[q]
  BY <1>2, <1>4, <1>5, PutsTab
<1>7. EnvironmentsTyped'  BY <1>1, <1>5, <1>6 DEF EnvironmentsTyped
<1>8. FilesFit' /\ E!ActiveIsSaved'  BY <1>1, <1>4, <1>5, <1>6 DEF FilesFit, TabsFit, E!ActiveIsSaved
<1>9. QED  BY <1>7, <1>8 DEF EnvironmentsInv

LEMMA CloseKeeps ==
  ASSUME FilesAssumed, EnvironmentsInv, NEW j \in DOMAIN tabs, E!Close(j)
  PROVE  EnvironmentsInv'
<1>1. EnvironmentsTyped /\ FilesFit /\ E!ActiveIsSaved  BY DEF EnvironmentsInv
<1>2. /\ tabs' = E!RemoveAt(tabs, j) /\ asking' = 0
      /\ UNCHANGED <<disk, names, active, astray, import>>
  BY DEF E!Close, E!troubles
<1>3. tabs \in Seq(E!TabSet)  BY <1>1 DEF EnvironmentsTyped
<1>4. /\ tabs' \in Seq(E!TabSet) /\ Len(tabs') = Len(tabs) - 1
      /\ \A q \in DOMAIN tabs' :
           LET p == IF q < j THEN q ELSE q + 1
           IN  p \in DOMAIN tabs \ {j} /\ tabs'[q] = tabs[p]
  BY <1>2, <1>3, RemovesTab
<1>5. EnvironmentsTyped'  BY <1>1, <1>2, <1>3, <1>4 DEF EnvironmentsTyped
<1>6. ASSUME TabsFit(disk, names, tabs)
      PROVE  TabsFit(disk', names', tabs')
  <2>1. \A q \in DOMAIN tabs' : q \in Nat  BY <1>4
  <2>2. \A q \in DOMAIN tabs' :
          LET p == IF q < j THEN q ELSE q + 1
          IN  p \in DOMAIN tabs \ {j} /\ tabs'[q].name = tabs[p].name /\ tabs'[q].follows
    BY <1>4, <1>6 DEF TabsFit
  <2>3. names' \subseteq E!Listed(disk') /\ disk' = disk  BY <1>2, <1>6 DEF TabsFit
  <2>4. QED  BY <1>3, <1>6, <2>1, <2>2, <2>3, RemainingTabsFit
<1>7. FilesFit' /\ E!ActiveIsSaved'  BY <1>1, <1>2, <1>6 DEF FilesFit, E!ActiveIsSaved
<1>8. QED  BY <1>5, <1>7 DEF EnvironmentsInv

LEMMA RenameKeeps ==
  ASSUME FilesAssumed, EnvironmentsInv, NEW j \in DOMAIN tabs, NEW to \in E!Names, NEW outcome \in E!Outcomes,
         E!Rename(j, to, outcome)
  PROVE  EnvironmentsInv'
<1>1. EnvironmentsTyped /\ FilesFit /\ E!ActiveIsSaved  BY DEF EnvironmentsInv
<1>2. tabs \in Seq(E!TabSet) /\ disk \in Disks /\ names \subseteq E!Names  BY <1>1 DEF EnvironmentsTyped
<1>3. PICK from : from = tabs[j].name  OBVIOUS
<1>4. tabs[j] \in E!TabSet  BY <1>2
<1>5. from \in E!Names  BY <1>3, <1>4 DEF E!TabSet
<1>6. PICK t : t = [tabs[j] EXCEPT !.name = to]  OBVIOUS
<1>7. t \in E!TabSet /\ t.name = to /\ t.follows = tabs[j].follows  BY <1>4, <1>6 DEF E!TabSet
<1>8. /\ to # from /\ E!CanRename(from, to) /\ E!Fault(outcome) /\ disk' = E!Renamed(from, to)
      /\ E!Follows(from, to, outcome) /\ tabs' = E!Lost(E!Put(j, t), from) /\ UNCHANGED <<asking, import>>
  BY <1>3, <1>6 DEF E!Rename
<1>9. E!Reload(outcome) /\ (UNCHANGED active \/ E!SetsActive(to, outcome))  BY <1>8 DEF E!Follows
<1>10. active' \in [shown : E!Names \union {NoName}, saved : E!Names \union {NoName}] /\ E!ActiveIsSaved'
  BY <1>1, <1>8, <1>9, ChoiceKeeps DEF EnvironmentsTyped
<1>11. PICK ts : ts = E!Put(j, t)  OBVIOUS
<1>12. /\ ts \in Seq(E!TabSet) /\ Len(ts) = Len(tabs) /\ DOMAIN ts = DOMAIN tabs
       /\ \A q \in DOMAIN tabs : ts[q] = IF q = j THEN t ELSE tabs[q]
  BY <1>2, <1>7, <1>11, PutsTab
<1>13. tabs' = E!Lost(ts, from)  BY <1>8, <1>11
<1>14. tabs' \in Seq(E!TabSet) /\ Len(tabs') = Len(tabs) /\ DOMAIN tabs' = DOMAIN tabs
  BY <1>12, <1>13, LosesTabs
<1>15. \A q \in DOMAIN tabs :
         /\ tabs'[q].name = IF q = j THEN to ELSE tabs[q].name
         /\ tabs'[q].follows <=> (tabs[q].follows /\ (q = j \/ tabs[q].name # from))
  BY <1>7, <1>8, <1>12, <1>13, LosesTabs
<1>16. disk' \in Disks  BY <1>2, <1>5, <1>8, RenamesFile
<1>17. EnvironmentsTyped'  BY <1>1, <1>8, <1>9, <1>10, <1>14, <1>16, ReloadKeeps DEF EnvironmentsTyped
<1>18. ASSUME "files" \notin astray'
       PROVE  TabsFit(disk', names', tabs')
  <2>1. TabsFit(disk, names, tabs)  BY <1>18, <1>1, <1>8, TroubleKeeps DEF FilesFit
  <2>2. names' \subseteq E!Listed(disk')  BY <1>18, <1>2, <1>8, <1>9, ReloadKeeps, TroubleKeeps
  <2>3. /\ to \in E!Listed(disk') /\ to \notin E!Listed(disk)
        /\ \A n \in E!Listed(disk) \ {tabs[j].name} : n \in E!Listed(disk')
    BY <1>2, <1>3, <1>5, <1>8, RenamesFile
  <2>4. \A q \in DOMAIN tabs : tabs'[q].follows  BY <2>1, <1>3, <1>15 DEF TabsFit
  <2>5. QED  BY <2>1, <2>2, <2>3, <2>4, <1>2, <1>14, <1>15, NamedTabsFit
<1>19. QED  BY <1>10, <1>17, <1>18 DEF EnvironmentsInv, FilesFit

(***************************************************************************)
(* A tab writes its variables to the file of its name.                     *)
(***************************************************************************)
LEMMA WritingKeeps ==
  ASSUME FilesAssumed, EnvironmentsInv, NEW j \in DOMAIN tabs, NEW outcome \in {"works", "refused", "write"},
         E!Fault(outcome), E!Writes(j, tabs[j], disk, NoName, outcome), asking' = 0,
         UNCHANGED <<names, active, import>>
  PROVE  EnvironmentsInv'
<1>1. EnvironmentsTyped /\ FilesFit /\ E!ActiveIsSaved  BY DEF EnvironmentsInv
<1>2. tabs \in Seq(E!TabSet) /\ disk \in Disks /\ names \subseteq E!Names  BY <1>1 DEF EnvironmentsTyped
<1>3. \A q \in DOMAIN tabs : tabs[q] \in E!TabSet  BY <1>2
<1>4. \A q \in DOMAIN tabs : tabs[q].name \in E!Names /\ tabs[q].name # NoName
  BY <1>3 DEF E!TabSet, FilesAssumed
<1>5. PICK t : t = tabs[j]  OBVIOUS
<1>6. t \in E!TabSet /\ E!Writes(j, t, disk, NoName, outcome)  BY <1>3, <1>5
<1>7. /\ disk' \in Disks /\ E!Listed(disk) \subseteq E!Listed(disk')
      /\ tabs' \in Seq(E!TabSet) /\ Len(tabs') = Len(tabs) /\ DOMAIN tabs' = DOMAIN tabs
      /\ \A q \in DOMAIN tabs :
           /\ tabs'[q].name = IF q = j THEN t.name ELSE tabs[q].name
           /\ (IF q = j THEN t.follows /\ t.name # NoName
               ELSE tabs[q].follows /\ tabs[q].name # NoName) => tabs'[q].follows
  BY <1>2, <1>6, WritesKeeps
<1>8. EnvironmentsTyped'  BY <1>1, <1>7 DEF EnvironmentsTyped
<1>9. E!ActiveIsSaved'  BY <1>1, ChoiceKeeps DEF EnvironmentsTyped
<1>10. ASSUME "files" \notin astray'
       PROVE  TabsFit(disk', names', tabs')
  <2>1. TabsFit(disk, names, tabs)  BY <1>10, <1>1, TroubleKeeps DEF FilesFit
  <2>2. \A q \in DOMAIN tabs : tabs'[q].name = tabs[q].name /\ tabs'[q].follows
    BY <2>1, <1>4, <1>5, <1>7 DEF TabsFit
  <2>3. \A q \in DOMAIN tabs : tabs[q].name \in E!Listed(disk)  BY <2>1, <1>4, ListedFiles DEF TabsFit
  <2>4. \A q \in DOMAIN tabs : disk'[tabs'[q].name] # Gone  BY <2>2, <2>3, <1>7, <1>4, ListedFiles
  <2>5. QED  BY <2>1, <2>2, <2>4, <1>7 DEF TabsFit
<1>11. QED  BY <1>8, <1>9, <1>10 DEF EnvironmentsInv, FilesFit

LEMMA TabSaveKeeps ==
  ASSUME FilesAssumed, EnvironmentsInv, NEW j \in DOMAIN tabs, NEW to \in E!Names, NEW outcome \in E!Outcomes,
         E!Save(j, to, outcome)
  PROVE  EnvironmentsInv'
<1>1. EnvironmentsTyped /\ FilesFit /\ E!ActiveIsSaved  BY DEF EnvironmentsInv
<1>2. tabs \in Seq(E!TabSet) /\ disk \in Disks /\ names \subseteq E!Names  BY <1>1 DEF EnvironmentsTyped
<1>3. PICK from : from = tabs[j].name  OBVIOUS
<1>4. tabs[j] \in E!TabSet  BY <1>2
<1>5. from \in E!Names  BY <1>3, <1>4 DEF E!TabSet
<1>6. CASE to = from
  <2>1. /\ outcome \in {"works", "refused", "write"} /\ E!Fault(outcome)
        /\ E!Writes(j, tabs[j], disk, NoName, outcome) /\ UNCHANGED <<names, active>>
        /\ asking' = 0 /\ UNCHANGED import
    BY <1>3, <1>6 DEF E!Save
  <2>2. QED  BY <2>1, WritingKeeps
<1>7. CASE to # from
  <2>1. PICK t : t = [tabs[j] EXCEPT !.name = to]  OBVIOUS
  <2>2. t \in E!TabSet /\ t.name = to /\ t.follows = tabs[j].follows  BY <1>4, <2>1 DEF E!TabSet
  <2>3. PICK d : d = E!Renamed(from, to)  OBVIOUS
  <2>4. /\ E!CanRename(from, to) /\ E!Fault(outcome) /\ E!Writes(j, t, d, from, outcome)
        /\ E!Follows(from, to, outcome) /\ asking' = 0 /\ UNCHANGED import
    BY <1>3, <1>7, <2>1, <2>3 DEF E!Save
  <2>5. E!Reload(outcome) /\ (UNCHANGED active \/ E!SetsActive(to, outcome))  BY <2>4 DEF E!Follows
  <2>6. /\ active' \in [shown : E!Names \union {NoName}, saved : E!Names \union {NoName}]
        /\ E!ActiveIsSaved'
    BY <1>1, <2>4, <2>5, ChoiceKeeps DEF EnvironmentsTyped
  <2>7. /\ d \in Disks /\ to \in E!Listed(d) /\ to \notin E!Listed(disk)
        /\ \A n \in E!Listed(disk) \ {from} : n \in E!Listed(d)
    BY <1>2, <1>5, <1>7, <2>3, <2>4, RenamesFile
  <2>8. /\ disk' \in Disks /\ E!Listed(d) \subseteq E!Listed(disk')
        /\ tabs' \in Seq(E!TabSet) /\ Len(tabs') = Len(tabs) /\ DOMAIN tabs' = DOMAIN tabs
        /\ \A q \in DOMAIN tabs :
             /\ tabs'[q].name = IF q = j THEN t.name ELSE tabs[q].name
             /\ (IF q = j THEN t.follows /\ t.name # from
                 ELSE tabs[q].follows /\ tabs[q].name # from) => tabs'[q].follows
    BY <1>2, <2>2, <2>4, <2>7, WritesKeeps
  <2>9. EnvironmentsTyped'  BY <1>1, <2>4, <2>5, <2>6, <2>8, ReloadKeeps DEF EnvironmentsTyped
  <2>10. ASSUME "files" \notin astray'
         PROVE  TabsFit(disk', names', tabs')
    <3>1. TabsFit(disk, names, tabs)  BY <2>10, <1>1, <2>4, TroubleKeeps DEF FilesFit
    <3>2. names' \subseteq E!Listed(disk')  BY <2>10, <1>2, <2>4, <2>5, ReloadKeeps, TroubleKeeps
    <3>3. \A q \in DOMAIN tabs : tabs'[q].follows  BY <3>1, <1>3, <1>7, <2>2, <2>8 DEF TabsFit
    <3>4. /\ to \in E!Listed(disk')
          /\ \A n \in E!Listed(disk) \ {tabs[j].name} : n \in E!Listed(disk')
      BY <1>3, <2>7, <2>8
    <3>5. \A q \in DOMAIN tabs : tabs'[q].name = IF q = j THEN to ELSE tabs[q].name
      BY <2>2, <2>8
    <3>6. QED  BY <3>1, <3>2, <3>3, <3>4, <3>5, <1>2, <2>7, <2>8, NamedTabsFit
  <2>11. QED  BY <2>6, <2>9, <2>10 DEF EnvironmentsInv, FilesFit
<1>8. QED  BY <1>6, <1>7

LEMMA OverwriteKeeps ==
  ASSUME FilesAssumed, EnvironmentsInv, NEW outcome \in E!Outcomes, E!Overwrite(outcome)
  PROVE  EnvironmentsInv'
<1>1. asking \in DOMAIN tabs  BY DEF EnvironmentsInv, EnvironmentsTyped, E!Overwrite
<1>2. QED  BY <1>1, WritingKeeps DEF E!Overwrite

LEMMA TakeTheirsKeeps ==
  ASSUME FilesAssumed, EnvironmentsInv, E!TakeTheirs
  PROVE  EnvironmentsInv'
<1>1. EnvironmentsTyped /\ FilesFit /\ E!ActiveIsSaved  BY DEF EnvironmentsInv
<1>2. tabs \in Seq(E!TabSet) /\ disk \in Disks  BY <1>1 DEF EnvironmentsTyped
<1>3. asking \in DOMAIN tabs  BY <1>1 DEF EnvironmentsTyped, E!TakeTheirs
<1>4. PICK n : n = tabs[asking].name  OBVIOUS
<1>5. tabs[asking] \in E!TabSet  BY <1>2, <1>3
<1>6. n \in E!Names  BY <1>4, <1>5 DEF E!TabSet
<1>7. PICK t : t = E!Editor(disk, n)  OBVIOUS
<1>8. t \in E!TabSet /\ t.name = n /\ (t.follows <=> disk[n] # Gone)  BY <1>2, <1>6, <1>7, OpensTab
<1>9. /\ asking' = 0 /\ UNCHANGED <<disk, names, active, astray, import>>
      /\ tabs' = tabs \/ tabs' = E!Put(asking, t)
  BY <1>4, <1>7 DEF E!TakeTheirs, E!troubles
<1>10. PICK j \in DOMAIN tabs : j = asking  BY <1>3
<1>11. CASE tabs' = tabs
  <2>1. EnvironmentsTyped'  BY <1>1, <1>9, <1>11 DEF EnvironmentsTyped
  <2>2. QED  BY <2>1, <1>1, <1>9, <1>11 DEF EnvironmentsInv, FilesFit, TabsFit, E!ActiveIsSaved
<1>12. CASE tabs' = E!Put(asking, t)
  <2>1. /\ tabs' \in Seq(E!TabSet) /\ Len(tabs') = Len(tabs) /\ DOMAIN tabs' = DOMAIN tabs
        /\ \A q \in DOMAIN tabs : tabs'[q] = IF q = j THEN t ELSE tabs[q]
    BY <1>2, <1>8, <1>10, <1>12, PutsTab
  <2>2. EnvironmentsTyped'  BY <1>1, <1>9, <2>1 DEF EnvironmentsTyped
  <2>3. FilesFit' /\ E!ActiveIsSaved'
    BY <1>1, <1>4, <1>8, <1>9, <1>10, <2>1 DEF FilesFit, TabsFit, E!ActiveIsSaved
  <2>4. QED  BY <2>2, <2>3 DEF EnvironmentsInv
<1>13. QED  BY <1>9, <1>11, <1>12

LEMMA ActivateKeeps ==
  ASSUME FilesAssumed, EnvironmentsInv, NEW name \in E!Names \union {NoName}, NEW outcome \in E!Outcomes,
         E!Activate(name, outcome)
  PROVE  EnvironmentsInv'
<1>1. EnvironmentsTyped /\ FilesFit /\ E!ActiveIsSaved  BY DEF EnvironmentsInv
<1>2. /\ E!SetsActive(name, outcome) /\ E!Fault(outcome)
      /\ UNCHANGED <<disk, names, tabs, asking, import>>
  BY DEF E!Activate
<1>3. active' \in [shown : E!Names \union {NoName}, saved : E!Names \union {NoName}] /\ E!ActiveIsSaved'
  BY <1>1, <1>2, ChoiceKeeps DEF EnvironmentsTyped
<1>4. EnvironmentsTyped'  BY <1>1, <1>2, <1>3 DEF EnvironmentsTyped
<1>5. FilesFit'  BY <1>1, <1>2, TroubleKeeps DEF FilesFit, TabsFit
<1>6. QED  BY <1>3, <1>4, <1>5 DEF EnvironmentsInv

LEMMA DeleteKeeps ==
  ASSUME FilesAssumed, EnvironmentsInv, NEW n \in E!Names, NEW outcome \in E!Outcomes, E!Delete(n, outcome)
  PROVE  EnvironmentsInv'
<1>1. EnvironmentsTyped /\ FilesFit /\ E!ActiveIsSaved  BY DEF EnvironmentsInv
<1>2. tabs \in Seq(E!TabSet) /\ disk \in Disks /\ names \subseteq E!Names  BY <1>1 DEF EnvironmentsTyped
<1>3. E!Fault(outcome) /\ E!Reload(outcome) /\ UNCHANGED import  BY DEF E!Delete
<1>4. CASE outcome = "write"
  <2>1. UNCHANGED <<disk, active, tabs, asking>>  BY <1>4 DEF E!Delete
  <2>2. EnvironmentsTyped'  BY <2>1, <1>1, <1>3, ReloadKeeps DEF EnvironmentsTyped
  <2>3. FilesFit'  BY <2>1, <1>1, <1>2, <1>3, <1>4, ReloadKeeps, TroubleKeeps DEF FilesFit, TabsFit
  <2>4. E!ActiveIsSaved'  BY <2>1, <1>1, <1>3, ChoiceKeeps DEF EnvironmentsTyped
  <2>5. QED  BY <2>2, <2>3, <2>4 DEF EnvironmentsInv
<1>5. CASE outcome # "write"
  <2>1. /\ disk' = [disk EXCEPT ![n] = Gone]
        /\ UNCHANGED active \/ E!SetsActive(NoName, outcome)
        /\ IF E!TabsOf(n) = {} THEN UNCHANGED <<tabs, asking>>
           ELSE tabs' = E!Lost(E!RemoveAt(tabs, E!First(E!TabsOf(n))), n) /\ asking' = 0
    BY <1>5 DEF E!Delete
  <2>2. /\ active' \in [shown : E!Names \union {NoName}, saved : E!Names \union {NoName}]
        /\ E!ActiveIsSaved'
    BY <1>1, <1>3, <2>1, ChoiceKeeps DEF EnvironmentsTyped
  <2>3. disk' \in Disks /\ \A m \in E!Names \ {n} : disk'[m] = disk[m]
    BY <1>2, <2>1 DEF Disks, Contents
  <2>4. \A m \in E!Listed(disk) \ {n} : m \in E!Listed(disk')  BY <2>3, ListedFiles
  <2>5. \A q \in DOMAIN tabs : tabs[q] \in E!TabSet  BY <1>2
  <2>6. CASE E!TabsOf(n) = {}
    <3>1. UNCHANGED <<tabs, asking>> /\ \A q \in DOMAIN tabs : tabs[q].name # n
      BY <2>1, <2>6 DEF E!TabsOf
    <3>2. EnvironmentsTyped'  BY <3>1, <2>2, <2>3, <1>1, <1>3, ReloadKeeps DEF EnvironmentsTyped
    <3>3. ASSUME "files" \notin astray'
          PROVE  TabsFit(disk', names', tabs')
      <4>1. TabsFit(disk, names, tabs)  BY <3>3, <1>1, <1>3, TroubleKeeps DEF FilesFit
      <4>2. names' \subseteq E!Listed(disk')  BY <3>3, <1>2, <1>3, ReloadKeeps, TroubleKeeps
      <4>3. \A q \in DOMAIN tabs : tabs[q].name \in E!Names  BY <2>5 DEF E!TabSet
      <4>4. QED  BY <3>1, <4>1, <4>2, <4>3, <2>3 DEF TabsFit
    <3>4. QED  BY <3>2, <3>3, <2>2 DEF EnvironmentsInv, FilesFit
  <2>7. CASE E!TabsOf(n) # {}
    <3>1. PICK j \in DOMAIN tabs : j = E!First(E!TabsOf(n)) /\ tabs[j].name = n
      <4>1. E!TabsOf(n) \in SUBSET Nat  BY <1>2 DEF E!TabsOf
      <4>2. PICK p \in E!TabsOf(n) : \A q \in E!TabsOf(n) : ~(<<q, p>> \in OpToRel(<, Nat))
        BY <2>7, <4>1, NatLessThanWellFounded, WFMin
      <4>3. \A q \in E!TabsOf(n) : ~(q < p)  BY <4>1, <4>2 DEF OpToRel
      <4>4. \A q \in E!TabsOf(n) : p <= q  BY <4>1, <4>3
      <4>5. E!First(E!TabsOf(n)) \in E!TabsOf(n)  BY <4>4 DEF E!First
      <4>6. QED  BY <4>5 DEF E!TabsOf
    <3>2. PICK ts : ts = E!RemoveAt(tabs, j)  OBVIOUS
    <3>3. /\ ts \in Seq(E!TabSet) /\ Len(ts) = Len(tabs) - 1
          /\ \A q \in DOMAIN ts :
               LET p == IF q < j THEN q ELSE q + 1
               IN  p \in DOMAIN tabs \ {j} /\ ts[q] = tabs[p]
      BY <1>2, <3>2, RemovesTab
    <3>4. tabs' = E!Lost(ts, n) /\ asking' = 0  BY <2>1, <2>7, <3>1, <3>2
    <3>5. /\ tabs' \in Seq(E!TabSet) /\ DOMAIN tabs' = DOMAIN ts
          /\ \A q \in DOMAIN ts : /\ tabs'[q].name = ts[q].name
                                  /\ tabs'[q].follows <=> (ts[q].follows /\ ts[q].name # n)
      BY <3>3, <3>4, LosesTabs
    <3>6. 0 \in 0 .. Len(tabs')  BY <3>5
    <3>7. EnvironmentsTyped'  BY <3>4, <3>5, <3>6, <2>2, <2>3, <1>1, <1>3, ReloadKeeps DEF EnvironmentsTyped
    <3>8. ASSUME "files" \notin astray'
          PROVE  TabsFit(disk', names', tabs')
      <4>1. TabsFit(disk, names, tabs)  BY <3>8, <1>1, <1>3, TroubleKeeps DEF FilesFit
      <4>2. names' \in SUBSET E!Listed(disk')  BY <3>8, <1>2, <1>3, ReloadKeeps, TroubleKeeps
      <4>3. \A q \in DOMAIN tabs' : q \in Nat  BY <3>5
      <4>4. \A q \in DOMAIN tabs \ {j} : tabs[q].follows /\ tabs[q].name # n  BY <3>1, <4>1 DEF TabsFit
      <4>5. \A q \in DOMAIN tabs' :
              LET p == IF q < j THEN q ELSE q + 1
              IN  p \in DOMAIN tabs \ {j} /\ tabs'[q].name = tabs[p].name /\ tabs'[q].follows
        BY <3>3, <3>5, <4>4
      <4>6. \A m \in E!Listed(disk) \ {tabs[j].name} : m \in E!Listed(disk')  BY <2>4, <3>1
      <4>7. QED  BY <1>2, <4>1, <4>2, <4>3, <4>5, <4>6, RemainingTabsFit
    <3>9. QED  BY <3>7, <3>8, <2>2 DEF EnvironmentsInv, FilesFit
  <2>8. QED  BY <2>6, <2>7
<1>6. QED  BY <1>4, <1>5

(***************************************************************************)
(* A file appears or is written, and no tab changes.                       *)
(***************************************************************************)
LEMMA FilesStay ==
  ASSUME EnvironmentsInv, NEW outcome, disk' \in Disks, E!Fault(outcome) \/ astray \subseteq astray',
         "files" \notin astray' => E!Listed(disk) \subseteq E!Listed(disk'),
         names' \subseteq E!Names, "files" \notin astray' => names' \subseteq E!Listed(disk'),
         import' \in E!Names \union {NoName, ImportDone}, UNCHANGED <<active, tabs, asking>>
  PROVE  EnvironmentsInv'
<1>1. EnvironmentsTyped /\ FilesFit /\ E!ActiveIsSaved  BY DEF EnvironmentsInv
<1>2. tabs \in Seq(E!TabSet) /\ astray \subseteq astray'  BY <1>1, TroubleKeeps DEF EnvironmentsTyped
<1>3. \A q \in DOMAIN tabs : tabs[q] \in E!TabSet  BY <1>2
<1>4. EnvironmentsTyped'  BY <1>1 DEF EnvironmentsTyped
<1>5. FilesFit'
  <2>1. SUFFICES ASSUME "files" \notin astray' PROVE TabsFit(disk', names', tabs')  BY DEF FilesFit
  <2>2. TabsFit(disk, names, tabs)  BY <2>1, <1>1, <1>2 DEF FilesFit
  <2>3. \A q \in DOMAIN tabs : tabs[q].name \in E!Names  BY <1>3 DEF E!TabSet
  <2>4. \A q \in DOMAIN tabs : tabs[q].name \in E!Listed(disk')  BY <2>1, <2>2, <2>3, ListedFiles DEF TabsFit
  <2>5. QED  BY <2>1, <2>2, <2>4, ListedFiles DEF TabsFit
<1>6. E!ActiveIsSaved'  BY <1>1, <1>2 DEF E!ActiveIsSaved
<1>7. QED  BY <1>4, <1>5, <1>6 DEF EnvironmentsInv

LEMMA ImportCreatesKeeps ==
  ASSUME FilesAssumed, EnvironmentsInv, NEW n \in E!Names, E!ImportCreates(n)
  PROVE  EnvironmentsInv'
<1>1. EnvironmentsTyped /\ FilesFit  BY DEF EnvironmentsInv
<1>2. /\ disk' = [disk EXCEPT ![n] = 0] /\ import' = n
      /\ UNCHANGED <<names, active, tabs, asking, astray>>
  BY DEF E!ImportCreates
<1>3. 0 \in E!Variables /\ 0 # Gone  BY DEF FilesAssumed, E!Variables
<1>4. disk' \in Disks  BY <1>1, <1>2, <1>3 DEF EnvironmentsTyped, Disks, Contents
<1>5. E!Listed(disk) \subseteq E!Listed(disk')  BY <1>1, <1>2, <1>3, ListedFiles DEF EnvironmentsTyped, Disks
<1>6. "files" \notin astray' => names' \subseteq E!Listed(disk')
  BY <1>1, <1>2, <1>5 DEF FilesFit, TabsFit
<1>7. names' \subseteq E!Names  BY <1>1, <1>2 DEF EnvironmentsTyped
<1>8. QED  BY <1>2, <1>4, <1>5, <1>6, <1>7, FilesStay

LEMMA ImportWritesKeeps ==
  ASSUME FilesAssumed, EnvironmentsInv, NEW outcome \in E!Outcomes, E!ImportWrites(outcome)
  PROVE  EnvironmentsInv'
<1>1. EnvironmentsTyped /\ FilesFit  BY DEF EnvironmentsInv
<1>2. /\ import \in E!Names /\ E!Fault(outcome) /\ import' = ImportDone
      /\ disk' = IF outcome = "removes" THEN [disk EXCEPT ![import] = Gone]
                 ELSE [disk EXCEPT ![import] = 1]
      /\ UNCHANGED <<names, active, tabs, asking>>
  BY DEF E!ImportWrites
<1>3. 1 \in E!Variables /\ 1 # Gone  BY DEF FilesAssumed, E!Variables
<1>4. disk' \in Disks  BY <1>1, <1>2, <1>3 DEF EnvironmentsTyped, Disks, Contents
<1>5. outcome # "removes" => E!Listed(disk) \subseteq E!Listed(disk')
  BY <1>1, <1>2, <1>3, ListedFiles DEF EnvironmentsTyped, Disks
<1>6. "files" \notin astray' => outcome # "removes" /\ "files" \notin astray  BY <1>2, TroubleKeeps
<1>7. "files" \notin astray' => names' \subseteq E!Listed(disk')
  BY <1>1, <1>2, <1>5, <1>6 DEF FilesFit, TabsFit
<1>8. names' \subseteq E!Names  BY <1>1, <1>2 DEF EnvironmentsTyped
<1>9. QED  BY <1>2, <1>4, <1>5, <1>6, <1>7, <1>8, FilesStay

LEMMA RefreshKeeps ==
  ASSUME FilesAssumed, EnvironmentsInv, NEW outcome \in E!Outcomes, E!Refresh(outcome)
  PROVE  EnvironmentsInv'
<1>1. EnvironmentsTyped  BY DEF EnvironmentsInv
<1>2. /\ E!Fault(outcome) /\ import' = NoName /\ UNCHANGED <<disk, active, tabs, asking>>
      /\ E!Reload(outcome)
  BY DEF E!Refresh
<1>3. names' \subseteq E!Names  BY <1>1, <1>2, ReloadKeeps DEF EnvironmentsTyped
<1>4. "files" \notin astray' => names' \subseteq E!Listed(disk')
  BY <1>1, <1>2, ReloadKeeps, TroubleKeeps DEF EnvironmentsTyped
<1>5. disk' \in Disks /\ E!Listed(disk) \subseteq E!Listed(disk')  BY <1>1, <1>2 DEF EnvironmentsTyped
<1>6. QED  BY <1>2, <1>3, <1>4, <1>5, FilesStay

LEMMA OutsideKeeps ==
  ASSUME FilesAssumed, EnvironmentsInv, NEW n \in E!Names, E!Outside(n)
  PROVE  EnvironmentsInv'
<1>1. EnvironmentsTyped /\ FilesFit  BY DEF EnvironmentsInv
<1>2. UNCHANGED <<names, active, tabs, asking, import>>  BY DEF E!Outside
<1>3. names' \subseteq E!Names /\ import' \in E!Names \union {NoName, ImportDone}
  BY <1>1, <1>2 DEF EnvironmentsTyped
<1>4. ASSUME NEW value \in E!Variables \union {Unreadable},
             disk' = [disk EXCEPT ![n] = value], UNCHANGED astray
      PROVE  EnvironmentsInv'
  <2>1. disk' \in Disks  BY <1>1, <1>4 DEF EnvironmentsTyped, Disks, Contents
  <2>2. E!Listed(disk) \subseteq E!Listed(disk')
    BY <1>1, <1>4, ListedFiles DEF EnvironmentsTyped, Disks, FilesAssumed
  <2>3. "files" \notin astray' => names' \subseteq E!Listed(disk')
    BY <1>1, <1>2, <1>4, <2>2 DEF FilesFit, TabsFit
  <2>4. QED  BY <1>2, <1>3, <1>4, <2>1, <2>2, <2>3, FilesStay
<1>5. ASSUME disk' = [disk EXCEPT ![n] = Gone], astray' = astray \union {"files"}
      PROVE  EnvironmentsInv'
  <2>1. disk' \in Disks  BY <1>1, <1>5 DEF EnvironmentsTyped, Disks, Contents
  <2>2. QED  BY <1>2, <1>3, <1>5, <2>1, FilesStay
<1>6. QED  BY <1>4, <1>5 DEF E!Outside

LEMMA SameCardinality == \A Q : E!Cardinality(Q) = Cardinality(Q)
BY DEF E!Cardinality, Cardinality

LEMMA RelaunchKeeps ==
  ASSUME FilesAssumed, EnvironmentsInv, NEW outcome \in E!Outcomes, E!Relaunch(outcome)
  PROVE  EnvironmentsInv'
<1>1. EnvironmentsTyped /\ FilesFit /\ E!ActiveIsSaved  BY DEF EnvironmentsInv
<1>2. tabs \in Seq(E!TabSet) /\ disk \in Disks  BY <1>1 DEF EnvironmentsTyped
<1>3. PICK found : found = IF outcome = "list" THEN {} ELSE E!Listed(disk)  OBVIOUS
<1>4. PICK back : back = {j \in DOMAIN tabs : tabs[j].name \in found}  OBVIOUS
<1>5. /\ E!Fault(outcome) /\ names' = found
      /\ active' = [active EXCEPT !.shown = IF active.saved \in found THEN active.saved ELSE NoName]
      /\ asking' = 0 /\ import' = NoName /\ UNCHANGED disk
      /\ \E places \in [1 .. Cardinality(back) -> back] :
           /\ \A k, m \in DOMAIN places : k < m => places[k] < places[m]
           /\ tabs' = [k \in DOMAIN places |-> E!Editor(disk, tabs[places[k]].name)]
  BY <1>3, <1>4, SameCardinality DEF E!Relaunch
<1>6. PICK places \in [1 .. Cardinality(back) -> back] :
        /\ \A k, m \in DOMAIN places : k < m => places[k] < places[m]
        /\ tabs' = [k \in DOMAIN places |-> E!Editor(disk, tabs[places[k]].name)]
  BY <1>5
<1>7. Cardinality(back) \in Nat
  <2>1. IsFiniteSet(1 .. Len(tabs))  BY <1>2, FS_Interval
  <2>2. back \subseteq 1 .. Len(tabs)  BY <1>2, <1>4
  <2>3. QED  BY <2>1, <2>2, FS_Subset, FS_CardinalityType
<1>8. PICK size \in Nat : size = Cardinality(back)  BY <1>7
<1>9. \A k \in 1 .. size :
        /\ places[k] \in DOMAIN tabs /\ tabs[places[k]].name \in found
        /\ tabs[places[k]].name \in E!Names
  <2>1. \A j \in DOMAIN tabs : tabs[j] \in E!TabSet  BY <1>2
  <2>2. \A j \in back : j \in DOMAIN tabs /\ tabs[j].name \in found /\ tabs[j].name \in E!Names
    BY <1>4, <2>1 DEF E!TabSet
  <2>3. QED  BY <1>6, <1>8, <2>2
<1>10. tabs' = [k \in 1 .. size |-> E!Editor(disk, tabs[places[k]].name)]  BY <1>6, <1>8
<1>11. \A k \in 1 .. size :
         /\ E!Editor(disk, tabs[places[k]].name) \in E!TabSet
         /\ tabs'[k] = E!Editor(disk, tabs[places[k]].name)
         /\ tabs'[k].name = tabs[places[k]].name
         /\ tabs'[k].follows <=> disk[tabs[places[k]].name] # Gone
  BY <1>2, <1>9, <1>10, OpensTab
<1>12. tabs' \in Seq(E!TabSet)  BY <1>10, <1>11, IsASeq
<1>13. found \subseteq E!Names  BY <1>3, ListedFiles
<1>14. active' \in [shown : E!Names \union {NoName}, saved : E!Names \union {NoName}] /\ E!ActiveIsSaved'
  <2>1. active' = [shown |-> IF active.saved \in found THEN active.saved ELSE NoName,
                   saved |-> active.saved]
    BY <1>1, <1>5 DEF EnvironmentsTyped
  <2>2. active.saved \in E!Names \union {NoName}  BY <1>1 DEF EnvironmentsTyped
  <2>3. QED  BY <2>1, <2>2 DEF E!ActiveIsSaved
<1>15. EnvironmentsTyped'
  <2>1. 0 \in 0 .. Len(tabs')  BY <1>12
  <2>2. QED  BY <2>1, <1>2, <1>5, <1>12, <1>13, <1>14 DEF EnvironmentsTyped
<1>16. ASSUME "files" \notin astray'
       PROVE  TabsFit(disk', names', tabs')
  <2>1. TabsFit(disk, names, tabs) /\ found = E!Listed(disk)
    BY <1>16, <1>1, <1>3, <1>5, TroubleKeeps DEF FilesFit
  <2>2. DOMAIN tabs' = 1 .. size  BY <1>10
  <2>3. \A k \in DOMAIN tabs' : tabs'[k].follows /\ disk'[tabs'[k].name] # Gone
    BY <1>5, <1>9, <1>11, <2>1, <2>2, ListedFiles
  <2>4. \A k, m \in 1 .. size : places[k] = places[m] => k = m
    <3>1. \A k \in 1 .. size : places[k] \in Nat  BY <1>2, <1>9
    <3>2. QED  BY <1>6, <1>8, <3>1
  <2>5. \A k, m \in DOMAIN tabs' : tabs'[k].name = tabs'[m].name => k = m
    BY <1>9, <1>11, <2>1, <2>2, <2>4 DEF TabsFit
  <2>6. QED  BY <1>5, <2>1, <2>3, <2>5 DEF TabsFit
<1>17. QED  BY <1>14, <1>15, <1>16 DEF EnvironmentsInv, FilesFit

LEMMA EnvironmentsUserKeeps ==
  ASSUME FilesAssumed, EnvironmentsInv, E!User
  PROVE  EnvironmentsInv'
<1>1. ASSUME UNCHANGED <<disk, names, active, tabs, import, astray>>, asking' \in 0 .. Len(tabs)
      PROVE  EnvironmentsInv'
  BY <1>1 DEF EnvironmentsInv, EnvironmentsTyped, FilesFit, TabsFit, E!ActiveIsSaved
<1>2. ASSUME NEW j \in DOMAIN tabs, E!Asks(j)
      PROVE  EnvironmentsInv'
  <2>1. tabs \in Seq(E!TabSet)  BY DEF EnvironmentsInv, EnvironmentsTyped
  <2>2. j \in 0 .. Len(tabs)  BY <2>1
  <2>3. QED  BY <1>1, <1>2, <2>2 DEF E!Asks, E!troubles
<1>3. CASE E!Cancel
  <2>1. 0 \in 0 .. Len(tabs)  BY DEF EnvironmentsInv, EnvironmentsTyped
  <2>2. QED  BY <1>1, <1>3, <2>1 DEF E!Cancel, E!troubles
<1>4. QED
  BY <1>2, <1>3, TabOpenKeeps, CreateKeeps, TabEditKeeps, CloseKeeps, RenameKeeps, TabSaveKeeps,
     TakeTheirsKeeps, ActivateKeeps
  DEF E!User

LEMMA EnvironmentsInductive == ASSUME FilesAssumed, EnvironmentsInv, [E!Next]_(E!vars) PROVE EnvironmentsInv'
<1>1. CASE E!User  BY <1>1, EnvironmentsUserKeeps
<1>2. CASE E!Overwrites  BY <1>2, OverwriteKeeps DEF E!Overwrites
<1>3. CASE E!Deletes  BY <1>3, DeleteKeeps DEF E!Deletes
<1>4. CASE E!Imports  BY <1>4, ImportCreatesKeeps, ImportWritesKeeps, RefreshKeeps DEF E!Imports
<1>5. CASE E!Relaunches  BY <1>5, RelaunchKeeps DEF E!Relaunches
<1>6. CASE E!Others  BY <1>6, OutsideKeeps DEF E!Others
<1>7. CASE UNCHANGED E!vars
  BY <1>7 DEF E!vars, EnvironmentsInv, EnvironmentsTyped, FilesFit, TabsFit, E!ActiveIsSaved
<1>8. QED  BY <1>1, <1>2, <1>3, <1>4, <1>5, <1>6, <1>7 DEF E!Next

LEMMA EnvironmentsInvHolds == ASSUME FilesAssumed PROVE E!Spec => []EnvironmentsInv
<1>1. E!Init => EnvironmentsInv  BY EnvironmentsInit
<1>2. EnvironmentsInv /\ [E!Next]_(E!vars) => EnvironmentsInv'  BY EnvironmentsInductive
<1>3. QED  BY <1>1, <1>2, PTL DEF E!Spec

LEMMA EnvironmentsAreTyped == EnvironmentsInv => E!TypeOK
<1>1. SUFFICES ASSUME EnvironmentsTyped PROVE E!TypeOK  BY DEF EnvironmentsInv
<1>2. \A n \in E!Names : disk[n] \in E!Variables \union {Gone, Unreadable}
  BY <1>1 DEF EnvironmentsTyped, Disks, Contents
<1>3. \A j \in DOMAIN tabs : tabs[j] \in E!TabSet  BY <1>1 DEF EnvironmentsTyped
<1>4. QED  BY <1>1, <1>2, <1>3 DEF EnvironmentsTyped, E!TypeOK

(***************************************************************************)
(* The files, the list, the tabs and the question are well formed whatever *)
(* fails and whoever else writes (global.rs:19).                           *)
(***************************************************************************)
THEOREM EnvironmentsTypeCorrect == ASSUME FilesAssumed PROVE E!Spec => []E!TypeOK
<1>1. EnvironmentsInv => E!TypeOK  BY EnvironmentsAreTyped
<1>2. QED  BY <1>1, EnvironmentsInvHolds, PTL

LEMMA TabsFollowNow == EnvironmentsInv => E!TabsFollowTheirFiles
BY DEF EnvironmentsInv, FilesFit, TabsFit, E!TabsFollowTheirFiles, E!TabsOf

(***************************************************************************)
(* main_view.rs:1407: with any names and tabs, while no file goes behind   *)
(* the app's back and the list can be read, each environment has one tab,  *)
(* which leads to the file it opened.                                      *)
(***************************************************************************)
THEOREM TabsAlwaysFollow == ASSUME FilesAssumed PROVE E!Spec => []E!TabsFollowTheirFiles
<1>1. EnvironmentsInv => E!TabsFollowTheirFiles  BY TabsFollowNow
<1>2. QED  BY <1>1, EnvironmentsInvHolds, PTL

(***************************************************************************)
(* environments.rs:118: the active environment shown is the one saved, or  *)
(* the user was told that it could not be.                                 *)
(***************************************************************************)
THEOREM ChoiceIsSaved == ASSUME FilesAssumed PROVE E!Spec => []E!ActiveIsSaved
<1>1. EnvironmentsInv => E!ActiveIsSaved  BY DEF EnvironmentsInv
<1>2. QED  BY <1>1, EnvironmentsInvHolds, PTL

-----------------------------------------------------------------------------
(***************************************************************************)
(* What becomes of the variables of a file.                                *)
(***************************************************************************)
Stay(n, m) ==
  /\ m = n \/ E!Moved(n, m)
  /\ \/ disk'[m] = disk[n]
     \/ \E j \in DOMAIN tabs : tabs[j].name = n /\ tabs[j].saved = disk[n]

\* A file was renamed, and may have been saved from the tab of its name.
LEMMA RenamedStays ==
  ASSUME FilesAssumed, disk \in Disks, disk' \in Disks, NEW from \in E!Names, NEW to \in E!Names,
         to # from, E!CanRename(from, to), disk'[from] = Gone, disk'[to] # Gone,
         \A n \in E!Names \ {from, to} : disk'[n] = disk[n],
         \/ disk'[to] = disk[from]
         \/ \E j \in DOMAIN tabs : tabs[j].name = from /\ tabs[j].saved = disk[from],
         NEW n \in E!Listed(disk)
  PROVE  \E m \in E!Listed(disk') : Stay(n, m)
<1>1. disk[to] = Gone /\ disk[from] # Gone  BY DEF E!CanRename, E!Taken
<1>2. n \in E!Names /\ disk[n] # Gone  BY ListedFiles
<1>3. CASE n = from
  <2>1. to \in E!Listed(disk') /\ E!Moved(n, to)  BY <1>1, <1>3, ListedFiles DEF E!Moved
  <2>2. Stay(n, to)  BY <2>1, <1>3 DEF Stay
  <2>3. QED  BY <2>1, <2>2
<1>4. CASE n # from
  <2>1. n \in E!Listed(disk') /\ Stay(n, n)  BY <1>1, <1>2, <1>4, ListedFiles DEF Stay
  <2>2. QED  BY <2>1
<1>5. QED  BY <1>3, <1>4

\* Renamed and written by the tab j, which showed what the file held.
LEMMA SaveStays ==
  ASSUME FilesAssumed, EnvironmentsInv, NEW j \in DOMAIN tabs, NEW to \in E!Names, NEW outcome \in E!Outcomes,
         E!Save(j, to, outcome), NEW n \in E!Listed(disk)
  PROVE  \E m \in E!Listed(disk') : Stay(n, m)
<1>1. disk \in Disks /\ disk' \in Disks /\ tabs \in Seq(E!TabSet)  BY TabSaveKeeps DEF EnvironmentsInv, EnvironmentsTyped
<1>2. PICK t : t = tabs[j]  OBVIOUS
<1>3. t \in E!TabSet  BY <1>1, <1>2
<1>4. t.name \in E!Names /\ t.variables \in E!Variables  BY <1>3 DEF E!TabSet
<1>5. t.variables # Gone  BY <1>4 DEF FilesAssumed
<1>6. n \in E!Names /\ disk[n] # Gone  BY ListedFiles
<1>7. ~t.broken /\ disk[t.name] # Gone => t.saved = disk[t.name]
  BY <1>2 DEF E!Save, E!ChangedOutside, E!Read
<1>8. CASE to = t.name
  <2>1. E!Writes(j, t, disk, NoName, outcome)  BY <1>2, <1>8 DEF E!Save
  <2>2. CASE t.broken \/ outcome \in {"refused", "write"}
    <3>1. disk' = disk  BY <2>1, <2>2 DEF E!Writes
    <3>2. QED  BY <3>1 DEF Stay
  <2>3. CASE ~(t.broken \/ outcome \in {"refused", "write"})
    <3>1. disk' = [disk EXCEPT ![t.name] = t.variables]  BY <2>1, <2>3 DEF E!Writes
    <3>2. disk'[n] # Gone  BY <3>1, <1>1, <1>4, <1>5, <1>6 DEF Disks
    <3>3. disk'[n] = disk[n] \/ (n = t.name /\ t.saved = disk[n])
      BY <3>1, <2>3, <1>1, <1>4, <1>6, <1>7 DEF Disks
    <3>4. Stay(n, n)  BY <3>3, <1>2 DEF Stay
    <3>5. QED  BY <3>2, <3>4, <1>6, ListedFiles
  <2>4. QED  BY <2>2, <2>3
<1>9. CASE to # t.name
  <2>1. PICK u : u = [t EXCEPT !.name = to]  OBVIOUS
  <2>2. u.name = to /\ u.variables = t.variables /\ u.broken = t.broken  BY <1>3, <2>1 DEF E!TabSet
  <2>3. E!CanRename(t.name, to) /\ E!Writes(j, u, E!Renamed(t.name, to), t.name, outcome)
    BY <1>2, <1>9, <2>1 DEF E!Save
  <2>4. PICK d : d = E!Renamed(t.name, to)  OBVIOUS
  <2>5. /\ d \in Disks /\ d[to] = disk[t.name] /\ d[t.name] = Gone
        /\ \A m \in E!Names \ {t.name, to} : d[m] = disk[m]
    BY <1>1, <1>4, <1>9, <2>3, <2>4, RenamesFile
  <2>6. disk[t.name] # Gone  BY <2>3 DEF E!CanRename
  <2>7. CASE u.broken \/ outcome \in {"refused", "write"}
    <3>1. disk' = d  BY <2>3, <2>4, <2>7 DEF E!Writes
    <3>2. QED  BY <3>1, <1>1, <1>4, <1>9, <2>3, <2>5, <2>6, RenamedStays
  <2>8. CASE ~(u.broken \/ outcome \in {"refused", "write"})
    <3>1. disk' = [d EXCEPT ![to] = t.variables]  BY <2>2, <2>3, <2>4, <2>8 DEF E!Writes
    <3>2. disk'[to] # Gone /\ disk'[t.name] = Gone /\ \A m \in E!Names \ {t.name, to} : disk'[m] = disk[m]
      BY <3>1, <2>5, <1>4, <1>5, <1>9 DEF Disks
    <3>3. tabs[j].name = t.name /\ tabs[j].saved = disk[t.name]  BY <1>2, <1>7, <2>2, <2>6, <2>8
    <3>4. QED  BY <3>2, <3>3, <1>1, <1>4, <1>9, <2>3, RenamedStays
  <2>9. QED  BY <2>7, <2>8
<1>10. QED  BY <1>2, <1>8, <1>9

LEMMA UserStays ==
  ASSUME FilesAssumed, EnvironmentsInv, E!User, NEW n \in E!Listed(disk)
  PROVE  \E m \in E!Listed(disk') : Stay(n, m)
<1>1. disk \in Disks /\ disk' \in Disks /\ tabs \in Seq(E!TabSet)  BY EnvironmentsUserKeeps DEF EnvironmentsInv, EnvironmentsTyped
<1>2. n \in E!Names /\ disk[n] # Gone  BY ListedFiles
<1>3. ASSUME UNCHANGED disk
      PROVE  \E m \in E!Listed(disk') : Stay(n, m)
  BY <1>3 DEF Stay
<1>4. ASSUME NEW k \in E!Names, NEW outcome \in E!Outcomes, E!Create(k, outcome)
      PROVE  \E m \in E!Listed(disk') : Stay(n, m)
  <2>1. disk' = disk \/ (disk' = [disk EXCEPT ![k] = 0] /\ disk[k] = Gone)
    BY <1>4 DEF E!Create, E!FirstFree
  <2>2. disk'[n] = disk[n]  BY <2>1, <1>1, <1>2 DEF Disks
  <2>3. n \in E!Listed(disk') /\ Stay(n, n)  BY <2>2, <1>2, ListedFiles DEF Stay
  <2>4. QED  BY <2>3
<1>5. ASSUME NEW j \in DOMAIN tabs, NEW to \in E!Names, NEW outcome \in E!Outcomes,
             E!Rename(j, to, outcome)
      PROVE  \E m \in E!Listed(disk') : Stay(n, m)
  <2>1. PICK from : from = tabs[j].name  OBVIOUS
  <2>2. from \in E!Names
    <3>1. tabs[j] \in E!TabSet  BY <1>1
    <3>2. QED  BY <2>1, <3>1 DEF E!TabSet
  <2>3. to # from /\ E!CanRename(from, to) /\ disk' = E!Renamed(from, to)  BY <1>5, <2>1 DEF E!Rename
  <2>4. /\ disk'[to] = disk[from] /\ disk'[from] = Gone
        /\ \A m \in E!Names \ {from, to} : disk'[m] = disk[m]
    BY <1>1, <2>2, <2>3, RenamesFile
  <2>5. disk[from] # Gone  BY <2>3 DEF E!CanRename
  <2>6. QED  BY <1>1, <2>2, <2>3, <2>4, <2>5, RenamedStays
<1>6. QED
  BY <1>3, <1>4, <1>5, SaveStays
  DEF E!User, E!Open, E!Close, E!Asks, E!Edit, E!Cancel, E!TakeTheirs, E!Activate

LEMMA VariablesStayNext ==
  ASSUME FilesAssumed
  PROVE  EnvironmentsInv /\ [E!Next]_(E!vars) => [E!KeepsVariables]_(E!vars)
<1>1. SUFFICES ASSUME EnvironmentsInv, E!Next PROVE E!KeepsVariables  OBVIOUS
<1>2. CASE E!User
  <2>1. \A n \in E!Listed(disk) : \E m \in E!Listed(disk') : Stay(n, m)
    BY <1>1, <1>2, UserStays
  <2>2. QED  BY <2>1 DEF E!KeepsVariables, Stay
<1>3. CASE E!Relaunches
  <2>1. disk' = disk  BY <1>3 DEF E!Relaunches, E!Relaunch
  <2>2. QED  BY <2>1 DEF E!KeepsVariables
<1>4. QED  BY <1>1, <1>2, <1>3 DEF E!Next, E!KeepsVariables

(***************************************************************************)
(* environment_editor.rs:66: creating, renaming and saving environments    *)
(* leaves the variables of each file in it or under its new name, or       *)
(* replaces them by those of a tab that showed them as saved.              *)
(***************************************************************************)
THEOREM VariablesStay == ASSUME FilesAssumed PROVE E!Spec => [][E!KeepsVariables]_(E!vars)
<1>1. EnvironmentsInv /\ [E!Next]_(E!vars) => [E!KeepsVariables]_(E!vars)  BY VariablesStayNext
<1>2. QED  BY <1>1, EnvironmentsInvHolds, PTL DEF E!Spec

-----------------------------------------------------------------------------
(***************************************************************************)
(* What becomes of the active environment.                                 *)
(***************************************************************************)
Remains(name) ==
  \/ disk'[name] # Gone /\ active'.shown = name
  \/ disk'[name] = Gone /\ \A m \in E!Names : E!Moved(name, m) => active'.shown = m

\* The active file stays, or it goes and no file appears.
LEMMA StillActive ==
  ASSUME NEW name, disk[name] # Gone, UNCHANGED active, active.shown = name,
         disk'[name] # Gone \/ (\A m \in E!Names : disk[m] = Gone => disk'[m] = Gone)
  PROVE  Remains(name)
BY DEF Remains, E!Moved

\* Renamed, the active one is followed, and any other leaves it alone.
LEMMA RenamedRemains ==
  ASSUME FilesAssumed, disk \in Disks, disk' \in Disks, EnvironmentsTyped, NEW from \in E!Names, NEW to \in E!Names,
         to # from, E!CanRename(from, to), disk'[from] = Gone, disk'[to] # Gone,
         \A n \in E!Names \ {from, to} : disk'[n] = disk[n],
         NEW outcome, E!Follows(from, to, outcome),
         NEW name \in E!Names, name = active.shown, disk[name] # Gone
  PROVE  Remains(name)
<1>1. disk[to] = Gone  BY DEF E!CanRename, E!Taken
<1>2. CASE name = from
  <2>1. active'.shown = to  BY <1>2 DEF E!Follows, E!SetsActive
  <2>2. \A m \in E!Names : E!Moved(name, m) => m = to  BY <1>2 DEF E!Moved
  <2>3. QED  BY <2>1, <2>2, <1>2 DEF Remains
<1>3. CASE name # from
  <2>1. UNCHANGED active  BY <1>3 DEF E!Follows
  <2>2. disk'[name] = disk[name]  BY <1>1, <1>3
  <2>3. QED  BY <2>1, <2>2 DEF Remains
<1>4. QED  BY <1>2, <1>3

LEMMA WrittenRemains ==
  ASSUME FilesAssumed, EnvironmentsInv, EnvironmentsInv', NEW j \in DOMAIN tabs, NEW outcome,
         E!Writes(j, tabs[j], disk, NoName, outcome), UNCHANGED active,
         NEW name \in E!Names, name = active.shown, disk[name] # Gone
  PROVE  Remains(name)
<1>1. tabs[j] \in E!TabSet /\ disk \in Disks  BY DEF EnvironmentsInv, EnvironmentsTyped
<1>2. tabs[j].name \in E!Names /\ tabs[j].variables # Gone  BY <1>1 DEF E!TabSet, FilesAssumed
<1>3. disk' = disk \/ disk' = [disk EXCEPT ![tabs[j].name] = tabs[j].variables]  BY DEF E!Writes
<1>4. disk'[name] # Gone  BY <1>1, <1>2, <1>3 DEF Disks
<1>5. QED  BY <1>4, StillActive

LEMMA SaveRemains ==
  ASSUME FilesAssumed, EnvironmentsInv, EnvironmentsInv', NEW j \in DOMAIN tabs, NEW to \in E!Names,
         NEW outcome \in E!Outcomes, E!Save(j, to, outcome),
         NEW name \in E!Names, name = active.shown, disk[name] # Gone
  PROVE  Remains(name)
<1>1. EnvironmentsTyped /\ disk \in Disks /\ disk' \in Disks /\ tabs[j] \in E!TabSet  BY DEF EnvironmentsInv, EnvironmentsTyped
<1>2. PICK t : t = tabs[j]  OBVIOUS
<1>3. t.name \in E!Names /\ t.variables # Gone  BY <1>1, <1>2 DEF E!TabSet, FilesAssumed
<1>4. CASE to = t.name  BY <1>2, <1>4, WrittenRemains DEF E!Save
<1>5. CASE to # t.name
  <2>1. PICK u : u = [t EXCEPT !.name = to]  OBVIOUS
  <2>2. u.name = to /\ u.variables = t.variables  BY <1>1, <1>2, <2>1 DEF E!TabSet
  <2>3. /\ E!CanRename(t.name, to) /\ E!Writes(j, u, E!Renamed(t.name, to), t.name, outcome)
        /\ E!Follows(t.name, to, outcome)
    BY <1>2, <1>5, <2>1 DEF E!Save
  <2>4. PICK d : d = E!Renamed(t.name, to)  OBVIOUS
  <2>5. /\ d \in Disks /\ d[to] = disk[t.name] /\ d[t.name] = Gone
        /\ \A m \in E!Names \ {t.name, to} : d[m] = disk[m]
    BY <1>1, <1>3, <1>5, <2>3, <2>4, RenamesFile
  <2>6. disk[t.name] # Gone  BY <2>3 DEF E!CanRename
  <2>7. disk' = d \/ disk' = [d EXCEPT ![to] = t.variables]  BY <2>2, <2>3, <2>4 DEF E!Writes
  <2>8. disk'[to] # Gone /\ disk'[t.name] = Gone /\ \A m \in E!Names \ {t.name, to} : disk'[m] = disk[m]
    BY <2>5, <2>6, <2>7, <1>3, <1>5 DEF Disks
  <2>9. QED  BY <2>3, <2>8, <1>1, <1>3, <1>5, RenamedRemains
<1>6. QED  BY <1>4, <1>5

LEMMA UserRemains ==
  ASSUME FilesAssumed, EnvironmentsInv, EnvironmentsInv', E!User, NEW name \in E!Names, name = active.shown, disk[name] # Gone
  PROVE  \/ Remains(name)
         \/ \E n \in E!Names \union {NoName}, outcome \in E!Outcomes : E!Activate(n, outcome)
<1>1. EnvironmentsTyped /\ disk \in Disks /\ disk' \in Disks /\ tabs \in Seq(E!TabSet)  BY DEF EnvironmentsInv, EnvironmentsTyped
<1>2. ASSUME UNCHANGED <<disk, active>>
      PROVE  Remains(name)
  BY <1>2, StillActive
<1>3. ASSUME NEW k \in E!Names, NEW outcome \in E!Outcomes, E!Create(k, outcome)
      PROVE  Remains(name)
  <2>1. disk' = disk \/ (disk' = [disk EXCEPT ![k] = 0] /\ disk[k] = Gone)
    BY <1>3 DEF E!Create, E!FirstFree
  <2>2. disk'[name] = disk[name]  BY <2>1, <1>1 DEF Disks
  <2>3. UNCHANGED active  BY <1>3 DEF E!Create
  <2>4. QED  BY <2>2, <2>3, StillActive
<1>4. ASSUME NEW j \in DOMAIN tabs, NEW to \in E!Names, NEW outcome \in E!Outcomes,
             E!Rename(j, to, outcome)
      PROVE  Remains(name)
  <2>1. PICK from : from = tabs[j].name  OBVIOUS
  <2>2. from \in E!Names
    <3>1. tabs[j] \in E!TabSet  BY <1>1
    <3>2. QED  BY <2>1, <3>1 DEF E!TabSet
  <2>3. /\ to # from /\ E!CanRename(from, to) /\ disk' = E!Renamed(from, to)
        /\ E!Follows(from, to, outcome)
    BY <1>4, <2>1 DEF E!Rename
  <2>4. /\ disk'[to] = disk[from] /\ disk'[from] = Gone
        /\ \A m \in E!Names \ {from, to} : disk'[m] = disk[m]
    BY <1>1, <2>2, <2>3, RenamesFile
  <2>5. disk[from] # Gone  BY <2>3 DEF E!CanRename
  <2>6. QED  BY <1>1, <2>2, <2>3, <2>4, <2>5, RenamedRemains
<1>5. QED
  BY <1>2, <1>3, <1>4, SaveRemains
  DEF E!User, E!Open, E!Close, E!Asks, E!Edit, E!Cancel, E!TakeTheirs

LEMMA DeleteRemains ==
  ASSUME EnvironmentsInv, NEW n \in E!Names, NEW outcome \in E!Outcomes, E!Delete(n, outcome),
         NEW name \in E!Names, name = active.shown, disk[name] # Gone
  PROVE  Remains(name)
<1>1. disk \in Disks  BY DEF EnvironmentsInv, EnvironmentsTyped
<1>2. CASE outcome = "write"  BY <1>2, StillActive DEF E!Delete
<1>3. CASE outcome # "write"
  <2>1. /\ disk' = [disk EXCEPT ![n] = Gone]
        /\ active.shown # n => UNCHANGED active
    BY <1>3 DEF E!Delete
  <2>2. \A m \in E!Names : disk'[m] = IF m = n THEN Gone ELSE disk[m]  BY <1>1, <2>1 DEF Disks
  <2>3. QED  BY <2>1, <2>2 DEF Remains, E!Moved
<1>4. QED  BY <1>2, <1>3

LEMMA ImportRemains ==
  ASSUME FilesAssumed, EnvironmentsInv, E!Imports, NEW name \in E!Names, name = active.shown, disk[name] # Gone
  PROVE  Remains(name)
<1>1. disk \in Disks  BY DEF EnvironmentsInv, EnvironmentsTyped
<1>2. 0 # Gone /\ 1 # Gone  BY DEF FilesAssumed, E!Variables
<1>3. UNCHANGED active  BY DEF E!Imports, E!ImportCreates, E!ImportWrites, E!Refresh
<1>4. ASSUME NEW n \in E!Names, disk' = [disk EXCEPT ![n] = Gone] PROVE Remains(name)
  BY <1>1, <1>3, <1>4, StillActive DEF Disks
<1>5. ASSUME NEW n \in E!Names, NEW value \in {0, 1}, disk' = [disk EXCEPT ![n] = value]
      PROVE  Remains(name)
  <2>1. disk'[name] # Gone  BY <1>1, <1>2, <1>5 DEF Disks
  <2>2. QED  BY <1>3, <2>1, StillActive
<1>6. CASE UNCHANGED disk  BY <1>3, <1>6, StillActive
<1>7. QED  BY <1>4, <1>5, <1>6 DEF E!Imports, E!ImportCreates, E!ImportWrites, E!Refresh

LEMMA OutsideRemains ==
  ASSUME FilesAssumed, EnvironmentsInv, NEW n \in E!Names, E!Outside(n),
         NEW name \in E!Names, name = active.shown, disk[name] # Gone
  PROVE  Remains(name)
<1>1. disk \in Disks /\ UNCHANGED active  BY DEF EnvironmentsInv, EnvironmentsTyped, E!Outside
<1>2. ASSUME NEW value \in E!Variables \union {Unreadable}, disk' = [disk EXCEPT ![n] = value]
      PROVE  Remains(name)
  <2>1. disk'[name] # Gone  BY <1>1, <1>2 DEF Disks, FilesAssumed
  <2>2. QED  BY <1>1, <2>1, StillActive
<1>3. CASE disk' = [disk EXCEPT ![n] = Gone]
  <2>1. \A m \in E!Names : disk[m] = Gone => disk'[m] = Gone  BY <1>1, <1>3 DEF Disks
  <2>2. QED  BY <1>1, <2>1, StillActive
<1>4. QED  BY <1>2, <1>3 DEF E!Outside

LEMMA RelaunchRemains ==
  ASSUME EnvironmentsInv, NEW outcome \in E!Outcomes, E!Relaunch(outcome), astray' = {},
         NEW name \in E!Names, name = active.shown, disk[name] # Gone, name # NoName
  PROVE  Remains(name)
<1>1. E!Fault(outcome)  BY DEF E!Relaunch
<1>2. "choice" \notin astray /\ outcome # "list"  BY <1>1, TroubleKeeps
<1>3. active.saved = name  BY <1>2 DEF EnvironmentsInv, E!ActiveIsSaved
<1>4. UNCHANGED disk /\ name \in E!Listed(disk)  BY ListedFiles DEF E!Relaunch
<1>5. active' = [active EXCEPT !.shown = name]  BY <1>2, <1>3, <1>4 DEF E!Relaunch
<1>6. active'.shown = name  BY <1>5 DEF EnvironmentsInv, EnvironmentsTyped
<1>7. QED  BY <1>4, <1>6 DEF Remains

LEMMA ActiveStaysNext ==
  ASSUME FilesAssumed
  PROVE  EnvironmentsInv /\ EnvironmentsInv' /\ [E!Next]_(E!vars) => [E!ActiveStays]_(E!vars)
<1>1. SUFFICES ASSUME EnvironmentsInv, EnvironmentsInv', E!Next PROVE E!ActiveStays  OBVIOUS
<1>2. CASE active.shown = NoName \/ disk[active.shown] = Gone  BY <1>2 DEF E!ActiveStays
<1>3. CASE ~(active.shown = NoName \/ disk[active.shown] = Gone)
  <2>1. PICK name \in E!Names : name = active.shown  BY <1>1, <1>3 DEF EnvironmentsInv, EnvironmentsTyped
  <2>2. name # NoName /\ disk[name] # Gone  BY <1>3, <2>1
  <2>3. Remains(name) => E!ActiveStays  BY <2>1 DEF Remains, E!ActiveStays
  <2>4. CASE E!User  BY <1>1, <2>1, <2>2, <2>3, <2>4, UserRemains DEF E!ActiveStays
  <2>5. CASE E!Overwrites
    <3>1. asking \in DOMAIN tabs  BY <1>1, <2>5 DEF EnvironmentsInv, EnvironmentsTyped, E!Overwrites, E!Overwrite
    <3>2. QED  BY <1>1, <2>1, <2>2, <2>3, <2>5, <3>1, WrittenRemains DEF E!Overwrites, E!Overwrite
  <2>6. CASE E!Deletes  BY <1>1, <2>1, <2>2, <2>3, <2>6, DeleteRemains DEF E!Deletes
  <2>7. CASE E!Imports  BY <1>1, <2>1, <2>2, <2>3, <2>7, ImportRemains
  <2>8. CASE E!Relaunches
    <3>1. CASE astray' = {}  BY <1>1, <2>1, <2>2, <2>3, <2>8, <3>1, RelaunchRemains DEF E!Relaunches
    <3>2. CASE astray' # {}  BY <2>8, <3>2 DEF E!ActiveStays
    <3>3. QED  BY <3>1, <3>2
  <2>9. CASE E!Others  BY <1>1, <2>1, <2>2, <2>3, <2>9, OutsideRemains DEF E!Others
  <2>10. QED  BY <1>1, <2>4, <2>5, <2>6, <2>7, <2>8, <2>9 DEF E!Next
<1>4. QED  BY <1>2, <1>3

(***************************************************************************)
(* environments.rs:118: while its file is there, the active environment is *)
(* the same file, under any name, until the user chooses another or        *)
(* something fails and the app is launched again.                          *)
(***************************************************************************)
THEOREM TheActiveOneStays == ASSUME FilesAssumed PROVE E!Spec => [][E!ActiveStays]_(E!vars)
<1>1. EnvironmentsInv /\ EnvironmentsInv' /\ [E!Next]_(E!vars) => [E!ActiveStays]_(E!vars)  BY ActiveStaysNext
<1>2. QED  BY <1>1, EnvironmentsInvHolds, PTL DEF E!Spec
=============================================================================
