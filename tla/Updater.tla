------------------------------ MODULE Updater -------------------------------
(***************************************************************************)
(* Looking for updates: crates/updater/src/service.rs.  The updater looks  *)
(* at one track at a time and follows the one chosen in the preferences.   *)
(* Answers to its checks come in any order; the app itself downloads an    *)
(* update only on macOS, and reports how far it is through a channel.      *)
(***************************************************************************)
EXTENDS Naturals

CONSTANTS Tracks,
          NoTrack,
          MaxChecks,   \* bound: checks
          MaxChanges   \* bound: changes of the preferences

VARIABLES
  installation,  \* how this copy was installed, which does not change
  chosen,        \* Preferences: the track chosen there
  track,         \* Updater: the track the latest check looked at
  checks,        \*   how many checks there were
  status,        \*   what is shown
  offered,       \*   the track whose release an Available status offers
  prepared,      \*   the track whose release is ready to be installed
  asked,         \* the checks that were not answered: the track by their number
  downloading,   \* the track whose release is downloaded
  progress,      \* whether the download reported that it verifies
  late,          \* ghost: the track was chosen while an update was downloading
  changes        \* how often the preferences changed

vars == <<installation, chosen, track, checks, status, offered, prepared, asked,
          downloading, progress, late, changes>>

Installations == {"macos", "package", "source", "managed"}
Busy == {"downloading", "verifying"}

\* A package manager delivers the updates of a managed copy; one built from
\* source looks for updates only when it is asked.
HasManifest == installation # "managed"
Installed == installation \in {"macos", "package"}

-----------------------------------------------------------------------------
MayCheck(now) == now \notin Busy \union {"checking", "ready"}

\* What check() does to a state whose status is `now` and track is `on`.
Checks(now, on) ==
  IF ~MayCheck(now) THEN status' = now /\ UNCHANGED <<checks, asked, offered>>
  ELSE IF ~HasManifest THEN status' = "managed" /\ offered' = NoTrack /\ UNCHANGED <<checks, asked>>
  ELSE /\ status' = "checking" /\ offered' = NoTrack
       /\ checks' = checks + 1
       /\ asked' = [n \in DOMAIN asked \union {checks + 1} |-> IF n = checks + 1 THEN on ELSE asked[n]]

Init ==
  /\ installation \in Installations
  /\ chosen \in Tracks /\ track = chosen
  /\ IF Installed THEN status = "checking" /\ checks = 1 /\ asked = [n \in {1} |-> track]
     ELSE status = "idle" /\ checks = 0 /\ asked = [n \in {} |-> track]
  /\ offered = NoTrack /\ prepared = NoTrack /\ downloading = NoTrack
  /\ progress = FALSE /\ late = FALSE /\ changes = 0

\* The menu and the settings.
Check ==
  /\ checks < MaxChecks
  /\ Checks(status, track)
  /\ UNCHANGED <<installation, chosen, track, prepared, downloading, progress, late, changes>>

\* mutants: an answer is shown, whichever check it is to; or only one about
\* the chosen track
IsLatestOrNot(n) == n \in DOMAIN asked
IsLatestChosen(n) == checks = n /\ asked[n] = chosen
IsLatest(n) == checks = n

Answer(n) ==
  /\ n \in DOMAIN asked
  /\ asked' = [m \in DOMAIN asked \ {n} |-> asked[m]]
  /\ IF IsLatest(n)
       THEN \E answer \in {"available", "upToDate", "error"} :
              /\ status' = answer
              /\ offered' = IF answer = "available" THEN asked[n] ELSE NoTrack
       ELSE UNCHANGED <<status, offered>>
  /\ UNCHANGED <<installation, chosen, track, checks, prepared, downloading, progress, late, changes>>

\* follow_track, which is called for any change of the preferences.
FollowTrack(to) ==
  IF to = track \/ status \in Busy
    THEN UNCHANGED <<track, prepared, offered, status, checks, asked>>
    ELSE /\ track' = to
         /\ prepared' = NoTrack
         /\ Checks("idle", to)

ChangePreferences(to) ==
  /\ changes < MaxChanges /\ checks < MaxChecks
  /\ changes' = changes + 1
  /\ chosen' = to
  /\ FollowTrack(to)
  /\ late' = (to # track /\ status \in Busy)
  /\ UNCHANGED <<installation, downloading, progress>>

\* download(): elsewhere the browser downloads the package.
Download ==
  /\ status = "available" /\ installation = "macos"
  /\ status' = "downloading"
  /\ downloading' = offered /\ offered' = NoTrack
  /\ progress' = FALSE
  /\ UNCHANGED <<installation, chosen, track, checks, prepared, asked, late, changes>>

Downloaded ==
  /\ downloading # NoTrack /\ ~progress
  /\ progress' = TRUE
  /\ status' = "verifying"
  /\ UNCHANGED <<installation, chosen, track, checks, offered, prepared, asked, downloading, late, changes>>

Prepared ==
  /\ downloading # NoTrack /\ progress
  /\ prepared' = downloading /\ downloading' = NoTrack
  /\ status' = "ready"
  /\ UNCHANGED <<installation, chosen, track, checks, offered, asked, progress, late, changes>>

\* The download, the checksum or the signature fails.
Fails ==
  /\ downloading # NoTrack
  /\ downloading' = NoTrack
  /\ status' = "error"
  /\ UNCHANGED <<installation, chosen, track, checks, offered, prepared, asked, progress, late, changes>>

\* relaunch(): the app quits, or the installer does not start.
Relaunch ==
  /\ prepared # NoTrack
  /\ prepared' = NoTrack
  /\ status' \in {"quit", "error"}
  /\ UNCHANGED <<installation, chosen, track, checks, offered, asked, downloading, progress, late, changes>>

Background == (\E n \in 1 .. MaxChecks : Answer(n)) \/ Downloaded \/ Prepared \/ Fails

Next ==
  /\ status # "quit"
  /\ \/ Background
     \/ Check \/ Download \/ Relaunch
     \/ \E to \in Tracks : ChangePreferences(to)

Spec == Init /\ [][Next]_vars /\ WF_vars(status # "quit" /\ Background)

-----------------------------------------------------------------------------
TypeOK ==
  /\ installation \in Installations
  /\ chosen \in Tracks /\ track \in Tracks
  /\ status \in Busy \union {"idle", "checking", "upToDate", "available", "ready", "managed", "error", "quit"}
  /\ checks \in Nat
  /\ DOMAIN asked \subseteq 1 .. checks /\ \A n \in DOMAIN asked : asked[n] \in Tracks
  /\ (offered # NoTrack) = (status = "available")
  /\ (downloading # NoTrack) = (status \in Busy)
  /\ (prepared # NoTrack) = (status = "ready")
  /\ progress \in BOOLEAN /\ late \in BOOLEAN

(***************************************************************************)
(* service.rs:103 and :115: whatever order the answers come in, the        *)
(* release that is offered or ready is one of the track the updater looks  *)
(* at, and that is the chosen one unless it was chosen during a download.  *)
(***************************************************************************)
OffersTheTrack ==
  /\ status = "available" => offered = track
  /\ status = "ready" => prepared = track
  /\ chosen # track => late

NoCheckStarts == status \in Busy \union {"checking"}

(***************************************************************************)
(* service.rs:71: a status that keeps checks from starting has something   *)
(* under way that ends it, whatever was superseded meanwhile.              *)
(***************************************************************************)
NeverStuck == NoCheckStarts ~> ~NoCheckStarts
=============================================================================
