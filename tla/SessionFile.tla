---------------------------- MODULE SessionFile -----------------------------
(***************************************************************************)
(* The saved window and tabs: SessionWriter of                             *)
(* crates/workspace/src/session.rs and the workspace's checkpoints.  A     *)
(* change of the tabs is captured a moment later and saved by a background *)
(* task; closing the window saves at once.  Tasks end in any order, and    *)
(* the app may be killed.  Looks stand for what a session holds.           *)
(***************************************************************************)
EXTENDS Naturals

CONSTANTS Looks,
          MaxCaptures,   \* bound: sessions captured
          MaxFaults      \* bound: failed writes and killed processes

VARIABLES
  open,       \* whether the window is open
  look,       \* the workspace: what a session would hold now
  scheduled,  \*   checkpoint_scheduled
  captured,   \*   sessions_captured
  saving,     \* the sessions that background tasks will save, by their number
  saved,      \* SessionWriter: the newest saved number, and what the file holds
  file,       \* the file: a look and, for the properties, when it was captured
  faults

vars == <<open, look, scheduled, captured, saving, saved, file, faults>>

NothingSaving == [n \in {} |-> 0]

Init ==
  /\ open = TRUE
  /\ look \in Looks
  /\ scheduled = FALSE /\ captured = 0 /\ saving = NothingSaving
  /\ saved = [number |-> 0, content |-> "none"]
  /\ file = [look |-> look, number |-> 0]
  /\ faults = 0

\* mutant: a change while a session is being saved waits for the next one
SchedulesUnlessSaving == scheduled' = (scheduled \/ saving = NothingSaving)
Schedules == scheduled' = TRUE

\* The user; checkpoint_session is called for each change of the tabs.
Change(to) ==
  /\ open /\ to # look /\ captured < MaxCaptures
  /\ look' = to
  /\ Schedules
  /\ UNCHANGED <<open, captured, saving, saved, file, faults>>

\* CHECKPOINT_DELAY passed.
Checkpoint ==
  /\ open /\ scheduled
  /\ scheduled' = FALSE
  /\ captured' = captured + 1
  /\ saving' = [n \in DOMAIN saving \union {captured + 1} |-> IF n = captured + 1 THEN look ELSE saving[n]]
  /\ UNCHANGED <<open, look, saved, file, faults>>

\* mutant: any session is written
IsOlderNever(n) == n = 0
IsOlder(n) == n < saved.number

\* mutant: what should have been written is remembered as written
FailsRemembering(n, session) == saved' = [number |-> n, content |-> session] /\ UNCHANGED file
Fails(n, session) == UNCHANGED <<saved, file>>

\* SessionWriter::save, which holds a lock: an error is only printed.
Save(n, session) ==
  \/ IsOlder(n) /\ UNCHANGED <<saved, file, faults>>
  \/ /\ ~IsOlder(n)
     /\ saved' = [number |-> n, content |-> session]
     /\ file' = IF session # saved.content THEN [look |-> session, number |-> n]
                ELSE [file EXCEPT !.number = n]
     /\ UNCHANGED faults
  \/ /\ ~IsOlder(n) /\ session # saved.content
     /\ faults < MaxFaults /\ faults' = faults + 1
     /\ Fails(n, session)

SaveInBackground(n) ==
  /\ n \in DOMAIN saving
  /\ Save(n, saving[n])
  /\ saving' = [m \in DOMAIN saving \ {n} |-> saving[m]]
  /\ UNCHANGED <<open, look, scheduled, captured>>

\* The window closes; tasks that save go on until the app ends.
Close ==
  /\ open
  /\ open' = FALSE
  /\ captured' = captured + 1
  /\ Save(captured + 1, look)
  /\ UNCHANGED <<look, scheduled, saving>>

\* The app is killed and started again with what the file holds.
Kill ==
  /\ open /\ faults < MaxFaults
  /\ faults' = faults + 1
  /\ look' = file.look
  /\ scheduled' = FALSE /\ captured' = 0 /\ saving' = NothingSaving
  /\ saved' = [number |-> 0, content |-> "none"]
  /\ file' = [file EXCEPT !.number = 0]
  /\ UNCHANGED open

Task == Checkpoint \/ \E n \in 1 .. MaxCaptures + 1 : SaveInBackground(n)

Next == Task \/ Close \/ Kill \/ (\E to \in Looks : Change(to))

Spec == Init /\ [][Next]_vars /\ WF_vars(Task)

-----------------------------------------------------------------------------
TypeOK ==
  /\ look \in Looks /\ scheduled \in BOOLEAN /\ captured \in Nat
  /\ DOMAIN saving \subseteq 1 .. captured /\ \A n \in DOMAIN saving : saving[n] \in Looks
  /\ saved \in [number : 0 .. captured, content : Looks \union {"none"}]
  /\ file \in [look : Looks, number : 0 .. captured]

KeepsNewest == file'.number < file.number => captured' = 0

(***************************************************************************)
(* session.rs:113: saves end in any order, and none replaces a session     *)
(* captured later, above all not the one the closing window saved.         *)
(***************************************************************************)
NewestStays == [][KeepsNewest]_vars

(***************************************************************************)
(* session.rs:105: the file holds what the newest saved session held, also *)
(* when it was not written because it did not change.                      *)
(***************************************************************************)
FileIsCurrent == saved.content # "none" => file.look = saved.content /\ file.number = saved.number

IsSaved == file.look = look \/ faults > 0

(***************************************************************************)
(* workspace.rs:385: what the tabs hold is saved some time after they stop *)
(* changing, unless a write fails or the app is killed.                    *)
(***************************************************************************)
ChangesAreSaved == <>[]IsSaved
=============================================================================
