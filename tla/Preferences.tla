---------------------------- MODULE Preferences ----------------------------
(***************************************************************************)
(* Proxy credentials and other preferences: crates/preferences/src, with   *)
(* the proxy page of crates/settings_ui/src/proxy.rs.  preferences.json    *)
(* refers to an entry of the OS keyring by a fresh id; the keyring is      *)
(* slow, may be locked, and fails.  Of the proxy, `custom` stands for the  *)
(* settings that are not secret and `secret` for user name and password.   *)
(* The other preferences are one value.                                    *)
(***************************************************************************)
EXTENDS Naturals, FiniteSets, FiniteSetsExt, SequencesExt

CONSTANTS Secrets, NoSecret,   \* NoSecret: both fields empty
          NoId,
          MaxEdits, MaxOthers, MaxFailures, MaxStops   \* bounds

VARIABLES
  file,      \* preferences.json; `plain` are credentials an old version left
  keyring,   \* the entries of the keyring, by their id
  ids,       \* how many ids were used
  app,       \* "off", "loading" or "on"
  memory,    \* Preferences: the proxy with its secret, the id, the others
  legacy,    \* Storage: whether file.plain still has to reach the keyring
  draft,     \* the proxy page's draft
  edits,     \* update_proxy calls, by their revision
  writer,    \* the edit that holds proxy_writes, 0 for none
  typed,     \* ghost: the secrets the user ever typed
  wanted,    \* ghost: the secret typed last, as far as the app was told
  others,    \* ghost: the other preferences, as the user set them last
  failures, stops, changes

vars == <<file, keyring, ids, app, memory, legacy, draft, edits, writer, typed, wanted,
          others, failures, stops, changes>>
ghosts == <<typed, wanted, others>>
counts == <<failures, stops, changes>>

All == Secrets \union {NoSecret}
Without(id) == [i \in DOMAIN keyring \ {id} |-> keyring[i]]
With(id, secret) == [i \in DOMAIN keyring \union {id} |-> IF i = id THEN secret ELSE keyring[i]]

\* What a document saves: no secret, and no plain credentials any more.
Document(preferences) ==
  [custom |-> preferences.proxy.custom, id |-> preferences.id, other |-> preferences.other,
   plain |-> NoSecret]

Init ==
  /\ \E start \in {"new", "saved", "plain"}, secret \in Secrets :
       /\ file = [custom |-> TRUE, other |-> 0, id |-> IF start = "saved" THEN 1 ELSE NoId,
                  plain |-> IF start = "plain" THEN secret ELSE NoSecret]
       /\ keyring = [i \in IF start = "saved" THEN {1} ELSE {} |-> secret]
       /\ typed = {IF start = "new" THEN NoSecret ELSE secret}
  /\ ids = 1 /\ app = "off"
  /\ memory = [proxy |-> [custom |-> TRUE, secret |-> NoSecret, lost |-> FALSE], id |-> NoId, other |-> 0]
  /\ draft = memory.proxy /\ legacy = FALSE
  /\ edits = <<>> /\ writer = 0
  /\ wanted = NoSecret /\ others = 0
  /\ failures = 0 /\ stops = 0 /\ changes = 0

\* What is saved, for a reader that can open the keyring.
Saved == IF file.plain # NoSecret THEN file.plain
         ELSE IF file.id \in DOMAIN keyring THEN keyring[file.id] ELSE NoSecret

Fail == failures < MaxFailures /\ failures' = failures + 1
Works == UNCHANGED failures

-----------------------------------------------------------------------------
(***************************************************************************)
(* Starting and stopping the app.  The window opens when load() is done.   *)
(***************************************************************************)
NewEdit(proxy, generation) ==
  edits' = Append(edits, [proxy |-> proxy, at |-> "waiting", page |-> generation, before |-> memory,
                          id |-> NoId, staged |-> FALSE, result |-> "none"])

Load ==
  /\ app = "off"
  /\ memory' = [proxy |-> [custom |-> file.custom, secret |-> file.plain, lost |-> FALSE],
                id |-> file.id, other |-> file.other]
  /\ legacy' = (file.plain # NoSecret)
  /\ wanted' = Saved
  /\ app' = "loading"
  /\ UNCHANGED <<file, keyring, ids, draft, edits, writer, typed, others, counts>>

\* Legacy credentials move to the keyring as an edit of their own.
Migrate ==
  /\ app = "loading" /\ legacy /\ edits = <<>>
  /\ NewEdit(memory.proxy, FALSE)
  /\ UNCHANGED <<file, keyring, ids, app, memory, legacy, draft, writer, ghosts, counts>>

Opens(proxy) == app' = "on" /\ draft' = proxy

Migrated ==
  /\ app = "loading" /\ edits # <<>> /\ edits[1].at = "done"
  /\ LET proxy == [memory.proxy EXCEPT !.lost = @ \/ edits[1].result = "error"] IN
     memory' = [memory EXCEPT !.proxy = proxy] /\ Opens(proxy)
  /\ UNCHANGED <<file, keyring, ids, legacy, edits, writer, ghosts, counts>>

ReadCredentials ==
  /\ app = "loading" /\ ~legacy /\ edits = <<>>
  /\ LET proxy == [memory.proxy EXCEPT !.secret = IF memory.id = NoId THEN NoSecret ELSE keyring[memory.id]] IN
     \/ /\ memory.id = NoId \/ memory.id \in DOMAIN keyring
        /\ Works
        /\ memory' = [memory EXCEPT !.proxy = proxy] /\ Opens(proxy)
     \/ /\ memory.id # NoId
        /\ IF memory.id \in DOMAIN keyring THEN Fail ELSE Works
        /\ LET lost == [memory.proxy EXCEPT !.lost = TRUE] IN
           memory' = [memory EXCEPT !.proxy = lost] /\ Opens(lost)
  /\ UNCHANGED <<file, keyring, ids, legacy, edits, writer, ghosts, stops, changes>>

\* The app crashes or quits; a write the keyring was given may still happen.
Stop ==
  /\ app # "off" /\ stops < MaxStops
  /\ stops' = stops + 1
  /\ app' = "off"
  /\ edits' = <<>> /\ writer' = 0
  /\ \/ UNCHANGED keyring
     \/ writer # 0 /\ edits[writer].at = "staging"
        /\ keyring' = With(edits[writer].id, edits[writer].proxy.secret)
  /\ UNCHANGED <<file, ids, memory, legacy, draft, ghosts, failures, changes>>

-----------------------------------------------------------------------------
(***************************************************************************)
(* The settings.                                                           *)
(***************************************************************************)
Save(proxy) ==
  /\ app = "on" /\ Len(edits) < MaxEdits
  /\ draft' = proxy
  /\ NewEdit(proxy, TRUE)
  /\ UNCHANGED <<file, keyring, ids, app, memory, legacy, writer, others, counts>>

\* The marker stays on drafts whose empty fields have to be restored.
Types(secret) ==
  /\ draft.custom /\ secret # draft.secret
  /\ Save([draft EXCEPT !.secret = secret, !.lost = FALSE])
  /\ typed' = typed \union {secret}
  /\ wanted' = secret

Toggles ==
  /\ Save([draft EXCEPT !.custom = ~@])
  /\ UNCHANGED <<typed, wanted>>

Persist(preferences) == file' = Document(preferences)

\* mutant: a save drops the credentials that did not reach the keyring yet
MayUpdateAnyway == app = "on"
MayUpdate == app = "on" /\ ~legacy

\* update(): any other preference, saved at once.
UpdatesOther ==
  /\ MayUpdate /\ changes < MaxOthers
  /\ changes' = changes + 1
  /\ LET preferences == [memory EXCEPT !.other = changes + 1] IN
     \/ Works /\ Persist(preferences) /\ memory' = preferences /\ others' = preferences.other
     \/ Fail /\ UNCHANGED <<file, memory, others>>
  /\ UNCHANGED <<keyring, ids, app, legacy, draft, edits, writer, typed, wanted, stops>>

\* What the page takes over of its last edit.
Told(n) ==
  /\ app = "on" /\ n = Len(edits) /\ edits[n].at = "done"
  /\ edits' = [edits EXCEPT ![n].at = "told"]
  /\ draft' = IF edits[n].page /\ edits[n].result = "ok" THEN memory.proxy ELSE draft
  /\ UNCHANGED <<file, keyring, ids, app, memory, legacy, writer, ghosts, counts>>

-----------------------------------------------------------------------------
(***************************************************************************)
(* update_proxy(): an edit takes the lock and goes on alone.               *)
(***************************************************************************)
\* mutant: an edit that failed keeps the lock
EndsOrStays(n, edit, result) ==
  /\ edits' = [edits EXCEPT ![n] = [edit EXCEPT !.at = "done", !.result = result]]
  /\ writer' = IF result = "ok" THEN 0 ELSE n
Ends(n, edit, result) ==
  /\ edits' = [edits EXCEPT ![n] = [edit EXCEPT !.at = "done", !.result = result]]
  /\ writer' = 0

\* mutant: the preferences as they were when the edit began
SavesAsBefore(edit) == [edit.before EXCEPT !.proxy = edit.proxy, !.id = edit.id]
\* Other settings can change while the OS keyring is open.
Saves(edit) == [memory EXCEPT !.proxy = edit.proxy, !.id = edit.id]

\* mutant: the old entry is deleted although the file still refers to it
DeletesOnFailure(edit) == edit.before.id
Unused(edit) == edit.id

\* Replaces the reference in the file, then deletes what it no longer needs.
Finishes(n, edit) ==
  \/ /\ Works
     /\ Persist(Saves(edit)) /\ memory' = Saves(edit) /\ legacy' = FALSE
     /\ IF edit.before.id \in {edit.id, NoId} THEN Ends(n, edit, "ok")
        ELSE /\ edits' = [edits EXCEPT ![n] = [edit EXCEPT !.at = "cleaning", !.id = edit.before.id,
                                                           !.result = "ok"]]
             /\ writer' = n
  \/ /\ Fail /\ UNCHANGED <<file, memory, legacy>>
     /\ IF ~edit.staged THEN Ends(n, edit, "error")
        ELSE /\ edits' = [edits EXCEPT ![n] = [edit EXCEPT !.at = "cleaning", !.id = Unused(edit),
                                                           !.result = "error"]]
             /\ writer' = n

\* mutant: the lock is not held while the keyring is open
WaitsUnlocked(n, edit, at) ==
  /\ edits' = [edits EXCEPT ![n] = [edit EXCEPT !.at = at]]
  /\ writer' = 0
Waits(n, edit, at) ==
  /\ edits' = [edits EXCEPT ![n] = [edit EXCEPT !.at = at]]
  /\ writer' = n

\* An entry of its own for changed credentials; Finishes goes on without one.
Stages(n, edit, changed) ==
  IF edit.proxy = edit.before.proxy /\ ~legacy
    THEN Ends(n, edit, "ok") /\ UNCHANGED <<file, memory, legacy, ids, failures>>
  ELSE IF ~changed
    THEN Finishes(n, [edit EXCEPT !.id = edit.before.id]) /\ UNCHANGED ids
  ELSE IF edit.proxy.secret = NoSecret
    THEN Finishes(n, [edit EXCEPT !.id = NoId]) /\ UNCHANGED ids
  ELSE /\ Waits(n, [edit EXCEPT !.id = ids + 1, !.staged = TRUE], "staging")
       /\ ids' = ids + 1
       /\ UNCHANGED <<file, memory, legacy, failures>>

\* mutant: an edit is written although a newer one waits
NotSuperseded(n) == n \in DOMAIN edits
IsNewest(n) == n = Len(edits)

Start(n) ==
  LET old     == memory.proxy
      edit    == [edits[n] EXCEPT !.before = memory]
      changed == edit.proxy.secret # old.secret
      Now(proxy) == [edit EXCEPT !.proxy = proxy]
  IN
  /\ app # "off" /\ writer = 0 /\ edits[n].at = "waiting"
  /\ IF ~IsNewest(n)
       THEN Ends(n, edits[n], "ok") /\ UNCHANGED <<file, memory, legacy, ids, failures>>
     ELSE IF edit.proxy.lost /\ ~old.lost /\ ~legacy
       THEN Stages(n, Now([edit.proxy EXCEPT !.secret = old.secret, !.lost = FALSE]), FALSE)
     ELSE IF old.lost /\ ~changed /\ ~legacy
       THEN IF edit.proxy.custom /\ memory.id # NoId
              THEN Waits(n, edit, "restoring") /\ UNCHANGED <<file, memory, legacy, ids, failures>>
              ELSE Stages(n, Now([edit.proxy EXCEPT !.lost = ~edit.proxy.custom]), FALSE)
     ELSE Stages(n, Now([edit.proxy EXCEPT !.lost = FALSE]), changed \/ legacy)
  /\ UNCHANGED <<keyring, app, draft, ghosts, stops, changes>>

\* Credentials that could not be read at the start are read again.
Restores(n) ==
  LET edit == edits[n] IN
  /\ edit.at = "restoring"
  /\ \/ /\ edit.before.id \in DOMAIN keyring
        /\ Stages(n, [edit EXCEPT !.proxy.secret = keyring[edit.before.id], !.proxy.lost = FALSE], FALSE)
     \/ /\ IF edit.before.id \in DOMAIN keyring THEN Fail ELSE Works
        /\ Ends(n, edit, "error") /\ UNCHANGED <<file, memory, legacy, ids>>
  /\ UNCHANGED <<keyring, app, draft, ghosts, stops, changes>>

WritesEntry(n) ==
  LET edit == edits[n] IN
  /\ edit.at = "staging"
  /\ \/ /\ Works /\ keyring' = With(edit.id, edit.proxy.secret)
        /\ Waits(n, edit, "staged")
     \/ /\ Fail /\ Ends(n, edit, "error") /\ UNCHANGED keyring
  /\ UNCHANGED <<file, ids, app, memory, legacy, draft, ghosts, stops, changes>>

Replaces(n) ==
  /\ edits[n].at = "staged"
  /\ Finishes(n, edits[n])
  /\ UNCHANGED <<keyring, ids, app, draft, ghosts, stops, changes>>

DeletesEntry(n) ==
  /\ edits[n].at = "cleaning"
  /\ \/ Works /\ keyring' = Without(edits[n].id)
     \/ Fail /\ UNCHANGED keyring
  /\ Ends(n, edits[n], edits[n].result)
  /\ UNCHANGED <<file, ids, app, memory, legacy, draft, ghosts, stops, changes>>

-----------------------------------------------------------------------------
Edit(n) == Start(n) \/ Restores(n) \/ WritesEntry(n) \/ Replaces(n) \/ DeletesEntry(n) \/ Told(n)

Background ==
  \/ Migrate \/ Migrated \/ ReadCredentials
  \/ \E n \in DOMAIN edits : Edit(n)

User == (\E secret \in All : Types(secret)) \/ Toggles \/ UpdatesOther \/ Load \/ Stop

Next == Background \/ User

Spec == Init /\ [][Next]_vars /\ WF_vars(Background)

-----------------------------------------------------------------------------
Quiet == app = "on" /\ \A n \in DOMAIN edits : edits[n].at \in {"done", "told"}

TypeOK ==
  /\ file.id \in 1 .. ids \union {NoId} /\ file.plain \in All
  /\ DOMAIN keyring \subseteq 1 .. ids /\ \A i \in DOMAIN keyring : keyring[i] \in Secrets
  /\ app \in {"off", "loading", "on"}
  /\ memory.proxy.secret \in All /\ draft.secret \in All
  /\ (writer # 0) = \E n \in DOMAIN edits : edits[n].at \in {"restoring", "staging", "staged", "cleaning"}
  /\ typed \subseteq All /\ wanted \in All

(***************************************************************************)
(* preferences/README.md:23: whichever step of an edit fails, and wherever *)
(* the app stops, the file refers to an entry that is in the keyring.      *)
(***************************************************************************)
SavedReferenceExists == file.id # NoId => file.id \in DOMAIN keyring

(***************************************************************************)
(* store.rs:125 and :233: what is saved are credentials the user typed,    *)
(* whichever step fails: those of an old version reach the keyring before  *)
(* the file drops them, and the empty fields of a failed read never        *)
(* replace them.                                                           *)
(***************************************************************************)
NoSecretIsLost == Saved \in typed

(***************************************************************************)
(* store.rs:211 and README.md:20: edits are written one at a time and in   *)
(* any order, and once they are done the last one is what is saved, with   *)
(* the credentials typed last.  Fields cleared while the credentials could *)
(* not be read look like the empty fields of a failed read: these come     *)
(* back, although they were cleared.                                       *)
(***************************************************************************)
LastEditWins ==
  Quiet /\ edits # <<>> /\ Last(edits).result = "ok" =>
    /\ file.custom = Last(edits).proxy.custom
    /\ Saved = wanted \/ (wanted = NoSecret /\ \E n \in DOMAIN edits : edits[n].before.proxy.lost)

(***************************************************************************)
(* store.rs:294: other preferences that change while the keyring is open   *)
(* stay as the user set them.                                              *)
(***************************************************************************)
OtherSettingsStay == file.other = others

Writing == writer # 0

(***************************************************************************)
(* Every edit ends and frees the lock, whatever fails on its way.          *)
(***************************************************************************)
EditsEnd == Writing ~> ~Writing
=============================================================================
