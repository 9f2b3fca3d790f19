----------------------------- MODULE CookieJar -----------------------------
(***************************************************************************)
(* The cookie jar that several processes keep in one file: crates/request/ *)
(* src/cookies.rs.  The app and each CLI command open the file, change     *)
(* their jar, and save it: under the file's lock they read what the file   *)
(* holds by then and merge their changes into it.  A cookie is a key (its  *)
(* domain, path and name) and a value; a value expires for everyone.       *)
(***************************************************************************)
EXTENDS Naturals, FiniteSets

CONSTANTS Processes, Keys,
          Values, NoCookie,
          Nobody,       \* holds the file's lock when no process does
          MaxChanges,   \* bound: changes of cookies
          MaxFailures   \* bound: failed saves and ended processes

ASSUME NoCookieAssumption == NoCookie \notin Values
ASSUME NobodyAssumption == Nobody \notin Processes

VARIABLES
  file,      \* what the file holds
  lock,      \* the process that holds the file's lock
  expired,   \* the values that have expired
  cookies,   \* of each process: its jar, expired cookies too,
  revision,  \*   the count of its changes,
  saved,     \*   what it last read from or wrote to the file,
  deleted,   \*   cookies that servers deleted since it last saved,
  step,      \*   where its save is, "closed" before it opens the file,
  merged,    \*   what its save writes,
  removing,  \*   whether it took a cookie out and has not counted that
  own,       \* ghost: keys it changed since its last save, and before the merge
  bounds     \* how much happened

vars == <<file, lock, expired, cookies, revision, saved, deleted, step, merged,
          removing, own, bounds>>

-----------------------------------------------------------------------------
None == [k \in Keys |-> NoCookie]
Live(jar) == [k \in Keys |-> IF jar[k] \in expired THEN NoCookie ELSE jar[k]]

NothingOwn == [since |-> {}, merged |-> {}, gone |-> {}, goneMerged |-> {}, took |-> {}]
NoMerge == [cookies |-> None, revision |-> 0, deleted |-> {}]

Init ==
  /\ file = None
  /\ lock = Nobody
  /\ expired = {}
  /\ cookies = [p \in Processes |-> None]
  /\ revision = [p \in Processes |-> 0]
  /\ saved = [p \in Processes |-> [revision |-> 0, cookies |-> None]]
  /\ deleted = [p \in Processes |-> {}]
  /\ step = [p \in Processes |-> "closed"]
  /\ merged = [p \in Processes |-> NoMerge]
  /\ removing = [p \in Processes |-> FALSE]
  /\ own = [p \in Processes |-> NothingOwn]
  /\ bounds = [changes |-> 0, failures |-> 0]

\* The file is read without its lock: it is replaced at once.
Open(p) ==
  /\ step[p] = "closed"
  /\ step' = [step EXCEPT ![p] = "idle"]
  /\ cookies' = [cookies EXCEPT ![p] = Live(file)]
  /\ revision' = [revision EXCEPT ![p] = 0]
  /\ saved' = [saved EXCEPT ![p] = [revision |-> 0, cookies |-> Live(file)]]
  /\ deleted' = [deleted EXCEPT ![p] = {}]
  /\ own' = [own EXCEPT ![p] = NothingOwn]
  /\ UNCHANGED <<file, lock, expired, merged, removing, bounds>>

\* A command ends, or the process is killed, with what it has not saved; the
\* system gives its lock back.
End(p) ==
  /\ step[p] # "closed"
  /\ bounds.failures < MaxFailures
  /\ bounds' = [bounds EXCEPT !.failures = @ + 1]
  /\ step' = [step EXCEPT ![p] = "closed"]
  /\ lock' = IF lock = p THEN Nobody ELSE lock
  /\ merged' = [merged EXCEPT ![p] = NoMerge]
  /\ removing' = [removing EXCEPT ![p] = FALSE]
  /\ UNCHANGED <<file, expired, cookies, revision, saved, deleted, own>>

Expire(v) ==
  /\ v \notin expired
  /\ expired' = expired \union {v}
  /\ UNCHANGED <<file, lock, cookies, revision, saved, deleted, step, merged,
                 removing, own, bounds>>

-----------------------------------------------------------------------------
(***************************************************************************)
(* Changes of a jar, also while it is being saved.                         *)
(***************************************************************************)
Changes(p) ==
  /\ step[p] # "closed"
  /\ bounds.changes < MaxChanges
  /\ bounds' = [bounds EXCEPT !.changes = @ + 1]
  /\ UNCHANGED <<file, lock, expired, saved, step, merged>>

Counted(p) ==
  /\ revision' = [revision EXCEPT ![p] = @ + 1]
  /\ UNCHANGED removing

Owns(p, keys, gone) ==
  own' = [own EXCEPT ![p].since = @ \union keys,
                     ![p].gone = IF gone THEN @ \union keys ELSE @ \ keys]

\* A response, a script or a finished run sets a cookie.
Store(p, k, v) ==
  /\ v \notin expired
  /\ Changes(p)
  /\ cookies' = [cookies EXCEPT ![p][k] = v]
  /\ deleted' = [deleted EXCEPT ![p] = @ \ {k}]
  /\ Counted(p)
  /\ Owns(p, {k}, FALSE)

\* A response expires it, or a script deletes it, in the jar or not.
ServerDeletes(p, k) ==
  /\ Changes(p)
  /\ cookies' = [cookies EXCEPT ![p][k] = NoCookie]
  /\ deleted' = [deleted EXCEPT ![p] = @ \union {k}]
  /\ Counted(p)
  /\ Owns(p, {k}, TRUE)

\* The user deletes a cookie, or all: it is counted after the jar is unlocked.
Remove(p, k) ==
  /\ Changes(p)
  /\ ~removing[p] /\ cookies[p][k] # NoCookie
  /\ cookies' = [cookies EXCEPT ![p][k] = NoCookie]
  /\ removing' = [removing EXCEPT ![p] = TRUE]
  /\ Owns(p, {k}, FALSE)
  /\ UNCHANGED <<revision, deleted>>

Clear(p) ==
  /\ Changes(p)
  /\ ~removing[p]
  /\ cookies' = [cookies EXCEPT ![p] = None]
  /\ removing' = [removing EXCEPT ![p] = TRUE]
  /\ Owns(p, {k \in Keys : cookies[p][k] # NoCookie}, FALSE)
  /\ UNCHANGED <<revision, deleted>>

Removed(p) ==
  /\ removing[p]
  /\ removing' = [removing EXCEPT ![p] = FALSE]
  /\ revision' = [revision EXCEPT ![p] = @ + 1]
  /\ UNCHANGED <<file, lock, expired, cookies, saved, deleted, step, merged, own,
                 bounds>>

-----------------------------------------------------------------------------
(***************************************************************************)
(* save().                                                                 *)
(***************************************************************************)
Unsaved(p) == saved[p].revision # revision[p]

BeginUnlocked(p) ==                                            \* mutant
  /\ step[p] = "idle" /\ Unsaved(p)
  /\ lock' = p
  /\ step' = [step EXCEPT ![p] = "locked"]
  /\ UNCHANGED <<file, expired, cookies, revision, saved, deleted, merged, removing,
                 own, bounds>>

Begin(p) ==
  /\ step[p] = "idle" /\ Unsaved(p)
  /\ lock = Nobody
  /\ lock' = p
  /\ step' = [step EXCEPT ![p] = "locked"]
  /\ UNCHANGED <<file, expired, cookies, revision, saved, deleted, merged, removing,
                 own, bounds>>

\* merge(): the changes from `last` to `ours` applied to the file's cookies.
MergedForgetting(last, ours, gone, current) ==                 \* mutant
  [k \in Keys |->
     IF ours[k] # NoCookie /\ last[k] # ours[k] THEN ours[k]
     ELSE IF last[k] # NoCookie /\ ours[k] = NoCookie THEN NoCookie
     ELSE current[k]]

Merged(last, ours, gone, current) ==
  [k \in Keys |->
     IF ours[k] # NoCookie /\ last[k] # ours[k] THEN ours[k]
     ELSE IF (last[k] # NoCookie /\ ours[k] = NoCookie) \/ k \in gone THEN NoCookie
     ELSE current[k]]

\* The other processes' cookies join the jar as a change of its own.
RevisionAfter(p, result) ==
  IF result # Live(cookies[p]) THEN revision[p] + 1 ELSE revision[p]

Merge(p) ==
  /\ step[p] = "locked"
  /\ LET result == Merged(saved[p].cookies, Live(cookies[p]), deleted[p], Live(file))
     IN  /\ cookies' = [cookies EXCEPT ![p] = result]
         /\ revision' = [revision EXCEPT ![p] = RevisionAfter(p, result)]
         /\ merged' = [merged EXCEPT ![p] = [cookies |-> result, deleted |-> deleted[p],
                                             revision |-> RevisionAfter(p, result)]]
         /\ own' = [own EXCEPT ![p].merged = @ \union own[p].since, ![p].since = {},
                               ![p].goneMerged = own[p].gone,
                               ![p].took = @ \union {k \in Keys :
                                             result[k] # Live(cookies[p])[k]}]
  /\ deleted' = [deleted EXCEPT ![p] = {}]
  /\ step' = [step EXCEPT ![p] = "merged"]
  /\ UNCHANGED <<file, lock, expired, saved, removing, bounds>>

Unlocks(p) ==
  /\ lock' = Nobody
  /\ step' = [step EXCEPT ![p] = "idle"]
  /\ merged' = [merged EXCEPT ![p] = NoMerge]

\* A jar changed since the merge is still unsaved.
WrittenLatest(p) ==                                            \* mutant
  [revision |-> revision[p], cookies |-> merged[p].cookies]
Written(p) == [revision |-> merged[p].revision, cookies |-> merged[p].cookies]

\* The file is replaced at once.
Write(p) ==
  /\ step[p] = "merged"
  /\ file' = merged[p].cookies
  /\ saved' = [saved EXCEPT ![p] = Written(p)]
  /\ own' = [own EXCEPT ![p].merged = {}, ![p].goneMerged = {}, ![p].took = {},
                        ![p].gone = @ \cap own[p].since]
  /\ Unlocks(p)
  /\ UNCHANGED <<expired, cookies, revision, deleted, removing, bounds>>

Fails ==
  /\ bounds.failures < MaxFailures
  /\ bounds' = [bounds EXCEPT !.failures = @ + 1]

\* The lock or the file cannot be opened: nothing is merged.
ReadFails(p) ==
  /\ step[p] = "locked"
  /\ Fails
  /\ Unlocks(p)
  /\ UNCHANGED <<file, expired, cookies, revision, saved, deleted, removing, own>>

\* Deletions wait for the next save, unless the cookie was set again.
RestoresNone(p) == {}                                          \* mutant
RestoresAll(p) == merged[p].deleted                            \* mutant
Restored(p) == {k \in merged[p].deleted : cookies[p][k] = NoCookie}

WriteFails(p) ==
  /\ step[p] = "merged"
  /\ Fails
  /\ deleted' = [deleted EXCEPT ![p] = @ \union Restored(p)]
  /\ Unlocks(p)
  /\ UNCHANGED <<file, expired, cookies, revision, saved, removing, own>>

-----------------------------------------------------------------------------
Process(p) ==
  \/ Open(p) \/ End(p)
  \/ \E k \in Keys : (\E v \in Values : Store(p, k, v)) \/ ServerDeletes(p, k) \/ Remove(p, k)
  \/ Removed(p) \/ Clear(p)
  \/ Begin(p) \/ Merge(p) \/ Write(p) \/ ReadFails(p) \/ WriteFails(p)

Next == (\E p \in Processes : Process(p)) \/ \E v \in Values : Expire(v)

Spec == Init /\ [][Next]_vars

-----------------------------------------------------------------------------
Jars == [Keys -> Values \union {NoCookie}]

TypeOK ==
  /\ file \in Jars
  /\ cookies \in [Processes -> Jars]
  /\ deleted \in [Processes -> SUBSET Keys]
  /\ step \in [Processes -> {"closed", "idle", "locked", "merged"}]
  /\ \A p \in Processes : lock = p <=> step[p] \in {"locked", "merged"}
  /\ \A p \in Processes : saved[p].revision <= revision[p]
  \* A cookie is not both in the jar and to be deleted from the file.
  /\ \A p \in Processes : \A k \in deleted[p] : cookies[p][k] = NoCookie

(***************************************************************************)
(* cookies.rs:112 "Only this jar's own changes replace what the file       *)
(* holds": a write changes the cookies the process changed since it last   *)
(* wrote the file, those it took in a save that failed to write, those     *)
(* that expired, and no other.                                             *)
(***************************************************************************)
Replaces(p) == {k \in Keys : Live(merged[p].cookies)[k] # Live(file)[k]}

OnlyOwnChangesReplace ==
  [][\A p \in Processes : Write(p) =>
       \A k \in Replaces(p) : \/ k \in own[p].merged \union own[p].took
                              \/ saved[p].cookies[k] \in expired]_vars

\* The same, without what expired.
OthersCookiesStay ==
  [][\A p \in Processes : Write(p) => Replaces(p) \subseteq own[p].merged]_vars

(***************************************************************************)
(* cookies.rs:61 "Another process may have saved them meanwhile, so saving *)
(* deletes them from the file too": the next save that works deletes every *)
(* cookie that a server deleted, however many saves failed in between,     *)
(* unless it was set again.                                                *)
(***************************************************************************)
DeletionsReachTheFile ==
  [][\A p \in Processes : Write(p) =>
       \A k \in own[p].goneMerged : file'[k] = NoCookie]_vars

(***************************************************************************)
(* cookies.rs:51 "so saving can skip a jar that did not change": a jar     *)
(* that a save would skip holds what it last read from or wrote to the     *)
(* file, and has nothing left to delete from it.                           *)
(***************************************************************************)
SkippedJarsAreSaved ==
  \A p \in Processes :
    (step[p] = "idle" /\ ~Unsaved(p) /\ ~removing[p]) =>
      Live(cookies[p]) = Live(saved[p].cookies) /\ deleted[p] = {}
=============================================================================
