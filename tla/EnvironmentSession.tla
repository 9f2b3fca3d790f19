------------------------- MODULE EnvironmentSession -------------------------
(***************************************************************************)
(* The variables that scripts change: EnvironmentSession of                *)
(* crates/environment/src/session.rs.  Tasks are requests that run at the  *)
(* same time, those of a collection with the same session; all share the   *)
(* globals.  Each scope has its own lock and its own count of updates.     *)
(***************************************************************************)
EXTENDS VariableScopes, Sequences, SequencesExt

CONSTANTS Tasks, Paths,
          PathOf,    \* the collection of each task
          Updates,   \* the changes of scripts, a sequence of three scopes each
          Nobody,
          MaxCalls   \* bound: calls of a session

VARIABLES
  values,    \* the changes of each scope
  revision,  \*   and how many updates it had
  lock,      \*   and who holds its lock
  session,   \* EnvironmentSession: the scopes each task uses, as they are locked
  call,      \* the call each task is in
  step,      \*   what comes next in it
  next,      \*   and for which scope
  changes,   \*   the argument of apply
  copy,      \*   what was read of the scopes
  shown,     \* the VariableScopes each task read last
  calls      \* how many calls were made

vars == <<values, revision, lock, session, call, step, next, changes, copy, shown, calls>>

Shared(path) == <<<<"globals", "all">>, <<"collection", path>>, <<"environment", path>>>>
\* mutant: a fork keeps the globals
OwnButGlobals(t) == <<<<"globals", "all">>, <<"collection", t>>, <<"environment", t>>>>
Own(t) == <<<<"globals", t>>, <<"collection", t>>, <<"environment", t>>>>
ScopeIds == {<<"globals", "all">>} \union {<<Kinds[k], id>> : k \in 2 .. 3, id \in Paths}
              \union {<<Kinds[k], t>> : k \in KindIds, t \in Tasks}
NoChanges == [name \in {} |-> Hidden]

\* EnvironmentSessions::for_path
Init ==
  /\ values = [id \in ScopeIds |-> NoChanges]
  /\ revision = [id \in ScopeIds |-> 0]
  /\ lock = [id \in ScopeIds |-> Nobody]
  /\ session = [t \in Tasks |-> Shared(PathOf[t])]
  /\ call = [t \in Tasks |-> "none"]
  /\ step = [t \in Tasks |-> "idle"]
  /\ next = [t \in Tasks |-> 1]
  /\ changes = [t \in Tasks |-> CHOOSE update \in Updates : TRUE]
  /\ copy = [t \in Tasks |-> <<>>]
  /\ shown = [t \in Tasks |-> [k \in KindIds |-> NoChanges]]
  /\ calls = 0

Turns(t, to, k) ==
  /\ step' = [step EXCEPT ![t] = to]
  /\ next' = [next EXCEPT ![t] = k]

Scope(t) == session[t][next[t]]
\* mutant: one scope too many
GoesPast(t, to) == IF next[t] <= 3 THEN Turns(t, step[t], next[t] + 1) ELSE Turns(t, to, 1)
Goes(t, to) == IF next[t] < 3 THEN Turns(t, step[t], next[t] + 1) ELSE Turns(t, to, 1)

-----------------------------------------------------------------------------
Begins(t, name) ==
  /\ step[t] = "idle" /\ calls < MaxCalls
  /\ calls' = calls + 1
  /\ call' = [call EXCEPT ![t] = name]
  /\ Turns(t, "locking", 1)
  /\ UNCHANGED <<values, revision, lock, session, copy, shown>>

Calls(t) ==
  \/ \E update \in Updates : Begins(t, "apply") /\ changes' = [changes EXCEPT ![t] = update]
  \/ Begins(t, "scopes") /\ UNCHANGED changes
  \/ session[t] # Own(t) /\ Begins(t, "fork") /\ UNCHANGED changes

\* mutant: snapshots lock from the last scope
LockedFromEnds(t) == IF call[t] = "apply" THEN next[t] ELSE 4 - next[t]
\* Every session locks the shared globals first.
LockedAs(t) == next[t]

Lock(t) ==
  LET id == session[t][LockedAs(t)] IN
  /\ step[t] = "locking" /\ lock[id] = Nobody
  /\ lock' = [lock EXCEPT ![id] = t]
  /\ Goes(t, IF call[t] = "apply" THEN "checking" ELSE "copying")
  /\ UNCHANGED <<values, revision, session, call, changes, copy, shown, calls>>

\* mutant: only what is added counts
AcceptsAdded(t) == \A k \in KindIds : WithinLimits(NoChanges, changes[t][k])
\* Reject the entire update when a scope would exceed its limits.
Accepts(t) == \A k \in KindIds : WithinLimits(values[session[t][k]], changes[t][k])

Check(t) ==
  /\ step[t] = "checking"
  /\ IF Accepts(t) THEN Turns(t, "writing", 1) /\ UNCHANGED call
     ELSE Turns(t, "unlocking", 1) /\ call' = [call EXCEPT ![t] = "rejected"]
  /\ UNCHANGED <<values, revision, lock, session, changes, copy, shown, calls>>

Write(t) ==
  /\ step[t] = "writing"
  /\ values' = [values EXCEPT ![Scope(t)] = Apply(next[t], @, changes[t][next[t]])]
  /\ Goes(t, "unlocking")
  /\ UNCHANGED <<revision, lock, session, call, changes, copy, shown, calls>>

\* The guards of an update are dropped in the order of their tuple, those of
\* a rejected one and of a snapshot from the last one back.
Dropped(t) == session[t][IF call[t] = "apply" THEN next[t] ELSE 4 - next[t]]

Unlocked(t) ==
  /\ lock' = [lock EXCEPT ![Dropped(t)] = Nobody]
  /\ Goes(t, IF call[t] = "apply" THEN "counting" ELSE "idle")

Unlock(t) ==
  /\ step[t] = "unlocking" /\ call[t] # "fork"
  /\ Unlocked(t)
  /\ UNCHANGED <<values, revision, session, call, changes, copy, shown, calls>>

Count(t) ==
  /\ step[t] = "counting"
  /\ revision' = [revision EXCEPT ![Scope(t)] = @ + IF changes[t][next[t]] = NoChanges THEN 0 ELSE 1]
  /\ Goes(t, "idle")
  /\ UNCHANGED <<values, lock, session, call, changes, copy, shown, calls>>

\* scopes and fork read every scope under the locks apply takes.
Copy(t) ==
  LET read == Append(copy[t], values[Scope(t)]) IN
  /\ step[t] = "copying"
  /\ copy' = [copy EXCEPT ![t] = IF Len(read) < 3 \/ call[t] = "fork" THEN read ELSE <<>>]
  /\ shown' = [shown EXCEPT ![t] = IF Len(read) = 3 /\ call[t] = "scopes" THEN read ELSE @]
  /\ Goes(t, "unlocking")
  /\ UNCHANGED <<values, revision, lock, session, call, changes, calls>>

\* The fork is returned when its first lock, the last one taken, is dropped.
Leaves(t) ==
  /\ step[t] = "unlocking" /\ call[t] = "fork"
  /\ Unlocked(t)
  /\ IF next[t] < 3 THEN UNCHANGED <<values, revision, session, copy>>
     ELSE /\ session' = [session EXCEPT ![t] = Own(t)]
          /\ copy' = [copy EXCEPT ![t] = <<>>]
          /\ values' = [id \in ScopeIds |->
                          IF id \in ToSet(Own(t)) THEN copy[t][CHOOSE k \in KindIds : Own(t)[k] = id]
                          ELSE values[id]]
          /\ revision' = [id \in ScopeIds |-> IF id \in ToSet(Own(t)) THEN 0 ELSE revision[id]]
  /\ UNCHANGED <<call, changes, shown, calls>>

Step(t) == Lock(t) \/ Check(t) \/ Write(t) \/ Unlock(t) \/ Count(t) \/ Copy(t) \/ Leaves(t)

Next == \E t \in Tasks : Calls(t) \/ Step(t)

Fairness == WF_vars(\E t \in Tasks : Step(t))

Spec == Init /\ [][Next]_vars /\ Fairness

-----------------------------------------------------------------------------
TypeOK ==
  /\ DOMAIN values = ScopeIds
  /\ \A id \in ScopeIds : (\A n \in DOMAIN values[id] : values[id][n] \in Nat \union {Hidden}) /\ revision[id] \in Nat
                          /\ lock[id] \in Tasks \union {Nobody}
  /\ \A t \in Tasks : /\ session[t] \in {Shared(PathOf[t]), Own(t)}
                      /\ call[t] \in {"none", "apply", "rejected", "scopes", "fork"}
                      /\ step[t] \in {"idle", "locking", "checking", "writing",
                                      "unlocking", "counting", "copying"}
                      /\ next[t] \in KindIds /\ changes[t] \in Updates
                      /\ Len(copy[t]) <= 3 /\ Len(shown[t]) = 3
  /\ calls \in 0 .. MaxCalls

(***************************************************************************)
(* session.rs:128: what the requests of every collection see is as if an   *)
(* update, a snapshot and a fork were one step each.  An update happens    *)
(* when its first scope is written, a snapshot when its last one is read,  *)
(* and so does a fork.                                                     *)
(***************************************************************************)
Committed(t) == step[t] = "writing" /\ next[t] > 1
Forked(t) == call[t] = "fork" /\ step[t] = "unlocking"

StoreSeen ==
  [id \in ScopeIds |->
     IF \E t \in Tasks : Forked(t) /\ id \in ToSet(Own(t))
       THEN LET t == CHOOSE t \in Tasks : Forked(t) /\ id \in ToSet(Own(t))
            IN  copy[t][CHOOSE k \in KindIds : Own(t)[k] = id]
     ELSE IF \E t \in Tasks : Committed(t) /\ \E k \in next[t] .. 3 : session[t][k] = id
       THEN LET t == CHOOSE t \in Tasks : Committed(t) /\ \E k \in next[t] .. 3 : session[t][k] = id
                k == CHOOSE k \in KindIds : session[t][k] = id
            IN  Apply(k, values[id], changes[t][k])
     ELSE values[id]]

SessionSeen == [t \in Tasks |-> IF Forked(t) THEN Own(t) ELSE session[t]]

Promised == INSTANCE VariableStore WITH store <- StoreSeen, session <- SessionSeen

UpdatesAreAtomic == Promised!Spec

(***************************************************************************)
(* session.rs:152: no sequence of updates and deletions, of any tasks that *)
(* overlap, passes the limits of a scope.                                  *)
(***************************************************************************)
LimitsHold == \A id \in ScopeIds : Entries(values[id]) <= MaxEntries /\ Bytes(values[id]) <= MaxBytes

(***************************************************************************)
(* session.rs:155: sessions that share their globals cannot wait on each   *)
(* other: every call of a task ends.                                       *)
(***************************************************************************)
InCall(t) == step[t] # "idle"
EveryCallEnds == \A t \in Tasks : InCall(t) ~> ~InCall(t)

=============================================================================
