--------------------------- MODULE VariableStore ----------------------------
(***************************************************************************)
(* What an EnvironmentSession promises the requests that use it: an update *)
(* of the three scopes is one step, within the limits or not at all; a     *)
(* snapshot is one step; and a fork starts with the changes of its session *)
(* and shares no later one, in either direction.                           *)
(***************************************************************************)
EXTENDS Naturals

CONSTANTS Tasks, Paths, PathOf, Updates, Hidden,
          WithinLimits(_, _),   \* of the changes of a scope, and those to add
          Apply(_, _, _)        \* to a kind of scope, its changes and those to add

VARIABLES
  store,    \* the changes of each scope
  session,  \* the scopes of the session that each task uses
  shown     \* the snapshot each task took last

vars == <<store, session, shown>>

Kinds == <<"globals", "collection", "environment">>
KindIds == 1 .. 3

Shared(path) == <<<<"globals", "all">>, <<"collection", path>>, <<"environment", path>>>>
Own(t) == <<<<"globals", t>>, <<"collection", t>>, <<"environment", t>>>>
ScopeIds == {<<"globals", "all">>} \union {<<Kinds[k], id>> : k \in 2 .. 3, id \in Paths}
              \union {<<Kinds[k], t>> : k \in KindIds, t \in Tasks}

NoChanges == [name \in {} |-> Hidden]

Init ==
  /\ store = [id \in ScopeIds |-> NoChanges]
  /\ session = [t \in Tasks |-> Shared(PathOf[t])]
  /\ shown = [t \in Tasks |-> [k \in KindIds |-> NoChanges]]

Snapshot(t) == [k \in KindIds |-> store[session[t][k]]]

Update(t, changes) ==
  /\ \A k \in KindIds : WithinLimits(Snapshot(t)[k], changes[k])
  /\ store' = [id \in ScopeIds |->
                 IF \E k \in KindIds : session[t][k] = id
                   THEN LET k == CHOOSE k \in KindIds : session[t][k] = id
                        IN  Apply(k, store[id], changes[k])
                   ELSE store[id]]
  /\ UNCHANGED <<session, shown>>

Read(t) ==
  /\ shown' = [shown EXCEPT ![t] = Snapshot(t)]
  /\ UNCHANGED <<store, session>>

Fork(t) ==
  /\ session[t] # Own(t)
  /\ session' = [session EXCEPT ![t] = Own(t)]
  /\ store' = [id \in ScopeIds |->
                 IF \E k \in KindIds : Own(t)[k] = id
                   THEN store[session[t][CHOOSE k \in KindIds : Own(t)[k] = id]]
                   ELSE store[id]]
  /\ UNCHANGED shown

Next == \E t \in Tasks : Read(t) \/ Fork(t) \/ (\E changes \in Updates : Update(t, changes))

Spec == Init /\ [][Next]_vars
=============================================================================
