--------------------------- MODULE VariableScopes ---------------------------
(***************************************************************************)
(* The changes scripts make to variables: VariableScopes and the helpers   *)
(* of crates/environment/src/session.rs.  The changes to one scope are a   *)
(* function from the names that changed to their new values; Hidden (None) *)
(* hides a name in its scope and in the scopes beneath it.  A value stands *)
(* for its length, which is what the limits count; a name has length 1.    *)
(***************************************************************************)
EXTENDS Naturals, FiniteSets, FiniteSetsExt, Functions

CONSTANTS Hidden,
          MaxEntries, MaxBytes   \* 4096 and 1 MiB in the code

Kinds == <<"globals", "collection", "environment">>   \* as they are locked
KindIds == 1 .. 3

Length(value) == IF value = Hidden THEN 0 ELSE value

Entries(changes) == Cardinality(DOMAIN changes)
Bytes(changes) == MapThenSumSet(LAMBDA name : 1 + Length(changes[name]), DOMAIN changes)

\* What within_limits adds up: a name replaced counts once.
WithinLimits(current, changes) ==
  LET replaced == DOMAIN current \intersect DOMAIN changes IN
  /\ Entries(current) + Entries(changes) - Cardinality(replaced) <= MaxEntries
  /\ Bytes(current) + Bytes(changes)
       - MapThenSumSet(LAMBDA name : 1 + Length(current[name]), replaced) <= MaxBytes

\* Nothing lies beneath the globals for a deletion to hide.
Apply(kind, current, changes) ==
  LET all  == DOMAIN current \union DOMAIN changes
      gone == IF Kinds[kind] # "globals" THEN {}
              ELSE {name \in DOMAIN changes : changes[name] = Hidden}
  IN  [name \in all \ gone |-> IF name \in DOMAIN changes THEN changes[name] ELSE current[name]]
=============================================================================
