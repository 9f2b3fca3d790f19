--------------------------- MODULE SessionsProofs ---------------------------
(***************************************************************************)
(* What holds of the sessions of environments, for any number of requests  *)
(* and collections, any updates and any limits: a scope is read and        *)
(* written only by who locked it, the calls never all wait on each other,  *)
(* and what the requests see is what VariableStore promises them.  And     *)
(* what holds of a session with an agent, the thread A, for any number of  *)
(* messages, choices and troubles.                                         *)
(***************************************************************************)
EXTENDS EnvironmentSession, SequenceTheorems, FiniteSetTheorems, WellFoundedInduction, TLAPS

CONSTANTS MaxPrompts, MaxTroubles, MaxChoices     \* of AgentThread

VARIABLES asksFirst, panel, commands, unanswered, pending, waiting, stops, agentEvents, agent,
          briefings, earlier, stopped, agentCounts

A == INSTANCE AgentThread WITH MaxSends <- MaxPrompts, events <- agentEvents, counts <- agentCounts

\* The changes of a scope, and those of an update.
Changes == UNION {[names -> Nat \union {Hidden}] : names \in SUBSET STRING}

\* Every scope is its own Arc: those of a fork are those of no collection.
ScopesDiffer ==
  /\ Nobody \notin Tasks /\ "all" \notin Tasks
  /\ \A t \in Tasks : PathOf[t] \in Paths /\ PathOf[t] \notin Tasks
UpdatesTyped == Updates # {} /\ \A update \in Updates : \A k \in KindIds : update[k] \in Changes

Assumed == ScopesDiffer /\ UpdatesTyped /\ MaxCalls \in Nat

-----------------------------------------------------------------------------
(***************************************************************************)
(* The scopes of a session, and what a call holds of them.                 *)
(***************************************************************************)
LEMMA KindIdsAre == KindIds = {1, 2, 3}
BY DEF KindIds

\* A scope is of one kind, and a fork's is of no other session.
LEMMA IdsDiffer ==
  ASSUME Assumed
  PROVE  /\ \A t \in Tasks : \A k \in KindIds :
              Own(t)[k] \in ScopeIds /\ Shared(PathOf[t])[k] \in ScopeIds
         /\ \A t, u \in Tasks : \A j, k \in KindIds :
              /\ Own(t)[j] = Own(u)[k] => t = u /\ j = k
              /\ Own(t)[j] # Shared(PathOf[u])[k]
              /\ Shared(PathOf[t])[j] = Shared(PathOf[u])[k] => j = k
<1>1. ASSUME NEW t \in Tasks, NEW k \in KindIds
      PROVE  Own(t)[k] \in ScopeIds /\ Shared(PathOf[t])[k] \in ScopeIds
  <2>1. PathOf[t] \in Paths  BY DEF Assumed, ScopesDiffer
  <2>2. CASE k = 1  BY <2>1, <2>2, KindIdsAre DEF Own, Shared, ScopeIds, Kinds
  <2>3. CASE k = 2  BY <2>1, <2>3, KindIdsAre DEF Own, Shared, ScopeIds, Kinds
  <2>4. CASE k = 3  BY <2>1, <2>4, KindIdsAre DEF Own, Shared, ScopeIds, Kinds
  <2>5. QED  BY <2>2, <2>3, <2>4, KindIdsAre
<1>2. ASSUME NEW t \in Tasks, NEW u \in Tasks, NEW j \in KindIds, NEW k \in KindIds
      PROVE  /\ Own(t)[j] = Own(u)[k] => t = u /\ j = k
             /\ Own(t)[j] # Shared(PathOf[u])[k]
             /\ Shared(PathOf[t])[j] = Shared(PathOf[u])[k] => j = k
  <2>1. t # "all" /\ PathOf[u] # t  BY DEF Assumed, ScopesDiffer
  <2>2. QED  BY <2>1, KindIdsAre DEF Own, Shared
<1>3. QED  BY <1>1, <1>2

Holds(t, k) ==
  \/ step[t] = "locking" /\ k < next[t]
  \/ step[t] \in {"checking", "writing", "copying"}
  \/ step[t] = "unlocking" /\ IF call[t] = "apply" THEN k >= next[t] ELSE k <= 4 - next[t]

WellFormed ==
  /\ DOMAIN values = ScopeIds /\ \A id \in ScopeIds : values[id] \in Changes
  /\ revision \in [ScopeIds -> Nat]
  /\ lock \in [ScopeIds -> Tasks \union {Nobody}]
  /\ DOMAIN session = Tasks /\ \A t \in Tasks : session[t] \in {Shared(PathOf[t]), Own(t)}
  /\ call \in [Tasks -> {"none", "apply", "rejected", "scopes", "fork"}]
  /\ step \in [Tasks -> {"idle", "locking", "checking", "writing", "unlocking",
                         "counting", "copying"}]
  /\ next \in [Tasks -> KindIds]
  /\ changes \in [Tasks -> Updates]
  /\ copy \in [Tasks -> Seq(Changes)]
  /\ shown \in [Tasks -> Seq(Changes)] /\ \A t \in Tasks : Len(shown[t]) = 3
  /\ calls \in 0 .. MaxCalls

PhaseFits(t) ==
  /\ step[t] = "locking" => call[t] \in {"apply", "scopes", "fork"}
  /\ step[t] \in {"checking", "writing", "counting"} => call[t] = "apply"
  /\ step[t] = "copying" => call[t] \in {"scopes", "fork"}
  /\ call[t] = "fork" /\ step[t] # "idle" => session[t] = Shared(PathOf[t])

LocksFit(t) == \A k \in KindIds : Holds(t, k) => lock[session[t][k]] = t

\* An update that is being written was within the limits, and nobody changed
\* its scopes since.
AcceptsFit(t) == step[t] = "writing" /\ next[t] = 1 => Accepts(t)

\* What was copied of the scopes is still there until they are unlocked.
CopyFits(t) ==
  /\ step[t] = "copying" => /\ Len(copy[t]) = next[t] - 1
                            /\ \A k \in KindIds : k < next[t] => copy[t][k] = values[session[t][k]]
  /\ Forked(t) => Len(copy[t]) = 3
  /\ step[t] # "copying" /\ ~Forked(t) => copy[t] = <<>>

TaskFits(t) == PhaseFits(t) /\ LocksFit(t) /\ AcceptsFit(t) /\ CopyFits(t)

\* A lock that is taken is of a call that holds it.
LocksAreHeld ==
  \A id \in ScopeIds : lock[id] # Nobody =>
    \E k \in KindIds : Holds(lock[id], k) /\ session[lock[id]][k] = id

IInv == Assumed /\ WellFormed /\ (\A t \in Tasks : TaskFits(t)) /\ LocksAreHeld

-----------------------------------------------------------------------------
(***************************************************************************)
(* The operators the steps are built from.                                 *)
(***************************************************************************)
LEMMA NoChangesType == NoChanges \in Changes
<1>1. NoChanges \in [{} -> Nat \union {Hidden}] /\ {} \in SUBSET STRING
  BY DEF NoChanges
<1>2. QED  BY <1>1 DEF Changes

LEMMA ApplyType ==
  ASSUME NEW k \in KindIds, NEW c \in Changes, NEW d \in Changes
  PROVE  Apply(k, c, d) \in Changes
<1>1. PICK m \in SUBSET STRING : c \in [m -> Nat \union {Hidden}]  BY DEF Changes
<1>2. PICK n \in SUBSET STRING : d \in [n -> Nat \union {Hidden}]  BY DEF Changes
<1> DEFINE gone == IF Kinds[k] # "globals" THEN {}
                   ELSE {name \in DOMAIN d : d[name] = Hidden}
           left == (m \union n) \ gone
<1>3. Apply(k, c, d) = [name \in left |-> IF name \in n THEN d[name] ELSE c[name]]
  BY <1>1, <1>2 DEF Apply
<1>4. left \in SUBSET STRING  BY <1>1, <1>2
<1>5. Apply(k, c, d) \in [left -> Nat \union {Hidden}]  BY <1>1, <1>2, <1>3
<1>6. QED  BY <1>4, <1>5 DEF Changes

LEMMA SessionIds ==
  ASSUME Assumed, WellFormed
  PROVE  /\ \A t \in Tasks : \A k \in KindIds : session[t][k] \in ScopeIds
         /\ \A t, u \in Tasks : \A j, k \in KindIds :
              /\ session[t][j] = session[u][k] => j = k
              /\ Own(t)[j] = session[u][k] => t = u /\ j = k /\ session[t] = Own(t)
<1>1. ASSUME NEW t \in Tasks, NEW k \in KindIds PROVE session[t][k] \in ScopeIds
  BY IdsDiffer DEF WellFormed
<1>2. ASSUME NEW t \in Tasks, NEW u \in Tasks, NEW j \in KindIds, NEW k \in KindIds
      PROVE  /\ session[t][j] = session[u][k] => j = k
             /\ Own(t)[j] = session[u][k] => t = u /\ j = k /\ session[t] = Own(t)
  <2>1. session[t] \in {Shared(PathOf[t]), Own(t)} /\ session[u] \in {Shared(PathOf[u]), Own(u)}
    BY DEF WellFormed
  <2>2. session[t][j] = session[u][k] => j = k
    <3>1. CASE session[t] = Own(t) /\ session[u] = Own(u)  BY <3>1, IdsDiffer
    <3>2. CASE session[t] = Own(t) /\ session[u] = Shared(PathOf[u])  BY <3>2, IdsDiffer
    <3>3. CASE session[t] = Shared(PathOf[t]) /\ session[u] = Own(u)
      <4>1. Own(u)[k] # Shared(PathOf[t])[j]  BY IdsDiffer
      <4>2. QED  BY <3>3, <4>1
    <3>4. CASE session[t] = Shared(PathOf[t]) /\ session[u] = Shared(PathOf[u])
      BY <3>4, IdsDiffer
    <3>5. QED  BY <2>1, <3>1, <3>2, <3>3, <3>4
  <2>3. Own(t)[j] = session[u][k] => t = u /\ j = k /\ session[t] = Own(t)
    BY <2>1, IdsDiffer
  <2>4. QED  BY <2>2, <2>3
<1>3. QED  BY <1>1, <1>2

\* A step of one task leaves the others as they are, if it leaves alone the
\* scopes they hold.
OthersKept(t) ==
  \A u \in Tasks \ {t} :
    /\ UNCHANGED <<session[u], call[u], step[u], next[u], changes[u], copy[u]>>
    /\ \A k \in KindIds : Holds(u, k) =>
         UNCHANGED <<lock[session[u][k]], values[session[u][k]]>>

LEMMA OthersFit ==
  ASSUME IInv, NEW t \in Tasks, OthersKept(t), NEW u \in Tasks \ {t}
  PROVE  TaskFits(u)'
<1>1. TaskFits(u)  BY DEF IInv
<1>2. \A k \in KindIds : Holds(u, k)' <=> Holds(u, k)  BY DEF OthersKept, Holds
<1>3. PhaseFits(u)'  BY <1>1 DEF TaskFits, PhaseFits, OthersKept
<1>4. LocksFit(u)'  BY <1>1, <1>2 DEF TaskFits, LocksFit, OthersKept
<1>5. AcceptsFit(u)'
  <2>1. SUFFICES ASSUME (step[u] = "writing" /\ next[u] = 1)' PROVE Accepts(u)'
    BY DEF AcceptsFit
  <2>2. step[u] = "writing" /\ next[u] = 1  BY <2>1 DEF OthersKept
  <2>3. \A k \in KindIds : Holds(u, k)  BY <2>2 DEF Holds
  <2>4. Accepts(u)  BY <1>1, <2>2 DEF TaskFits, AcceptsFit
  <2>5. QED  BY <2>3, <2>4 DEF Accepts, OthersKept
<1>6. CopyFits(u)'
  <2>1. step[u] = "copying" => \A k \in KindIds : Holds(u, k)  BY DEF Holds
  <2>2. QED  BY <1>1, <2>1 DEF TaskFits, CopyFits, Forked, OthersKept
<1>7. QED  BY <1>3, <1>4, <1>5, <1>6 DEF TaskFits

\* Two tasks hold no scope together.
LEMMA HeldByOne ==
  ASSUME IInv, NEW t \in Tasks, NEW u \in Tasks, NEW j \in KindIds, NEW k \in KindIds,
         Holds(t, j), Holds(u, k), session[t][j] = session[u][k]
  PROVE  t = u
BY DEF IInv, TaskFits, LocksFit

-----------------------------------------------------------------------------
LEMMA InitFits == Assumed /\ Init => IInv
<1> SUFFICES ASSUME Assumed, Init PROVE IInv  OBVIOUS
<1>1. WellFormed
  <2>1. [k \in KindIds |-> NoChanges] \in Seq(Changes) /\ Len([k \in KindIds |-> NoChanges]) = 3
    BY NoChangesType DEF KindIds
  <2>2. changes \in [Tasks -> Updates]  BY DEF Init, Assumed, UpdatesTyped
  <2>3. 1 \in KindIds  BY DEF KindIds
  <2>4. \A id \in ScopeIds : values[id] \in Changes  BY NoChangesType DEF Init
  <2>5. /\ DOMAIN values = ScopeIds /\ DOMAIN session = Tasks
        /\ revision \in [ScopeIds -> Nat]
        /\ lock \in [ScopeIds -> Tasks \union {Nobody}]
        /\ \A t \in Tasks : session[t] = Shared(PathOf[t])
    BY DEF Init
  <2>6. /\ call \in [Tasks -> {"none", "apply", "rejected", "scopes", "fork"}]
        /\ step \in [Tasks -> {"idle", "locking", "checking", "writing", "unlocking",
                               "counting", "copying"}]
        /\ next \in [Tasks -> KindIds]
    BY <2>3 DEF Init
  <2>7. copy \in [Tasks -> Seq(Changes)]  BY DEF Init
  <2>8. shown \in [Tasks -> Seq(Changes)] /\ \A t \in Tasks : Len(shown[t]) = 3
    BY <2>1 DEF Init
  <2>9. calls \in 0 .. MaxCalls  BY DEF Init, Assumed
  <2>10. QED
    BY <2>2, <2>4, <2>5, <2>6, <2>7, <2>8, <2>9 DEF WellFormed
<1>2. ASSUME NEW t \in Tasks PROVE TaskFits(t)
  BY DEF Init, TaskFits, PhaseFits, LocksFit, Holds, AcceptsFit, CopyFits, Forked
<1>3. LocksAreHeld  BY DEF Init, LocksAreHeld
<1>4. QED  BY <1>1, <1>2, <1>3 DEF IInv

LEMMA StutterFits == ASSUME IInv, UNCHANGED vars PROVE IInv'
<1>1. WellFormed'  BY DEF IInv, WellFormed, vars
<1>2. ASSUME NEW t \in Tasks PROVE TaskFits(t)'
  <2>1. TaskFits(t)  BY DEF IInv
  <2>2. QED
    BY <2>1 DEF vars, TaskFits, PhaseFits, LocksFit, Holds, AcceptsFit, Accepts, CopyFits, Forked
<1>3. LocksAreHeld'  BY DEF IInv, LocksAreHeld, Holds, vars
<1>4. QED  BY <1>1, <1>2, <1>3 DEF IInv

\* Where `Turns` and `Goes` lead.
LEMMA TurnsTo ==
  ASSUME WellFormed, NEW t \in Tasks, NEW to, NEW k, Turns(t, to, k)
  PROVE  /\ step'[t] = to /\ next'[t] = k
         /\ \A u \in Tasks \ {t} : step'[u] = step[u] /\ next'[u] = next[u]
BY DEF Turns, WellFormed

LEMMA GoesTo ==
  ASSUME WellFormed, NEW t \in Tasks, NEW to, Goes(t, to)
  PROVE  /\ next[t] \in {1, 2} => step'[t] = step[t] /\ next'[t] = next[t] + 1
         /\ next[t] = 3 => step'[t] = to /\ next'[t] = 1
         /\ next[t] \in {1, 2, 3}
         /\ \A u \in Tasks \ {t} : step'[u] = step[u] /\ next'[u] = next[u]
<1>1. next[t] \in {1, 2, 3}  BY KindIdsAre DEF WellFormed
<1>2. CASE next[t] = 3  BY <1>1, <1>2, TurnsTo DEF Goes
<1>3. CASE next[t] # 3
  <2>1. Turns(t, step[t], next[t] + 1)  BY <1>1, <1>3 DEF Goes
  <2>2. QED  BY <1>1, <1>3, <2>1, TurnsTo
<1>4. QED  BY <1>2, <1>3

LEMMA StepType ==
  ASSUME WellFormed, NEW t \in Tasks, NEW k \in KindIds,
         NEW to \in {"idle", "locking", "checking", "writing", "unlocking", "counting", "copying"},
         Turns(t, to, k) \/ Goes(t, to)
  PROVE  /\ step' \in [Tasks -> {"idle", "locking", "checking", "writing", "unlocking",
                                 "counting", "copying"}]
         /\ next' \in [Tasks -> KindIds]
<1>1. ASSUME NEW j \in KindIds, NEW at \in {"idle", "locking", "checking", "writing",
               "unlocking", "counting", "copying"}, Turns(t, at, j)
      PROVE  /\ step' \in [Tasks -> {"idle", "locking", "checking", "writing", "unlocking",
                                     "counting", "copying"}]
             /\ next' \in [Tasks -> KindIds]
  BY <1>1 DEF Turns, WellFormed
<1>2. step[t] \in {"idle", "locking", "checking", "writing", "unlocking", "counting", "copying"}
      /\ next[t] \in {1, 2, 3}
  BY KindIdsAre DEF WellFormed
<1>3. CASE Turns(t, to, k)  BY <1>1, <1>3
<1>4. CASE Goes(t, to)
  <2>1. \/ next[t] + 1 \in KindIds /\ Turns(t, step[t], next[t] + 1)
        \/ 1 \in KindIds /\ Turns(t, to, 1)
    BY <1>2, <1>4, KindIdsAre DEF Goes
  <2>2. QED  BY <1>1, <1>2, <2>1
<1>5. QED  BY <1>3, <1>4

-----------------------------------------------------------------------------
(***************************************************************************)
(* The invariant, an action at a time.                                     *)
(***************************************************************************)
\* A step that changes no lock: what is held has to stay held.
LEMMA LocksStayHeld ==
  ASSUME IInv, NEW t \in Tasks, OthersKept(t), lock' = lock, session'[t] = session[t],
         \A k \in KindIds : Holds(t, k) => Holds(t, k)'
  PROVE  LocksAreHeld'
<1> SUFFICES ASSUME NEW id \in ScopeIds, lock[id] # Nobody
             PROVE  \E k \in KindIds : Holds(lock[id], k)' /\ session'[lock[id]][k] = id
  BY DEF LocksAreHeld
<1>1. PICK k \in KindIds : Holds(lock[id], k) /\ session[lock[id]][k] = id
  BY DEF IInv, LocksAreHeld
<1>2. lock[id] \in Tasks  BY DEF IInv, WellFormed
<1>3. CASE lock[id] = t  BY <1>1, <1>3
<1>4. CASE lock[id] # t
  <2>1. Holds(lock[id], k)' /\ session'[lock[id]] = session[lock[id]]
    BY <1>1, <1>2, <1>4 DEF OthersKept, Holds
  <2>2. QED  BY <1>1, <2>1
<1>5. QED  BY <1>3, <1>4

LEMMA CallsFit ==
  ASSUME IInv, NEW t \in Tasks, Calls(t)
  PROVE  IInv'
<1>1. WellFormed /\ Assumed /\ TaskFits(t)  BY DEF IInv
<1>2. PICK name \in {"apply", "scopes", "fork"} :
        /\ Begins(t, name)
        /\ changes' \in [Tasks -> Updates]
        /\ \A u \in Tasks \ {t} : changes'[u] = changes[u]
        /\ name = "fork" => session[t] # Own(t)
  <2>1. CASE \E update \in Updates : Begins(t, "apply") /\ changes' = [changes EXCEPT ![t] = update]
    BY <1>1, <2>1 DEF WellFormed
  <2>2. CASE Begins(t, "scopes") /\ UNCHANGED changes  BY <1>1, <2>2 DEF WellFormed
  <2>3. CASE session[t] # Own(t) /\ Begins(t, "fork") /\ UNCHANGED changes
    BY <1>1, <2>3 DEF WellFormed
  <2>4. QED  BY <2>1, <2>2, <2>3 DEF Calls
<1>3. /\ step[t] = "idle" /\ calls < MaxCalls /\ calls' = calls + 1
      /\ call' = [call EXCEPT ![t] = name]
      /\ Turns(t, "locking", 1)
      /\ UNCHANGED <<values, revision, lock, session, copy, shown>>
  BY <1>2 DEF Begins
<1>4. /\ step'[t] = "locking" /\ next'[t] = 1 /\ call'[t] = name
      /\ \A u \in Tasks \ {t} : step'[u] = step[u] /\ next'[u] = next[u] /\ call'[u] = call[u]
  BY <1>1, <1>3, TurnsTo DEF WellFormed
<1>5. WellFormed'
  <2>1. 1 \in KindIds  BY DEF KindIds
  <2>2. /\ step' \in [Tasks -> {"idle", "locking", "checking", "writing", "unlocking",
                                "counting", "copying"}]
        /\ next' \in [Tasks -> KindIds]
    BY <1>1, <1>3, <2>1, StepType
  <2>3. calls' \in 0 .. MaxCalls  BY <1>1, <1>3 DEF WellFormed, Assumed
  <2>4. call' \in [Tasks -> {"none", "apply", "rejected", "scopes", "fork"}]
    BY <1>1, <1>3 DEF WellFormed
  <2>5. QED  BY <1>1, <1>2, <1>3, <2>2, <2>3, <2>4 DEF WellFormed
<1>6. OthersKept(t)  BY <1>2, <1>3, <1>4 DEF OthersKept
<1>7. TaskFits(t)'
  <2>1. PhaseFits(t)'
    BY <1>1, <1>2, <1>3, <1>4 DEF PhaseFits, WellFormed
  <2>2. LocksFit(t)'  BY <1>4, KindIdsAre DEF LocksFit, Holds
  <2>3. AcceptsFit(t)' /\ CopyFits(t)'
    BY <1>1, <1>3, <1>4 DEF AcceptsFit, TaskFits, CopyFits, Forked
  <2>4. QED  BY <2>1, <2>2, <2>3 DEF TaskFits
<1>8. LocksAreHeld'
  <2>1. \A k \in KindIds : ~Holds(t, k)  BY <1>3 DEF Holds
  <2>2. QED  BY <1>3, <1>6, <2>1, LocksStayHeld
<1>9. QED  BY <1>1, <1>5, <1>6, <1>7, <1>8, OthersFit DEF IInv

LEMMA LockFits ==
  ASSUME IInv, NEW t \in Tasks, Lock(t)
  PROVE  IInv'
<1> DEFINE n == next[t]
           id == session[t][n]
           to == IF call[t] = "apply" THEN "checking" ELSE "copying"
<1>1. WellFormed /\ Assumed /\ TaskFits(t)  BY DEF IInv
<1>2. /\ step[t] = "locking" /\ lock[id] = Nobody
      /\ lock' = [lock EXCEPT ![id] = t] /\ Goes(t, to)
      /\ UNCHANGED <<values, revision, session, call, changes, copy, shown, calls>>
  BY DEF Lock, LockedAs
<1>3. n \in {1, 2, 3} /\ n \in KindIds /\ id \in ScopeIds
  BY <1>1, SessionIds, KindIdsAre DEF WellFormed
<1>4. /\ n \in {1, 2} => step'[t] = "locking" /\ next'[t] = n + 1
      /\ n = 3 => step'[t] = to /\ next'[t] = 1
      /\ \A u \in Tasks \ {t} : step'[u] = step[u] /\ next'[u] = next[u]
  BY <1>1, <1>2, GoesTo
<1>5. /\ lock'[id] = t
      /\ \A other \in ScopeIds \ {id} : lock'[other] = lock[other]
  BY <1>1, <1>2, <1>3 DEF WellFormed
<1>6. WellFormed'
  <2>1. /\ step' \in [Tasks -> {"idle", "locking", "checking", "writing", "unlocking",
                                "counting", "copying"}]
        /\ next' \in [Tasks -> KindIds]
    BY <1>1, <1>2, <1>3, StepType
  <2>2. lock' \in [ScopeIds -> Tasks \union {Nobody}]  BY <1>1, <1>2 DEF WellFormed
  <2>3. QED  BY <1>1, <1>2, <2>1, <2>2 DEF WellFormed
<1>7. OthersKept(t)
  <2>1. ASSUME NEW u \in Tasks \ {t}, NEW k \in KindIds, Holds(u, k)
        PROVE  lock'[session[u][k]] = lock[session[u][k]]
    <3>1. lock[session[u][k]] = u /\ u # Nobody
      BY <1>1, <2>1 DEF IInv, TaskFits, LocksFit, Assumed, ScopesDiffer
    <3>2. session[u][k] # id /\ session[u][k] \in ScopeIds  BY <1>1, <1>2, <3>1, SessionIds
    <3>3. QED  BY <1>5, <3>2
  <2>2. QED  BY <1>2, <1>4, <2>1 DEF OthersKept
<1>8. ASSUME NEW k \in KindIds
      PROVE  Holds(t, k)' <=> Holds(t, k) \/ k = n
  <2>1. k \in {1, 2, 3}  BY KindIdsAre
  <2>2. CASE n \in {1, 2}  BY <1>2, <1>4, <2>1, <2>2 DEF Holds
  <2>3. CASE n = 3  BY <1>2, <1>4, <2>1, <2>3 DEF Holds
  <2>4. QED  BY <1>3, <2>2, <2>3
<1>9. TaskFits(t)'
  <2>1. PhaseFits(t)'
    BY <1>1, <1>2, <1>3, <1>4 DEF TaskFits, PhaseFits, WellFormed
  <2>2. ASSUME NEW k \in KindIds, Holds(t, k)' PROVE lock'[session'[t][k]] = t
    <3>1. session[t][k] \in ScopeIds  BY <1>1, SessionIds
    <3>2. CASE k = n  BY <1>2, <1>5, <3>2
    <3>3. CASE k # n
      <4>1. lock[session[t][k]] = t  BY <1>1, <1>8, <2>2, <3>3 DEF TaskFits, LocksFit
      <4>2. lock'[session[t][k]] = t  BY <1>5, <3>1, <4>1
      <4>3. QED  BY <1>2, <4>2
    <3>4. QED  BY <3>2, <3>3
  <2>3. AcceptsFit(t)'  BY <1>3, <1>4 DEF AcceptsFit
  <2>4. CopyFits(t)'
    <3>1. copy[t] = <<>>  BY <1>1, <1>2 DEF TaskFits, CopyFits, Forked
    <3>2. copy'[t] = <<>> /\ Len(copy'[t]) = 0  BY <1>2, <3>1
    <3>3. step'[t] \in {"locking", "checking", "copying"}  BY <1>3, <1>4
    <3>4. step'[t] = "copying" => next'[t] = 1  BY <1>3, <1>4
    <3>5. \A k \in KindIds : ~(k < 1)  BY KindIdsAre
    <3>6. QED  BY <3>2, <3>3, <3>4, <3>5 DEF CopyFits, Forked
  <2>5. QED  BY <2>1, <2>2, <2>3, <2>4 DEF TaskFits, LocksFit
<1>10. LocksAreHeld'
  <2>1. SUFFICES ASSUME NEW o \in ScopeIds, lock'[o] # Nobody
                 PROVE  \E k \in KindIds : Holds(lock[o], k)' /\ session'[lock'[o]][k] = o
    BY DEF LocksAreHeld
  <2>2. CASE o = id
    <3>1. lock'[o] = t  BY <1>5, <2>2
    <3>2. PICK k \in KindIds : k = n  BY <1>3
    <3>3. Holds(lock[o], k)'  BY <1>8, <3>1, <3>2 DEF Holds
    <3>4. QED  BY <1>2, <2>2, <3>1, <3>2, <3>3
  <2>3. CASE o # id
    <3>1. lock'[o] = lock[o]  BY <1>5, <2>3
    <3>2. PICK k \in KindIds : Holds(lock[o], k) /\ session[lock[o]][k] = o
      BY <2>1, <3>1 DEF IInv, LocksAreHeld
    <3>3. lock[o] \in Tasks  BY <1>1, <2>1, <3>1 DEF WellFormed
    <3>4. Holds(lock[o], k)'
      <4>1. CASE lock[o] = t  BY <1>8, <3>1, <3>2, <4>1 DEF Holds
      <4>2. CASE lock[o] # t  BY <1>7, <3>1, <3>2, <3>3, <4>2 DEF OthersKept, Holds
      <4>3. QED  BY <4>1, <4>2
    <3>5. QED  BY <1>2, <3>1, <3>2, <3>4
  <2>4. QED  BY <2>2, <2>3
<1>11. QED  BY <1>1, <1>6, <1>7, <1>9, <1>10, OthersFit DEF IInv

LEMMA CheckFits ==
  ASSUME IInv, NEW t \in Tasks, Check(t)
  PROVE  IInv'
<1>1. WellFormed /\ Assumed /\ TaskFits(t)  BY DEF IInv
<1>2. /\ step[t] = "checking"
      /\ \/ Accepts(t) /\ Turns(t, "writing", 1) /\ call' = call
         \/ Turns(t, "unlocking", 1) /\ call' = [call EXCEPT ![t] = "rejected"]
      /\ UNCHANGED <<values, revision, lock, session, changes, copy, shown, calls>>
  BY DEF Check
<1>3. /\ next'[t] = 1
      /\ \/ step'[t] = "writing" /\ call'[t] = call[t] /\ Accepts(t)
         \/ step'[t] = "unlocking" /\ call'[t] = "rejected"
      /\ \A u \in Tasks \ {t} : step'[u] = step[u] /\ next'[u] = next[u] /\ call'[u] = call[u]
  BY <1>1, <1>2, TurnsTo DEF WellFormed
<1>4. call[t] = "apply"  BY <1>1, <1>2 DEF TaskFits, PhaseFits
<1>5. WellFormed'
  <2>1. 1 \in KindIds  BY DEF KindIds
  <2>2. /\ step' \in [Tasks -> {"idle", "locking", "checking", "writing", "unlocking",
                                "counting", "copying"}]
        /\ next' \in [Tasks -> KindIds]
    BY <1>1, <1>2, <2>1, StepType
  <2>3. call' \in [Tasks -> {"none", "apply", "rejected", "scopes", "fork"}]
    BY <1>1, <1>2 DEF WellFormed
  <2>4. QED  BY <1>1, <1>2, <2>2, <2>3 DEF WellFormed
<1>6. OthersKept(t)  BY <1>2, <1>3 DEF OthersKept
<1>7. \A k \in KindIds : Holds(t, k) /\ Holds(t, k)'
  BY <1>2, <1>3, KindIdsAre DEF Holds
<1>8. TaskFits(t)'
  <2>1. PhaseFits(t)'  BY <1>3, <1>4 DEF PhaseFits
  <2>2. LocksFit(t)'  BY <1>1, <1>2, <1>7 DEF TaskFits, LocksFit
  <2>3. AcceptsFit(t)'  BY <1>2, <1>3 DEF AcceptsFit, Accepts
  <2>4. CopyFits(t)'
    BY <1>1, <1>2, <1>3, <1>4 DEF TaskFits, CopyFits, Forked
  <2>5. QED  BY <2>1, <2>2, <2>3, <2>4 DEF TaskFits
<1>9. LocksAreHeld'  BY <1>2, <1>6, <1>7, LocksStayHeld
<1>10. QED  BY <1>1, <1>5, <1>6, <1>8, <1>9, OthersFit DEF IInv

\* What a task writes to a scope it holds, nobody else holds.
LEMMA WriteFits ==
  ASSUME IInv, NEW t \in Tasks, Write(t)
  PROVE  IInv'
<1> DEFINE n == next[t]
           id == session[t][n]
<1>1. WellFormed /\ Assumed /\ TaskFits(t)  BY DEF IInv
<1>2. /\ step[t] = "writing" /\ Goes(t, "unlocking")
      /\ values' = [values EXCEPT ![id] = Apply(n, values[id], changes[t][n])]
      /\ UNCHANGED <<revision, lock, session, call, changes, copy, shown, calls>>
  BY DEF Write, Scope
<1>3. n \in {1, 2, 3} /\ n \in KindIds /\ id \in ScopeIds /\ call[t] = "apply"
  BY <1>1, <1>2, SessionIds, KindIdsAre DEF WellFormed, TaskFits, PhaseFits
<1>4. /\ n \in {1, 2} => step'[t] = "writing" /\ next'[t] = n + 1
      /\ n = 3 => step'[t] = "unlocking" /\ next'[t] = 1
      /\ \A u \in Tasks \ {t} : step'[u] = step[u] /\ next'[u] = next[u]
  BY <1>1, <1>2, GoesTo
<1>5. WellFormed'
  <2>1. /\ step' \in [Tasks -> {"idle", "locking", "checking", "writing", "unlocking",
                                "counting", "copying"}]
        /\ next' \in [Tasks -> KindIds]
    BY <1>1, <1>2, <1>3, StepType
  <2>2. changes[t][n] \in Changes  BY <1>1, <1>3 DEF WellFormed, Assumed, UpdatesTyped
  <2>3. Apply(n, values[id], changes[t][n]) \in Changes
    BY <1>1, <1>3, <2>2, ApplyType DEF WellFormed
  <2>4. DOMAIN values' = ScopeIds /\ \A o \in ScopeIds : values'[o] \in Changes
    BY <1>1, <1>2, <2>3 DEF WellFormed
  <2>5. QED  BY <1>1, <1>2, <2>1, <2>4 DEF WellFormed
<1>6. OthersKept(t)
  <2>1. ASSUME NEW u \in Tasks \ {t}, NEW k \in KindIds, Holds(u, k)
        PROVE  values'[session[u][k]] = values[session[u][k]]
    <3>1. Holds(t, n)  BY <1>2 DEF Holds
    <3>2. session[u][k] # id  BY <1>3, <2>1, <3>1, HeldByOne
    <3>3. session[u][k] \in ScopeIds  BY <1>1, SessionIds
    <3>4. QED  BY <1>1, <1>2, <3>2, <3>3 DEF WellFormed
  <2>2. QED  BY <1>2, <1>4, <2>1 DEF OthersKept
<1>7. \A k \in KindIds : Holds(t, k) /\ Holds(t, k)'
  BY <1>2, <1>3, <1>4, KindIdsAre DEF Holds
<1>8. TaskFits(t)'
  <2>1. PhaseFits(t)'  BY <1>2, <1>3, <1>4 DEF PhaseFits
  <2>2. LocksFit(t)'  BY <1>1, <1>2, <1>7 DEF TaskFits, LocksFit
  <2>3. AcceptsFit(t)'  BY <1>3, <1>4 DEF AcceptsFit
  <2>4. CopyFits(t)'
    BY <1>1, <1>2, <1>3, <1>4 DEF TaskFits, CopyFits, Forked
  <2>5. QED  BY <2>1, <2>2, <2>3, <2>4 DEF TaskFits
<1>9. LocksAreHeld'  BY <1>2, <1>6, <1>7, LocksStayHeld
<1>10. QED  BY <1>1, <1>5, <1>6, <1>8, <1>9, OthersFit DEF IInv

\* A step that drops one lock of a task that holds it.
LEMMA DroppedFit ==
  ASSUME IInv, NEW t \in Tasks, NEW k \in KindIds, Holds(t, k), OthersKept(t),
         lock' = [lock EXCEPT ![session[t][k]] = Nobody],
         \A j \in KindIds : Holds(t, j)' <=> Holds(t, j) /\ j # k,
         session'[t] = session[t] \/ \A j \in KindIds : ~Holds(t, j)'
  PROVE  LocksFit(t)' /\ LocksAreHeld'
<1>1. WellFormed /\ Assumed /\ TaskFits(t)  BY DEF IInv
<1>2. \A o \in ScopeIds : lock'[o] = IF o = session[t][k] THEN Nobody ELSE lock[o]
  BY <1>1 DEF WellFormed
<1>3. ASSUME NEW j \in KindIds, Holds(t, j)' PROVE lock'[session'[t][j]] = t
  <2>1. session'[t] = session[t] /\ Holds(t, j) /\ j # k  BY <1>3
  <2>2. session[t][j] # session[t][k] /\ session[t][j] \in ScopeIds  BY <1>1, <2>1, SessionIds
  <2>3. lock[session[t][j]] = t  BY <1>1, <2>1 DEF TaskFits, LocksFit
  <2>4. lock'[session[t][j]] = t  BY <1>2, <2>2, <2>3
  <2>5. QED  BY <2>1, <2>4
<1>4. LocksAreHeld'
  <2>1. SUFFICES ASSUME NEW o \in ScopeIds, lock'[o] # Nobody
                 PROVE  \E j \in KindIds : Holds(lock[o], j)' /\ session'[lock'[o]][j] = o
    BY DEF LocksAreHeld
  <2>2. lock'[o] = lock[o] /\ o # session[t][k] /\ lock[o] # Nobody  BY <1>2, <2>1
  <2>3. PICK j \in KindIds : Holds(lock[o], j) /\ session[lock[o]][j] = o
    BY <2>2 DEF IInv, LocksAreHeld
  <2>4. lock[o] \in Tasks  BY <1>1, <2>2 DEF WellFormed
  <2>5. CASE lock[o] = t
    <3>1. j # k  BY <2>2, <2>3, <2>5
    <3>2. Holds(t, j)'  BY <2>3, <2>5, <3>1
    <3>3. session'[t] = session[t]  BY <3>2
    <3>4. Holds(lock[o], j)'  BY <2>2, <2>5, <3>2 DEF Holds
    <3>5. QED  BY <2>2, <2>3, <2>5, <3>3, <3>4
  <2>6. CASE lock[o] # t
    <3>1. Holds(lock[o], j)' /\ session'[lock[o]] = session[lock[o]]
      BY <2>2, <2>3, <2>4, <2>6 DEF OthersKept, Holds
    <3>2. QED  BY <2>2, <2>3, <3>1
  <2>7. QED  BY <2>5, <2>6
<1>5. QED  BY <1>3, <1>4 DEF LocksFit

\* Dropping a lock of a scope leaves those of the other tasks.
LEMMA DropsOwn ==
  ASSUME IInv, NEW t \in Tasks, NEW k \in KindIds, Holds(t, k),
         lock' = [lock EXCEPT ![session[t][k]] = Nobody],
         NEW u \in Tasks \ {t}, NEW j \in KindIds, Holds(u, j)
  PROVE  lock'[session[u][j]] = lock[session[u][j]]
<1>1. session[u][j] # session[t][k]  BY HeldByOne
<1>2. session[u][j] \in ScopeIds  BY SessionIds DEF IInv
<1>3. QED  BY <1>1, <1>2 DEF IInv, WellFormed

\* Which lock goes, and what is left of those of the task.
LEMMA UnlockedFits ==
  ASSUME IInv, NEW t \in Tasks, step[t] = "unlocking", Unlocked(t), UNCHANGED call
  PROVE  \E k \in KindIds :
           /\ Holds(t, k)
           /\ lock' = [lock EXCEPT ![session[t][k]] = Nobody]
           /\ \A j \in KindIds : Holds(t, j)' <=> Holds(t, j) /\ j # k
<1> DEFINE n == next[t]
           k == IF call[t] = "apply" THEN n ELSE 4 - n
           to == IF call[t] = "apply" THEN "counting" ELSE "idle"
<1>1. WellFormed  BY DEF IInv
<1>2. lock' = [lock EXCEPT ![session[t][k]] = Nobody] /\ Goes(t, to)
  BY DEF Unlocked, Dropped
<1>3. /\ n \in {1, 2} => step'[t] = "unlocking" /\ next'[t] = n + 1
      /\ n = 3 => step'[t] = to /\ next'[t] = 1
      /\ n \in {1, 2, 3}
  BY <1>1, <1>2, GoesTo
<1>4. k \in KindIds /\ Holds(t, k)  BY <1>3, KindIdsAre DEF Holds
<1>5. ASSUME NEW j \in KindIds PROVE Holds(t, j)' <=> Holds(t, j) /\ j # k
  <2>1. j \in {1, 2, 3}  BY KindIdsAre
  <2>2. CASE n \in {1, 2}  BY <1>3, <2>1, <2>2 DEF Holds
  <2>3. CASE n = 3  BY <1>3, <2>1, <2>3 DEF Holds
  <2>4. QED  BY <1>3, <2>2, <2>3
<1>6. QED  BY <1>2, <1>4, <1>5

LEMMA UnlockedType ==
  ASSUME IInv, NEW t \in Tasks, Unlocked(t)
  PROVE  /\ step' \in [Tasks -> {"idle", "locking", "checking", "writing", "unlocking",
                                 "counting", "copying"}]
         /\ next' \in [Tasks -> KindIds]
         /\ lock' \in [ScopeIds -> Tasks \union {Nobody}]
<1>1. 1 \in KindIds  BY DEF KindIds
<1>2. PICK to \in {"counting", "idle"} : Goes(t, to)  BY DEF Unlocked
<1>3. lock' \in [ScopeIds -> Tasks \union {Nobody}]
  BY DEF Unlocked, IInv, WellFormed
<1>4. QED  BY <1>1, <1>2, <1>3, StepType DEF IInv

LEMMA UnlockFits ==
  ASSUME IInv, NEW t \in Tasks, Unlock(t)
  PROVE  IInv'
<1>1. WellFormed /\ Assumed /\ TaskFits(t)  BY DEF IInv
<1>2. /\ step[t] = "unlocking" /\ call[t] # "fork" /\ Unlocked(t)
      /\ UNCHANGED <<values, revision, session, call, changes, copy, shown, calls>>
  BY DEF Unlock
<1>3. PICK k \in KindIds :
        /\ Holds(t, k)
        /\ lock' = [lock EXCEPT ![session[t][k]] = Nobody]
        /\ \A j \in KindIds : Holds(t, j)' <=> Holds(t, j) /\ j # k
  BY <1>2, UnlockedFits
<1>4. /\ \/ step'[t] = "unlocking"
         \/ step'[t] = IF call[t] = "apply" THEN "counting" ELSE "idle"
      /\ \A u \in Tasks \ {t} : step'[u] = step[u] /\ next'[u] = next[u]
  BY <1>1, <1>2, GoesTo DEF Unlocked
<1>5. WellFormed'  BY <1>1, <1>2, UnlockedType DEF WellFormed
<1>6. OthersKept(t)
  <2>1. ASSUME NEW u \in Tasks \ {t}, NEW j \in KindIds, Holds(u, j)
        PROVE  lock'[session[u][j]] = lock[session[u][j]]
    BY <1>3, <2>1, DropsOwn
  <2>2. QED  BY <1>2, <1>4, <2>1 DEF OthersKept
<1>7. LocksFit(t)' /\ LocksAreHeld'  BY <1>2, <1>3, <1>6, DroppedFit
<1>8. PhaseFits(t)' /\ AcceptsFit(t)'
  BY <1>1, <1>2, <1>4 DEF PhaseFits, AcceptsFit
<1>9. CopyFits(t)'  BY <1>1, <1>2, <1>4 DEF TaskFits, CopyFits, Forked
<1>10. QED  BY <1>1, <1>5, <1>6, <1>7, <1>8, <1>9, OthersFit DEF IInv, TaskFits

LEMMA CountFits ==
  ASSUME IInv, NEW t \in Tasks, Count(t)
  PROVE  IInv'
<1>1. WellFormed /\ Assumed /\ TaskFits(t)  BY DEF IInv
<1>2. /\ step[t] = "counting" /\ Goes(t, "idle")
      /\ revision' = [revision EXCEPT ![Scope(t)] = @ + IF changes[t][next[t]] = NoChanges THEN 0 ELSE 1]
      /\ UNCHANGED <<values, lock, session, call, changes, copy, shown, calls>>
  BY DEF Count
<1>3. /\ step'[t] \in {"counting", "idle"}
      /\ \A u \in Tasks \ {t} : step'[u] = step[u] /\ next'[u] = next[u]
  BY <1>1, <1>2, GoesTo
<1>4. WellFormed'
  <2>1. 1 \in KindIds  BY DEF KindIds
  <2>2. /\ step' \in [Tasks -> {"idle", "locking", "checking", "writing", "unlocking",
                                "counting", "copying"}]
        /\ next' \in [Tasks -> KindIds]
    BY <1>1, <1>2, <2>1, StepType
  <2>3. revision' \in [ScopeIds -> Nat]
    <3>1. Scope(t) \in ScopeIds  BY <1>1, SessionIds DEF Scope, WellFormed
    <3>2. revision[Scope(t)] \in Nat  BY <1>1, <3>1 DEF WellFormed
    <3>3. revision[Scope(t)] + (IF changes[t][next[t]] = NoChanges THEN 0 ELSE 1) \in Nat
      BY <3>2
    <3>4. QED  BY <1>1, <1>2, <3>3 DEF WellFormed
  <2>4. QED  BY <1>1, <1>2, <2>2, <2>3 DEF WellFormed
<1>5. OthersKept(t)  BY <1>2, <1>3 DEF OthersKept
<1>6. \A k \in KindIds : ~Holds(t, k) /\ ~Holds(t, k)'  BY <1>2, <1>3 DEF Holds
<1>7. TaskFits(t)'
  BY <1>1, <1>2, <1>3, <1>6
  DEF TaskFits, PhaseFits, LocksFit, AcceptsFit, CopyFits, Forked
<1>8. LocksAreHeld'  BY <1>2, <1>5, <1>6, LocksStayHeld
<1>9. QED  BY <1>1, <1>4, <1>5, <1>7, <1>8, OthersFit DEF IInv

\* Another scope was copied.
LEMMA CopyAppended ==
  ASSUME IInv, NEW t \in Tasks, step[t] = "copying"
  PROVE  LET read == Append(copy[t], values[Scope(t)])
         IN  /\ read \in Seq(Changes) /\ Len(read) = next[t]
             /\ \A k \in KindIds : k <= next[t] => read[k] = values[session[t][k]]
<1> DEFINE n == next[t]
           v == values[session[t][n]]
           c == copy[t]
<1>1. n \in {1, 2, 3} /\ c \in Seq(Changes) /\ Len(c) = n - 1
      /\ \A k \in KindIds : k < n => c[k] = values[session[t][k]]
  BY KindIdsAre DEF IInv, WellFormed, TaskFits, CopyFits
<1>2. v \in Changes  BY <1>1, SessionIds, KindIdsAre DEF IInv, WellFormed
<1> DEFINE read == Append(c, v)
<1>3. read \in Seq(Changes) /\ Len(read) = n /\ read[n] = v
      /\ \A k \in 1 .. (n - 1) : read[k] = c[k]
  <2> HIDE DEF c, v, n
  <2>1. QED  BY <1>1, <1>2
<1>4. ASSUME NEW k \in KindIds, k <= n PROVE read[k] = values[session[t][k]]
  <2>1. k \in {1, 2, 3}  BY KindIdsAre
  <2>2. CASE k = n  BY <1>3, <2>2
  <2>3. CASE k # n
    <3>1. k \in 1 .. (n - 1) /\ k < n  BY <1>1, <1>4, <2>1, <2>3
    <3>2. QED  BY <1>1, <1>3, <3>1
  <2>4. QED  BY <2>2, <2>3
<1>5. QED  BY <1>3, <1>4 DEF Scope

LEMMA CopyStepFits ==
  ASSUME IInv, NEW t \in Tasks, Copy(t)
  PROVE  IInv'
<1> DEFINE n == next[t]
           read == Append(copy[t], values[Scope(t)])
<1>1. WellFormed /\ Assumed /\ TaskFits(t)  BY DEF IInv
<1>2. /\ step[t] = "copying" /\ Goes(t, "unlocking")
      /\ copy' = [copy EXCEPT ![t] = IF Len(read) < 3 \/ call[t] = "fork" THEN read ELSE <<>>]
      /\ shown' = [shown EXCEPT ![t] = IF Len(read) = 3 /\ call[t] = "scopes" THEN read ELSE @]
      /\ UNCHANGED <<values, revision, lock, session, call, changes, calls>>
  BY DEF Copy
<1>3. /\ read \in Seq(Changes) /\ Len(read) = n
      /\ \A k \in KindIds : k <= n => read[k] = values[session[t][k]]
  BY <1>2, CopyAppended
<1> HIDE DEF read
<1>4. /\ n \in {1, 2} => step'[t] = "copying" /\ next'[t] = n + 1
      /\ n = 3 => step'[t] = "unlocking" /\ next'[t] = 1
      /\ n \in {1, 2, 3}
      /\ \A u \in Tasks \ {t} : step'[u] = step[u] /\ next'[u] = next[u]
  BY <1>1, <1>2, GoesTo
<1>5. call[t] \in {"scopes", "fork"}  BY <1>1, <1>2 DEF TaskFits, PhaseFits
<1>6. WellFormed'
  <2>1. 1 \in KindIds  BY DEF KindIds
  <2>2. /\ step' \in [Tasks -> {"idle", "locking", "checking", "writing", "unlocking",
                                "counting", "copying"}]
        /\ next' \in [Tasks -> KindIds]
    BY <1>1, <1>2, <2>1, StepType
  <2>3. copy' \in [Tasks -> Seq(Changes)]  BY <1>1, <1>2, <1>3 DEF WellFormed
  <2>4. shown' \in [Tasks -> Seq(Changes)] /\ \A u \in Tasks : Len(shown'[u]) = 3
    BY <1>1, <1>2, <1>3 DEF WellFormed
  <2>5. QED  BY <1>1, <1>2, <2>2, <2>3, <2>4 DEF WellFormed
<1>7. OthersKept(t)  BY <1>1, <1>2, <1>4 DEF OthersKept, WellFormed
<1>8. \A k \in KindIds : Holds(t, k) /\ Holds(t, k)'
  BY <1>2, <1>4, <1>5, KindIdsAre DEF Holds
<1>9. TaskFits(t)'
  <2>1. PhaseFits(t)'  BY <1>1, <1>2, <1>4, <1>5 DEF TaskFits, PhaseFits
  <2>2. LocksFit(t)'  BY <1>1, <1>2, <1>8 DEF TaskFits, LocksFit
  <2>3. AcceptsFit(t)'  BY <1>4 DEF AcceptsFit
  <2>4. copy'[t] = IF n < 3 \/ call[t] = "fork" THEN read ELSE <<>>
    BY <1>1, <1>2, <1>3 DEF WellFormed
  <2>5. CopyFits(t)'
    <3>1. CASE n \in {1, 2}
      <4>1. copy'[t] = read /\ step'[t] = "copying" /\ next'[t] = n + 1
        BY <1>4, <2>4, <3>1
      <4>2. ASSUME NEW k \in KindIds, k < n + 1 PROVE read[k] = values[session[t][k]]
        BY <1>3, <1>4, <4>2, KindIdsAre
      <4>3. Len(read) = (n + 1) - 1  BY <1>3, <3>1
      <4>4. QED  BY <1>2, <4>1, <4>2, <4>3 DEF CopyFits, Forked
    <3>2. CASE n = 3
      BY <1>2, <1>3, <1>4, <1>5, <2>4, <3>2 DEF CopyFits, Forked
    <3>3. QED  BY <1>4, <3>1, <3>2
  <2>6. QED  BY <2>1, <2>2, <2>3, <2>5 DEF TaskFits
<1>10. LocksAreHeld'  BY <1>2, <1>7, <1>8, LocksStayHeld
<1>11. QED  BY <1>1, <1>6, <1>7, <1>9, <1>10, OthersFit DEF IInv

\* A fork's scopes are nobody's until it is returned.
LEMMA LeavesFits ==
  ASSUME IInv, NEW t \in Tasks, Leaves(t)
  PROVE  IInv'
<1> DEFINE n == next[t]
<1>1. WellFormed /\ Assumed /\ TaskFits(t)  BY DEF IInv
<1>2. step[t] = "unlocking" /\ call[t] = "fork" /\ Unlocked(t)
      /\ UNCHANGED <<call, changes, shown, calls>>
  BY DEF Leaves
<1>3. PICK k \in KindIds :
        /\ Holds(t, k)
        /\ lock' = [lock EXCEPT ![session[t][k]] = Nobody]
        /\ \A j \in KindIds : Holds(t, j)' <=> Holds(t, j) /\ j # k
  BY <1>2, UnlockedFits
<1>4. /\ n \in {1, 2} => step'[t] = "unlocking" /\ next'[t] = n + 1
      /\ n = 3 => step'[t] = "idle" /\ next'[t] = 1
      /\ n \in {1, 2, 3}
      /\ \A u \in Tasks \ {t} : step'[u] = step[u] /\ next'[u] = next[u]
  BY <1>1, <1>2, GoesTo DEF Unlocked
<1>5. session[t] = Shared(PathOf[t]) /\ Len(copy[t]) = 3
  BY <1>1, <1>2 DEF TaskFits, PhaseFits, CopyFits, Forked
<1>6. CASE n < 3
  <2>1. UNCHANGED <<values, revision, session, copy>>  BY <1>6 DEF Leaves
  <2>2. WellFormed'  BY <1>1, <1>2, <2>1, UnlockedType DEF WellFormed
  <2>3. OthersKept(t)
    <3>1. ASSUME NEW u \in Tasks \ {t}, NEW j \in KindIds, Holds(u, j)
          PROVE  lock'[session[u][j]] = lock[session[u][j]]
      BY <1>3, <3>1, DropsOwn
    <3>2. QED  BY <1>2, <1>4, <2>1, <3>1 DEF OthersKept
  <2>4. LocksFit(t)' /\ LocksAreHeld'  BY <1>3, <2>1, <2>3, DroppedFit
  <2>5. step'[t] = "unlocking"  BY <1>4, <1>6
  <2>6. PhaseFits(t)' /\ AcceptsFit(t)'
    BY <1>2, <1>5, <2>1, <2>5 DEF PhaseFits, AcceptsFit
  <2>7. CopyFits(t)'  BY <1>2, <1>5, <2>1, <2>5 DEF CopyFits, Forked
  <2>8. QED  BY <1>1, <2>2, <2>3, <2>4, <2>6, <2>7, OthersFit DEF IInv, TaskFits
<1>7. CASE n = 3
  <2>1. /\ session' = [session EXCEPT ![t] = Own(t)]
        /\ copy' = [copy EXCEPT ![t] = <<>>]
        /\ values' = [id \in ScopeIds |->
                        IF id \in ToSet(Own(t)) THEN copy[t][CHOOSE j \in KindIds : Own(t)[j] = id]
                        ELSE values[id]]
        /\ revision' = [id \in ScopeIds |-> IF id \in ToSet(Own(t)) THEN 0 ELSE revision[id]]
    BY <1>7 DEF Leaves
  <2>2. \A id : id \in ToSet(Own(t)) => \E j \in KindIds : Own(t)[j] = id
    BY KindIdsAre DEF ToSet, Own
  <2>3. WellFormed'
    <3>1. ASSUME NEW id \in ScopeIds PROVE values'[id] \in Changes
      <4>1. CASE id \in ToSet(Own(t))
        <5>1. (CHOOSE j \in KindIds : Own(t)[j] = id) \in KindIds  BY <2>2, <4>1
        <5>2. PICK j \in KindIds : values'[id] = copy[t][j]  BY <2>1, <4>1, <5>1
        <5>3. j \in 1 .. Len(copy[t]) /\ copy[t] \in Seq(Changes)
          BY <1>1, <1>5, KindIdsAre DEF WellFormed
        <5>4. QED  BY <5>2, <5>3
      <4>2. CASE id \notin ToSet(Own(t))  BY <1>1, <2>1, <4>2 DEF WellFormed
      <4>3. QED  BY <4>1, <4>2
    <3>2. revision' \in [ScopeIds -> Nat]  BY <1>1, <2>1 DEF WellFormed
    <3>3. DOMAIN session' = Tasks
          /\ \A u \in Tasks : session'[u] \in {Shared(PathOf[u]), Own(u)}
      BY <1>1, <2>1 DEF WellFormed
    <3>4. copy' \in [Tasks -> Seq(Changes)]  BY <1>1, <2>1 DEF WellFormed
    <3>5. DOMAIN values' = ScopeIds  BY <2>1
    <3>6. QED
      BY <1>1, <1>2, <3>1, <3>2, <3>3, <3>4, <3>5, UnlockedType DEF WellFormed
  <2>4. OthersKept(t)
    <3>1. ASSUME NEW u \in Tasks \ {t}, NEW j \in KindIds, Holds(u, j)
          PROVE  values'[session[u][j]] = values[session[u][j]]
      <4>1. session[u][j] \in ScopeIds  BY <1>1, SessionIds
      <4>2. session[u][j] \notin ToSet(Own(t))  BY <1>1, <2>2, SessionIds
      <4>3. QED  BY <2>1, <4>1, <4>2
    <3>2. \A u \in Tasks \ {t} : session'[u] = session[u] /\ copy'[u] = copy[u]
      BY <1>1, <2>1 DEF WellFormed
    <3>3. ASSUME NEW u \in Tasks \ {t}, NEW j \in KindIds, Holds(u, j)
          PROVE  lock'[session[u][j]] = lock[session[u][j]]
      BY <1>3, <3>3, DropsOwn
    <3>4. QED  BY <1>2, <1>4, <3>1, <3>2, <3>3 DEF OthersKept
  <2>5. step'[t] = "idle"  BY <1>4, <1>7
  <2>6. LocksFit(t)' /\ LocksAreHeld'
    <3>1. \A j \in KindIds : ~Holds(t, j)'  BY <2>5 DEF Holds
    <3>2. QED  BY <1>3, <2>4, <3>1, DroppedFit
  <2>7. PhaseFits(t)' /\ AcceptsFit(t)'  BY <2>5 DEF PhaseFits, AcceptsFit
  <2>8. CopyFits(t)'  BY <1>1, <2>1, <2>5 DEF CopyFits, Forked, WellFormed
  <2>9. QED  BY <1>1, <2>3, <2>4, <2>6, <2>7, <2>8, OthersFit DEF IInv, TaskFits
<1>8. QED  BY <1>4, <1>6, <1>7

LEMMA NextFits == IInv /\ [Next]_vars => IInv'
<1> SUFFICES ASSUME IInv, [Next]_vars PROVE IInv'  OBVIOUS
<1>1. CASE UNCHANGED vars  BY <1>1, StutterFits
<1>2. CASE \E t \in Tasks : Calls(t) \/ Step(t)
  BY <1>2, CallsFit, LockFits, CheckFits, WriteFits, UnlockFits, CountFits, CopyStepFits,
     LeavesFits DEF Step
<1>3. QED  BY <1>1, <1>2 DEF Next

LEMMA InvariantHolds == Assumed /\ Spec => []IInv
BY InitFits, NextFits, PTL DEF Spec

LEMMA IsTyped == ASSUME IInv PROVE TypeOK
<1>1. WellFormed  BY DEF IInv
<1>2. ASSUME NEW id \in ScopeIds, NEW n \in DOMAIN values[id]
      PROVE  values[id][n] \in Nat \union {Hidden}
  <2>1. PICK names \in SUBSET STRING : values[id] \in [names -> Nat \union {Hidden}]
    BY <1>1 DEF WellFormed, Changes
  <2>2. QED  BY <2>1
<1>3. ASSUME NEW t \in Tasks PROVE Len(copy[t]) <= 3
  <2>1. CASE step[t] = "copying"
    <3>1. Len(copy[t]) = next[t] - 1 /\ next[t] \in {1, 2, 3}
      BY <1>1, <2>1, KindIdsAre DEF IInv, TaskFits, CopyFits, WellFormed
    <3>2. QED  BY <3>1
  <2>2. CASE step[t] # "copying"
    <3>1. copy[t] = <<>> \/ Len(copy[t]) = 3
      BY <2>2 DEF IInv, TaskFits, CopyFits
    <3>2. Len(<<>>) <= 3  OBVIOUS
    <3>3. CASE copy[t] = <<>>  BY <3>2, <3>3
    <3>4. CASE Len(copy[t]) = 3  BY <3>4
    <3>5. QED  BY <3>1, <3>3, <3>4
  <2>3. QED  BY <2>1, <2>2
<1>4. QED  BY <1>1, <1>2, <1>3 DEF TypeOK, WellFormed

(***************************************************************************)
(* Every reachable state is well formed.                                   *)
(***************************************************************************)
THEOREM TypeCorrect == ASSUME Assumed PROVE Spec => []TypeOK
<1>1. IInv => TypeOK  BY IsTyped
<1>2. QED  BY <1>1, InvariantHolds, PTL

-----------------------------------------------------------------------------
(***************************************************************************)
(* Locks.                                                                  *)
(***************************************************************************)
\* Whoever writes or copies a scope holds its lock, and nobody else does.
Touches(t, id) == step[t] \in {"writing", "copying"} /\ id = Scope(t)
ScopesAreGuarded ==
  \A t \in Tasks : \A id \in ScopeIds : Touches(t, id) =>
    lock[id] = t /\ \A u \in Tasks \ {t} : ~Touches(u, id)

\* A call that is not waiting for a lock can go on.
Waits(t) == step[t] = "locking" /\ lock[session[t][LockedAs(t)]] # Nobody
SomeCallGoesOn ==
  (\E t \in Tasks : InCall(t)) => \E t \in Tasks : InCall(t) /\ ~Waits(t)

(***************************************************************************)
(* session.rs:128 and :157: a scope is read and written under its lock, so *)
(* no two calls are at one scope at the same time.                         *)
(***************************************************************************)
THEOREM ScopesAlwaysGuarded == ASSUME Assumed PROVE Spec => []ScopesAreGuarded
<1>1. ASSUME IInv PROVE ScopesAreGuarded
  <2>1. ASSUME NEW t \in Tasks, NEW id, Touches(t, id) PROVE lock[id] = t
    <3>1. next[t] \in KindIds /\ Holds(t, next[t])
      BY <1>1, <2>1 DEF IInv, WellFormed, Touches, Holds
    <3>2. QED  BY <1>1, <2>1, <3>1 DEF IInv, TaskFits, LocksFit, Touches, Scope
  <2>2. QED  BY <2>1 DEF ScopesAreGuarded
<1>2. QED  BY <1>1, InvariantHolds, PTL

(***************************************************************************)
(* session.rs:155 "sessions of different collections cannot wait on each   *)
(* other": while calls are under way, one of them can go on.  All take     *)
(* their locks in the order of the kinds, so who waits for a scope waits   *)
(* for a call that holds it and waits, if at all, for a later kind.        *)
(***************************************************************************)
THEOREM SomeCallAlwaysGoesOn == ASSUME Assumed PROVE Spec => []SomeCallGoesOn
<1>1. ASSUME IInv, ~SomeCallGoesOn PROVE FALSE
  <2>1. WellFormed /\ Assumed  BY <1>1 DEF IInv
  <2>2. PICK t \in Tasks : InCall(t) /\ Waits(t)  BY <1>1 DEF SomeCallGoesOn
  <2>3. ASSUME NEW u \in Tasks, Waits(u)
        PROVE  next[u] \in {1, 2, 3} /\ \E w \in Tasks : Waits(w) /\ next[w] > next[u]
    <3> DEFINE k == next[u]
               id == session[u][k]
    <3>1. k \in KindIds /\ id \in ScopeIds /\ lock[id] # Nobody
      BY <2>1, <2>3, SessionIds DEF WellFormed, Waits, LockedAs
    <3>2. PICK j \in KindIds : Holds(lock[id], j) /\ session[lock[id]][j] = id
      BY <1>1, <3>1 DEF IInv, LocksAreHeld
    <3>3. lock[id] \in Tasks  BY <2>1, <3>1 DEF WellFormed
    <3>4. j = k  BY <2>1, <3>1, <3>2, <3>3, SessionIds
    <3>5. InCall(lock[id])  BY <3>2 DEF Holds, InCall
    <3>6. Waits(lock[id])  BY <1>1, <3>3, <3>5 DEF SomeCallGoesOn
    <3>7. j < next[lock[id]]  BY <3>2, <3>6 DEF Holds, Waits
    <3>8. QED  BY <3>1, <3>3, <3>4, <3>6, <3>7, KindIdsAre
  <2>4. PICK u \in Tasks : Waits(u) /\ next[u] > next[t] /\ next[t] \in {1, 2, 3}
    BY <2>2, <2>3
  <2>5. PICK w \in Tasks : Waits(w) /\ next[w] > next[u] /\ next[u] \in {1, 2, 3}
    BY <2>3, <2>4
  <2>6. PICK x \in Tasks : Waits(x) /\ next[x] > next[w] /\ next[w] \in {1, 2, 3}
    BY <2>3, <2>5
  <2>7. next[x] \in {1, 2, 3}  BY <2>3, <2>6
  <2>8. QED  BY <2>4, <2>5, <2>6, <2>7
<1>2. QED  BY <1>1, InvariantHolds, PTL

-----------------------------------------------------------------------------
(***************************************************************************)
(* Sums over finite sets, as within_limits adds them up: the recursive     *)
(* function behind MapThenSumSet exists and is the only one, so a sum is   *)
(* taken in any order.                                                     *)
(***************************************************************************)
LEMMA Smallest ==
  ASSUME NEW T, T \subseteq Nat, T # {}
  PROVE  \E n \in T : \A m \in T : n <= m
<1>1. PICK n \in T : \A m \in T : ~(<<m, n>> \in OpToRel(<, Nat))
  BY NatLessThanWellFounded, WFMin
<1>2. \A m \in T : ~(m < n)  BY <1>1 DEF OpToRel
<1>3. QED  BY <1>2

LEMMA SmallestSet ==
  ASSUME NEW S, IsFiniteSet(S), NEW B, B \subseteq SUBSET S, B # {}
  PROVE  \E T \in B : \A x \in T : T \ {x} \notin B
<1> DEFINE N == {Cardinality(T) : T \in B}
<1>1. \A T \in SUBSET S : IsFiniteSet(T) /\ Cardinality(T) \in Nat  BY FS_Subset, FS_CardinalityType
<1>2. N \subseteq Nat /\ N # {}  BY <1>1
<1>3. PICK n \in N : \A m \in N : n <= m
  <2> HIDE DEF N
  <2>1. QED  BY <1>2, Smallest
<1>4. PICK T \in B : n = Cardinality(T)  OBVIOUS
<1>5. ASSUME NEW x \in T, T \ {x} \in B PROVE FALSE
  <2>1. IsFiniteSet(T) /\ Cardinality(T) \in Nat  BY <1>1
  <2>2. Cardinality(T \ {x}) = Cardinality(T) - 1  BY <2>1, FS_RemoveElement
  <2>3. Cardinality(T \ {x}) \in N /\ Cardinality(T \ {x}) \in Nat  BY <1>2, <1>5
  <2>4. Cardinality(T) <= Cardinality(T) - 1  BY <1>3, <1>4, <2>2, <2>3
  <2>5. QED  BY <2>1, <2>4
<1>6. QED  BY <1>5

SumOf(c, S) == MapThenSumSet(LAMBDA name : 1 + Length(c[name]), S)
Weight(c, n) == 1 + Length(c[n])
First(s) == CHOOSE x \in s : TRUE
Adds(c, D, f) ==
  f = [s \in SUBSET D |-> IF s = {} THEN 0 ELSE Weight(c, First(s)) + f[s \ {First(s)}]]

LEMMA SumIs ==
  ASSUME NEW c, NEW S
  PROVE  SumOf(c, S) = (CHOOSE f : Adds(c, S, f))[S]
BY DEF SumOf, MapThenSumSet, MapThenFoldSet, Adds, Weight, First

LEMMA FirstOf == ASSUME NEW s, s # {} PROVE First(s) \in s
BY DEF First

\* A function that adds up the subsets up to a size leads to the next one.
LEMMA AddsExists ==
  ASSUME NEW c, NEW D, IsFiniteSet(D)
  PROVE  \E f : Adds(c, D, f)
<1> DEFINE Up(k) == {s \in SUBSET D : Cardinality(s) <= k}
           Until(k, f) ==
             f = [s \in Up(k) |-> IF s = {} THEN 0 ELSE Weight(c, First(s)) + f[s \ {First(s)}]]
           B == {k \in Nat : ~\E f : Until(k, f)}
<1>1. \A s \in SUBSET D : IsFiniteSet(s) /\ Cardinality(s) \in Nat /\ (Cardinality(s) = 0 <=> s = {})
  BY FS_Subset, FS_CardinalityType, FS_EmptySet
<1>2. 0 \notin B
  <2>1. \A s \in Up(0) : s = {}  BY <1>1
  <2> DEFINE f == [s \in Up(0) |-> 0]
  <2>2. f = [s \in Up(0) |-> IF s = {} THEN 0 ELSE Weight(c, First(s)) + f[s \ {First(s)}]]
    BY <2>1
  <2>3. Until(0, f)  BY <2>2
  <2>4. QED  BY <2>3
<1>3. ASSUME NEW k \in Nat, k \notin B PROVE k + 1 \notin B
  <2>1. PICK f : Until(k, f)  BY <1>3
  <2> DEFINE g == [s \in Up(k + 1) |->
                     IF s = {} THEN 0 ELSE Weight(c, First(s)) + f[s \ {First(s)}]]
  <2>2. ASSUME NEW s \in Up(k + 1), s # {} PROVE g[s \ {First(s)}] = f[s \ {First(s)}]
    <3> DEFINE r == s \ {First(s)}
    <3>1. Cardinality(r) = Cardinality(s) - 1  BY <1>1, <2>2, FirstOf, FS_RemoveElement
    <3>2. r \in Up(k) /\ r \in Up(k + 1)  BY <1>1, <3>1
    <3>3. f[r] = IF r = {} THEN 0 ELSE Weight(c, First(r)) + f[r \ {First(r)}]
      BY <2>1, <3>2
    <3>4. QED  BY <3>2, <3>3
  <2>3. g = [s \in Up(k + 1) |-> IF s = {} THEN 0 ELSE Weight(c, First(s)) + g[s \ {First(s)}]]
    <3>1. \A s \in Up(k + 1) :
            g[s] = IF s = {} THEN 0 ELSE Weight(c, First(s)) + g[s \ {First(s)}]
      <4>1. SUFFICES ASSUME NEW s \in Up(k + 1)
                     PROVE  g[s] = IF s = {} THEN 0 ELSE Weight(c, First(s)) + g[s \ {First(s)}]
        OBVIOUS
      <4>2. g[s] = IF s = {} THEN 0 ELSE Weight(c, First(s)) + f[s \ {First(s)}]  OBVIOUS
      <4> HIDE DEF g
      <4>3. QED  BY <2>2, <4>2
    <3>2. g = [s \in Up(k + 1) |-> g[s]]  OBVIOUS
    <3> HIDE DEF g
    <3>3. QED  BY <3>1, <3>2
  <2>4. Until(k + 1, g)  BY <2>3
  <2>5. QED  BY <2>4
<1>4. B = {}
  <2> SUFFICES ASSUME B # {} PROVE FALSE  OBVIOUS
  <2>1. PICK n \in B : \A m \in B : n <= m  BY Smallest
  <2>2. n \in Nat  OBVIOUS
  <2> HIDE DEF B
  <2>3. n # 0  BY <1>2, <2>1
  <2>4. n - 1 \in Nat /\ (n - 1) + 1 = n  BY <2>2, <2>3
  <2>5. n - 1 \notin B  BY <2>1, <2>2, <2>4
  <2>6. QED  BY <1>3, <2>1, <2>4, <2>5
<1>5. Cardinality(D) \in Nat  BY <1>1
<1>6. Up(Cardinality(D)) = SUBSET D  BY <1>1, FS_Subset
<1>7. PICK f : Until(Cardinality(D), f)  BY <1>4, <1>5
<1>8. QED  BY <1>6, <1>7 DEF Adds

LEMMA AddsAgree ==
  ASSUME NEW c, NEW D, NEW E, IsFiniteSet(D), NEW f, Adds(c, D, f), NEW g, Adds(c, E, g),
         NEW T \in SUBSET D, T \in SUBSET E
  PROVE  f[T] = g[T]
<1> DEFINE B == {R \in SUBSET T : f[R] # g[R]}
<1> SUFFICES ASSUME B # {} PROVE FALSE  OBVIOUS
<1>1. IsFiniteSet(T)  BY FS_Subset
<1>2. PICK R \in B : \A x \in R : R \ {x} \notin B  BY <1>1, SmallestSet
<1>3. /\ f[R] = IF R = {} THEN 0 ELSE Weight(c, First(R)) + f[R \ {First(R)}]
      /\ g[R] = IF R = {} THEN 0 ELSE Weight(c, First(R)) + g[R \ {First(R)}]
  <2>1. R \in SUBSET D /\ R \in SUBSET E  OBVIOUS
  <2>2. QED  BY <2>1 DEF Adds
<1>4. R # {} => f[R \ {First(R)}] = g[R \ {First(R)}]  BY <1>2, FirstOf
<1>5. QED  BY <1>3, <1>4

LEMMA SumStarts ==
  ASSUME NEW c, NEW S, IsFiniteSet(S)
  PROVE  SumOf(c, S) = IF S = {} THEN 0
                       ELSE Weight(c, First(S)) + SumOf(c, S \ {First(S)})
<1> DEFINE R == S \ {First(S)}
           f == CHOOSE h : Adds(c, S, h)
           g == CHOOSE h : Adds(c, R, h)
<1>1. IsFiniteSet(R)  BY FS_RemoveElement
<1>2. Adds(c, S, f)  BY AddsExists
<1>3. Adds(c, R, g)  BY <1>1, AddsExists
<1>4. SumOf(c, S) = f[S] /\ SumOf(c, R) = g[R]  BY SumIs
<1> HIDE DEF f, g
<1>5. f[S] = IF S = {} THEN 0 ELSE Weight(c, First(S)) + f[R]  BY <1>2 DEF Adds
<1>6. f[R] = g[R]  BY <1>2, <1>3, AddsAgree
<1>7. QED  BY <1>4, <1>5, <1>6

LEMMA SumIsNat ==
  ASSUME NEW c, NEW S, IsFiniteSet(S), \A n \in S : Weight(c, n) \in Nat
  PROVE  SumOf(c, S) \in Nat
<1> DEFINE B == {R \in SUBSET S : SumOf(c, R) \notin Nat}
<1> SUFFICES ASSUME B # {} PROVE FALSE  OBVIOUS
<1>1. PICK R \in B : \A x \in R : R \ {x} \notin B  BY SmallestSet
<1>2. SumOf(c, R) = IF R = {} THEN 0 ELSE Weight(c, First(R)) + SumOf(c, R \ {First(R)})
  BY FS_Subset, SumStarts
<1>3. R # {} => Weight(c, First(R)) \in Nat /\ SumOf(c, R \ {First(R)}) \in Nat
  BY <1>1, FirstOf
<1>4. SumOf(c, R) \in Nat  BY <1>2, <1>3
<1>5. QED  BY <1>4

\* In any order.
LEMMA SumTakes ==
  ASSUME NEW c, NEW S, IsFiniteSet(S), \A n \in S : Weight(c, n) \in Nat, NEW x \in S
  PROVE  SumOf(c, S) = Weight(c, x) + SumOf(c, S \ {x})
<1> DEFINE B == {R \in SUBSET S : \E y \in R : SumOf(c, R) # Weight(c, y) + SumOf(c, R \ {y})}
<1> SUFFICES ASSUME B # {} PROVE FALSE  OBVIOUS
<1>1. PICK R \in B : \A y \in R : R \ {y} \notin B  BY SmallestSet
<1>2. PICK y \in R : SumOf(c, R) # Weight(c, y) + SumOf(c, R \ {y})  OBVIOUS
<1> DEFINE z == First(R)
<1>3. z \in R /\ R \in SUBSET S  BY FirstOf
<1>4. SumOf(c, R) = Weight(c, z) + SumOf(c, R \ {z})  BY <1>3, FS_Subset, SumStarts
<1>5. z # y  BY <1>2, <1>4
<1>6. SumOf(c, R \ {z}) = Weight(c, y) + SumOf(c, (R \ {z}) \ {y})  BY <1>1, <1>3, <1>5
<1>7. SumOf(c, R \ {y}) = Weight(c, z) + SumOf(c, (R \ {y}) \ {z})  BY <1>1, <1>3, <1>5
<1>8. (R \ {z}) \ {y} = (R \ {y}) \ {z}  OBVIOUS
<1>9. Weight(c, y) \in Nat /\ Weight(c, z) \in Nat  BY <1>3
<1>10. SumOf(c, (R \ {y}) \ {z}) \in Nat
  <2>1. IsFiniteSet((R \ {y}) \ {z})  BY <1>3, FS_Subset
  <2>2. QED  BY <1>3, <2>1, SumIsNat
<1> HIDE DEF z
<1>11. SumOf(c, R) = Weight(c, y) + SumOf(c, R \ {y})  BY <1>4, <1>6, <1>7, <1>8, <1>9, <1>10
<1>12. QED  BY <1>2, <1>11

LEMMA SumsAgree ==
  ASSUME NEW c, NEW d, NEW S, IsFiniteSet(S), \A n \in S : c[n] = d[n]
  PROVE  SumOf(c, S) = SumOf(d, S)
<1> DEFINE B == {R \in SUBSET S : SumOf(c, R) # SumOf(d, R)}
<1> SUFFICES ASSUME B # {} PROVE FALSE  OBVIOUS
<1>1. PICK R \in B : \A x \in R : R \ {x} \notin B  BY SmallestSet
<1>2. /\ SumOf(c, R) = IF R = {} THEN 0 ELSE Weight(c, First(R)) + SumOf(c, R \ {First(R)})
      /\ SumOf(d, R) = IF R = {} THEN 0 ELSE Weight(d, First(R)) + SumOf(d, R \ {First(R)})
  BY FS_Subset, SumStarts
<1>3. R # {} => /\ Weight(c, First(R)) = Weight(d, First(R))
                /\ SumOf(c, R \ {First(R)}) = SumOf(d, R \ {First(R)})
  BY <1>1, FirstOf DEF Weight
<1>4. QED  BY <1>2, <1>3

LEMMA SumSplits ==
  ASSUME NEW c, NEW S, NEW T, IsFiniteSet(S), IsFiniteSet(T), S \intersect T = {},
         \A n \in S \union T : Weight(c, n) \in Nat
  PROVE  SumOf(c, S \union T) = SumOf(c, S) + SumOf(c, T)
<1> DEFINE B == {R \in SUBSET T : SumOf(c, S \union R) # SumOf(c, S) + SumOf(c, R)}
<1> SUFFICES ASSUME B # {} PROVE FALSE  OBVIOUS
<1>1. PICK R \in B : \A x \in R : R \ {x} \notin B  BY SmallestSet
<1>2. IsFiniteSet(R) /\ IsFiniteSet(S \union R)  BY FS_Subset, FS_Union
<1>3. SumOf(c, S) \in Nat  BY SumIsNat
<1>4. CASE R = {}
  <2>1. SumOf(c, R) = 0  BY <1>2, <1>4, SumStarts
  <2>2. S \union R = S  BY <1>4
  <2>3. QED  BY <1>3, <2>1, <2>2
<1>5. ASSUME NEW x \in R PROVE FALSE
  <2>1. SumOf(c, S \union R) = Weight(c, x) + SumOf(c, (S \union R) \ {x})
    BY <1>2, SumTakes
  <2>2. SumOf(c, R) = Weight(c, x) + SumOf(c, R \ {x})  BY <1>2, SumTakes
  <2>3. (S \union R) \ {x} = S \union (R \ {x})  OBVIOUS
  <2>4. SumOf(c, S \union (R \ {x})) = SumOf(c, S) + SumOf(c, R \ {x})  BY <1>1
  <2>5. Weight(c, x) \in Nat  OBVIOUS
  <2>6. SumOf(c, R \ {x}) \in Nat
    <3>1. IsFiniteSet(R \ {x})  BY <1>2, FS_RemoveElement
    <3>2. QED  BY <3>1, SumIsNat
  <2>7. SumOf(c, S \union R) = SumOf(c, S) + SumOf(c, R)
    BY <1>3, <2>1, <2>2, <2>3, <2>4, <2>5, <2>6
  <2>8. QED  BY <2>7
<1>6. QED  BY <1>4, <1>5

LEMMA BytesAre == ASSUME NEW c PROVE Bytes(c) = SumOf(c, DOMAIN c)
BY DEF Bytes, SumOf

LEMMA WeightIsNat == ASSUME NEW c \in Changes PROVE \A n \in DOMAIN c : Weight(c, n) \in Nat
<1>1. PICK names \in SUBSET STRING : c \in [names -> Nat \union {Hidden}]  BY DEF Changes
<1>2. ASSUME NEW n \in DOMAIN c PROVE Weight(c, n) \in Nat
  <2>1. c[n] \in Nat \union {Hidden}  BY <1>1
  <2>2. Length(c[n]) \in Nat  BY <2>1 DEF Length
  <2>3. QED  BY <2>2 DEF Weight
<1>3. QED  BY <1>2

Limited(c) == IsFiniteSet(DOMAIN c) /\ Entries(c) <= MaxEntries /\ Bytes(c) <= MaxBytes

\* session.rs:198: what within_limits computes before an update bounds what
\* the update leaves.
LEMMA ApplyIsLimited ==
  ASSUME MaxEntries \in Nat, MaxBytes \in Nat, NEW k,
         NEW c \in Changes, NEW d \in Changes,
         IsFiniteSet(DOMAIN c), IsFiniteSet(DOMAIN d), WithinLimits(c, d)
  PROVE  Limited(Apply(k, c, d))
<1> DEFINE D == DOMAIN c
           E == DOMAIN d
           R == D \intersect E
           gone == IF Kinds[k] # "globals" THEN {} ELSE {name \in E : d[name] = Hidden}
           r == Apply(k, c, d)
<1>1. /\ r = [name \in (D \union E) \ gone |-> IF name \in E THEN d[name] ELSE c[name]]
      /\ gone \subseteq E
  BY DEF Apply
<1>2. /\ Entries(c) + Entries(d) - Cardinality(R) <= MaxEntries
      /\ Bytes(c) + Bytes(d) - SumOf(c, R) <= MaxBytes
  BY DEF WithinLimits, SumOf
<1> HIDE DEF gone, r
<1>3. DOMAIN r = (D \ E) \union (E \ gone) /\ (D \ E) \intersect (E \ gone) = {}
  BY <1>1
<1>4. /\ \A n \in D \ E : r[n] = c[n]
      /\ \A n \in E \ gone : r[n] = d[n]
  BY <1>1
<1> HIDE DEF D, E, R
<1>5. IsFiniteSet(D) /\ IsFiniteSet(E)  BY DEF D, E
<1>6. /\ IsFiniteSet(R) /\ IsFiniteSet(D \ E) /\ IsFiniteSet(E \ gone)
      /\ IsFiniteSet(E \intersect gone)
  BY <1>5, FS_Subset, FS_Difference DEF R
<1>7. IsFiniteSet(DOMAIN r) /\ Cardinality(DOMAIN r) <= MaxEntries
  <2>1. /\ IsFiniteSet(D \union E)
        /\ Cardinality(D \union E) = Cardinality(D) + Cardinality(E) - Cardinality(R)
    BY <1>5, FS_Union DEF R
  <2>2. DOMAIN r \in SUBSET (D \union E)  BY <1>3
  <2>3. IsFiniteSet(DOMAIN r) /\ Cardinality(DOMAIN r) <= Cardinality(D \union E)
    BY <2>1, <2>2, FS_Subset
  <2>4. Cardinality(D) + Cardinality(E) - Cardinality(R) <= MaxEntries
    BY <1>2 DEF Entries, D, E
  <2>5. Cardinality(DOMAIN r) \in Nat /\ Cardinality(D \union E) \in Nat
    BY <2>1, <2>3, FS_CardinalityType
  <2>6. QED  BY <2>1, <2>3, <2>4, <2>5
<1>8. Bytes(r) <= MaxBytes
  <2>1. /\ \A n \in D : Weight(c, n) \in Nat
        /\ \A n \in E : Weight(d, n) \in Nat
    BY WeightIsNat DEF D, E
  <2>2. /\ \A n \in D \ E : Weight(r, n) = Weight(c, n)
        /\ \A n \in E \ gone : Weight(r, n) = Weight(d, n)
    BY <1>4 DEF Weight
  <2>3. SumOf(r, DOMAIN r) = SumOf(r, D \ E) + SumOf(r, E \ gone)
    BY <1>3, <1>6, <2>1, <2>2, SumSplits
  <2>4. SumOf(r, D \ E) = SumOf(c, D \ E) /\ SumOf(r, E \ gone) = SumOf(d, E \ gone)
    BY <1>4, <1>6, SumsAgree
  <2>5. SumOf(c, D) = SumOf(c, D \ E) + SumOf(c, R)
    <3>1. D = (D \ E) \union R /\ (D \ E) \intersect R = {}  BY DEF R
    <3>2. \A n \in (D \ E) \union R : Weight(c, n) \in Nat  BY <2>1 DEF R
    <3>3. SumOf(c, (D \ E) \union R) = SumOf(c, D \ E) + SumOf(c, R)
      BY <1>6, <3>1, <3>2, SumSplits
    <3>4. QED  BY <3>1, <3>3
  <2>6. SumOf(d, E) = SumOf(d, E \ gone) + SumOf(d, E \intersect gone)
    <3>1. E = (E \ gone) \union (E \intersect gone) /\ (E \ gone) \intersect (E \intersect gone) = {}
      OBVIOUS
    <3>2. \A n \in (E \ gone) \union (E \intersect gone) : Weight(d, n) \in Nat  BY <2>1
    <3>3. SumOf(d, (E \ gone) \union (E \intersect gone))
            = SumOf(d, E \ gone) + SumOf(d, E \intersect gone)
      BY <1>6, <3>1, <3>2, SumSplits
    <3>4. QED  BY <3>1, <3>3
  <2>7. SumOf(c, D \ E) \in Nat /\ SumOf(c, R) \in Nat  BY <1>6, <2>1, SumIsNat DEF R
  <2>8. SumOf(d, E \ gone) \in Nat /\ SumOf(d, E \intersect gone) \in Nat
    BY <1>6, <2>1, SumIsNat
  <2>9. SumOf(c, D) + SumOf(d, E) - SumOf(c, R) <= MaxBytes  BY <1>2, BytesAre DEF D, E
  <2>10. SumOf(r, DOMAIN r) <= MaxBytes
    BY <2>3, <2>4, <2>5, <2>6, <2>7, <2>8, <2>9
  <2>11. QED  BY <2>10, BytesAre
<1>9. QED  BY <1>7, <1>8 DEF Limited, Entries, r

-----------------------------------------------------------------------------
(***************************************************************************)
(* The limits: what is checked before the first scope of an update is      *)
(* written still bounds the others when they are.                          *)
(***************************************************************************)
LimitsAssumed ==
  /\ MaxEntries \in Nat /\ MaxBytes \in Nat
  /\ \A update \in Updates : \A k \in KindIds : IsFiniteSet(DOMAIN update[k])

Allowed(t) ==
  step[t] = "writing" =>
    \A k \in KindIds : k >= next[t] => WithinLimits(values[session[t][k]], changes[t][k])

LimitInv ==
  /\ \A id \in ScopeIds : Limited(values[id])
  /\ \A t \in Tasks : \A k \in 1 .. Len(copy[t]) : Limited(copy[t][k])
  /\ \A t \in Tasks : Allowed(t)

LEMMA LimitsAtFirst == ASSUME LimitsAssumed, Init PROVE LimitInv
<1>1. IsFiniteSet({}) /\ Cardinality({}) = 0  BY FS_EmptySet
<1>2. DOMAIN NoChanges = {}  BY DEF NoChanges
<1>3. SumOf(NoChanges, {}) = 0  BY <1>1, SumStarts
<1>4. Limited(NoChanges)
  BY <1>1, <1>2, <1>3, BytesAre DEF Limited, Entries, LimitsAssumed
<1>5. ASSUME NEW t \in Tasks PROVE copy[t] = <<>> /\ step[t] = "idle"  BY DEF Init
<1>6. \A t \in Tasks : Len(copy[t]) = 0  BY <1>5
<1>7. \A id \in ScopeIds : values[id] = NoChanges  BY DEF Init
<1>8. \A t \in Tasks : 1 .. Len(copy[t]) = {}  BY <1>6
<1>9. QED  BY <1>4, <1>5, <1>7, <1>8 DEF LimitInv, Allowed

\* What the other tasks write and will write stays as it is.
OthersWrite(t) ==
  \A u \in Tasks \ {t} :
    /\ UNCHANGED <<session[u], step[u], next[u], changes[u], copy[u]>>
    /\ step[u] = "writing" => \A k \in KindIds : UNCHANGED values[session[u][k]]

LEMMA OthersAllowed ==
  ASSUME LimitInv, NEW t \in Tasks, OthersWrite(t), Allowed(t)',
         \A id \in ScopeIds : Limited(values'[id]),
         \A k \in 1 .. Len(copy'[t]) : Limited(copy'[t][k])
  PROVE  LimitInv'
<1>1. ASSUME NEW u \in Tasks PROVE Allowed(u)'
  <2>1. CASE u = t  BY <2>1
  <2>2. CASE u # t
    <3>1. Allowed(u)  BY DEF LimitInv
    <3>2. /\ session'[u] = session[u] /\ step'[u] = step[u] /\ next'[u] = next[u]
          /\ changes'[u] = changes[u]
          /\ step[u] = "writing" =>
               \A k \in KindIds : values'[session[u][k]] = values[session[u][k]]
      BY <2>2 DEF OthersWrite
    <3>3. QED  BY <3>1, <3>2 DEF Allowed
  <2>3. QED  BY <2>1, <2>2
<1>2. ASSUME NEW u \in Tasks, NEW k \in 1 .. Len(copy'[u]) PROVE Limited(copy'[u][k])
  <2>1. CASE u = t  BY <2>1
  <2>2. CASE u # t
    <3>1. copy'[u] = copy[u]  BY <2>2 DEF OthersWrite
    <3>2. k \in 1 .. Len(copy[u])  BY <3>1
    <3>3. Limited(copy[u][k])  BY <3>2 DEF LimitInv
    <3>4. QED  BY <3>1, <3>3
  <2>3. QED  BY <2>1, <2>2
<1> HIDE DEF Limited
<1>3. (\A id \in ScopeIds : Limited(values[id]))'  OBVIOUS
<1>4. (\A u \in Tasks : \A k \in 1 .. Len(copy[u]) : Limited(copy[u][k]))'  BY <1>2
<1>5. QED  BY <1>1, <1>3, <1>4 DEF LimitInv

\* The steps that write nothing.
LEMMA LimitsKept ==
  ASSUME IInv, LimitInv, NEW t \in Tasks,
         UNCHANGED <<values, session, copy>>,
         \A u \in Tasks \ {t} : UNCHANGED <<step[u], next[u], changes[u]>>,
         Allowed(t)'
  PROVE  LimitInv'
<1>1. OthersWrite(t)  BY DEF OthersWrite
<1>2. \A id \in ScopeIds : Limited(values'[id])  BY DEF LimitInv
<1>3. \A k \in 1 .. Len(copy'[t]) : Limited(copy'[t][k])  BY DEF LimitInv
<1>4. QED  BY <1>1, <1>2, <1>3, OthersAllowed

LEMMA CallsLimited ==
  ASSUME IInv, LimitInv, NEW t \in Tasks, Calls(t) PROVE LimitInv'
<1>1. WellFormed  BY DEF IInv
<1>2. PICK name : Begins(t, name)  BY DEF Calls
<1>3. \A u \in Tasks \ {t} : changes'[u] = changes[u]  BY <1>1 DEF Calls, WellFormed
<1>4. UNCHANGED <<values, session, copy>> /\ Turns(t, "locking", 1)  BY <1>2 DEF Begins
<1>5. step'[t] = "locking" /\ \A u \in Tasks \ {t} : step'[u] = step[u] /\ next'[u] = next[u]
  BY <1>1, <1>4, TurnsTo
<1>6. Allowed(t)'  BY <1>5 DEF Allowed
<1>7. QED  BY <1>3, <1>4, <1>5, <1>6, LimitsKept

LEMMA PassesLimited ==
  ASSUME IInv, LimitInv, NEW t \in Tasks, Lock(t) \/ Check(t) \/ Unlock(t) \/ Count(t)
  PROVE  LimitInv'
<1>1. WellFormed  BY DEF IInv
<1>2. UNCHANGED <<values, session, copy, changes>>  BY DEF Lock, Check, Unlock, Count
<1>3. CASE Check(t)
  <2>1. \/ Accepts(t) /\ Turns(t, "writing", 1)
        \/ Turns(t, "unlocking", 1)
    BY <1>3 DEF Check
  <2>2. /\ next'[t] = 1
        /\ (step'[t] = "writing" /\ Accepts(t)) \/ step'[t] = "unlocking"
        /\ \A u \in Tasks \ {t} : step'[u] = step[u] /\ next'[u] = next[u]
    BY <1>1, <2>1, TurnsTo
  <2>3. Allowed(t)'  BY <1>2, <2>2 DEF Allowed, Accepts
  <2>4. QED  BY <1>2, <2>2, <2>3, LimitsKept
<1>4. CASE Lock(t) \/ Unlock(t) \/ Count(t)
  <2>1. PICK to \in {"checking", "copying", "counting", "idle"} :
          step[t] \in {"locking", "unlocking", "counting"} /\ Goes(t, to)
    BY <1>4 DEF Lock, Unlock, Unlocked, Count
  <2>2. /\ step'[t] # "writing"
        /\ \A u \in Tasks \ {t} : step'[u] = step[u] /\ next'[u] = next[u]
    BY <1>1, <2>1, GoesTo
  <2>3. Allowed(t)'  BY <2>2 DEF Allowed
  <2>4. QED  BY <1>2, <2>2, <2>3, LimitsKept
<1>5. QED  BY <1>3, <1>4

LEMMA WriteLimited ==
  ASSUME LimitsAssumed, IInv, LimitInv, NEW t \in Tasks, Write(t) PROVE LimitInv'
<1> DEFINE n == next[t]
           id == session[t][n]
<1>1. WellFormed /\ Assumed  BY DEF IInv
<1>2. /\ step[t] = "writing" /\ Goes(t, "unlocking")
      /\ values' = [values EXCEPT ![id] = Apply(n, values[id], changes[t][n])]
      /\ UNCHANGED <<session, changes, copy>>
  BY DEF Write, Scope
<1>3. n \in {1, 2, 3} /\ n \in KindIds /\ id \in ScopeIds
  BY <1>1, SessionIds, KindIdsAre DEF WellFormed
<1>4. /\ n \in {1, 2} => step'[t] = "writing" /\ next'[t] = n + 1
      /\ n = 3 => step'[t] = "unlocking" /\ next'[t] = 1
      /\ \A u \in Tasks \ {t} : step'[u] = step[u] /\ next'[u] = next[u]
  BY <1>1, <1>2, GoesTo
<1>5. /\ values'[id] = Apply(n, values[id], changes[t][n])
      /\ \A o \in ScopeIds : o # id => values'[o] = values[o]
  BY <1>1, <1>2, <1>3 DEF WellFormed
<1>6. Limited(values'[id])
  <2>1. changes[t][n] \in Changes /\ IsFiniteSet(DOMAIN changes[t][n])
    BY <1>1, <1>3 DEF WellFormed, Assumed, UpdatesTyped, LimitsAssumed
  <2>2. values[id] \in Changes /\ IsFiniteSet(DOMAIN values[id])
    BY <1>1, <1>3 DEF WellFormed, LimitInv, Limited
  <2>3. WithinLimits(values[id], changes[t][n])
    <3>1. Allowed(t)  BY DEF LimitInv
    <3>2. QED  BY <1>2, <1>3, <3>1 DEF Allowed
  <2>4. QED  BY <1>5, <2>1, <2>2, <2>3, ApplyIsLimited DEF LimitsAssumed
<1>7. \A o \in ScopeIds : Limited(values'[o])  BY <1>5, <1>6 DEF LimitInv
<1>8. OthersWrite(t)
  <2>1. ASSUME NEW u \in Tasks \ {t}, NEW k \in KindIds, step[u] = "writing"
        PROVE  values'[session[u][k]] = values[session[u][k]]
    <3>1. Holds(t, n) /\ Holds(u, k)  BY <1>2, <2>1 DEF Holds
    <3>2. session[u][k] # id  BY <1>3, <2>1, <3>1, HeldByOne
    <3>3. session[u][k] \in ScopeIds  BY <1>1, SessionIds
    <3>4. QED  BY <1>5, <3>2, <3>3
  <2>2. QED  BY <1>2, <1>4, <2>1 DEF OthersWrite
<1>9. Allowed(t)'
  <2>1. ASSUME NEW k \in KindIds, step'[t] = "writing", k >= next'[t]
        PROVE  WithinLimits(values[session[t][k]], changes[t][k])'
    <3>1. k > n /\ k # n  BY <1>3, <1>4, <2>1, KindIdsAre
    <3>2. session[t][k] # id /\ session[t][k] \in ScopeIds  BY <1>1, <1>3, <3>1, SessionIds
    <3>3. values'[session[t][k]] = values[session[t][k]]  BY <1>5, <3>2
    <3>4. WithinLimits(values[session[t][k]], changes[t][k])
      <4>1. k >= next[t]  BY <1>3, <3>1, KindIdsAre
      <4>2. QED  BY <1>2, <4>1 DEF LimitInv, Allowed
    <3>5. QED  BY <1>2, <3>3, <3>4
  <2>2. QED  BY <2>1 DEF Allowed
<1>10. \A k \in 1 .. Len(copy'[t]) : Limited(copy'[t][k])  BY <1>2 DEF LimitInv
<1>11. QED  BY <1>7, <1>8, <1>9, <1>10, OthersAllowed

LEMMA CopyLimited ==
  ASSUME IInv, LimitInv, NEW t \in Tasks, Copy(t) PROVE LimitInv'
<1> DEFINE n == next[t]
           read == Append(copy[t], values[Scope(t)])
<1>1. WellFormed /\ Assumed  BY DEF IInv
<1>2. /\ step[t] = "copying" /\ Goes(t, "unlocking")
      /\ copy' = [copy EXCEPT ![t] = IF Len(read) < 3 \/ call[t] = "fork" THEN read ELSE <<>>]
      /\ UNCHANGED <<values, session, changes>>
  BY DEF Copy
<1>3. /\ Len(read) = n
      /\ \A k \in KindIds : k <= n => read[k] = values[session[t][k]]
  BY <1>2, CopyAppended
<1> HIDE DEF read
<1>4. /\ step'[t] # "writing" /\ n \in {1, 2, 3}
      /\ \A u \in Tasks \ {t} : step'[u] = step[u] /\ next'[u] = next[u]
  BY <1>1, <1>2, GoesTo
<1>5. ASSUME NEW k \in 1 .. Len(read) PROVE Limited(read[k])
  <2>1. k \in KindIds /\ k <= n  BY <1>3, <1>4, KindIdsAre
  <2>2. read[k] = values[session[t][k]]  BY <1>3, <2>1
  <2>3. session[t][k] \in ScopeIds  BY <1>1, <2>1, SessionIds
  <2>4. QED  BY <2>2, <2>3 DEF LimitInv
<1>6. copy'[t] = read \/ copy'[t] = <<>>  BY <1>1, <1>2 DEF WellFormed
<1>7. 1 .. Len(<<>>) = {}  OBVIOUS
<1>8. \A k \in 1 .. Len(copy'[t]) : Limited(copy'[t][k])
  <2>1. CASE copy'[t] = read  BY <1>5, <2>1
  <2>2. CASE copy'[t] = <<>>  BY <1>7, <2>2
  <2>3. QED  BY <1>6, <2>1, <2>2
<1>9. OthersWrite(t)  BY <1>1, <1>2, <1>4 DEF OthersWrite, WellFormed
<1>10. Allowed(t)'  BY <1>4 DEF Allowed
<1>11. \A id \in ScopeIds : Limited(values'[id])  BY <1>2 DEF LimitInv
<1>12. QED  BY <1>8, <1>9, <1>10, <1>11, OthersAllowed

\* A fork begins with what was copied, within the limits when it was.
LEMMA LeavesLimited ==
  ASSUME IInv, LimitInv, NEW t \in Tasks, Leaves(t) PROVE LimitInv'
<1> DEFINE n == next[t]
<1>1. WellFormed /\ Assumed /\ TaskFits(t)  BY DEF IInv
<1>2. step[t] = "unlocking" /\ call[t] = "fork" /\ Unlocked(t) /\ UNCHANGED changes
  BY DEF Leaves
<1>3. /\ step'[t] # "writing" /\ n \in {1, 2, 3}
      /\ \A u \in Tasks \ {t} : step'[u] = step[u] /\ next'[u] = next[u]
  BY <1>1, <1>2, GoesTo DEF Unlocked
<1>4. Allowed(t)'  BY <1>3 DEF Allowed
<1>5. CASE n < 3
  <2>1. UNCHANGED <<values, session, copy>>  BY <1>5 DEF Leaves
  <2>2. QED  BY <1>2, <1>3, <1>4, <2>1, LimitsKept
<1>6. CASE n = 3
  <2>1. /\ session' = [session EXCEPT ![t] = Own(t)]
        /\ copy' = [copy EXCEPT ![t] = <<>>]
        /\ values' = [id \in ScopeIds |->
                        IF id \in ToSet(Own(t)) THEN copy[t][CHOOSE j \in KindIds : Own(t)[j] = id]
                        ELSE values[id]]
    BY <1>6 DEF Leaves
  <2>2. \A id : id \in ToSet(Own(t)) => \E j \in KindIds : Own(t)[j] = id
    BY KindIdsAre DEF ToSet, Own
  <2>3. Len(copy[t]) = 3  BY <1>1, <1>2 DEF TaskFits, CopyFits, Forked
  <2>4. ASSUME NEW id \in ScopeIds PROVE Limited(values'[id])
    <3>1. CASE id \in ToSet(Own(t))
      <4>1. (CHOOSE j \in KindIds : Own(t)[j] = id) \in KindIds  BY <2>2, <3>1
      <4>2. PICK j \in KindIds : values'[id] = copy[t][j]  BY <2>1, <3>1, <4>1
      <4>3. j \in 1 .. Len(copy[t])  BY <2>3, KindIdsAre
      <4>4. QED  BY <4>2, <4>3 DEF LimitInv
    <3>2. CASE id \notin ToSet(Own(t))
      <4>1. values'[id] = values[id]  BY <2>1, <3>2
      <4>2. QED  BY <4>1 DEF LimitInv
    <3>3. QED  BY <3>1, <3>2
  <2>5. OthersWrite(t)
    <3>1. ASSUME NEW u \in Tasks \ {t}, NEW k \in KindIds
          PROVE  values'[session[u][k]] = values[session[u][k]]
      <4>1. session[u][k] \in ScopeIds  BY <1>1, SessionIds
      <4>2. session[u][k] \notin ToSet(Own(t))  BY <1>1, <2>2, SessionIds
      <4>3. QED  BY <2>1, <4>1, <4>2
    <3>2. \A u \in Tasks \ {t} : session'[u] = session[u] /\ copy'[u] = copy[u]
      BY <1>1, <2>1 DEF WellFormed
    <3>3. QED  BY <1>2, <1>3, <3>1, <3>2 DEF OthersWrite
  <2>6. copy'[t] = <<>> /\ 1 .. Len(<<>>) = {}  BY <1>1, <2>1 DEF WellFormed
  <2>7. \A k \in 1 .. Len(copy'[t]) : Limited(copy'[t][k])  BY <2>6
  <2>8. QED  BY <1>4, <2>4, <2>5, <2>7, OthersAllowed
<1>7. QED  BY <1>3, <1>5, <1>6

LEMMA LimitsStay == ASSUME LimitsAssumed, IInv, LimitInv, [Next]_vars PROVE LimitInv'
<1>1. CASE UNCHANGED vars  BY <1>1 DEF vars, LimitInv, Allowed
<1>2. CASE \E t \in Tasks : Calls(t) \/ Step(t)
  BY <1>2, CallsLimited, PassesLimited, WriteLimited, CopyLimited, LeavesLimited DEF Step
<1>3. QED  BY <1>1, <1>2 DEF Next

LEMMA LimitsAre == ASSUME LimitInv PROVE LimitsHold
BY DEF LimitInv, Limited, LimitsHold

(***************************************************************************)
(* session.rs:161: whatever updates and deletions of whatever tasks        *)
(* overlap, each scope stays within its limits, for any limits.            *)
(***************************************************************************)
THEOREM LimitsAlwaysHold ==
  ASSUME Assumed, LimitsAssumed
  PROVE  Spec => []LimitsHold
<1>1. Init => LimitInv  BY LimitsAtFirst
<1>2. IInv /\ LimitInv /\ [Next]_vars => LimitInv'  BY LimitsStay
<1>3. LimitInv => LimitsHold  BY LimitsAre
<1>4. QED  BY <1>1, <1>2, <1>3, InvariantHolds, PTL DEF Spec

-----------------------------------------------------------------------------
(***************************************************************************)
(* What the requests see.  A scope reads as its copy once a fork has it,   *)
(* as already changed once an update began to write, and else as it is.    *)
(***************************************************************************)
Writes(t, k) == Committed(t) /\ k >= next[t]

SeenFits ==
  /\ \A t \in Tasks : \A k \in KindIds : Forked(t) => StoreSeen[Own(t)[k]] = copy[t][k]
  /\ \A t \in Tasks : \A k \in KindIds : Writes(t, k) =>
       StoreSeen[session[t][k]] = Apply(k, values[session[t][k]], changes[t][k])
  /\ \A id \in ScopeIds :
       (\A t \in Tasks : \A k \in KindIds :
          /\ Forked(t) => Own(t)[k] # id
          /\ Writes(t, k) => session[t][k] # id)
       => StoreSeen[id] = values[id]

LEMMA InOwn == \A t : \A id : id \in ToSet(Own(t)) <=> \E k \in KindIds : Own(t)[k] = id
BY KindIdsAre DEF ToSet, Own

LEMMA ForkedScopes ==
  ASSUME IInv, NEW t \in Tasks, Forked(t)
  PROVE  session[t] = Shared(PathOf[t]) /\ ~Committed(t)
BY DEF IInv, TaskFits, PhaseFits, Forked, Committed

LEMMA SeenRight == IInv => SeenFits
<1> SUFFICES ASSUME IInv PROVE SeenFits  OBVIOUS
<1> DEFINE FS(id) == \E t \in Tasks : Forked(t) /\ id \in ToSet(Own(t))
           CS(id) == \E t \in Tasks : Committed(t) /\ \E k \in next[t] .. 3 : session[t][k] = id
<1>1. WellFormed /\ Assumed  BY DEF IInv
<1>2. ASSUME NEW t \in Tasks, NEW k \in KindIds, Forked(t)
      PROVE  StoreSeen[Own(t)[k]] = copy[t][k]
  <2> DEFINE id == Own(t)[k]
             c == CHOOSE u \in Tasks : Forked(u) /\ id \in ToSet(Own(u))
  <2>1. id \in ScopeIds /\ id \in ToSet(Own(t))  BY <1>1, IdsDiffer, InOwn
  <2>2. c \in Tasks /\ Forked(c) /\ id \in ToSet(Own(c))  BY <1>2, <2>1
  <2>3. c = t  BY <1>1, <2>2, InOwn, IdsDiffer
  <2>4. (CHOOSE j \in KindIds : Own(t)[j] = id) = k  BY <1>1, IdsDiffer
  <2>5. StoreSeen[id] = copy[c][CHOOSE j \in KindIds : Own(c)[j] = id]
    BY <1>2, <2>1 DEF StoreSeen
  <2>6. QED  BY <2>3, <2>4, <2>5
<1>3. \A t \in Tasks : next[t] \in {1, 2, 3}  BY <1>1, KindIdsAre DEF WellFormed
<1>4. ASSUME NEW t \in Tasks, NEW k \in KindIds, Writes(t, k)
      PROVE  StoreSeen[session[t][k]] = Apply(k, values[session[t][k]], changes[t][k])
  <2> DEFINE id == session[t][k]
             c == CHOOSE u \in Tasks : Committed(u) /\ \E j \in next[u] .. 3 : session[u][j] = id
  <2>1. id \in ScopeIds  BY <1>1, SessionIds
  <2>2. ~FS(id)
    <3>1. SUFFICES ASSUME NEW u \in Tasks, Forked(u), id \in ToSet(Own(u)) PROVE FALSE
      OBVIOUS
    <3>2. PICK j \in KindIds : Own(u)[j] = id  BY <3>1, InOwn
    <3>3. u = t  BY <1>1, <3>2, SessionIds
    <3>4. QED  BY <1>4, <3>1, <3>3, ForkedScopes DEF Writes
  <2>3. Committed(t) /\ k \in next[t] .. 3
    BY <1>3, <1>4, KindIdsAre DEF Writes
  <2>4. c \in Tasks /\ Committed(c) /\ \E j \in next[c] .. 3 : session[c][j] = id
    BY <2>3
  <2>5. c = t
    <3>1. PICK j \in next[c] .. 3 : session[c][j] = id  BY <2>4
    <3>2. j \in KindIds  BY <1>3, <2>4, <3>1, KindIdsAre
    <3>3. Holds(c, j) /\ Holds(t, k)  BY <2>3, <2>4 DEF Committed, Holds
    <3>4. QED  BY <2>4, <3>1, <3>2, <3>3, HeldByOne
  <2>6. (CHOOSE j \in KindIds : session[t][j] = id) = k  BY <1>1, SessionIds
  <2>7. CS(id)  BY <2>3
  <2>8. StoreSeen[id] = LET j == CHOOSE j \in KindIds : session[c][j] = id
                        IN  Apply(j, values[id], changes[c][j])
    BY <2>1, <2>2, <2>7 DEF StoreSeen
  <2>9. QED  BY <2>5, <2>6, <2>8
<1>5. ASSUME NEW id \in ScopeIds,
             \A t \in Tasks : \A k \in KindIds :
               /\ Forked(t) => Own(t)[k] # id
               /\ Writes(t, k) => session[t][k] # id
      PROVE  StoreSeen[id] = values[id]
  <2>1. ~FS(id)  BY <1>5, InOwn
  <2>2. ~CS(id)
    <3>1. ASSUME NEW t \in Tasks, Committed(t), NEW k \in next[t] .. 3 PROVE session[t][k] # id
      <4>1. k \in KindIds /\ k >= next[t]  BY <1>3, <3>1, KindIdsAre
      <4>2. QED  BY <1>5, <3>1, <4>1 DEF Writes
    <3>2. QED  BY <3>1
  <2>3. QED  BY <2>1, <2>2 DEF StoreSeen
<1>6. QED  BY <1>2, <1>4, <1>5 DEF SeenFits

-----------------------------------------------------------------------------
(***************************************************************************)
(* Every step is one of VariableStore, or none.                            *)
(***************************************************************************)
Both == IInv /\ SeenFits /\ IInv' /\ SeenFits'

LEMMA SameNames ==
  /\ \A t : Promised!Own(t) = Own(t)
  /\ \A path : Promised!Shared(path) = Shared(path)
  /\ Promised!ScopeIds = ScopeIds /\ Promised!KindIds = KindIds
  /\ Promised!NoChanges = NoChanges
BY DEF Promised!Own, Own, Promised!Shared, Shared, Promised!ScopeIds, ScopeIds,
       Promised!Kinds, Kinds, Promised!KindIds, KindIds, Promised!NoChanges, NoChanges

\* Stores are functions from the scopes: they agree if they do at each.
LEMMA SeenEqual ==
  /\ DOMAIN StoreSeen = ScopeIds
  /\ (\A id \in ScopeIds : StoreSeen'[id] = StoreSeen[id]) => StoreSeen' = StoreSeen
  /\ (\A t \in Tasks : SessionSeen'[t] = SessionSeen[t]) => SessionSeen' = SessionSeen
<1>1. StoreSeen = [id \in ScopeIds |-> StoreSeen[id]] /\ StoreSeen' = [id \in ScopeIds |-> StoreSeen'[id]]
  BY DEF StoreSeen
<1>2. SessionSeen = [t \in Tasks |-> SessionSeen[t]] /\ SessionSeen' = [t \in Tasks |-> SessionSeen'[t]]
  BY DEF SessionSeen
<1>3. QED  BY <1>1, <1>2

\* A step that writes nothing, and neither begins nor ends a fork or the
\* writing of an update.
LEMMA NothingSeen ==
  ASSUME Both, UNCHANGED <<values, session>>,
         \A t \in Tasks :
           /\ Forked(t)' <=> Forked(t)
           /\ Forked(t) => copy'[t] = copy[t]
           /\ Committed(t)' <=> Committed(t)
           /\ Committed(t) => next'[t] = next[t] /\ changes'[t] = changes[t]
  PROVE  UNCHANGED <<StoreSeen, SessionSeen>>
<1>1. WellFormed /\ Assumed  BY DEF Both, IInv
<1>2. \A t \in Tasks : \A k \in KindIds : Writes(t, k)' <=> Writes(t, k)
  BY DEF Writes
<1>3. ASSUME NEW id \in ScopeIds PROVE StoreSeen'[id] = StoreSeen[id]
  <2>1. CASE \E t \in Tasks : \E k \in KindIds : Forked(t) /\ Own(t)[k] = id
    <3>1. PICK t \in Tasks, k \in KindIds : Forked(t) /\ Own(t)[k] = id  BY <2>1
    <3>2. StoreSeen[Own(t)[k]] = copy[t][k]  BY <3>1 DEF Both, SeenFits
    <3>3. StoreSeen'[Own(t)[k]] = copy'[t][k]  BY <3>1 DEF Both, SeenFits
    <3>4. QED  BY <3>1, <3>2, <3>3
  <2>2. CASE \E t \in Tasks : \E k \in KindIds : Writes(t, k) /\ session[t][k] = id
    <3>1. PICK t \in Tasks, k \in KindIds : Writes(t, k) /\ session[t][k] = id  BY <2>2
    <3>2. StoreSeen[session[t][k]] = Apply(k, values[session[t][k]], changes[t][k])
      BY <3>1 DEF Both, SeenFits
    <3>3. StoreSeen'[session'[t][k]] = Apply(k, values'[session'[t][k]], changes'[t][k])
      BY <1>2, <3>1 DEF Both, SeenFits
    <3>4. changes'[t] = changes[t] /\ session' = session /\ values' = values
      BY <3>1 DEF Writes
    <3>5. QED  BY <3>1, <3>2, <3>3, <3>4
  <2>3. CASE \A t \in Tasks : \A k \in KindIds :
               /\ Forked(t) => Own(t)[k] # id
               /\ Writes(t, k) => session[t][k] # id
    <3>1. StoreSeen[id] = values[id]  BY <2>3 DEF Both, SeenFits
    <3>2. StoreSeen'[id] = values'[id]  BY <1>2, <2>3 DEF Both, SeenFits
    <3>3. QED  BY <3>1, <3>2
  <2>4. QED  BY <2>1, <2>2, <2>3
<1>4. \A t \in Tasks : SessionSeen'[t] = SessionSeen[t]  BY DEF SessionSeen
<1>5. QED  BY <1>3, <1>4, SeenEqual

LEMMA QuietSteps ==
  ASSUME Both, NEW t \in Tasks,
         Calls(t) \/ Lock(t) \/ Check(t) \/ Unlock(t) \/ Count(t)
  PROVE  UNCHANGED <<StoreSeen, SessionSeen, shown>>
<1>1. WellFormed /\ TaskFits(t) /\ TaskFits(t)'  BY DEF Both, IInv
<1>2. UNCHANGED <<values, session, shown>>
  BY DEF Calls, Begins, Lock, Check, Unlock, Count
<1>3. /\ ~Forked(t) /\ ~Committed(t) /\ ~Forked(t)' /\ ~Committed(t)'
      /\ \A u \in Tasks \ {t} :
           UNCHANGED <<call[u], step[u], next[u], changes[u], copy[u]>>
  <2>1. CASE Calls(t)
    <3>1. /\ step[t] = "idle" /\ Turns(t, "locking", 1) /\ copy' = copy
          /\ \A u \in Tasks \ {t} : call'[u] = call[u] /\ changes'[u] = changes[u]
      BY <1>1, <2>1 DEF Calls, Begins, WellFormed
    <3>2. QED  BY <1>1, <3>1, TurnsTo DEF Forked, Committed
  <2>2. CASE Lock(t)
    <3>1. /\ step[t] = "locking" /\ UNCHANGED <<call, changes, copy>>
          /\ Goes(t, IF call[t] = "apply" THEN "checking" ELSE "copying")
      BY <2>2 DEF Lock
    <3>2. QED  BY <1>1, <3>1, GoesTo DEF Forked, Committed
  <2>3. CASE Check(t)
    <3>1. /\ step[t] = "checking" /\ UNCHANGED <<changes, copy>>
          /\ \/ Turns(t, "writing", 1)
             \/ Turns(t, "unlocking", 1) /\ call'[t] = "rejected"
          /\ \A u \in Tasks \ {t} : call'[u] = call[u]
      BY <1>1, <2>3 DEF Check, WellFormed
    <3>2. QED  BY <1>1, <3>1, TurnsTo DEF Forked, Committed
  <2>4. CASE Unlock(t)
    <3>1. /\ step[t] = "unlocking" /\ call[t] # "fork"
          /\ UNCHANGED <<call, changes, copy>>
          /\ Goes(t, IF call[t] = "apply" THEN "counting" ELSE "idle")
      BY <2>4 DEF Unlock, Unlocked
    <3>2. QED  BY <1>1, <3>1, GoesTo DEF Forked, Committed
  <2>5. CASE Count(t)
    <3>1. step[t] = "counting" /\ UNCHANGED <<call, changes, copy>> /\ Goes(t, "idle")
      BY <2>5 DEF Count
    <3>2. QED  BY <1>1, <3>1, GoesTo DEF Forked, Committed
  <2>6. QED  BY <2>1, <2>2, <2>3, <2>4, <2>5
<1>4. ASSUME NEW u \in Tasks
      PROVE  /\ Forked(u)' <=> Forked(u)
             /\ Forked(u) => copy'[u] = copy[u]
             /\ Committed(u)' <=> Committed(u)
             /\ Committed(u) => next'[u] = next[u] /\ changes'[u] = changes[u]
  <2>1. CASE u = t  BY <1>3, <2>1
  <2>2. CASE u # t  BY <1>3, <2>2 DEF Forked, Committed
  <2>3. QED  BY <2>1, <2>2
<1>5. QED  BY <1>2, <1>4, NothingSeen

\* What a task reads of the scopes it holds is what they are.
LEMMA HeldIsSeen ==
  ASSUME IInv, SeenFits, NEW t \in Tasks, NEW k \in KindIds, Holds(t, k), ~Writes(t, k),
         ~Forked(t)
  PROVE  StoreSeen[session[t][k]] = values[session[t][k]]
<1>1. WellFormed /\ Assumed  BY DEF IInv
<1>2. session[t][k] \in ScopeIds  BY <1>1, SessionIds
<1>3. ASSUME NEW u \in Tasks, NEW j \in KindIds
      PROVE  /\ Forked(u) => Own(u)[j] # session[t][k]
             /\ Writes(u, j) => session[u][j] # session[t][k]
  <2>1. Forked(u) => Own(u)[j] # session[t][k]  BY <1>1, SessionIds
  <2>2. ASSUME Writes(u, j), session[u][j] = session[t][k] PROVE FALSE
    <3>1. Holds(u, j)  BY <2>2 DEF Writes, Committed, Holds
    <3>2. u = t  BY <2>2, <3>1, HeldByOne
    <3>3. j = k  BY <1>1, <2>2, SessionIds
    <3>4. QED  BY <2>2, <3>2, <3>3
  <2>3. QED  BY <2>1, <2>2
<1>4. QED  BY <1>2, <1>3 DEF SeenFits

\* The same after a step.
LEMMA HeldIsSeenNext ==
  ASSUME NEW t \in Tasks, NEW k \in KindIds
  PROVE  (IInv /\ SeenFits /\ Holds(t, k) /\ ~Writes(t, k) /\ ~Forked(t)
            => StoreSeen[session[t][k]] = values[session[t][k]])'
<1>1. IInv /\ SeenFits /\ Holds(t, k) /\ ~Writes(t, k) /\ ~Forked(t)
        => StoreSeen[session[t][k]] = values[session[t][k]]
  BY HeldIsSeen
<1>2. QED  BY <1>1, PTL

LEMMA SnapshotIs ==
  ASSUME NEW t \in Tasks, ~Forked(t)
  PROVE  /\ SessionSeen[t] = session[t]
         /\ Promised!Snapshot(t) = [k \in KindIds |-> StoreSeen[session[t][k]]]
BY SameNames DEF SessionSeen, Promised!Snapshot

\* A snapshot is taken, and a fork made, when the last scope is copied.
LEMMA CopyIsSeen ==
  ASSUME Both, NEW t \in Tasks, Copy(t)
  PROVE  \/ Promised!Read(t) \/ Promised!Fork(t)
         \/ UNCHANGED <<StoreSeen, SessionSeen, shown>>
<1> DEFINE n == next[t]
           read == Append(copy[t], values[Scope(t)])
<1>1. IInv /\ WellFormed /\ Assumed /\ TaskFits(t)  BY DEF Both, IInv
<1>2. /\ step[t] = "copying" /\ Goes(t, "unlocking")
      /\ copy' = [copy EXCEPT ![t] = IF Len(read) < 3 \/ call[t] = "fork" THEN read ELSE <<>>]
      /\ shown' = [shown EXCEPT ![t] = IF Len(read) = 3 /\ call[t] = "scopes" THEN read ELSE @]
      /\ UNCHANGED <<values, revision, lock, session, call, changes, calls>>
  BY DEF Copy
<1>3. /\ read \in Seq(Changes) /\ Len(read) = n
      /\ \A k \in KindIds : k <= n => read[k] = values[session[t][k]]
  BY <1>1, <1>2, CopyAppended
<1> HIDE DEF read
<1>4. /\ n \in {1, 2} => step'[t] = "copying" /\ next'[t] = n + 1
      /\ n = 3 => step'[t] = "unlocking" /\ next'[t] = 1
      /\ n \in {1, 2, 3}
      /\ \A u \in Tasks \ {t} : step'[u] = step[u] /\ next'[u] = next[u]
  BY <1>1, <1>2, GoesTo
<1>5. call[t] \in {"scopes", "fork"}  BY <1>1, <1>2 DEF TaskFits, PhaseFits
<1>6. ~Forked(t) /\ ~Committed(t) /\ ~Committed(t)'
  BY <1>2, <1>4 DEF Forked, Committed
<1>7. \A u \in Tasks \ {t} : copy'[u] = copy[u]  BY <1>1, <1>2 DEF WellFormed
<1>8. ASSUME NEW u \in Tasks \ {t}
      PROVE  /\ Forked(u)' <=> Forked(u)
             /\ Forked(u) => copy'[u] = copy[u]
             /\ Committed(u)' <=> Committed(u)
             /\ Committed(u) => next'[u] = next[u] /\ changes'[u] = changes[u]
  BY <1>2, <1>4, <1>7 DEF Forked, Committed
<1>9. ASSUME NEW k \in KindIds PROVE StoreSeen[session[t][k]] = values[session[t][k]]
  <2>1. Holds(t, k) /\ ~Writes(t, k)  BY <1>2, <1>6 DEF Holds, Writes
  <2>2. QED  BY <1>6, <2>1, HeldIsSeen DEF Both
<1>10. ASSUME UNCHANGED shown, ~Forked(t)' PROVE UNCHANGED <<StoreSeen, SessionSeen, shown>>
  <2>1. ASSUME NEW u \in Tasks
        PROVE  /\ Forked(u)' <=> Forked(u)
               /\ Forked(u) => copy'[u] = copy[u]
               /\ Committed(u)' <=> Committed(u)
               /\ Committed(u) => next'[u] = next[u] /\ changes'[u] = changes[u]
    <3>1. CASE u = t  BY <1>6, <1>10, <3>1
    <3>2. CASE u # t  BY <1>8, <3>2
    <3>3. QED  BY <3>1, <3>2
  <2>2. QED  BY <1>2, <1>10, <2>1, NothingSeen
<1>11. CASE n \in {1, 2}
  <2>1. UNCHANGED shown  BY <1>1, <1>2, <1>3, <1>11 DEF WellFormed
  <2>2. ~Forked(t)'  BY <1>4, <1>11 DEF Forked
  <2>3. QED  BY <1>10, <2>1, <2>2
<1>12. CASE n = 3 /\ call[t] = "scopes"
  <2>1. read = [k \in KindIds |-> StoreSeen[session[t][k]]]
    <3>1. read \in [1 .. 3 -> Changes]
      <4>1. read \in Seq(Changes) /\ Len(read) = 3  BY <1>3, <1>12
      <4>2. QED  BY <4>1, LenProperties
    <3>2. \A k \in KindIds : read[k] = StoreSeen[session[t][k]]
      BY <1>3, <1>9, <1>12, KindIdsAre
    <3>3. QED  BY <3>1, <3>2 DEF KindIds
  <2>2. shown' = [shown EXCEPT ![t] = Promised!Snapshot(t)]
    BY <1>2, <1>3, <1>6, <1>12, <2>1, SnapshotIs
  <2>3. ~Forked(t)'  BY <1>2, <1>12 DEF Forked
  <2>4. ASSUME NEW u \in Tasks
        PROVE  /\ Forked(u)' <=> Forked(u)
               /\ Forked(u) => copy'[u] = copy[u]
               /\ Committed(u)' <=> Committed(u)
               /\ Committed(u) => next'[u] = next[u] /\ changes'[u] = changes[u]
    <3>1. CASE u = t  BY <1>6, <2>3, <3>1
    <3>2. CASE u # t  BY <1>8, <3>2
    <3>3. QED  BY <3>1, <3>2
  <2>5. UNCHANGED <<StoreSeen, SessionSeen>>  BY <1>2, <2>4, NothingSeen
  <2>6. QED  BY <2>2, <2>5 DEF Promised!Read
<1>13. CASE n = 3 /\ call[t] = "fork"
  <2>1. Forked(t)' /\ copy'[t] = read
    BY <1>1, <1>2, <1>4, <1>13 DEF Forked, WellFormed
  <2>2. session[t] = Shared(PathOf[t]) /\ session[t] # Own(t)
    <3>1. session[t] = Shared(PathOf[t])  BY <1>1, <1>2, <1>13 DEF TaskFits, PhaseFits
    <3>2. 1 \in KindIds  BY KindIdsAre
    <3>3. Own(t)[1] # Shared(PathOf[t])[1]  BY <1>1, <3>2, IdsDiffer
    <3>4. QED  BY <3>1, <3>3
  <2>3. SessionSeen[t] = session[t] /\ SessionSeen' = [SessionSeen EXCEPT ![t] = Own(t)]
    <3>1. SessionSeen[t] = session[t]  BY <1>6 DEF SessionSeen
    <3>2. \A u \in Tasks \ {t} : SessionSeen'[u] = SessionSeen[u]
      BY <1>2, <1>8 DEF SessionSeen
    <3>3. SessionSeen'[t] = Own(t)  BY <2>1 DEF SessionSeen
    <3>4. DOMAIN SessionSeen = Tasks /\ SessionSeen' = [u \in Tasks |-> SessionSeen'[u]]
      BY DEF SessionSeen
    <3>5. QED  BY <3>1, <3>2, <3>3, <3>4
  <2>4. ASSUME NEW id \in ScopeIds
        PROVE  StoreSeen'[id] =
                 IF \E k \in KindIds : Own(t)[k] = id
                   THEN StoreSeen[session[t][CHOOSE k \in KindIds : Own(t)[k] = id]]
                   ELSE StoreSeen[id]
    <3>1. CASE \E k \in KindIds : Own(t)[k] = id
      <4>1. PICK k \in KindIds : Own(t)[k] = id  BY <3>1
      <4>2. (CHOOSE j \in KindIds : Own(t)[j] = id) = k  BY <1>1, <4>1, IdsDiffer
      <4>3. StoreSeen'[Own(t)[k]] = copy'[t][k]  BY <2>1 DEF Both, SeenFits
      <4>4. copy'[t][k] = StoreSeen[session[t][k]]
        BY <1>3, <1>9, <1>13, <2>1, KindIdsAre
      <4>5. QED  BY <4>1, <4>2, <4>3, <4>4
    <3>2. CASE ~\E k \in KindIds : Own(t)[k] = id
      <4>1. CASE \E u \in Tasks : \E k \in KindIds : Forked(u) /\ Own(u)[k] = id
        <5>1. PICK u \in Tasks, k \in KindIds : Forked(u) /\ Own(u)[k] = id  BY <4>1
        <5>2. u # t  BY <1>6, <5>1
        <5>3. StoreSeen[Own(u)[k]] = copy[u][k]  BY <5>1 DEF Both, SeenFits
        <5>4. StoreSeen'[Own(u)[k]] = copy'[u][k]  BY <1>8, <5>1, <5>2 DEF Both, SeenFits
        <5>5. QED  BY <1>8, <3>2, <5>1, <5>2, <5>3, <5>4
      <4>2. CASE \E u \in Tasks : \E k \in KindIds : Writes(u, k) /\ session[u][k] = id
        <5>1. PICK u \in Tasks, k \in KindIds : Writes(u, k) /\ session[u][k] = id  BY <4>2
        <5>2. u # t  BY <1>6, <5>1 DEF Writes
        <5>3. Writes(u, k)'  BY <1>8, <5>1, <5>2 DEF Writes
        <5>4. StoreSeen[session[u][k]] = Apply(k, values[session[u][k]], changes[u][k])
          BY <5>1 DEF Both, SeenFits
        <5>5. StoreSeen'[session'[u][k]] = Apply(k, values'[session'[u][k]], changes'[u][k])
          BY <5>3 DEF Both, SeenFits
        <5>6. QED  BY <1>2, <3>2, <5>1, <5>4, <5>5
      <4>3. CASE \A u \in Tasks : \A k \in KindIds :
                   /\ Forked(u) => Own(u)[k] # id
                   /\ Writes(u, k) => session[u][k] # id
        <5>1. StoreSeen[id] = values[id]  BY <4>3 DEF Both, SeenFits
        <5>2. ASSUME NEW u \in Tasks, NEW k \in KindIds
              PROVE  /\ Forked(u)' => Own(u)[k] # id
                     /\ Writes(u, k)' => session'[u][k] # id
          <6>1. CASE u = t  BY <1>6, <3>2, <6>1 DEF Writes
          <6>2. CASE u # t  BY <1>2, <1>8, <4>3, <6>2 DEF Writes
          <6>3. QED  BY <6>1, <6>2
        <5>3. StoreSeen'[id] = values'[id]  BY <5>2 DEF Both, SeenFits
        <5>4. QED  BY <1>2, <3>2, <5>1, <5>3
      <4>4. QED  BY <4>1, <4>2, <4>3
    <3>3. QED  BY <3>1, <3>2
  <2>5. StoreSeen' = [id \in ScopeIds |->
                        IF \E k \in KindIds : Own(t)[k] = id
                          THEN StoreSeen[session[t][CHOOSE k \in KindIds : Own(t)[k] = id]]
                          ELSE StoreSeen[id]]
    <3>1. StoreSeen' = [id \in ScopeIds |-> StoreSeen'[id]]  BY DEF StoreSeen
    <3>2. QED  BY <2>4, <3>1
  <2>6. UNCHANGED shown  BY <1>1, <1>2, <1>13 DEF WellFormed
  <2>7. Promised!Fork(t)
    BY <2>2, <2>3, <2>5, <2>6, SameNames DEF Promised!Fork
  <2>8. QED  BY <2>7
<1>14. QED  BY <1>4, <1>5, <1>11, <1>12, <1>13

\* An update happens when its first scope is written: from then on the others
\* read as already changed.
LEMMA WriteIsSeen ==
  ASSUME Both, NEW t \in Tasks, Write(t)
  PROVE  \/ \E update \in Updates : Promised!Update(t, update)
         \/ UNCHANGED <<StoreSeen, SessionSeen, shown>>
<1> DEFINE n == next[t]
           id == session[t][n]
           update == changes[t]
<1>1. IInv /\ WellFormed /\ Assumed /\ TaskFits(t)  BY DEF Both, IInv
<1>2. /\ step[t] = "writing" /\ Goes(t, "unlocking")
      /\ values' = [values EXCEPT ![id] = Apply(n, values[id], update[n])]
      /\ UNCHANGED <<revision, lock, session, call, changes, copy, shown, calls>>
  BY DEF Write, Scope
<1>3. n \in {1, 2, 3} /\ n \in KindIds /\ id \in ScopeIds /\ call[t] = "apply"
  BY <1>1, <1>2, SessionIds, KindIdsAre DEF WellFormed, TaskFits, PhaseFits
<1>4. /\ n \in {1, 2} => step'[t] = "writing" /\ next'[t] = n + 1
      /\ n = 3 => step'[t] = "unlocking" /\ next'[t] = 1
      /\ \A u \in Tasks \ {t} : step'[u] = step[u] /\ next'[u] = next[u]
  BY <1>1, <1>2, GoesTo
<1>5. /\ values'[id] = Apply(n, values[id], update[n])
      /\ \A o \in ScopeIds \ {id} : values'[o] = values[o]
  BY <1>1, <1>2, <1>3 DEF WellFormed
<1>6. /\ \A u \in Tasks : Forked(u)' <=> Forked(u)
      /\ ~Forked(t)
  BY <1>2, <1>3, <1>4 DEF Forked
<1>7. ASSUME NEW k \in KindIds
      PROVE  /\ Writes(t, k) <=> n > 1 /\ k >= n
             /\ Writes(t, k)' <=> k > n
  <2>1. k \in {1, 2, 3}  BY KindIdsAre
  <2>2. CASE n \in {1, 2}  BY <1>2, <1>4, <2>1, <2>2 DEF Writes, Committed
  <2>3. CASE n = 3  BY <1>2, <1>4, <2>1, <2>3 DEF Writes, Committed
  <2>4. QED  BY <1>3, <2>2, <2>3
<1>8. \A u \in Tasks \ {t} : \A k \in KindIds : Writes(u, k)' <=> Writes(u, k)
  BY <1>4 DEF Writes, Committed
\* Once it began, and until it ends, the scopes read as the update leaves them.
<1>9. ASSUME NEW k \in KindIds
      PROVE  StoreSeen'[session[t][k]] =
               IF n = 1 THEN Apply(k, values[session[t][k]], update[k])
                        ELSE StoreSeen[session[t][k]]
  <2> DEFINE o == session[t][k]
  <2>1. o \in ScopeIds  BY <1>1, SessionIds
  <2>2. k \in {1, 2, 3}  BY KindIdsAre
  <2>3. Holds(t, k)  BY <1>2 DEF Holds
  <2>4. Holds(t, k)'  BY <1>2, <1>3, <1>4, KindIdsAre DEF Holds
  <2>5. CASE k > n
    <3>1. Writes(t, k)'  BY <1>7, <2>5
    <3>2. StoreSeen'[session'[t][k]] = Apply(k, values'[session'[t][k]], changes'[t][k])
      BY <3>1 DEF Both, SeenFits
    <3>3. o # id  BY <1>1, <1>3, <2>5, <2>2, SessionIds
    <3>4. StoreSeen'[o] = Apply(k, values[o], update[k])
      BY <1>2, <1>5, <2>1, <3>2, <3>3
    <3>5. CASE n = 1  BY <3>4, <3>5
    <3>6. CASE n # 1
      <4>1. Writes(t, k)  BY <1>3, <1>7, <2>2, <2>5, <3>6
      <4>2. StoreSeen[o] = Apply(k, values[o], update[k])  BY <4>1 DEF Both, SeenFits
      <4>3. QED  BY <3>4, <3>6, <4>2
    <3>7. QED  BY <3>5, <3>6
  <2>6. CASE k <= n
    <3>1. StoreSeen'[o] = values'[o]
      <4>1. ~Writes(t, k)'  BY <1>3, <1>7, <2>2, <2>6
      <4>2. (StoreSeen[session[t][k]])' = (values[session[t][k]])'
        <5>1. IInv' /\ SeenFits' /\ Holds(t, k)' /\ ~Writes(t, k)' /\ ~Forked(t)'
          BY <1>6, <2>4, <4>1 DEF Both
        <5>2. QED  BY <5>1, HeldIsSeenNext
      <4>3. QED  BY <1>2, <4>2
    <3>2. CASE k = n
      <4>1. StoreSeen'[o] = Apply(k, values[o], update[k])  BY <1>5, <3>1, <3>2
      <4>2. CASE n = 1  BY <4>1, <4>2
      <4>3. CASE n # 1
        <5>1. Writes(t, k)  BY <1>3, <1>7, <3>2, <4>3
        <5>2. StoreSeen[o] = Apply(k, values[o], update[k])  BY <5>1 DEF Both, SeenFits
        <5>3. QED  BY <4>1, <4>3, <5>2
      <4>4. QED  BY <4>2, <4>3
    <3>3. CASE k < n
      <4>1. ~Writes(t, k) /\ n # 1  BY <1>3, <1>7, <2>2, <3>3
      <4>2. StoreSeen[o] = values[o]  BY <1>1, <1>6, <2>3, <4>1, HeldIsSeen DEF Both
      <4>3. o # id  BY <1>1, <1>3, <3>3, <2>2, SessionIds
      <4>4. QED  BY <1>5, <2>1, <3>1, <4>1, <4>2, <4>3
    <3>4. QED  BY <1>3, <2>2, <2>6, <3>2, <3>3
  <2>7. QED  BY <1>3, <2>2, <2>5, <2>6
<1>10. ASSUME NEW o \in ScopeIds, \A k \in KindIds : session[t][k] # o
       PROVE  StoreSeen'[o] = StoreSeen[o]
  <2>1. o # id /\ values'[o] = values[o]  BY <1>3, <1>5, <1>10
  <2>2. CASE \E u \in Tasks : \E k \in KindIds : Forked(u) /\ Own(u)[k] = o
    <3>1. PICK u \in Tasks, k \in KindIds : Forked(u) /\ Own(u)[k] = o  BY <2>2
    <3>2. StoreSeen[Own(u)[k]] = copy[u][k]  BY <3>1 DEF Both, SeenFits
    <3>3. StoreSeen'[Own(u)[k]] = copy'[u][k]  BY <1>6, <3>1 DEF Both, SeenFits
    <3>4. QED  BY <1>2, <3>1, <3>2, <3>3
  <2>3. CASE \E u \in Tasks : \E k \in KindIds : Writes(u, k) /\ session[u][k] = o
    <3>1. PICK u \in Tasks, k \in KindIds : Writes(u, k) /\ session[u][k] = o  BY <2>3
    <3>2. u # t  BY <1>10, <3>1
    <3>3. Writes(u, k)'  BY <1>8, <3>1, <3>2
    <3>4. StoreSeen[session[u][k]] = Apply(k, values[session[u][k]], changes[u][k])
      BY <3>1 DEF Both, SeenFits
    <3>5. StoreSeen'[session'[u][k]] = Apply(k, values'[session'[u][k]], changes'[u][k])
      BY <3>3 DEF Both, SeenFits
    <3>6. QED  BY <1>2, <2>1, <3>1, <3>4, <3>5
  <2>4. CASE \A u \in Tasks : \A k \in KindIds :
               /\ Forked(u) => Own(u)[k] # o
               /\ Writes(u, k) => session[u][k] # o
    <3>1. StoreSeen[o] = values[o]  BY <2>4 DEF Both, SeenFits
    <3>2. ASSUME NEW u \in Tasks, NEW k \in KindIds
          PROVE  /\ Forked(u)' => Own(u)[k] # o
                 /\ Writes(u, k)' => session'[u][k] # o
      <4>1. CASE u = t  BY <1>2, <1>6, <1>10, <2>4, <4>1
      <4>2. CASE u # t  BY <1>2, <1>6, <1>8, <2>4, <4>2
      <4>3. QED  BY <4>1, <4>2
    <3>3. StoreSeen'[o] = values'[o]  BY <3>2 DEF Both, SeenFits
    <3>4. QED  BY <2>1, <3>1, <3>3
  <2>5. QED  BY <2>2, <2>3, <2>4
<1>11. UNCHANGED <<SessionSeen, shown>>
  <2>1. \A u \in Tasks : SessionSeen'[u] = SessionSeen[u]  BY <1>2, <1>6 DEF SessionSeen
  <2>2. QED  BY <1>2, <2>1, SeenEqual
<1>12. CASE n # 1
  <2>1. ASSUME NEW o \in ScopeIds PROVE StoreSeen'[o] = StoreSeen[o]
    <3>1. CASE \E k \in KindIds : session[t][k] = o  BY <1>9, <1>12, <3>1
    <3>2. CASE \A k \in KindIds : session[t][k] # o  BY <1>10, <3>2
    <3>3. QED  BY <3>1, <3>2
  <2>2. QED  BY <1>11, <2>1, SeenEqual
<1>13. CASE n = 1
  <2>1. ASSUME NEW k \in KindIds PROVE StoreSeen[session[t][k]] = values[session[t][k]]
    <3>1. Holds(t, k) /\ ~Writes(t, k)  BY <1>2, <1>7, <1>13 DEF Holds
    <3>2. QED  BY <1>1, <1>6, <3>1, HeldIsSeen DEF Both
  <2>2. \A k \in KindIds : WithinLimits(StoreSeen[session[t][k]], update[k])
    BY <1>1, <1>2, <1>13, <2>1 DEF TaskFits, AcceptsFit, Accepts
  <2>3. SessionSeen[t] = session[t]
        /\ Promised!Snapshot(t) = [k \in KindIds |-> StoreSeen[session[t][k]]]
    BY <1>6, SnapshotIs
  <2>4. ASSUME NEW o \in ScopeIds
        PROVE  StoreSeen'[o] =
                 IF \E k \in KindIds : session[t][k] = o
                   THEN LET k == CHOOSE k \in KindIds : session[t][k] = o
                        IN  Apply(k, StoreSeen[o], update[k])
                   ELSE StoreSeen[o]
    <3>1. CASE \E k \in KindIds : session[t][k] = o
      <4>1. PICK k \in KindIds : session[t][k] = o  BY <3>1
      <4>2. (CHOOSE j \in KindIds : session[t][j] = o) = k  BY <1>1, <4>1, SessionIds
      <4>3. StoreSeen'[o] = Apply(k, StoreSeen[o], update[k])
        BY <1>9, <1>13, <2>1, <4>1
      <4>4. QED  BY <3>1, <4>2, <4>3
    <3>2. CASE \A k \in KindIds : session[t][k] # o  BY <1>10, <3>2
    <3>3. QED  BY <3>1, <3>2
  <2>5. StoreSeen' = [o \in ScopeIds |->
                        IF \E k \in KindIds : session[t][k] = o
                          THEN LET k == CHOOSE k \in KindIds : session[t][k] = o
                               IN  Apply(k, StoreSeen[o], update[k])
                          ELSE StoreSeen[o]]
    <3>1. StoreSeen' = [o \in ScopeIds |-> StoreSeen'[o]]  BY DEF StoreSeen
    <3>2. QED  BY <2>4, <3>1
  <2>6. update \in Updates  BY <1>1 DEF WellFormed
  <2>7. Promised!Update(t, update)
    BY <1>11, <2>2, <2>3, <2>5, SameNames DEF Promised!Update
  <2>8. QED  BY <2>6, <2>7
<1>14. QED  BY <1>12, <1>13

\* The scopes of a fork are in place when it is returned.
LEMMA LeavesUnseen ==
  ASSUME Both, NEW t \in Tasks, Leaves(t)
  PROVE  UNCHANGED <<StoreSeen, SessionSeen, shown>>
<1> DEFINE n == next[t]
<1>1. IInv /\ WellFormed /\ Assumed /\ TaskFits(t)  BY DEF Both, IInv
<1>2. step[t] = "unlocking" /\ call[t] = "fork" /\ Unlocked(t)
      /\ UNCHANGED <<call, changes, shown, calls>>
  BY DEF Leaves
<1>3. /\ n \in {1, 2} => step'[t] = "unlocking" /\ next'[t] = n + 1
      /\ n = 3 => step'[t] = "idle" /\ next'[t] = 1
      /\ n \in {1, 2, 3}
      /\ \A u \in Tasks \ {t} : step'[u] = step[u] /\ next'[u] = next[u]
  BY <1>1, <1>2, GoesTo DEF Unlocked
<1>4. Forked(t) /\ ~Committed(t) /\ ~Committed(t)'
  BY <1>2, <1>3 DEF Forked, Committed
<1>5. CASE n < 3
  <2>1. UNCHANGED <<values, revision, session, copy>>  BY <1>5 DEF Leaves
  <2>2. Forked(t)'  BY <1>2, <1>3, <1>5 DEF Forked
  <2>3. ASSUME NEW u \in Tasks
        PROVE  /\ Forked(u)' <=> Forked(u)
               /\ Forked(u) => copy'[u] = copy[u]
               /\ Committed(u)' <=> Committed(u)
               /\ Committed(u) => next'[u] = next[u] /\ changes'[u] = changes[u]
    <3>1. CASE u = t  BY <1>4, <2>1, <2>2, <3>1
    <3>2. CASE u # t  BY <1>2, <1>3, <2>1, <3>2 DEF Forked, Committed
    <3>3. QED  BY <3>1, <3>2
  <2>4. QED  BY <1>2, <2>1, <2>3, NothingSeen
<1>6. CASE n = 3
  <2>1. /\ session' = [session EXCEPT ![t] = Own(t)]
        /\ copy' = [copy EXCEPT ![t] = <<>>]
        /\ values' = [id \in ScopeIds |->
                        IF id \in ToSet(Own(t)) THEN copy[t][CHOOSE j \in KindIds : Own(t)[j] = id]
                        ELSE values[id]]
    BY <1>6 DEF Leaves
  <2>2. ~Forked(t)'  BY <1>3, <1>6 DEF Forked
  <2>3. \A u \in Tasks \ {t} : /\ Forked(u)' <=> Forked(u)
                               /\ copy'[u] = copy[u] /\ session'[u] = session[u]
                               /\ \A k \in KindIds : Writes(u, k)' <=> Writes(u, k)
    BY <1>1, <1>2, <1>3, <2>1 DEF Forked, Writes, Committed, WellFormed
  <2>4. \A k \in KindIds : ~Writes(t, k) /\ ~Writes(t, k)'  BY <1>4 DEF Writes
  <2>5. ASSUME NEW k \in KindIds PROVE StoreSeen'[Own(t)[k]] = StoreSeen[Own(t)[k]]
    <3> DEFINE id == Own(t)[k]
    <3>1. id \in ScopeIds /\ id \in ToSet(Own(t))  BY <1>1, IdsDiffer, InOwn
    <3>2. (CHOOSE j \in KindIds : Own(t)[j] = id) = k  BY <1>1, IdsDiffer
    <3>3. values'[id] = copy[t][k]  BY <2>1, <3>1, <3>2
    <3>4. StoreSeen[id] = copy[t][k]  BY <1>4 DEF Both, SeenFits
    <3>5. ASSUME NEW u \in Tasks, NEW j \in KindIds
          PROVE  /\ Forked(u)' => Own(u)[j] # id
                 /\ Writes(u, j)' => session'[u][j] # id
      <4>1. CASE u = t  BY <2>2, <2>4, <4>1
      <4>2. CASE u # t  BY <1>1, <2>3, <4>2, IdsDiffer, SessionIds
      <4>3. QED  BY <4>1, <4>2
    <3>6. StoreSeen'[id] = values'[id]  BY <3>1, <3>5 DEF Both, SeenFits
    <3>7. QED  BY <3>3, <3>4, <3>6
  <2>6. ASSUME NEW o \in ScopeIds, \A k \in KindIds : Own(t)[k] # o
        PROVE  StoreSeen'[o] = StoreSeen[o]
    <3>1. values'[o] = values[o]  BY <2>1, <2>6, InOwn
    <3>2. CASE \E u \in Tasks : \E k \in KindIds : Forked(u) /\ Own(u)[k] = o
      <4>1. PICK u \in Tasks, k \in KindIds : Forked(u) /\ Own(u)[k] = o  BY <3>2
      <4>2. u # t  BY <2>6, <4>1
      <4>3. StoreSeen[Own(u)[k]] = copy[u][k]  BY <4>1 DEF Both, SeenFits
      <4>4. StoreSeen'[Own(u)[k]] = copy'[u][k]  BY <2>3, <4>1, <4>2 DEF Both, SeenFits
      <4>5. QED  BY <2>3, <4>1, <4>2, <4>3, <4>4
    <3>3. CASE \E u \in Tasks : \E k \in KindIds : Writes(u, k) /\ session[u][k] = o
      <4>1. PICK u \in Tasks, k \in KindIds : Writes(u, k) /\ session[u][k] = o  BY <3>3
      <4>2. u # t  BY <2>4, <4>1
      <4>3. Writes(u, k)'  BY <2>3, <4>1, <4>2
      <4>4. StoreSeen[session[u][k]] = Apply(k, values[session[u][k]], changes[u][k])
        BY <4>1 DEF Both, SeenFits
      <4>5. StoreSeen'[session'[u][k]] = Apply(k, values'[session'[u][k]], changes'[u][k])
        BY <4>3 DEF Both, SeenFits
      <4>6. session'[u] = session[u] /\ changes' = changes  BY <1>2, <2>3, <4>2
      <4>7. QED  BY <3>1, <4>1, <4>4, <4>5, <4>6
    <3>4. CASE \A u \in Tasks : \A k \in KindIds :
                 /\ Forked(u) => Own(u)[k] # o
                 /\ Writes(u, k) => session[u][k] # o
      <4>1. StoreSeen[o] = values[o]  BY <3>4 DEF Both, SeenFits
      <4>2. ASSUME NEW u \in Tasks, NEW k \in KindIds
            PROVE  /\ Forked(u)' => Own(u)[k] # o
                   /\ Writes(u, k)' => session'[u][k] # o
        <5>1. CASE u = t  BY <2>2, <2>4, <5>1
        <5>2. CASE u # t  BY <2>3, <3>4, <5>2
        <5>3. QED  BY <5>1, <5>2
      <4>3. StoreSeen'[o] = values'[o]  BY <4>2 DEF Both, SeenFits
      <4>4. QED  BY <3>1, <4>1, <4>3
    <3>5. QED  BY <3>2, <3>3, <3>4
  <2>7. ASSUME NEW o \in ScopeIds PROVE StoreSeen'[o] = StoreSeen[o]
    <3>1. CASE \E k \in KindIds : Own(t)[k] = o  BY <2>5, <3>1
    <3>2. CASE \A k \in KindIds : Own(t)[k] # o  BY <2>6, <3>2
    <3>3. QED  BY <3>1, <3>2
  <2>8. ASSUME NEW u \in Tasks PROVE SessionSeen'[u] = SessionSeen[u]
    <3>1. CASE u = t  BY <1>1, <1>4, <2>1, <2>2, <3>1 DEF SessionSeen, WellFormed
    <3>2. CASE u # t  BY <2>3, <3>2 DEF SessionSeen
    <3>3. QED  BY <3>1, <3>2
  <2>9. QED  BY <1>2, <2>7, <2>8, SeenEqual
<1>7. QED  BY <1>3, <1>5, <1>6

LEMMA StepIsSeen == Both /\ [Next]_vars => [Promised!Next]_(Promised!vars)
<1> SUFFICES ASSUME Both, [Next]_vars PROVE [Promised!Next]_(Promised!vars)  OBVIOUS
<1>1. CASE UNCHANGED vars
  <2>1. StoreSeen' = StoreSeen /\ SessionSeen' = SessionSeen /\ shown' = shown
    BY <1>1 DEF vars, StoreSeen, SessionSeen, Forked, Committed
  <2>2. QED  BY <2>1 DEF Promised!vars
<1>2. ASSUME NEW t \in Tasks, Calls(t) \/ Step(t)
      PROVE  Promised!Next \/ UNCHANGED Promised!vars
  <2>1. CASE Calls(t) \/ Lock(t) \/ Check(t) \/ Unlock(t) \/ Count(t)
    BY <2>1, QuietSteps DEF Promised!vars
  <2>2. CASE Write(t)  BY <2>2, WriteIsSeen DEF Promised!vars, Promised!Next
  <2>3. CASE Copy(t)  BY <2>3, CopyIsSeen DEF Promised!vars, Promised!Next
  <2>4. CASE Leaves(t)  BY <2>4, LeavesUnseen DEF Promised!vars
  <2>5. QED  BY <1>2, <2>1, <2>2, <2>3, <2>4 DEF Step
<1>3. QED  BY <1>1, <1>2 DEF Next

LEMMA SeenAtFirst == Init => Promised!Init
<1> SUFFICES ASSUME Init PROVE Promised!Init  OBVIOUS
<1>1. \A t \in Tasks : ~Forked(t) /\ ~Committed(t)  BY DEF Init, Forked, Committed
<1>2. StoreSeen = [id \in ScopeIds |-> NoChanges]  BY <1>1 DEF StoreSeen, Init
<1>3. SessionSeen = [t \in Tasks |-> Shared(PathOf[t])]  BY <1>1 DEF SessionSeen, Init
<1>4. shown = [t \in Tasks |-> [k \in KindIds |-> NoChanges]]  BY DEF Init
<1>5. QED  BY <1>2, <1>3, <1>4, SameNames DEF Promised!Init

(***************************************************************************)
(* session.rs:128 "a snapshot never mixes changes from before and after an *)
(* update": the session, with its three locks, implements VariableStore,   *)
(* in which an update, a snapshot and a fork are one step each.            *)
(***************************************************************************)
THEOREM UpdatesAlwaysAtomic == ASSUME Assumed PROVE Spec => UpdatesAreAtomic
<1>1. Init => Promised!Init  BY SeenAtFirst
<1>2. IInv => SeenFits  BY SeenRight
<1>3. IInv /\ SeenFits /\ IInv' /\ SeenFits' /\ [Next]_vars => [Promised!Next]_(Promised!vars)
  BY StepIsSeen DEF Both
<1>4. Spec => []IInv  BY InvariantHolds, PTL
<1>5. QED  BY <1>1, <1>2, <1>3, <1>4, PTL DEF Spec, UpdatesAreAtomic, Promised!Spec

-----------------------------------------------------------------------------
(***************************************************************************)
(* AgentThread: any number of messages, choices and troubles.              *)
(***************************************************************************)

(***************************************************************************)
(* What the panel, the agent and the two channels between them hold.       *)
(***************************************************************************)
OptionsShown == [mode : A!Modes \union {"none"}, effort : {"none", "default", "exact"}]
IsSetting(option, value) == <<option, value>> \in ({"mode"} \X A!Modes) \union {<<"effort", "exact">>}
AgentCommands ==
  [do : {"prompt"}, briefs : BOOLEAN] \union [do : {"cancel"}]
    \union [do : {"set"}, option : {"mode"}, value : A!Modes]
    \union [do : {"set"}, option : {"effort"}, value : {"exact"}]
AgentEvents ==
  [on : {"started", "options"}, options : OptionsShown]
    \union [on : {"rejected", "permission", "ended", "dropped", "failed"}]
PanelStates ==
  [session : {"none", "starting", "connecting", "ready"}, failed : BOOLEAN, running : BOOLEAN,
   queued : BOOLEAN, briefed : BOOLEAN, onItsWay : BOOLEAN, question : BOOLEAN, auto : BOOLEAN,
   makingExact : BOOLEAN, shown : OptionsShown, confirmed : OptionsShown]
AgentStates ==
  [turn : {"none", "working", "asking", "ending"}, mode : A!Modes \union {"none"},
   effort : {"none", "default", "exact"}]

AgentTyped ==
  /\ panel \in PanelStates /\ agent \in AgentStates
  /\ commands \in Seq(AgentCommands) /\ agentEvents \in Seq(AgentEvents)
  /\ \A change \in unanswered : IsSetting(change.option, change.value)
  /\ waiting = [at |-> waiting.at, briefs |-> waiting.briefs, needs |-> waiting.needs,
                 compares |-> waiting.compares]
  /\ waiting.at \in {"none", "waiting"} /\ waiting.briefs \in BOOLEAN
  /\ waiting.at = "none" => waiting = A!NoPrompt
  /\ briefings \in Seq(BOOLEAN)

(***************************************************************************)
(* Where a session stands, and what can be on its way then.                *)
(***************************************************************************)
SessionFits ==
  /\ panel.failed => panel.session = "none"
  /\ panel.session # "ready" =>
       /\ commands = <<>> /\ unanswered = {} /\ waiting = A!NoPrompt /\ agent.turn = "none"
       /\ \A i \in DOMAIN agentEvents : agentEvents[i].on \in {"started", "failed"}
       /\ ~panel.question
       /\ ~panel.failed => ~panel.briefed /\ ~panel.onItsWay /\ briefings = <<>>
  /\ panel.session \in {"none", "starting"} => agentEvents = <<>> /\ agent = A!NoAgent
  /\ \A i \in DOMAIN agentEvents : agentEvents[i].on = "started" => i = 1 /\ panel.session = "connecting"
  /\ panel.queued => panel.running /\ panel.session # "ready"
  /\ agent.mode = "none" => agent = A!NoAgent
  /\ agent = A!NoAgent => unanswered = {} /\ waiting = A!NoPrompt

(***************************************************************************)
(* A message under way is in one place.                                    *)
(***************************************************************************)
InCommands == \E i \in DOMAIN commands : commands[i].do = "prompt"
InEvents == \E i \in DOMAIN agentEvents : agentEvents[i].on \in {"ended", "dropped"}
PromptWaits == waiting.at = "waiting"
InTurn == agent.turn # "none"

OneMessage ==
  /\ \A i, j \in DOMAIN commands : commands[i].do = "prompt" /\ commands[j].do = "prompt" => i = j
  /\ \A i, j \in DOMAIN agentEvents :
       agentEvents[i].on \in {"ended", "dropped"} /\ agentEvents[j].on \in {"ended", "dropped"} => i = j
  /\ InCommands => ~PromptWaits /\ ~InTurn /\ ~InEvents
  /\ PromptWaits => ~InTurn /\ ~InEvents
  /\ InTurn => ~InEvents
  /\ InCommands \/ PromptWaits \/ InTurn \/ InEvents => panel.running /\ panel.briefed

\* A question comes before the end of its turn.
QuestionsFit ==
  /\ panel.question => panel.running
  /\ \A i \in DOMAIN agentEvents : agentEvents[i].on = "permission" =>
       /\ panel.running
       /\ ~InCommands /\ ~PromptWaits
       /\ \A j \in DOMAIN agentEvents : agentEvents[j].on \in {"ended", "dropped"} => i < j

(***************************************************************************)
(* What briefs the agent is the first prompt to reach it.                  *)
(***************************************************************************)
BriefingsFit ==
  /\ ~panel.briefed => briefings = <<>> /\ ~panel.onItsWay
  /\ \A i \in DOMAIN commands : commands[i].do = "prompt" =>
       commands[i].briefs = (briefings = <<>>) /\ panel.onItsWay = (briefings = <<>>)
  /\ PromptWaits => waiting.briefs = (briefings = <<>>) /\ panel.onItsWay = (briefings = <<>>)
  /\ InTurn => briefings # <<>>
  /\ \A i \in DOMAIN agentEvents : agentEvents[i].on = "ended" => briefings # <<>>
  /\ \A i \in DOMAIN agentEvents : agentEvents[i].on = "dropped" => panel.onItsWay = (briefings = <<>>)
  /\ ~panel.running /\ panel.briefed /\ ~panel.failed => briefings # <<>>

WaitsFit == PromptWaits => earlier = waiting.needs

AgentInv ==
  /\ AgentTyped /\ SessionFits /\ OneMessage /\ QuestionsFit /\ BriefingsFit /\ WaitsFit
  /\ A!FirstPromptBriefs

-----------------------------------------------------------------------------
(***************************************************************************)
(* Both channels: what is appended comes last, what is taken was first.    *)
(***************************************************************************)
LEMMA AppendsCommand ==
  ASSUME NEW T, NEW s \in Seq(T), NEW e \in T
  PROVE  /\ Append(s, e) \in Seq(T)
         /\ DOMAIN Append(s, e) = 1 .. Len(s) + 1 /\ DOMAIN s = 1 .. Len(s) /\ Len(s) \in Nat
         /\ \A i \in DOMAIN s : Append(s, e)[i] = s[i]
         /\ Append(s, e)[Len(s) + 1] = e
         /\ \A i \in DOMAIN Append(s, e) : i \in DOMAIN s \/ i = Len(s) + 1
  OBVIOUS

LEMMA TakesFirst ==
  ASSUME NEW T, NEW s \in Seq(T), s # <<>>
  PROVE  /\ Tail(s) \in Seq(T) /\ Head(s) = s[1] /\ 1 \in DOMAIN s
         /\ \A i \in DOMAIN Tail(s) : i \in Nat /\ i >= 1 /\ i + 1 \in DOMAIN s /\ Tail(s)[i] = s[i + 1]
  OBVIOUS

LEMMA PanelTyped == AgentInv => panel \in PanelStates /\ agent \in AgentStates /\ asksFirst = asksFirst
  BY DEF AgentInv, AgentTyped

LEMMA AgentInit == A!Init => AgentInv
<1> SUFFICES ASSUME A!Init PROVE AgentInv  OBVIOUS
<1>1. /\ panel \in PanelStates /\ panel.session = "starting" /\ ~panel.running /\ ~panel.failed
      /\ ~panel.queued /\ ~panel.briefed /\ ~panel.onItsWay /\ ~panel.question
  BY DEF A!Init, A!Started, A!NewThreadPanel, PanelStates, OptionsShown
<1>2. /\ commands = <<>> /\ unanswered = {} /\ waiting = A!NoPrompt /\ agentEvents = <<>> /\ agent = A!NoAgent
      /\ briefings = <<>>
  BY DEF A!Init
<1>3. AgentTyped  BY <1>1, <1>2 DEF AgentTyped, A!NoPrompt, A!NoAgent, AgentStates
<1>4. SessionFits  BY <1>1, <1>2 DEF SessionFits, A!NoPrompt, A!NoAgent
<1>5. OneMessage /\ QuestionsFit /\ BriefingsFit /\ WaitsFit /\ A!FirstPromptBriefs
  BY <1>1, <1>2 DEF OneMessage, QuestionsFit, BriefingsFit, WaitsFit, A!FirstPromptBriefs, InCommands, InEvents,
    PromptWaits, InTurn, A!NoPrompt, A!NoAgent
<1>6. QED  BY <1>3, <1>4, <1>5 DEF AgentInv

(***************************************************************************)
(* A new thread, and the variables read.                                   *)
(***************************************************************************)
LEMMA Anew == ASSUME AgentInv, A!NewThread PROVE AgentInv'
<1>1. /\ panel' \in PanelStates /\ panel'.session = "starting" /\ ~panel'.running /\ ~panel'.failed
      /\ ~panel'.queued /\ ~panel'.briefed /\ ~panel'.onItsWay /\ ~panel'.question
  BY DEF A!NewThread, A!Started, A!NewThreadPanel, PanelStates, OptionsShown
<1>2. /\ commands' = <<>> /\ unanswered' = {} /\ waiting' = A!NoPrompt /\ agentEvents' = <<>>
      /\ agent' = A!NoAgent /\ briefings' = <<>>
  BY DEF A!NewThread, A!Disconnected
<1>3. AgentTyped'  BY <1>1, <1>2 DEF AgentTyped, A!NoPrompt, A!NoAgent, AgentStates
<1>4. SessionFits'  BY <1>1, <1>2 DEF SessionFits, A!NoPrompt, A!NoAgent
<1>5. (OneMessage /\ QuestionsFit /\ BriefingsFit /\ WaitsFit /\ A!FirstPromptBriefs)'
  BY <1>1, <1>2 DEF OneMessage, QuestionsFit, BriefingsFit, WaitsFit, A!FirstPromptBriefs, InCommands, InEvents,
    PromptWaits, InTurn, A!NoPrompt, A!NoAgent
<1>6. QED  BY <1>3, <1>4, <1>5 DEF AgentInv

LEMMA ReadsEnvironment == ASSUME AgentInv, A!ReadsVariables PROVE AgentInv'
<1>0. AgentTyped /\ SessionFits /\ OneMessage /\ QuestionsFit /\ BriefingsFit /\ WaitsFit /\ A!FirstPromptBriefs
  BY DEF AgentInv
<1>1. /\ panel' \in PanelStates /\ panel.session = "starting" /\ ~panel.failed
      /\ panel'.briefed = panel.briefed /\ panel'.onItsWay = panel.onItsWay /\ panel'.question = panel.question
      /\ panel'.session \in {"connecting", "none"} /\ (panel'.failed => panel'.session = "none")
      /\ (panel'.queued => panel'.running) /\ (panel'.running = panel.running \/ panel'.failed)
  BY <1>0 DEF A!ReadsVariables, PanelStates, AgentTyped, SessionFits
<1>2. /\ commands' = commands /\ unanswered' = unanswered /\ waiting' = waiting /\ agentEvents' = agentEvents /\ agent' = agent
      /\ briefings' = briefings /\ earlier' = earlier
  BY DEF A!ReadsVariables, A!Connection
<1>3. AgentTyped'
  BY <1>0, <1>1, <1>2 DEF AgentTyped, AgentStates, OptionsShown, A!Modes
<1>4. SessionFits'
  BY <1>0, <1>1, <1>2, <1>3 DEF SessionFits, A!NoAgent, AgentTyped
<1>5. OneMessage'
  BY <1>0, <1>1, <1>2, <1>3 DEF OneMessage, InCommands, InEvents, PromptWaits, InTurn, SessionFits
<1>6. QuestionsFit'
  BY <1>0, <1>1, <1>2, <1>3 DEF QuestionsFit, InCommands, InEvents, PromptWaits, InTurn, OneMessage, SessionFits
<1>7. BriefingsFit'
  BY <1>0, <1>1, <1>2, <1>3 DEF BriefingsFit, PromptWaits, InTurn, InCommands, InEvents, OneMessage, SessionFits, AgentTyped
<1>8. WaitsFit'
  BY <1>0, <1>1, <1>2, <1>3 DEF WaitsFit, PromptWaits, OneMessage
<1>9. A!FirstPromptBriefs'
  BY <1>0, <1>1, <1>2, <1>3 DEF A!FirstPromptBriefs, BriefingsFit, AgentTyped
<1> QED  BY <1>3, <1>4, <1>5, <1>6, <1>7, <1>8, <1>9 DEF AgentInv

LEMMA QueuesMessage == ASSUME AgentInv, A!Send, panel.session # "ready" PROVE AgentInv'
<1>0. AgentTyped /\ SessionFits /\ OneMessage /\ QuestionsFit /\ BriefingsFit /\ WaitsFit /\ A!FirstPromptBriefs
  BY DEF AgentInv
<1>1. /\ panel' \in PanelStates /\ ~panel.running /\ panel'.running /\ ~panel.failed /\ ~panel'.failed
      /\ panel'.briefed = panel.briefed /\ panel'.onItsWay = panel.onItsWay /\ panel'.question = panel.question
      /\ panel'.session # "ready"
      /\ panel'.session = panel.session \/ (panel.session = "none" /\ panel'.session = "starting")
  <2>1. panel \in PanelStates /\ ~panel.running /\ ~panel.failed  BY <1>0 DEF A!Send, AgentTyped
  <2>2. CASE panel.session = "none"
    <3>1. panel' = A!Started([panel EXCEPT !.running = TRUE, !.queued = TRUE])  BY <2>2 DEF A!Send
    <3>2. QED  BY <2>1, <2>2, <3>1 DEF A!Started, PanelStates
  <2>3. CASE panel.session # "none"
    <3>1. panel' = [panel EXCEPT !.running = TRUE, !.queued = TRUE]  BY <2>3 DEF A!Send
    <3>2. panel' \in PanelStates  BY <2>1, <3>1 DEF PanelStates
    <3>3. /\ panel'.running /\ ~panel'.failed /\ panel'.briefed = panel.briefed
          /\ panel'.onItsWay = panel.onItsWay /\ panel'.question = panel.question /\ panel'.session = panel.session
      BY <2>1, <3>1 DEF PanelStates
    <3>4. QED  BY <2>1, <3>2, <3>3 DEF PanelStates
  <2>4. QED  BY <2>2, <2>3
<1>2. /\ commands' = commands /\ unanswered' = unanswered /\ waiting' = waiting /\ agentEvents' = agentEvents /\ agent' = agent
      /\ briefings' = briefings /\ earlier' = earlier
  BY DEF A!Send
<1>3. AgentTyped'
  BY <1>0, <1>1, <1>2 DEF AgentTyped, AgentStates, OptionsShown, A!Modes
<1>4. SessionFits'
  BY <1>0, <1>1, <1>2, <1>3 DEF SessionFits, A!NoAgent, AgentTyped
<1>5. OneMessage'
  BY <1>0, <1>1, <1>2, <1>3 DEF OneMessage, InCommands, InEvents, PromptWaits, InTurn, SessionFits
<1>6. QuestionsFit'
  BY <1>0, <1>1, <1>2, <1>3 DEF QuestionsFit, InCommands, InEvents, PromptWaits, InTurn, OneMessage, SessionFits
<1>7. BriefingsFit'
  BY <1>0, <1>1, <1>2, <1>3 DEF BriefingsFit, PromptWaits, InTurn, InCommands, InEvents, OneMessage, SessionFits, AgentTyped
<1>8. WaitsFit'
  BY <1>0, <1>1, <1>2, <1>3 DEF WaitsFit, PromptWaits, OneMessage
<1>9. A!FirstPromptBriefs'
  BY <1>0, <1>1, <1>2, <1>3 DEF A!FirstPromptBriefs, BriefingsFit, AgentTyped
<1> QED  BY <1>3, <1>4, <1>5, <1>6, <1>7, <1>8, <1>9 DEF AgentInv

LEMMA SendsMessage == ASSUME AgentInv, A!Send, panel.session = "ready" PROVE AgentInv'
<1>0. AgentTyped /\ SessionFits /\ OneMessage /\ QuestionsFit /\ BriefingsFit /\ WaitsFit /\ A!FirstPromptBriefs
  BY DEF AgentInv
<1>1. /\ panel' \in PanelStates /\ ~panel.running /\ panel'.running /\ ~panel.failed /\ ~panel'.failed
      /\ panel'.briefed /\ panel'.onItsWay = ~panel.briefed /\ panel'.question = panel.question
      /\ panel'.session = "ready" /\ panel'.queued = panel.queued
  BY ZenonT(40), <1>0 DEF A!Send, A!Prompted, PanelStates, AgentTyped, SessionFits
<1>2. /\ unanswered' = unanswered /\ waiting' = waiting /\ agentEvents' = agentEvents /\ agent' = agent
      /\ briefings' = briefings /\ earlier' = earlier
  BY DEF A!Send
<1>3. A!Prompt(~panel.briefed) \in AgentCommands
  BY <1>0 DEF AgentTyped, PanelStates, AgentCommands, A!Prompt
<1>4. /\ commands' \in Seq(AgentCommands)
      /\ DOMAIN commands' = 1 .. Len(commands) + 1 /\ DOMAIN commands = 1 .. Len(commands) /\ Len(commands) \in Nat
      /\ \A i \in DOMAIN commands : commands'[i] = commands[i]
      /\ commands'[Len(commands) + 1].do = "prompt"
      /\ commands'[Len(commands) + 1].briefs = ~panel.briefed
      /\ \A i \in DOMAIN commands' : i \in DOMAIN commands \/ i = Len(commands) + 1
  <2>1. commands' = Append(commands, A!Prompt(~panel.briefed)) /\ commands \in Seq(AgentCommands)
    BY <1>0 DEF A!Send, AgentTyped
  <2>2. A!Prompt(~panel.briefed).do = "prompt" /\ A!Prompt(~panel.briefed).briefs = ~panel.briefed
    BY DEF A!Prompt
  <2>3. QED  BY <1>3, <2>1, <2>2, AppendsCommand
<1>5. /\ ~InCommands /\ ~PromptWaits /\ ~InTurn /\ ~InEvents /\ ~panel.queued /\ (panel.briefed = (briefings # <<>>))
  BY <1>0, <1>1 DEF OneMessage, SessionFits, BriefingsFit, AgentTyped, PanelStates
<1>6. AgentTyped'
  BY <1>0, <1>1, <1>2, <1>3, <1>4, <1>5 DEF AgentTyped, AgentStates, OptionsShown, A!Modes
<1>7. SessionFits'
  BY <1>0, <1>1, <1>2, <1>3, <1>4, <1>5, <1>6 DEF SessionFits, A!NoAgent, AgentTyped
<1>8. OneMessage'
  BY <1>0, <1>1, <1>2, <1>3, <1>4, <1>5, <1>6 DEF OneMessage, InCommands, InEvents, PromptWaits, InTurn, SessionFits
<1>9. QuestionsFit'
  BY <1>0, <1>1, <1>2, <1>3, <1>4, <1>5, <1>6 DEF QuestionsFit, InCommands, InEvents, PromptWaits, InTurn, OneMessage, SessionFits
<1>10. BriefingsFit'
  BY <1>0, <1>1, <1>2, <1>4, <1>5, <1>6 DEF BriefingsFit, PromptWaits, InTurn, InCommands, InEvents
<1>11. WaitsFit'
  BY <1>0, <1>1, <1>2, <1>3, <1>4, <1>5, <1>6 DEF WaitsFit, PromptWaits, OneMessage
<1>12. A!FirstPromptBriefs'
  BY <1>0, <1>1, <1>2, <1>3, <1>4, <1>5, <1>6 DEF A!FirstPromptBriefs, BriefingsFit, AgentTyped
<1> QED  BY <1>6, <1>7, <1>8, <1>9, <1>10, <1>11, <1>12 DEF AgentInv

LEMMA StopsTurn == ASSUME AgentInv, A!Stop PROVE AgentInv'
<1>0. AgentTyped /\ SessionFits /\ OneMessage /\ QuestionsFit /\ BriefingsFit /\ WaitsFit /\ A!FirstPromptBriefs
  BY DEF AgentInv
<1>1. /\ panel' \in PanelStates /\ panel.running /\ panel'.failed = panel.failed /\ panel'.session = panel.session
      /\ panel'.briefed = panel.briefed /\ panel'.onItsWay = panel.onItsWay
      /\ ~panel'.question /\ (panel'.queued => panel.queued) /\ (panel'.running = panel.running \/ (panel.session # "ready" /\ ~panel'.queued))
      /\ (panel'.queued => panel'.running)
  BY ZenonT(40), <1>0 DEF A!Stop, PanelStates, AgentTyped, SessionFits
<1>2. /\ unanswered' = unanswered /\ waiting' = waiting /\ agentEvents' = agentEvents /\ briefings' = briefings /\ earlier' = earlier
  BY DEF A!Stop
<1>3. /\ agent' \in AgentStates /\ agent'.mode = agent.mode /\ (agent = A!NoAgent => agent' = agent)
      /\ (agent'.turn = "none" <=> agent.turn = "none")
  BY <1>0 DEF A!Stop, A!Answered, AgentStates, AgentTyped, A!NoAgent
<1>4. /\ commands' \in Seq(AgentCommands)
      /\ \A i \in DOMAIN commands' : (i \in DOMAIN commands /\ commands'[i] = commands[i]) \/ commands'[i].do = "cancel"
      /\ panel.session # "ready" => commands' = commands
  <2>1. CASE panel.session = "ready"
    <3>1. commands' = Append(commands, [do |-> "cancel"]) /\ commands \in Seq(AgentCommands)
      BY <1>0, <2>1 DEF A!Stop, AgentTyped
    <3>2. [do |-> "cancel"] \in AgentCommands /\ [do |-> "cancel"].do = "cancel"  BY DEF AgentCommands
    <3>3. QED  BY <2>1, <3>1, <3>2, AppendsCommand
  <2>2. CASE panel.session # "ready"
    <3>1. commands' = commands /\ commands \in Seq(AgentCommands)  BY <1>0, <2>2 DEF A!Stop, AgentTyped
    <3>2. QED  BY <2>2, <3>1
  <2>3. QED  BY <2>1, <2>2
<1>5. panel.session # "ready" => ~InCommands /\ ~PromptWaits /\ ~InTurn /\ ~InEvents
  BY <1>0 DEF SessionFits, InCommands, PromptWaits, InTurn, InEvents, A!NoPrompt
<1>6. AgentTyped'
  BY <1>0, <1>1, <1>2, <1>3, <1>4, <1>5 DEF AgentTyped, AgentStates, OptionsShown, A!Modes
<1>7. SessionFits'
  BY <1>0, <1>1, <1>2, <1>3, <1>4, <1>5, <1>6 DEF SessionFits, A!NoAgent, AgentTyped
<1>8. OneMessage'
  BY <1>0, <1>1, <1>2, <1>3, <1>4, <1>5, <1>6 DEF OneMessage, InCommands, InEvents, PromptWaits, InTurn, SessionFits
<1>9. QuestionsFit'
  BY <1>0, <1>1, <1>2, <1>3, <1>4, <1>5, <1>6 DEF QuestionsFit, InCommands, InEvents, PromptWaits, InTurn, OneMessage, SessionFits
<1>10. BriefingsFit'
  BY <1>0, <1>1, <1>2, <1>3, <1>4, <1>5, <1>6 DEF BriefingsFit, PromptWaits, InTurn, InCommands, InEvents, OneMessage, SessionFits, AgentTyped
<1>11. WaitsFit'
  BY <1>0, <1>1, <1>2, <1>3, <1>4, <1>5, <1>6 DEF WaitsFit, PromptWaits, OneMessage
<1>12. A!FirstPromptBriefs'
  BY <1>0, <1>1, <1>2, <1>3, <1>4, <1>5, <1>6 DEF A!FirstPromptBriefs, BriefingsFit, AgentTyped
<1> QED  BY <1>6, <1>7, <1>8, <1>9, <1>10, <1>11, <1>12 DEF AgentInv

LEMMA Decides == ASSUME AgentInv, A!Decide PROVE AgentInv'
<1>0. AgentTyped /\ SessionFits /\ OneMessage /\ QuestionsFit /\ BriefingsFit /\ WaitsFit /\ A!FirstPromptBriefs
  BY DEF AgentInv
<1>1. /\ panel' \in PanelStates /\ panel.question /\ panel'.failed = panel.failed /\ panel'.session = panel.session /\ panel'.running = panel.running /\ panel'.queued = panel.queued
      /\ panel'.briefed = panel.briefed /\ panel'.onItsWay = panel.onItsWay
      /\ ~panel'.question
  BY <1>0 DEF A!Decide, PanelStates, AgentTyped
<1>2. /\ commands' = commands /\ unanswered' = unanswered /\ waiting' = waiting /\ agentEvents' = agentEvents /\ briefings' = briefings /\ earlier' = earlier
  BY DEF A!Decide
<1>3. /\ agent' \in AgentStates /\ agent'.mode = agent.mode /\ (agent = A!NoAgent => agent' = agent)
      /\ (agent'.turn = "none" <=> agent.turn = "none")
  <2>1. agent \in AgentStates  BY <1>0 DEF AgentTyped
  <2>2. CASE agent' = agent  BY <2>1, <2>2
  <2>3. CASE agent' = [agent EXCEPT !.turn = "working"] /\ agent.turn = "asking"
    BY <2>1, <2>3 DEF AgentStates, A!NoAgent
  <2>4. QED  BY <2>2, <2>3 DEF A!Decide, A!Answered
<1>4. AgentTyped'
  BY <1>0, <1>1, <1>2, <1>3 DEF AgentTyped, AgentStates, OptionsShown, A!Modes
<1>5. SessionFits'
  BY <1>0, <1>1, <1>2, <1>3, <1>4 DEF SessionFits, A!NoAgent, AgentTyped
<1>6. OneMessage'
  BY <1>0, <1>1, <1>2, <1>3, <1>4 DEF OneMessage, InCommands, InEvents, PromptWaits, InTurn, SessionFits
<1>7. QuestionsFit'
  BY <1>0, <1>1, <1>2, <1>3, <1>4 DEF QuestionsFit, InCommands, InEvents, PromptWaits, InTurn, OneMessage, SessionFits
<1>8. BriefingsFit'
  BY <1>0, <1>1, <1>2, <1>3, <1>4 DEF BriefingsFit, PromptWaits, InTurn, InCommands, InEvents, OneMessage, SessionFits, AgentTyped
<1>9. WaitsFit'
  BY <1>0, <1>1, <1>2, <1>3, <1>4 DEF WaitsFit, PromptWaits, OneMessage
<1>10. A!FirstPromptBriefs'
  BY <1>0, <1>1, <1>2, <1>3, <1>4 DEF A!FirstPromptBriefs, BriefingsFit, AgentTyped
<1> QED  BY <1>4, <1>5, <1>6, <1>7, <1>8, <1>9, <1>10 DEF AgentInv

LEMMA Picks == ASSUME AgentInv, NEW mode \in A!Modes, A!PickMode(mode) PROVE AgentInv'
<1>0. AgentTyped /\ SessionFits /\ OneMessage /\ QuestionsFit /\ BriefingsFit /\ WaitsFit /\ A!FirstPromptBriefs
  BY DEF AgentInv
<1>1. /\ panel' \in PanelStates /\ panel.session = "ready" /\ panel'.failed = panel.failed /\ panel'.session = panel.session /\ panel'.running = panel.running /\ panel'.queued = panel.queued
      /\ panel'.briefed = panel.briefed /\ panel'.onItsWay = panel.onItsWay /\ panel'.question = panel.question
  BY <1>0 DEF A!PickMode, A!Chose, PanelStates, AgentTyped, OptionsShown
<1>2. /\ unanswered' = unanswered /\ waiting' = waiting /\ agentEvents' = agentEvents /\ briefings' = briefings /\ earlier' = earlier /\ agent' = agent
  BY DEF A!PickMode
<1>3. /\ commands' \in Seq(AgentCommands)
      /\ \A i \in DOMAIN commands' : (i \in DOMAIN commands /\ commands'[i] = commands[i]) \/ commands'[i].do = "set"
  <2>1. commands' = Append(commands, A!SetOption("mode", mode)) /\ commands \in Seq(AgentCommands)
      BY <1>0 DEF A!PickMode, AgentTyped
    <2>2. A!SetOption("mode", mode) \in AgentCommands /\ A!SetOption("mode", mode).do = "set"  BY DEF AgentCommands, A!SetOption
    <2>3. QED  BY <2>1, <2>2, AppendsCommand
<1>4. AgentTyped'
  BY <1>0, <1>1, <1>2, <1>3 DEF AgentTyped, AgentStates, OptionsShown, A!Modes
<1>5. SessionFits'
  BY <1>0, <1>1, <1>2, <1>3, <1>4 DEF SessionFits, A!NoAgent, AgentTyped
<1>6. OneMessage'
  BY <1>0, <1>1, <1>2, <1>3, <1>4 DEF OneMessage, InCommands, InEvents, PromptWaits, InTurn, SessionFits
<1>7. QuestionsFit'
  BY <1>0, <1>1, <1>2, <1>3, <1>4 DEF QuestionsFit, InCommands, InEvents, PromptWaits, InTurn, OneMessage, SessionFits
<1>8. BriefingsFit'
  BY <1>0, <1>1, <1>2, <1>3, <1>4 DEF BriefingsFit, PromptWaits, InTurn, InCommands, InEvents, OneMessage, SessionFits, AgentTyped
<1>9. WaitsFit'
  BY <1>0, <1>1, <1>2, <1>3, <1>4 DEF WaitsFit, PromptWaits, OneMessage
<1>10. A!FirstPromptBriefs'
  BY <1>0, <1>1, <1>2, <1>3, <1>4 DEF A!FirstPromptBriefs, BriefingsFit, AgentTyped
<1> QED  BY <1>4, <1>5, <1>6, <1>7, <1>8, <1>9, <1>10 DEF AgentInv

-----------------------------------------------------------------------------
LEMMA TakesEvent ==
  ASSUME AgentInv, NEW on, A!Took(on)
  PROVE  /\ agentEvents' \in Seq(AgentEvents) /\ 1 \in DOMAIN agentEvents /\ agentEvents[1].on = on /\ A!Next1 = agentEvents[1]
         /\ agentEvents[1] \in AgentEvents
         /\ \A i \in DOMAIN agentEvents' :
              i \in Nat /\ i >= 1 /\ i + 1 \in DOMAIN agentEvents /\ agentEvents'[i] = agentEvents[i + 1]
<1>1. agentEvents \in Seq(AgentEvents) /\ agentEvents # <<>>  BY DEF A!Took, AgentInv, AgentTyped
<1>2. /\ Tail(agentEvents) \in Seq(AgentEvents) /\ Head(agentEvents) = agentEvents[1] /\ 1 \in DOMAIN agentEvents
      /\ \A i \in DOMAIN Tail(agentEvents) :
           i \in Nat /\ i >= 1 /\ i + 1 \in DOMAIN agentEvents /\ Tail(agentEvents)[i] = agentEvents[i + 1]
  BY <1>1
<1>3. QED  BY <1>1, <1>2 DEF A!Took, A!Next1

LEMMA TakesCommand ==
  ASSUME AgentInv, commands # <<>>, commands' = Tail(commands)
  PROVE  /\ commands' \in Seq(AgentCommands) /\ 1 \in DOMAIN commands /\ Head(commands) = commands[1]
         /\ commands[1] \in AgentCommands
         /\ \A i \in DOMAIN commands' :
              i \in Nat /\ i >= 1 /\ i + 1 \in DOMAIN commands /\ commands'[i] = commands[i + 1]
<1>1. commands \in Seq(AgentCommands)  BY DEF AgentInv, AgentTyped
<1>2. /\ Tail(commands) \in Seq(AgentCommands) /\ Head(commands) = commands[1] /\ 1 \in DOMAIN commands
      /\ \A i \in DOMAIN Tail(commands) :
           i \in Nat /\ i >= 1 /\ i + 1 \in DOMAIN commands /\ Tail(commands)[i] = commands[i + 1]
  BY <1>1
<1>3. QED  BY <1>1, <1>2

\* Only changes of options, and those are no prompts.
OnlySets(more) == more \in Seq(AgentCommands) /\ \A i \in DOMAIN more : more[i].do = "set"

LEMMA ConcatSets ==
  ASSUME NEW first, NEW then, OnlySets(first), OnlySets(then)
  PROVE  OnlySets(first \o then)
<1>1. first \in Seq(AgentCommands) /\ then \in Seq(AgentCommands)  BY DEF OnlySets
<1>2. first \o then \in Seq(AgentCommands)  BY <1>1
<1>3. ASSUME NEW i \in DOMAIN (first \o then) PROVE (first \o then)[i].do = "set"
  <2>1. i \in 1 .. Len(first) + Len(then) /\ Len(first) \in Nat /\ Len(then) \in Nat  BY <1>1, <1>3
  <2>2. CASE i <= Len(first)
    <3>1. (first \o then)[i] = first[i] /\ i \in DOMAIN first  BY <1>1, <2>1, <2>2
    <3>2. QED  BY <3>1 DEF OnlySets
  <2>3. CASE i > Len(first)
    <3>1. (first \o then)[i] = then[i - Len(first)] /\ i - Len(first) \in DOMAIN then
      BY <1>1, <2>1, <2>3
    <3>2. QED  BY <3>1 DEF OnlySets
  <2>4. QED  BY <2>1, <2>2, <2>3
<1>4. QED  BY <1>2, <1>3 DEF OnlySets

LEMMA SendsSets ==
  ASSUME AgentInv, NEW more, OnlySets(more), A!Sends(more)
  PROVE  /\ commands' \in Seq(AgentCommands)
         /\ \A i \in DOMAIN commands' :
              (i \in DOMAIN commands /\ commands'[i] = commands[i]) \/ commands'[i].do = "set"
<1>1. commands \in Seq(AgentCommands) /\ more \in Seq(AgentCommands) /\ commands' = commands \o more
  BY DEF AgentInv, AgentTyped, OnlySets, A!Sends
<1>2. ASSUME NEW i \in DOMAIN commands'
      PROVE  (i \in DOMAIN commands /\ commands'[i] = commands[i]) \/ commands'[i].do = "set"
  <2>1. i \in 1 .. Len(commands) + Len(more) /\ Len(commands) \in Nat /\ Len(more) \in Nat  BY <1>1, <1>2
  <2>2. CASE i <= Len(commands)  BY <1>1, <2>1, <2>2
  <2>3. CASE i > Len(commands)
    <3>1. commands'[i] = more[i - Len(commands)] /\ i - Len(commands) \in DOMAIN more
      BY <1>1, <2>1, <2>3
    <3>2. QED  BY <3>1 DEF OnlySets
  <2>4. QED  BY <2>1, <2>2, <2>3
<1>3. QED  BY <1>1, <1>2

LEMMA SetsOne ==
  ASSUME NEW option, NEW value, IsSetting(option, value)
  PROVE  A!SetOption(option, value) \in AgentCommands /\ OnlySets(<<A!SetOption(option, value)>>)
<1>1. A!SetOption(option, value) \in AgentCommands /\ A!SetOption(option, value).do = "set"
  BY DEF IsSetting, A!SetOption, AgentCommands
<1>2. QED  BY <1>1 DEF OnlySets

LEMMA SetsNone == OnlySets(<<>>)  BY DEF OnlySets

(***************************************************************************)
(* What may be exact becomes so; nothing else of a panel changes.          *)
(***************************************************************************)
LEMMA ExactChanges ==
  ASSUME NEW to \in PanelStates
  PROVE  /\ A!Exact(to).panel \in PanelStates /\ OnlySets(A!Exact(to).sends)
         /\ A!Exact(to).panel.session = to.session /\ A!Exact(to).panel.failed = to.failed
         /\ A!Exact(to).panel.running = to.running /\ A!Exact(to).panel.queued = to.queued
         /\ A!Exact(to).panel.briefed = to.briefed /\ A!Exact(to).panel.onItsWay = to.onItsWay
         /\ A!Exact(to).panel.question = to.question
<1>1. CASE A!AsksForExact(to)
  <2>1. /\ A!Exact(to).panel = A!Chose([to EXCEPT !.makingExact = TRUE], "effort", "exact")
        /\ A!Exact(to).sends = <<A!SetOption("effort", "exact")>>
    BY <1>1 DEF A!Exact
  <2>2. OnlySets(A!Exact(to).sends)  BY <2>1, SetsOne DEF IsSetting
  <2>3. A!Exact(to).panel \in PanelStates
    <3>1. to.shown \in OptionsShown  BY DEF PanelStates
    <3>2. [to.shown EXCEPT !["effort"] = "exact"] \in OptionsShown  BY <3>1 DEF OptionsShown
    <3>3. A!Exact(to).panel = [to EXCEPT !.makingExact = TRUE, !.shown = [to.shown EXCEPT !["effort"] = "exact"]]
      BY <2>1 DEF A!Chose, PanelStates
    <3>4. QED  BY <3>2, <3>3 DEF PanelStates
  <2>4. QED  BY <2>1, <2>2, <2>3 DEF A!Chose, PanelStates
<1>2. CASE ~A!AsksForExact(to)
  <2>1. /\ A!Exact(to).panel = [to EXCEPT !.makingExact = @ /\ to.shown.effort = "default"]
        /\ A!Exact(to).sends = <<>>
    BY <1>2 DEF A!Exact
  <2>2. OnlySets(A!Exact(to).sends)  BY <2>1, SetsNone
  <2>3. A!Exact(to).panel \in PanelStates  BY <2>1 DEF PanelStates
  <2>4. QED  BY <2>1, <2>2, <2>3 DEF PanelStates
<1>3. QED  BY <1>1, <1>2

LEMMA TakesOptions == ASSUME AgentInv, A!HandleOptions PROVE AgentInv'
<1>0. AgentTyped /\ SessionFits /\ OneMessage /\ QuestionsFit /\ BriefingsFit /\ WaitsFit /\ A!FirstPromptBriefs
  BY DEF AgentInv
<1>1. /\ agentEvents' \in Seq(AgentEvents) /\ 1 \in DOMAIN agentEvents /\ agentEvents[1].on = "options"
      /\ \A i \in DOMAIN agentEvents' : i \in Nat /\ i >= 1 /\ i + 1 \in DOMAIN agentEvents /\ agentEvents'[i] = agentEvents[i + 1]
  BY TakesEvent DEF A!HandleOptions
<1>2. panel.session = "ready"
  BY <1>0, <1>1 DEF SessionFits
<1>3. /\ panel' \in PanelStates /\ panel'.failed = panel.failed /\ panel'.session = panel.session /\ panel'.running = panel.running /\ panel'.queued = panel.queued
      /\ panel'.briefed = panel.briefed /\ panel'.onItsWay = panel.onItsWay /\ panel'.question = panel.question
  <2>1. A!Next1.options \in OptionsShown  BY <1>0, <1>1, TakesEvent DEF A!HandleOptions, AgentEvents
  <2>2. panel \in PanelStates  BY <1>0 DEF AgentTyped
  <2>3. [panel EXCEPT !.shown = A!Next1.options, !.confirmed = A!Next1.options] \in PanelStates  BY <2>1, <2>2 DEF PanelStates
  <2>4. panel' = A!Exact([panel EXCEPT !.shown = A!Next1.options, !.confirmed = A!Next1.options]).panel
    BY DEF A!HandleOptions
  <2> DEFINE to == [panel EXCEPT !.shown = A!Next1.options, !.confirmed = A!Next1.options]
  <2>5. /\ to.session = panel.session /\ to.failed = panel.failed /\ to.running = panel.running /\ to.queued = panel.queued
        /\ to.briefed = panel.briefed /\ to.onItsWay = panel.onItsWay /\ to.question = panel.question
    BY <2>2 DEF PanelStates
  <2>6. QED  BY <2>3, <2>4, <2>5, ExactChanges
<1>4. /\ unanswered' = unanswered /\ waiting' = waiting /\ briefings' = briefings /\ earlier' = earlier /\ agent' = agent
  BY DEF A!HandleOptions
<1>5. /\ commands' \in Seq(AgentCommands)
      /\ \A i \in DOMAIN commands' : (i \in DOMAIN commands /\ commands'[i] = commands[i]) \/ commands'[i].do = "set"
  <2>1. A!Next1.options \in OptionsShown  BY <1>0, <1>1, TakesEvent DEF A!HandleOptions, AgentEvents
  <2>2. [panel EXCEPT !.shown = A!Next1.options, !.confirmed = A!Next1.options] \in PanelStates
    BY <1>0, <2>1 DEF PanelStates, AgentTyped
  <2>3. A!Sends(A!Exact([panel EXCEPT !.shown = A!Next1.options, !.confirmed = A!Next1.options]).sends)
    BY DEF A!HandleOptions
  <2>4. QED  BY <2>2, <2>3, ExactChanges, SendsSets
<1>6. AgentTyped'
  BY <1>0, <1>1, <1>2, <1>3, <1>4, <1>5 DEF AgentTyped, AgentStates, OptionsShown, A!Modes
<1>7. SessionFits'
  BY <1>0, <1>1, <1>2, <1>3, <1>4, <1>5, <1>6 DEF SessionFits, A!NoAgent, AgentTyped
<1>8. OneMessage'
  <2>1. (InCommands' => InCommands) /\ (InEvents' => InEvents) /\ (PromptWaits' <=> PromptWaits) /\ (InTurn' <=> InTurn)
    BY <1>1, <1>4, <1>5 DEF InCommands, InEvents, PromptWaits, InTurn
  <2>2. \A i, j \in DOMAIN commands' : commands'[i].do = "prompt" /\ commands'[j].do = "prompt" => i = j
    BY <1>0, <1>5 DEF OneMessage
  <2>3. \A i, j \in DOMAIN agentEvents' :
          agentEvents'[i].on \in {"ended", "dropped"} /\ agentEvents'[j].on \in {"ended", "dropped"} => i = j
    <3>1. ASSUME NEW i \in DOMAIN agentEvents', NEW j \in DOMAIN agentEvents',
                 agentEvents'[i].on \in {"ended", "dropped"}, agentEvents'[j].on \in {"ended", "dropped"}
          PROVE  i = j
      <4>1. i + 1 = j + 1  BY <1>0, <1>1, <3>1 DEF OneMessage
      <4>2. QED  BY <1>1, <4>1
    <3>2. QED  BY <3>1
  <2>4. QED  BY <1>0, <1>3, <2>1, <2>2, <2>3 DEF OneMessage
<1>9. QuestionsFit'
  <2>1. (InCommands' => InCommands) /\ (PromptWaits' <=> PromptWaits)  BY <1>4, <1>5 DEF InCommands, PromptWaits
  <2>2. ASSUME NEW i \in DOMAIN agentEvents', agentEvents'[i].on = "permission"
        PROVE  /\ panel'.running /\ ~InCommands' /\ ~PromptWaits'
               /\ \A j \in DOMAIN agentEvents' : agentEvents'[j].on \in {"ended", "dropped"} => i < j
    <3>1. i + 1 \in DOMAIN agentEvents /\ agentEvents[i + 1].on = "permission"  BY <1>1, <2>2
    <3>2. /\ panel.running /\ ~InCommands /\ ~PromptWaits
          /\ \A j \in DOMAIN agentEvents : agentEvents[j].on \in {"ended", "dropped"} => i + 1 < j
      BY <1>0, <3>1 DEF QuestionsFit
    <3>3. ASSUME NEW j \in DOMAIN agentEvents', agentEvents'[j].on \in {"ended", "dropped"} PROVE i < j
      <4>1. j + 1 \in DOMAIN agentEvents /\ agentEvents[j + 1].on \in {"ended", "dropped"} /\ i \in Nat /\ j \in Nat
        BY <1>1, <2>2, <3>3
      <4>2. i + 1 < j + 1  BY <3>2, <4>1
      <4>3. QED  BY <4>1, <4>2
    <3>4. QED  BY <1>3, <2>1, <3>2, <3>3
  <2>3. QED  BY <1>0, <1>3, <2>2 DEF QuestionsFit
<1>10. BriefingsFit'
  BY ZenonT(40), <1>0, <1>1, <1>2, <1>3, <1>4, <1>5, <1>6 DEF BriefingsFit, PromptWaits, InTurn, InCommands, InEvents, OneMessage, SessionFits, AgentTyped
<1>11. WaitsFit'
  BY <1>0, <1>1, <1>2, <1>3, <1>4, <1>5, <1>6 DEF WaitsFit, PromptWaits, OneMessage
<1>12. A!FirstPromptBriefs'
  BY <1>0, <1>1, <1>2, <1>3, <1>4, <1>5, <1>6 DEF A!FirstPromptBriefs, BriefingsFit, AgentTyped
<1> QED  BY <1>6, <1>7, <1>8, <1>9, <1>10, <1>11, <1>12 DEF AgentInv

LEMMA TakesRejection == ASSUME AgentInv, A!HandleRejected PROVE AgentInv'
<1>0. AgentTyped /\ SessionFits /\ OneMessage /\ QuestionsFit /\ BriefingsFit /\ WaitsFit /\ A!FirstPromptBriefs
  BY DEF AgentInv
<1>1. /\ agentEvents' \in Seq(AgentEvents) /\ 1 \in DOMAIN agentEvents /\ agentEvents[1].on = "rejected"
      /\ \A i \in DOMAIN agentEvents' : i \in Nat /\ i >= 1 /\ i + 1 \in DOMAIN agentEvents /\ agentEvents'[i] = agentEvents[i + 1]
  BY TakesEvent DEF A!HandleRejected
<1>2. panel.session = "ready"
  BY <1>0, <1>1 DEF SessionFits
<1>3. /\ panel' \in PanelStates /\ panel'.failed = panel.failed /\ panel'.session = panel.session /\ panel'.running = panel.running /\ panel'.queued = panel.queued
      /\ panel'.briefed = panel.briefed /\ panel'.onItsWay = panel.onItsWay /\ panel'.question = panel.question
  BY <1>0 DEF A!HandleRejected, PanelStates, AgentTyped
<1>4. /\ unanswered' = unanswered /\ waiting' = waiting /\ briefings' = briefings /\ earlier' = earlier /\ commands' = commands /\ agent' = agent
  BY DEF A!HandleRejected
<1>5. AgentTyped'
  BY <1>0, <1>1, <1>2, <1>3, <1>4 DEF AgentTyped, AgentStates, OptionsShown, A!Modes
<1>6. SessionFits'
  BY <1>0, <1>1, <1>2, <1>3, <1>4, <1>5 DEF SessionFits, A!NoAgent, AgentTyped
<1>7. OneMessage'
  BY <1>0, <1>1, <1>2, <1>3, <1>4, <1>5 DEF OneMessage, InCommands, InEvents, PromptWaits, InTurn, SessionFits
<1>8. QuestionsFit'
  BY <1>0, <1>1, <1>2, <1>3, <1>4, <1>5 DEF QuestionsFit, InCommands, InEvents, PromptWaits, InTurn, OneMessage, SessionFits
<1>9. BriefingsFit'
  BY <1>0, <1>1, <1>2, <1>3, <1>4, <1>5 DEF BriefingsFit, PromptWaits, InTurn, InCommands, InEvents, OneMessage, SessionFits, AgentTyped
<1>10. WaitsFit'
  BY <1>0, <1>1, <1>2, <1>3, <1>4, <1>5 DEF WaitsFit, PromptWaits, OneMessage
<1>11. A!FirstPromptBriefs'
  BY <1>0, <1>1, <1>2, <1>3, <1>4, <1>5 DEF A!FirstPromptBriefs, BriefingsFit, AgentTyped
<1> QED  BY <1>5, <1>6, <1>7, <1>8, <1>9, <1>10, <1>11 DEF AgentInv

LEMMA TakesQuestion == ASSUME AgentInv, A!HandlePermission PROVE AgentInv'
<1>0. AgentTyped /\ SessionFits /\ OneMessage /\ QuestionsFit /\ BriefingsFit /\ WaitsFit /\ A!FirstPromptBriefs
  BY DEF AgentInv
<1>1. /\ agentEvents' \in Seq(AgentEvents) /\ 1 \in DOMAIN agentEvents /\ agentEvents[1].on = "permission"
      /\ \A i \in DOMAIN agentEvents' : i \in Nat /\ i >= 1 /\ i + 1 \in DOMAIN agentEvents /\ agentEvents'[i] = agentEvents[i + 1]
  BY TakesEvent DEF A!HandlePermission
<1>2. panel.session = "ready"
  BY <1>0, <1>1 DEF SessionFits
<1>3. /\ panel' \in PanelStates /\ panel'.failed = panel.failed /\ panel'.session = panel.session /\ panel'.running = panel.running /\ panel'.queued = panel.queued
      /\ panel'.briefed = panel.briefed /\ panel'.onItsWay = panel.onItsWay
  BY <1>0 DEF A!HandlePermission, PanelStates, AgentTyped
<1>4. /\ unanswered' = unanswered /\ waiting' = waiting /\ briefings' = briefings /\ earlier' = earlier /\ commands' = commands
  BY DEF A!HandlePermission
<1>5. /\ agent' \in AgentStates /\ agent'.mode = agent.mode /\ (agent = A!NoAgent => agent' = agent)
      /\ (agent'.turn = "none" <=> agent.turn = "none")
  BY <1>0 DEF A!HandlePermission, AgentStates, AgentTyped, A!NoAgent
<1>6. AgentTyped'
  BY <1>0, <1>1, <1>2, <1>3, <1>4, <1>5 DEF AgentTyped, AgentStates, OptionsShown, A!Modes
<1>7. SessionFits'
  BY <1>0, <1>1, <1>2, <1>3, <1>4, <1>5, <1>6 DEF SessionFits, A!NoAgent, AgentTyped
<1>8. OneMessage'
  BY <1>0, <1>1, <1>2, <1>3, <1>4, <1>5, <1>6 DEF OneMessage, InCommands, InEvents, PromptWaits, InTurn, SessionFits
<1>9. QuestionsFit'
  BY <1>0, <1>1, <1>2, <1>3, <1>4, <1>5, <1>6 DEF QuestionsFit, InCommands, InEvents, PromptWaits, InTurn, OneMessage, SessionFits
<1>10. BriefingsFit'
  BY <1>0, <1>1, <1>2, <1>3, <1>4, <1>5, <1>6 DEF BriefingsFit, PromptWaits, InTurn, InCommands, InEvents, OneMessage, SessionFits, AgentTyped
<1>11. WaitsFit'
  BY <1>0, <1>1, <1>2, <1>3, <1>4, <1>5, <1>6 DEF WaitsFit, PromptWaits, OneMessage
<1>12. A!FirstPromptBriefs'
  BY <1>0, <1>1, <1>2, <1>3, <1>4, <1>5, <1>6 DEF A!FirstPromptBriefs, BriefingsFit, AgentTyped
<1> QED  BY <1>6, <1>7, <1>8, <1>9, <1>10, <1>11, <1>12 DEF AgentInv

LEMMA TakesEnd == ASSUME AgentInv, A!HandleTurnEnded PROVE AgentInv'
<1>0. AgentTyped /\ SessionFits /\ OneMessage /\ QuestionsFit /\ BriefingsFit /\ WaitsFit /\ A!FirstPromptBriefs
  BY DEF AgentInv
<1>1. /\ agentEvents' \in Seq(AgentEvents) /\ 1 \in DOMAIN agentEvents /\ agentEvents[1].on = "ended"
      /\ \A i \in DOMAIN agentEvents' : i \in Nat /\ i >= 1 /\ i + 1 \in DOMAIN agentEvents /\ agentEvents'[i] = agentEvents[i + 1]
  BY TakesEvent DEF A!HandleTurnEnded
<1>2. panel.session = "ready"
  BY <1>0, <1>1 DEF SessionFits
<1>3. /\ panel' \in PanelStates /\ panel'.failed = panel.failed /\ panel'.session = panel.session /\ panel'.queued = panel.queued
      /\ panel'.briefed = panel.briefed /\ ~panel'.running /\ ~panel'.onItsWay /\ ~panel'.question
  BY <1>0 DEF A!HandleTurnEnded, A!TurnOver, PanelStates, AgentTyped
<1>4. /\ unanswered' = unanswered /\ waiting' = waiting /\ briefings' = briefings /\ earlier' = earlier /\ commands' = commands /\ agent' = agent
  BY DEF A!HandleTurnEnded
<1>5. AgentTyped'
  BY <1>0, <1>1, <1>2, <1>3, <1>4 DEF AgentTyped, AgentStates, OptionsShown, A!Modes
<1>6. SessionFits'
  BY <1>0, <1>1, <1>2, <1>3, <1>4, <1>5 DEF SessionFits, A!NoAgent, AgentTyped
<1>7. OneMessage'
  BY <1>0, <1>1, <1>2, <1>3, <1>4, <1>5 DEF OneMessage, InCommands, InEvents, PromptWaits, InTurn, SessionFits
<1>8. QuestionsFit'
  BY <1>0, <1>1, <1>2, <1>3, <1>4, <1>5 DEF QuestionsFit, InCommands, InEvents, PromptWaits, InTurn, OneMessage, SessionFits
<1>9. BriefingsFit'
  BY <1>0, <1>1, <1>2, <1>3, <1>4, <1>5 DEF BriefingsFit, PromptWaits, InTurn, InCommands, InEvents, OneMessage, SessionFits, AgentTyped
<1>10. WaitsFit'
  BY <1>0, <1>1, <1>2, <1>3, <1>4, <1>5 DEF WaitsFit, PromptWaits, OneMessage
<1>11. A!FirstPromptBriefs'
  BY <1>0, <1>1, <1>2, <1>3, <1>4, <1>5 DEF A!FirstPromptBriefs, BriefingsFit, AgentTyped
<1> QED  BY <1>5, <1>6, <1>7, <1>8, <1>9, <1>10, <1>11 DEF AgentInv

LEMMA TakesDrop == ASSUME AgentInv, A!HandleDropped PROVE AgentInv'
<1>0. AgentTyped /\ SessionFits /\ OneMessage /\ QuestionsFit /\ BriefingsFit /\ WaitsFit /\ A!FirstPromptBriefs
  BY DEF AgentInv
<1>1. /\ agentEvents' \in Seq(AgentEvents) /\ 1 \in DOMAIN agentEvents /\ agentEvents[1].on = "dropped"
      /\ \A i \in DOMAIN agentEvents' : i \in Nat /\ i >= 1 /\ i + 1 \in DOMAIN agentEvents /\ agentEvents'[i] = agentEvents[i + 1]
  BY TakesEvent DEF A!HandleDropped
<1>2. panel.session = "ready"
  BY <1>0, <1>1 DEF SessionFits
<1>3. /\ panel' \in PanelStates /\ panel'.failed = panel.failed /\ panel'.session = panel.session /\ panel'.queued = panel.queued
      /\ (panel'.briefed <=> panel.briefed /\ ~panel.onItsWay) /\ ~panel'.running /\ ~panel'.onItsWay /\ ~panel'.question
  BY <1>0 DEF A!HandleDropped, A!TurnOver, A!BriefedStill, PanelStates, AgentTyped
<1>4. /\ unanswered' = unanswered /\ waiting' = waiting /\ briefings' = briefings /\ earlier' = earlier /\ commands' = commands /\ agent' = agent
  BY DEF A!HandleDropped
<1>5. ~InCommands /\ ~PromptWaits /\ ~InTurn /\ panel.briefed /\ panel.onItsWay = (briefings = <<>>)
  BY <1>0, <1>1 DEF OneMessage, BriefingsFit, InEvents
<1>6. \A i \in DOMAIN agentEvents' : agentEvents'[i].on \notin {"ended", "dropped"}
  BY <1>0, <1>1 DEF OneMessage
<1>7. AgentTyped'
  BY <1>0, <1>1, <1>2, <1>3, <1>4, <1>5, <1>6 DEF AgentTyped, AgentStates, OptionsShown, A!Modes
<1>8. SessionFits'
  BY <1>0, <1>1, <1>2, <1>3, <1>4, <1>5, <1>6, <1>7 DEF SessionFits, A!NoAgent, AgentTyped
<1>9. OneMessage'
  BY <1>0, <1>1, <1>2, <1>3, <1>4, <1>5, <1>6, <1>7 DEF OneMessage, InCommands, InEvents, PromptWaits, InTurn, SessionFits
<1>10. QuestionsFit'
  BY <1>0, <1>1, <1>2, <1>3, <1>4, <1>5, <1>6, <1>7 DEF QuestionsFit, InCommands, InEvents, PromptWaits, InTurn, OneMessage, SessionFits
<1>11. BriefingsFit'
  BY <1>0, <1>1, <1>2, <1>3, <1>4, <1>5, <1>6, <1>7 DEF BriefingsFit, PromptWaits, InTurn, InCommands, InEvents, OneMessage, SessionFits, AgentTyped
<1>12. WaitsFit'
  BY <1>0, <1>1, <1>2, <1>3, <1>4, <1>5, <1>6, <1>7 DEF WaitsFit, PromptWaits, OneMessage
<1>13. A!FirstPromptBriefs'
  BY <1>0, <1>1, <1>2, <1>3, <1>4, <1>5, <1>6, <1>7 DEF A!FirstPromptBriefs, BriefingsFit, AgentTyped
<1> QED  BY <1>7, <1>8, <1>9, <1>10, <1>11, <1>12, <1>13 DEF AgentInv

LEMMA ThreadEnds == ASSUME AgentInv, panel' \in PanelStates, panel'.session = "none", panel'.failed, ~panel'.running, ~panel'.queued,
    ~panel'.question, panel'.briefed = panel.briefed, panel'.onItsWay = panel.onItsWay, A!Disconnected, briefings' = briefings
  PROVE AgentInv'
<1>1. /\ commands' = <<>> /\ unanswered' = {} /\ waiting' = A!NoPrompt /\ agentEvents' = <<>>
      /\ agent' = A!NoAgent
  BY DEF A!Disconnected
<1>2. AgentTyped'  BY <1>1 DEF AgentInv, AgentTyped, A!NoPrompt, A!NoAgent, AgentStates
<1>3. SessionFits'  BY <1>1 DEF SessionFits, A!NoPrompt, A!NoAgent
<1>4. (OneMessage /\ QuestionsFit /\ WaitsFit)'
  BY <1>1 DEF OneMessage, QuestionsFit, WaitsFit, InCommands, InEvents, PromptWaits, InTurn, A!NoPrompt, A!NoAgent
<1>5. BriefingsFit'  BY <1>1 DEF AgentInv, BriefingsFit, PromptWaits, InTurn, A!NoPrompt, A!NoAgent
<1>6. A!FirstPromptBriefs'  BY <1>1 DEF AgentInv, A!FirstPromptBriefs
<1>7. QED  BY <1>2, <1>3, <1>4, <1>5, <1>6 DEF AgentInv

LEMMA TakesFailure == ASSUME AgentInv, A!HandleFailed PROVE AgentInv'
<1>1. panel \in PanelStates  BY DEF AgentInv, AgentTyped
<1>2. /\ panel' \in PanelStates /\ panel'.session = "none" /\ panel'.failed /\ ~panel'.running /\ ~panel'.queued
      /\ ~panel'.question /\ panel'.briefed = panel.briefed /\ panel'.onItsWay = panel.onItsWay
  BY <1>1 DEF A!HandleFailed, PanelStates
<1>3. A!Disconnected /\ briefings' = briefings  BY DEF A!HandleFailed
<1>4. QED  BY <1>2, <1>3, ThreadEnds

LEMMA TakesStart == ASSUME AgentInv, A!HandleStarted PROVE AgentInv'
<1>0. AgentTyped /\ SessionFits /\ OneMessage /\ QuestionsFit /\ BriefingsFit /\ WaitsFit /\ A!FirstPromptBriefs
  BY DEF AgentInv
<1>1. /\ agentEvents' \in Seq(AgentEvents) /\ 1 \in DOMAIN agentEvents /\ agentEvents[1].on = "started"
      /\ \A i \in DOMAIN agentEvents' : i \in Nat /\ i >= 1 /\ i + 1 \in DOMAIN agentEvents /\ agentEvents'[i] = agentEvents[i + 1]
  BY TakesEvent DEF A!HandleStarted
<1>2. panel.session = "connecting" /\ panel \in PanelStates
  BY <1>0, <1>1 DEF SessionFits, AgentTyped
<1>3. /\ ~InCommands /\ ~PromptWaits /\ ~InTurn /\ ~InEvents /\ commands = <<>> /\ ~panel.question /\ ~panel.failed
      /\ ~panel.briefed /\ ~panel.onItsWay /\ briefings = <<>>
  BY <1>0, <1>2 DEF SessionFits, A!NoPrompt, InCommands, InEvents, InTurn, PromptWaits
<1>4. \A i \in DOMAIN agentEvents' : agentEvents'[i].on = "failed"
  BY <1>0, <1>1, <1>2 DEF SessionFits
<1>5. /\ unanswered' = unanswered /\ waiting' = waiting /\ briefings' = briefings /\ earlier' = earlier /\ agent' = agent
  BY DEF A!HandleStarted
<1>6. \E sets : /\ OnlySets(sets)
               /\ \/ commands' = sets /\ ~panel.queued /\ panel'.briefed = panel.briefed /\ panel'.onItsWay = panel.onItsWay
                  \/ (\E p \in AgentCommands : p.do = "prompt" /\ p.briefs /\ commands' = sets \o <<p>>) /\ panel.queued /\ panel'.briefed /\ panel'.onItsWay
               /\ panel' \in PanelStates /\ panel'.session = "ready" /\ ~panel'.queued /\ panel'.running = panel.running
               /\ panel'.question = panel.question /\ panel'.failed = panel.failed
  <2> DEFINE ready == [panel EXCEPT !.session = "ready", !.shown = A!Next1.options, !.confirmed = A!Next1.options]
             mode == IF asksFirst THEN "asking" ELSE "bypass"
             sets == IF asksFirst /\ ready.shown.mode = mode THEN <<>> ELSE <<A!SetOption("mode", mode)>>
             to == IF sets = <<>> THEN ready ELSE A!Chose(ready, "mode", mode)
             exact == A!Exact(to)
  <2>1. A!Next1.options \in OptionsShown  BY <1>0, <1>1, TakesEvent DEF A!HandleStarted, AgentEvents
  <2>2. /\ ready \in PanelStates /\ ready.session = "ready" /\ ready.failed = panel.failed
        /\ ready.running = panel.running /\ ready.queued = panel.queued /\ ready.briefed = panel.briefed
        /\ ready.onItsWay = panel.onItsWay /\ ready.question = panel.question
    BY <1>2, <2>1 DEF PanelStates
  <2>3. mode \in A!Modes /\ IsSetting("mode", mode)  BY DEF A!Modes, IsSetting
  <2>4. OnlySets(sets)  BY <2>3, SetsOne, SetsNone
  <2>5. /\ to \in PanelStates /\ to.session = "ready" /\ to.failed = panel.failed
        /\ to.running = panel.running /\ to.queued = panel.queued /\ to.briefed = panel.briefed
        /\ to.onItsWay = panel.onItsWay /\ to.question = panel.question
    <3> HIDE DEF ready, mode
    <3>1. CASE sets = <<>>  BY <2>2, <3>1
    <3>2. CASE sets # <<>>
      <4>1. ready.shown \in OptionsShown /\ [ready.shown EXCEPT !["mode"] = mode] \in OptionsShown
        BY <2>2, <2>3 DEF PanelStates, OptionsShown
      <4>2. to = [ready EXCEPT !.shown = [ready.shown EXCEPT !["mode"] = mode],
                               !.auto = ~asksFirst /\ mode = "bypass"]
        BY <2>2, <3>2 DEF A!Chose, PanelStates
      <4>3. QED  BY <2>2, <4>1, <4>2 DEF PanelStates
    <3>3. QED  BY <3>1, <3>2
  <2>6. /\ panel' = IF panel.queued THEN A!Prompted([exact.panel EXCEPT !.queued = FALSE]) ELSE exact.panel
        /\ A!Sends(sets \o exact.sends \o (IF panel.queued THEN <<A!Prompt(~panel.briefed)>> ELSE <<>>))
    BY DEF A!HandleStarted
  <2> HIDE DEF sets, to
  <2>7. /\ exact.panel \in PanelStates /\ OnlySets(exact.sends)
        /\ exact.panel.session = "ready" /\ exact.panel.failed = panel.failed
        /\ exact.panel.running = panel.running /\ exact.panel.queued = panel.queued
        /\ exact.panel.briefed = panel.briefed /\ exact.panel.onItsWay = panel.onItsWay
        /\ exact.panel.question = panel.question
    BY <2>5, ExactChanges
  <2> HIDE DEF exact
  <2>8. OnlySets(sets \o exact.sends)  BY <2>4, <2>7, ConcatSets
  <2>9. sets \o exact.sends \in Seq(AgentCommands)  BY <2>8 DEF OnlySets
  <2>10. CASE panel.queued
    <3>1. ~panel.briefed  BY <1>3
    <3>2. \E p \in AgentCommands : p.do = "prompt" /\ p.briefs /\ commands' = (sets \o exact.sends) \o <<p>>
      <4> DEFINE p == A!Prompt(~panel.briefed)
      <4>1. p \in AgentCommands /\ p.do = "prompt" /\ p.briefs  BY <3>1 DEF A!Prompt, AgentCommands
      <4>2. commands' = <<>> \o ((sets \o exact.sends) \o <<p>>)
        BY <1>3, <2>6, <2>10 DEF A!Sends
      <4> HIDE DEF p
      <4>3. <<p>> \in Seq(AgentCommands)  BY <4>1
      <4>4. (sets \o exact.sends) \o <<p>> \in Seq(AgentCommands)  BY <2>9, <4>3, ConcatProperties
      <4>5. QED  BY <4>1, <4>2, <4>4, ConcatEmptySeq
    <3>3. panel' = A!Prompted([exact.panel EXCEPT !.queued = FALSE])  BY <2>6, <2>10
    <3>4. /\ panel' \in PanelStates /\ panel'.session = "ready" /\ ~panel'.queued
          /\ panel'.running = exact.panel.running /\ panel'.question = exact.panel.question
          /\ panel'.failed = exact.panel.failed /\ panel'.briefed /\ panel'.onItsWay = ~exact.panel.briefed
      BY <2>7, <3>3 DEF A!Prompted, PanelStates
    <3>5. QED  BY <2>7, <2>8, <2>10, <3>1, <3>2, <3>4
  <2>11. CASE ~panel.queued
    <3>1. commands' = sets \o exact.sends  BY <1>3, <2>6, <2>9, <2>11 DEF A!Sends
    <3>2. panel' = exact.panel  BY <2>6, <2>11
    <3>3. QED  BY <2>7, <2>8, <2>11, <3>1, <3>2
  <2>12. QED  BY <2>10, <2>11
<1>7. /\ commands' \in Seq(AgentCommands)
      /\ \A i \in DOMAIN commands' : commands'[i].do = "prompt" => i = Len(commands') /\ commands'[i].briefs /\ panel'.running /\ panel'.briefed /\ panel'.onItsWay
      /\ panel' \in PanelStates /\ panel'.session = "ready" /\ ~panel'.queued /\ ~panel'.question /\ ~panel'.failed
      /\ (panel'.briefed <=> panel'.onItsWay) /\ (panel'.briefed => panel'.running)
  <2>1. PICK sets : /\ OnlySets(sets)
               /\ \/ commands' = sets /\ ~panel.queued /\ panel'.briefed = panel.briefed /\ panel'.onItsWay = panel.onItsWay
                  \/ (\E p \in AgentCommands : p.do = "prompt" /\ p.briefs /\ commands' = sets \o <<p>>) /\ panel.queued /\ panel'.briefed /\ panel'.onItsWay
               /\ panel' \in PanelStates /\ panel'.session = "ready" /\ ~panel'.queued /\ panel'.running = panel.running
               /\ panel'.question = panel.question /\ panel'.failed = panel.failed
    BY <1>6
  <2>2. CASE commands' = sets /\ ~panel.queued /\ panel'.briefed = panel.briefed /\ panel'.onItsWay = panel.onItsWay
    <3>1. ~panel'.briefed /\ ~panel'.onItsWay  BY <1>3, <2>2
    <3>2. commands' \in Seq(AgentCommands) /\ \A i \in DOMAIN commands' : commands'[i].do = "set"
      BY <2>1, <2>2 DEF OnlySets
    <3>3. QED  BY <1>3, <2>1, <3>1, <3>2
  <2>3. CASE (\E p \in AgentCommands : p.do = "prompt" /\ p.briefs /\ commands' = sets \o <<p>>) /\ panel.queued /\ panel'.briefed /\ panel'.onItsWay
    <3>1. PICK p \in AgentCommands : p.do = "prompt" /\ p.briefs /\ commands' = sets \o <<p>>  BY <2>3
    <3>2. sets \in Seq(AgentCommands)  BY <2>1 DEF OnlySets
    <3>3. commands' = Append(sets, p)  BY <3>1, <3>2, AppendIsConcat
    <3>4. /\ commands' \in Seq(AgentCommands) /\ Len(commands') = Len(sets) + 1
          /\ commands'[Len(sets) + 1] = p
          /\ \A i \in DOMAIN commands' : (i \in DOMAIN sets /\ commands'[i] = sets[i]) \/ i = Len(sets) + 1
      <4>1. commands' \in Seq(AgentCommands) /\ Len(commands') = Len(sets) + 1 /\ Len(sets) \in Nat
        BY <3>1, <3>2, <3>3
      <4>2. DOMAIN commands' = 1 .. Len(sets) + 1 /\ DOMAIN sets = 1 .. Len(sets)  BY <3>2, <4>1
      <4>3. \A i \in 1 .. Len(sets) : commands'[i] = sets[i]  BY <3>1, <3>2, <3>3
      <4>4. commands'[Len(sets) + 1] = p  BY <3>1, <3>2, <3>3
      <4>5. QED  BY <4>1, <4>2, <4>3, <4>4
    <3>5. panel.running  BY <1>0, <2>3 DEF SessionFits
    <3>6. QED  BY <1>3, <2>1, <2>3, <3>1, <3>4, <3>5 DEF OnlySets
  <2>4. QED  BY <2>1, <2>2, <2>3
<1>8. AgentTyped'
  BY <1>0, <1>1, <1>2, <1>3, <1>4, <1>5, <1>6, <1>7 DEF AgentTyped, AgentStates, OptionsShown, A!Modes
<1>9. SessionFits'
  BY <1>0, <1>1, <1>2, <1>3, <1>4, <1>5, <1>6, <1>7, <1>8 DEF SessionFits, A!NoAgent, AgentTyped
<1>10. OneMessage'
  BY <1>0, <1>1, <1>2, <1>3, <1>4, <1>5, <1>6, <1>7, <1>8 DEF OneMessage, InCommands, InEvents, PromptWaits, InTurn, SessionFits
<1>11. QuestionsFit'
  BY <1>0, <1>1, <1>2, <1>3, <1>4, <1>5, <1>6, <1>7, <1>8 DEF QuestionsFit, InCommands, InEvents, PromptWaits, InTurn, OneMessage, SessionFits
<1>12. BriefingsFit'
  BY <1>0, <1>1, <1>2, <1>3, <1>4, <1>5, <1>6, <1>7, <1>8 DEF BriefingsFit, PromptWaits, InTurn, InCommands, InEvents, OneMessage, SessionFits, AgentTyped
<1>13. WaitsFit'
  BY <1>0, <1>1, <1>2, <1>3, <1>4, <1>5, <1>6, <1>7, <1>8 DEF WaitsFit, PromptWaits, OneMessage
<1>14. A!FirstPromptBriefs'
  BY <1>0, <1>1, <1>2, <1>3, <1>4, <1>5, <1>6, <1>7, <1>8 DEF A!FirstPromptBriefs, BriefingsFit, AgentTyped
<1> QED  BY <1>8, <1>9, <1>10, <1>11, <1>12, <1>13, <1>14 DEF AgentInv

-----------------------------------------------------------------------------

LEMMA TakesPrompt == ASSUME AgentInv, A!HandlePrompt, agent # A!NoAgent PROVE AgentInv'
<1>0. AgentTyped /\ SessionFits /\ OneMessage /\ QuestionsFit /\ BriefingsFit /\ WaitsFit /\ A!FirstPromptBriefs
  BY DEF AgentInv
<1>1. /\ commands' \in Seq(AgentCommands) /\ 1 \in DOMAIN commands /\ commands[1] \in AgentCommands /\ commands[1].do = "prompt"
      /\ \A i \in DOMAIN commands' : i \in Nat /\ i >= 1 /\ i + 1 \in DOMAIN commands /\ commands'[i] = commands[i + 1]
      /\ Head(commands) = commands[1]
  BY TakesCommand DEF A!HandlePrompt
<1>2. panel.session = "ready" /\ panel \in PanelStates
  BY <1>0, <1>1 DEF SessionFits, AgentTyped
<1>3. panel' = panel /\ unanswered' = unanswered /\ agentEvents' = agentEvents
  BY DEF A!HandlePrompt
<1>4. /\ ~PromptWaits /\ ~InTurn /\ ~InEvents /\ panel.running /\ panel.briefed
      /\ commands[1].briefs \in BOOLEAN /\ commands[1].briefs = (briefings = <<>>)
      /\ panel.onItsWay = (briefings = <<>>)
  BY <1>0, <1>1 DEF OneMessage, InCommands, BriefingsFit, AgentCommands
<1>5. /\ \A i \in DOMAIN commands' : commands'[i].do # "prompt"
      /\ \A i \in DOMAIN agentEvents : agentEvents[i].on \notin {"permission", "ended", "dropped"}
  BY <1>0, <1>1, <1>4 DEF OneMessage, QuestionsFit, InCommands, InEvents
<1>6. /\ waiting' = [at |-> "waiting", briefs |-> commands[1].briefs, needs |-> A!Needs,
                     compares |-> pending]
      /\ agent' = agent /\ briefings' = briefings /\ earlier' = A!Needs
  BY <1>1 DEF A!HandlePrompt, A!Needs
<1>7. /\ waiting' = [at |-> waiting'.at, briefs |-> waiting'.briefs, needs |-> waiting'.needs,
                     compares |-> waiting'.compares]
      /\ waiting'.at = "waiting" /\ waiting'.briefs = commands[1].briefs /\ waiting'.needs = A!Needs
  BY <1>6
<1>8. agent' \in AgentStates /\ agent' # A!NoAgent  BY <1>0, <1>6 DEF AgentTyped
<1>9. /\ briefings' \in Seq(BOOLEAN) /\ \A n \in DOMAIN briefings' : briefings'[n] = (n = 1)
  BY <1>0, <1>6 DEF AgentTyped, A!FirstPromptBriefs
<1>10. AgentTyped'
  BY <1>0, <1>1, <1>2, <1>3, <1>4, <1>5, <1>6, <1>7, <1>8, <1>9 DEF AgentTyped, AgentStates, OptionsShown, A!Modes
<1>11. SessionFits'
  BY <1>0, <1>1, <1>2, <1>3, <1>4, <1>5, <1>6, <1>7, <1>8, <1>9, <1>10 DEF SessionFits, A!NoAgent, AgentTyped
<1>12. OneMessage'
  BY <1>0, <1>1, <1>2, <1>3, <1>4, <1>5, <1>6, <1>7, <1>8, <1>9, <1>10 DEF OneMessage, InCommands, InEvents, PromptWaits, InTurn, SessionFits
<1>13. QuestionsFit'
  BY <1>0, <1>1, <1>2, <1>3, <1>4, <1>5, <1>6, <1>7, <1>8, <1>9, <1>10 DEF QuestionsFit, InCommands, InEvents, PromptWaits, InTurn, OneMessage, SessionFits
<1>14. BriefingsFit'
  BY <1>0, <1>1, <1>2, <1>3, <1>4, <1>5, <1>6, <1>7, <1>8, <1>9, <1>10 DEF BriefingsFit, PromptWaits, InTurn, InCommands, InEvents, OneMessage, SessionFits, AgentTyped
<1>15. WaitsFit'
  BY <1>0, <1>1, <1>2, <1>3, <1>4, <1>5, <1>6, <1>7, <1>8, <1>9, <1>10 DEF WaitsFit, PromptWaits, OneMessage
<1>16. A!FirstPromptBriefs'
  BY <1>0, <1>1, <1>2, <1>3, <1>4, <1>5, <1>6, <1>7, <1>8, <1>9, <1>10 DEF A!FirstPromptBriefs, BriefingsFit, AgentTyped
<1> QED  BY <1>10, <1>11, <1>12, <1>13, <1>14, <1>15, <1>16 DEF AgentInv

LEMMA CancelsTurn == ASSUME AgentInv, A!HandleCancel, agent # A!NoAgent PROVE AgentInv'
<1>0. AgentTyped /\ SessionFits /\ OneMessage /\ QuestionsFit /\ BriefingsFit /\ WaitsFit /\ A!FirstPromptBriefs
  BY DEF AgentInv
<1>1. /\ commands' \in Seq(AgentCommands) /\ 1 \in DOMAIN commands /\ commands[1] \in AgentCommands /\ commands[1].do = "cancel"
      /\ \A i \in DOMAIN commands' : i \in Nat /\ i >= 1 /\ i + 1 \in DOMAIN commands /\ commands'[i] = commands[i + 1]
      /\ Head(commands) = commands[1]
  BY TakesCommand DEF A!HandleCancel
<1>2. panel.session = "ready" /\ panel \in PanelStates
  BY <1>0, <1>1 DEF SessionFits, AgentTyped
<1>3. panel' = panel /\ unanswered' = unanswered /\ agentEvents' = agentEvents /\ waiting' = waiting /\ briefings' = briefings /\ earlier' = earlier
  BY DEF A!HandleCancel
<1>4. /\ agent' \in AgentStates /\ agent'.mode = agent.mode /\ (agent'.turn = "none" <=> agent.turn = "none")
  BY <1>0 DEF A!HandleCancel, AgentStates, AgentTyped
<1>5. AgentTyped'
  BY <1>0, <1>1, <1>2, <1>3, <1>4 DEF AgentTyped, AgentStates, OptionsShown, A!Modes
<1>6. SessionFits'
  BY <1>0, <1>1, <1>2, <1>3, <1>4, <1>5 DEF SessionFits, A!NoAgent, AgentTyped
<1>7. OneMessage'
  BY <1>0, <1>1, <1>2, <1>3, <1>4, <1>5 DEF OneMessage, InCommands, InEvents, PromptWaits, InTurn, SessionFits
<1>8. QuestionsFit'
  BY <1>0, <1>1, <1>2, <1>3, <1>4, <1>5 DEF QuestionsFit, InCommands, InEvents, PromptWaits, InTurn, OneMessage, SessionFits
<1>9. BriefingsFit'
  BY <1>0, <1>1, <1>2, <1>3, <1>4, <1>5 DEF BriefingsFit, PromptWaits, InTurn, InCommands, InEvents, OneMessage, SessionFits, AgentTyped
<1>10. WaitsFit'
  BY <1>0, <1>1, <1>2, <1>3, <1>4, <1>5 DEF WaitsFit, PromptWaits, OneMessage
<1>11. A!FirstPromptBriefs'
  BY <1>0, <1>1, <1>2, <1>3, <1>4, <1>5 DEF A!FirstPromptBriefs, BriefingsFit, AgentTyped
<1> QED  BY <1>5, <1>6, <1>7, <1>8, <1>9, <1>10, <1>11 DEF AgentInv

LEMMA SetsOption == ASSUME AgentInv, A!HandleSetOption, agent # A!NoAgent PROVE AgentInv'
<1>0. AgentTyped /\ SessionFits /\ OneMessage /\ QuestionsFit /\ BriefingsFit /\ WaitsFit /\ A!FirstPromptBriefs
  BY DEF AgentInv
<1>1. /\ commands' \in Seq(AgentCommands) /\ 1 \in DOMAIN commands /\ commands[1] \in AgentCommands /\ commands[1].do = "set"
      /\ \A i \in DOMAIN commands' : i \in Nat /\ i >= 1 /\ i + 1 \in DOMAIN commands /\ commands'[i] = commands[i + 1]
      /\ Head(commands) = commands[1]
  BY TakesCommand DEF A!HandleSetOption
<1>2. panel.session = "ready" /\ panel \in PanelStates
  BY <1>0, <1>1 DEF SessionFits, AgentTyped
<1>3. panel' = panel /\ agentEvents' = agentEvents /\ waiting' = waiting /\ briefings' = briefings /\ earlier' = earlier /\ agent' = agent
  BY DEF A!HandleSetOption
<1>4. \A change \in unanswered' : IsSetting(change.option, change.value)
  <2>1. IsSetting(commands[1].option, commands[1].value)  BY <1>1 DEF AgentCommands, IsSetting
  <2>2. unanswered' = unanswered \union
               {[n |-> A!Number, option |-> commands[1].option, value |-> commands[1].value]}
    BY <1>1 DEF A!HandleSetOption
  <2>3. QED  BY <1>0, <2>1, <2>2 DEF AgentTyped
<1>5. AgentTyped'
  BY <1>0, <1>1, <1>2, <1>3, <1>4 DEF AgentTyped, AgentStates, OptionsShown, A!Modes
<1>6. SessionFits'
  BY <1>0, <1>1, <1>2, <1>3, <1>4, <1>5 DEF SessionFits, A!NoAgent, AgentTyped
<1>7. OneMessage'
  BY <1>0, <1>1, <1>2, <1>3, <1>4, <1>5 DEF OneMessage, InCommands, InEvents, PromptWaits, InTurn, SessionFits
<1>8. QuestionsFit'
  BY <1>0, <1>1, <1>2, <1>3, <1>4, <1>5 DEF QuestionsFit, InCommands, InEvents, PromptWaits, InTurn, OneMessage, SessionFits
<1>9. BriefingsFit'
  BY <1>0, <1>1, <1>2, <1>3, <1>4, <1>5 DEF BriefingsFit, PromptWaits, InTurn, InCommands, InEvents, OneMessage, SessionFits, AgentTyped
<1>10. WaitsFit'
  BY <1>0, <1>1, <1>2, <1>3, <1>4, <1>5 DEF WaitsFit, PromptWaits, OneMessage
<1>11. A!FirstPromptBriefs'
  BY <1>0, <1>1, <1>2, <1>3, <1>4, <1>5 DEF A!FirstPromptBriefs, BriefingsFit, AgentTyped
<1> QED  BY <1>5, <1>6, <1>7, <1>8, <1>9, <1>10, <1>11 DEF AgentInv

LEMMA GoesOn == ASSUME AgentInv, A!PromptGoesOn, agent # A!NoAgent PROVE AgentInv'
<1>0. AgentTyped /\ SessionFits /\ OneMessage /\ QuestionsFit /\ BriefingsFit /\ WaitsFit /\ A!FirstPromptBriefs
  BY DEF AgentInv
<1>1. PromptWaits /\ waiting' = A!NoPrompt
  BY DEF A!PromptGoesOn, PromptWaits
<1>2. panel.session = "ready" /\ panel \in PanelStates
  BY <1>0, <1>1 DEF SessionFits, AgentTyped, PromptWaits, A!NoPrompt
<1>3. panel' = panel /\ unanswered' = unanswered /\ commands' = commands /\ earlier' = earlier
  BY DEF A!PromptGoesOn
<1>4. /\ ~InCommands /\ ~InTurn /\ ~InEvents /\ panel.running /\ panel.briefed
      /\ waiting.briefs \in BOOLEAN /\ waiting.briefs = (briefings = <<>>)
      /\ panel.onItsWay = (briefings = <<>>)
  BY <1>0, <1>1 DEF OneMessage, BriefingsFit, AgentTyped
<1>5. \A i \in DOMAIN agentEvents : agentEvents[i].on \notin {"permission", "ended", "dropped"}
  BY <1>0, <1>1, <1>4 DEF OneMessage, QuestionsFit, InEvents
<1>6. \/ /\ agentEvents' = agentEvents /\ agent' = [agent EXCEPT !.turn = "working"]
         /\ briefings' = Append(briefings, waiting.briefs)
      \/ /\ agentEvents' = Append(agentEvents, [on |-> "dropped"]) /\ agent' = agent /\ briefings' = briefings
  BY DEF A!PromptGoesOn, A!Reaches, A!Emits
<1>7. agent' \in AgentStates /\ agent'.mode = agent.mode /\ agent' # A!NoAgent
  <2>1. agent \in AgentStates /\ agent.mode # "none"  BY <1>0 DEF AgentTyped, SessionFits
  <2>2. QED  BY <1>6, <2>1 DEF AgentStates, A!NoAgent
<1>8. /\ briefings' \in Seq(BOOLEAN) /\ \A n \in DOMAIN briefings' : briefings'[n] = (n = 1)
      /\ \/ briefings' = briefings /\ agent' = agent
         \/ briefings' # <<>> /\ agentEvents' = agentEvents /\ agent'.turn = "working"
  <2>1. briefings \in Seq(BOOLEAN) /\ agent \in AgentStates  BY <1>0 DEF AgentTyped
  <2>2. CASE briefings' = briefings /\ agent' = agent  BY <1>0, <2>1, <2>2 DEF A!FirstPromptBriefs
  <2>3. CASE /\ agentEvents' = agentEvents /\ agent' = [agent EXCEPT !.turn = "working"]
             /\ briefings' = Append(briefings, waiting.briefs)
    BY <1>0, <1>4, <2>1, <2>3 DEF A!FirstPromptBriefs, AgentStates
  <2>4. QED  BY <1>6, <2>2, <2>3
<1>9. /\ agentEvents' \in Seq(AgentEvents)
      /\ \/ agentEvents' = agentEvents
         \/ /\ agent' = agent /\ briefings' = briefings
            /\ DOMAIN agentEvents' = 1 .. Len(agentEvents) + 1 /\ DOMAIN agentEvents = 1 .. Len(agentEvents) /\ Len(agentEvents) \in Nat
            /\ \A i \in DOMAIN agentEvents : agentEvents'[i] = agentEvents[i]
            /\ agentEvents'[Len(agentEvents) + 1].on = "dropped"
            /\ \A i \in DOMAIN agentEvents' : i \in DOMAIN agentEvents \/ i = Len(agentEvents) + 1
  <2>1. agentEvents \in Seq(AgentEvents) /\ [on |-> "dropped"] \in AgentEvents  BY <1>0 DEF AgentTyped, AgentEvents
  <2>2. QED  BY <1>6, <2>1, AppendsCommand
<1>10. waiting'.at = "none"
  BY <1>1 DEF A!NoPrompt
<1>11. AgentTyped'
  BY <1>0, <1>1, <1>2, <1>3, <1>4, <1>5, <1>6, <1>7, <1>8, <1>9, <1>10 DEF AgentTyped, AgentStates, OptionsShown, A!Modes, A!NoPrompt
<1>12. SessionFits'
  BY <1>0, <1>1, <1>2, <1>3, <1>4, <1>5, <1>6, <1>7, <1>8, <1>9, <1>10, <1>11 DEF SessionFits, A!NoAgent, AgentTyped
<1>13. OneMessage'
  BY <1>0, <1>1, <1>2, <1>3, <1>4, <1>5, <1>6, <1>7, <1>8, <1>9, <1>10, <1>11 DEF OneMessage, InCommands, InEvents, PromptWaits, InTurn, SessionFits
<1>14. QuestionsFit'
  BY <1>0, <1>1, <1>2, <1>3, <1>4, <1>5, <1>6, <1>7, <1>8, <1>9, <1>10, <1>11 DEF QuestionsFit, InCommands, InEvents, PromptWaits, InTurn, OneMessage, SessionFits
<1>15. BriefingsFit'
  BY <1>0, <1>1, <1>2, <1>3, <1>4, <1>5, <1>6, <1>7, <1>8, <1>9, <1>10, <1>11 DEF BriefingsFit, PromptWaits, InTurn, InCommands, InEvents, OneMessage, SessionFits, AgentTyped
<1>16. WaitsFit'
  BY <1>0, <1>1, <1>2, <1>3, <1>4, <1>5, <1>6, <1>7, <1>8, <1>9, <1>10, <1>11 DEF WaitsFit, PromptWaits, OneMessage
<1>17. A!FirstPromptBriefs'
  BY <1>0, <1>1, <1>2, <1>3, <1>4, <1>5, <1>6, <1>7, <1>8, <1>9, <1>10, <1>11 DEF A!FirstPromptBriefs, BriefingsFit, AgentTyped
<1> QED  BY <1>11, <1>12, <1>13, <1>14, <1>15, <1>16, <1>17 DEF AgentInv

-----------------------------------------------------------------------------

LEMMA Ended == ASSUME AgentInv, A!EndsTurn PROVE AgentInv'
<1>0. AgentTyped /\ SessionFits /\ OneMessage /\ QuestionsFit /\ BriefingsFit /\ WaitsFit /\ A!FirstPromptBriefs
  BY DEF AgentInv
<1>1. panel' = panel /\ unanswered' = unanswered /\ commands' = commands /\ earlier' = earlier /\ waiting' = waiting /\ briefings' = briefings
  BY DEF A!EndsTurn
<1>2. /\ InTurn /\ agent' \in AgentStates /\ agent'.mode = agent.mode /\ agent'.turn = "none" /\ agent # A!NoAgent
  BY <1>0 DEF A!EndsTurn, InTurn, AgentStates, AgentTyped, A!NoAgent
<1>3. panel.session = "ready" /\ panel \in PanelStates
  BY <1>0, <1>2 DEF SessionFits, AgentTyped, InTurn
<1>4. /\ agentEvents' \in Seq(AgentEvents)
      /\ DOMAIN agentEvents' = 1 .. Len(agentEvents) + 1 /\ DOMAIN agentEvents = 1 .. Len(agentEvents) /\ Len(agentEvents) \in Nat
      /\ \A i \in DOMAIN agentEvents : agentEvents'[i] = agentEvents[i]
      /\ agentEvents'[Len(agentEvents) + 1].on = "ended"
      /\ \A i \in DOMAIN agentEvents' : i \in DOMAIN agentEvents \/ i = Len(agentEvents) + 1
  <2>1. agentEvents \in Seq(AgentEvents) /\ [on |-> "ended"] \in AgentEvents  BY <1>0 DEF AgentTyped, AgentEvents
  <2>2. QED  BY <2>1, AppendsCommand DEF A!EndsTurn, A!Emits
<1>5. ~InCommands /\ ~PromptWaits /\ ~InEvents /\ panel.running /\ panel.briefed /\ briefings # <<>>
  BY <1>0, <1>2 DEF OneMessage, BriefingsFit
<1>6. agent'.mode # "none"
  BY <1>0, <1>2 DEF SessionFits
<1>7. AgentTyped'
  BY <1>0, <1>1, <1>2, <1>3, <1>4, <1>5, <1>6 DEF AgentTyped, AgentStates, OptionsShown, A!Modes
<1>8. SessionFits'
  BY <1>0, <1>1, <1>2, <1>3, <1>4, <1>5, <1>6, <1>7 DEF SessionFits, A!NoAgent, AgentTyped
<1>9. OneMessage'
  BY <1>0, <1>1, <1>2, <1>3, <1>4, <1>5, <1>6, <1>7 DEF OneMessage, InCommands, InEvents, PromptWaits, InTurn, SessionFits
<1>10. QuestionsFit'
  BY <1>0, <1>1, <1>2, <1>3, <1>4, <1>5, <1>6, <1>7 DEF QuestionsFit, InCommands, InEvents, PromptWaits, InTurn, OneMessage, SessionFits
<1>11. BriefingsFit'
  BY <1>0, <1>1, <1>2, <1>3, <1>4, <1>5, <1>6, <1>7 DEF BriefingsFit, PromptWaits, InTurn, InCommands, InEvents, OneMessage, SessionFits, AgentTyped
<1>12. WaitsFit'
  BY <1>0, <1>1, <1>2, <1>3, <1>4, <1>5, <1>6, <1>7 DEF WaitsFit, PromptWaits, OneMessage
<1>13. A!FirstPromptBriefs'
  BY <1>0, <1>1, <1>2, <1>3, <1>4, <1>5, <1>6, <1>7 DEF A!FirstPromptBriefs, BriefingsFit, AgentTyped
<1> QED  BY <1>7, <1>8, <1>9, <1>10, <1>11, <1>12, <1>13 DEF AgentInv

LEMMA AsksFor == ASSUME AgentInv, A!Asks PROVE AgentInv'
<1>0. AgentTyped /\ SessionFits /\ OneMessage /\ QuestionsFit /\ BriefingsFit /\ WaitsFit /\ A!FirstPromptBriefs
  BY DEF AgentInv
<1>1. panel' = panel /\ unanswered' = unanswered /\ commands' = commands /\ earlier' = earlier /\ waiting' = waiting /\ briefings' = briefings
  BY DEF A!Asks
<1>2. /\ InTurn /\ agent' \in AgentStates /\ agent'.mode = agent.mode /\ agent'.turn # "none" /\ agent # A!NoAgent
  <2>1. agent \in AgentStates /\ agent.turn = "working" /\ agent' = [agent EXCEPT !.turn = "asking"]
    BY <1>0 DEF A!Asks, AgentTyped
  <2>2. QED  BY <2>1 DEF InTurn, AgentStates, A!NoAgent
<1>3. panel.session = "ready" /\ panel \in PanelStates
  BY <1>0, <1>2 DEF SessionFits, AgentTyped, InTurn
<1>4. /\ agentEvents' \in Seq(AgentEvents)
      /\ DOMAIN agentEvents' = 1 .. Len(agentEvents) + 1 /\ DOMAIN agentEvents = 1 .. Len(agentEvents) /\ Len(agentEvents) \in Nat
      /\ \A i \in DOMAIN agentEvents : agentEvents'[i] = agentEvents[i]
      /\ agentEvents'[Len(agentEvents) + 1].on = "permission"
      /\ \A i \in DOMAIN agentEvents' : i \in DOMAIN agentEvents \/ i = Len(agentEvents) + 1
  <2>1. agentEvents \in Seq(AgentEvents) /\ [on |-> "permission"] \in AgentEvents  BY <1>0 DEF AgentTyped, AgentEvents
  <2>2. QED  BY <2>1, AppendsCommand DEF A!Asks, A!Emits
<1>5. ~InCommands /\ ~PromptWaits /\ ~InEvents /\ panel.running /\ panel.briefed /\ briefings # <<>>
  BY <1>0, <1>2 DEF OneMessage, BriefingsFit
<1>6. agent'.mode # "none"
  BY <1>0, <1>2 DEF SessionFits
<1>7. AgentTyped'
  BY <1>0, <1>1, <1>2, <1>3, <1>4, <1>5, <1>6 DEF AgentTyped, AgentStates, OptionsShown, A!Modes
<1>8. SessionFits'
  BY <1>0, <1>1, <1>2, <1>3, <1>4, <1>5, <1>6, <1>7 DEF SessionFits, A!NoAgent, AgentTyped
<1>9. OneMessage'
  BY <1>0, <1>1, <1>2, <1>3, <1>4, <1>5, <1>6, <1>7 DEF OneMessage, InCommands, InEvents, PromptWaits, InTurn, SessionFits
<1>10. QuestionsFit'
  BY <1>0, <1>1, <1>2, <1>3, <1>4, <1>5, <1>6, <1>7 DEF QuestionsFit, InCommands, InEvents, PromptWaits, InTurn, OneMessage, SessionFits
<1>11. BriefingsFit'
  BY <1>0, <1>1, <1>2, <1>3, <1>4, <1>5, <1>6, <1>7 DEF BriefingsFit, PromptWaits, InTurn, InCommands, InEvents, OneMessage, SessionFits, AgentTyped
<1>12. WaitsFit'
  BY <1>0, <1>1, <1>2, <1>3, <1>4, <1>5, <1>6, <1>7 DEF WaitsFit, PromptWaits, OneMessage
<1>13. A!FirstPromptBriefs'
  BY <1>0, <1>1, <1>2, <1>3, <1>4, <1>5, <1>6, <1>7 DEF A!FirstPromptBriefs, BriefingsFit, AgentTyped
<1> QED  BY <1>7, <1>8, <1>9, <1>10, <1>11, <1>12, <1>13 DEF AgentInv

LEMMA AgentChanges == ASSUME AgentInv, NEW mode \in A!Modes, A!ChangesMode(mode) PROVE AgentInv'
<1>0. AgentTyped /\ SessionFits /\ OneMessage /\ QuestionsFit /\ BriefingsFit /\ WaitsFit /\ A!FirstPromptBriefs
  BY DEF AgentInv
<1>1. panel' = panel /\ unanswered' = unanswered /\ commands' = commands /\ earlier' = earlier /\ waiting' = waiting /\ briefings' = briefings
  BY DEF A!ChangesMode
<1>2. /\ InTurn /\ agent' \in AgentStates /\ agent'.mode # "none" /\ agent'.turn = agent.turn /\ agent # A!NoAgent
  <2>1. agent \in AgentStates /\ agent.turn = "working" /\ agent' = [agent EXCEPT !.mode = mode]
    BY <1>0 DEF A!ChangesMode, AgentTyped
  <2>2. QED  BY <2>1 DEF InTurn, AgentStates, A!NoAgent, A!Modes
<1>3. panel.session = "ready" /\ panel \in PanelStates
  BY <1>0, <1>2 DEF SessionFits, AgentTyped, InTurn
<1>4. /\ agentEvents' \in Seq(AgentEvents)
      /\ DOMAIN agentEvents' = 1 .. Len(agentEvents) + 1 /\ DOMAIN agentEvents = 1 .. Len(agentEvents) /\ Len(agentEvents) \in Nat
      /\ \A i \in DOMAIN agentEvents : agentEvents'[i] = agentEvents[i]
      /\ agentEvents'[Len(agentEvents) + 1].on \in {"options"}
      /\ \A i \in DOMAIN agentEvents' : i \in DOMAIN agentEvents \/ i = Len(agentEvents) + 1
  <2>1. agentEvents \in Seq(AgentEvents) /\ agent \in AgentStates  BY <1>0 DEF AgentTyped
  <2>2. PICK e \in AgentEvents : agentEvents' = Append(agentEvents, e) /\ e.on \in {"options"}
    BY <2>1 DEF A!ChangesMode, A!Emits, AgentEvents, A!Options, OptionsShown, AgentStates
  <2>3. QED  BY <2>1, <2>2, AppendsCommand
<1>5. AgentTyped'
  BY <1>0, <1>1, <1>2, <1>3, <1>4 DEF AgentTyped, AgentStates, OptionsShown, A!Modes
<1>6. SessionFits'
  BY SMTT(30), <1>0, <1>1, <1>2, <1>3, <1>4, <1>5 DEF SessionFits, A!NoAgent, AgentTyped
<1>7. OneMessage'
  BY <1>0, <1>1, <1>2, <1>3, <1>4, <1>5 DEF OneMessage, InCommands, InEvents, PromptWaits, InTurn, SessionFits
<1>8. QuestionsFit'
  BY <1>0, <1>1, <1>2, <1>3, <1>4, <1>5 DEF QuestionsFit, InCommands, InEvents, PromptWaits, InTurn, OneMessage, SessionFits
<1>9. BriefingsFit'
  BY <1>0, <1>1, <1>2, <1>3, <1>4, <1>5 DEF BriefingsFit, PromptWaits, InTurn, InCommands, InEvents, OneMessage, SessionFits, AgentTyped
<1>10. WaitsFit'
  BY <1>0, <1>1, <1>2, <1>3, <1>4, <1>5 DEF WaitsFit, PromptWaits, OneMessage
<1>11. A!FirstPromptBriefs'
  BY <1>0, <1>1, <1>2, <1>3, <1>4, <1>5 DEF A!FirstPromptBriefs, BriefingsFit, AgentTyped
<1> QED  BY <1>5, <1>6, <1>7, <1>8, <1>9, <1>10, <1>11 DEF AgentInv

LEMMA AnswersAChange == ASSUME AgentInv, NEW change \in unanswered, A!AnswersChange(change) PROVE AgentInv'
<1>0. AgentTyped /\ SessionFits /\ OneMessage /\ QuestionsFit /\ BriefingsFit /\ WaitsFit /\ A!FirstPromptBriefs
  BY DEF AgentInv
<1>1. panel' = panel /\ unanswered' = unanswered \ {change} /\ commands' = commands /\ briefings' = briefings
  BY DEF A!AnswersChange
<1>2. /\ waiting' = [waiting EXCEPT !.needs = @ \ {change.n}] /\ earlier' = earlier \ {change.n}
  BY DEF A!AnswersChange
<1>3. /\ waiting' = [at |-> waiting'.at, briefs |-> waiting'.briefs, needs |-> waiting'.needs,
                     compares |-> waiting'.compares]
      /\ waiting'.at = waiting.at /\ waiting'.briefs = waiting.briefs
      /\ waiting'.needs = waiting.needs \ {change.n} /\ waiting'.compares = waiting.compares
  <2>1. waiting = [at |-> waiting.at, briefs |-> waiting.briefs, needs |-> waiting.needs,
                   compares |-> waiting.compares]
    BY <1>0 DEF AgentTyped
  <2>2. waiting' = [at |-> waiting.at, briefs |-> waiting.briefs, needs |-> waiting.needs \ {change.n},
                    compares |-> waiting.compares]
    BY <1>2, <2>1
  <2>3. QED  BY <2>2
<1>4. waiting.at = "none" => waiting' = A!NoPrompt
  BY <1>0, <1>3 DEF AgentTyped, A!NoPrompt
<1>5. panel.session = "ready" /\ panel \in PanelStates
  BY <1>0 DEF SessionFits, AgentTyped
<1>6. /\ agent' \in AgentStates /\ agent'.turn = agent.turn /\ agent'.mode # "none" /\ agent # A!NoAgent
  <2>1. agent \in AgentStates /\ IsSetting(change.option, change.value) /\ agent # A!NoAgent
    BY <1>0 DEF AgentTyped, SessionFits
  <2>2. CASE agent' = agent  BY <1>0, <2>1, <2>2 DEF SessionFits
  <2>3. CASE agent' = [agent EXCEPT ![change.option] = change.value]
    <3>1. CASE change.option = "mode" /\ change.value \in A!Modes
      BY <2>1, <2>3, <3>1 DEF AgentStates, A!Modes
    <3>2. CASE change.option = "effort" /\ change.value = "exact"
      BY <1>0, <2>1, <2>3, <3>2 DEF AgentStates, SessionFits
    <3>3. QED  BY <2>1, <3>1, <3>2 DEF IsSetting
  <2>4. QED  BY <2>2, <2>3 DEF A!AnswersChange, A!Takes, A!Rejects
<1>7. /\ agentEvents' \in Seq(AgentEvents)
      /\ DOMAIN agentEvents' = 1 .. Len(agentEvents) + 1 /\ DOMAIN agentEvents = 1 .. Len(agentEvents) /\ Len(agentEvents) \in Nat
      /\ \A i \in DOMAIN agentEvents : agentEvents'[i] = agentEvents[i]
      /\ agentEvents'[Len(agentEvents) + 1].on \in {"options", "rejected"}
      /\ \A i \in DOMAIN agentEvents' : i \in DOMAIN agentEvents \/ i = Len(agentEvents) + 1
  <2>1. agentEvents \in Seq(AgentEvents) /\ agent \in AgentStates  BY <1>0 DEF AgentTyped
  <2>2. PICK e \in AgentEvents : agentEvents' = Append(agentEvents, e) /\ e.on \in {"options", "rejected"}
    <3>1. CASE A!Rejects  BY <3>1 DEF A!Rejects, A!Emits, AgentEvents
    <3>2. CASE A!Takes(change)
      <4>1. [mode |-> agent'.mode, effort |-> agent'.effort] \in OptionsShown  BY <1>6 DEF AgentStates, OptionsShown
      <4>2. QED  BY <3>2, <4>1 DEF A!Takes, A!Emits, AgentEvents
    <3>3. QED  BY <3>1, <3>2 DEF A!AnswersChange
  <2>3. QED  BY <2>1, <2>2, AppendsCommand
<1>8. AgentTyped'
  BY <1>0, <1>1, <1>2, <1>3, <1>4, <1>5, <1>6, <1>7 DEF AgentTyped, AgentStates, OptionsShown, A!Modes
<1>9. SessionFits'
  BY SMTT(30), <1>0, <1>1, <1>2, <1>3, <1>4, <1>5, <1>6, <1>7, <1>8 DEF SessionFits, A!NoAgent, AgentTyped
<1>10. OneMessage'
  BY <1>0, <1>1, <1>2, <1>3, <1>4, <1>5, <1>6, <1>7, <1>8 DEF OneMessage, InCommands, InEvents, PromptWaits, InTurn, SessionFits
<1>11. QuestionsFit'
  BY <1>0, <1>1, <1>2, <1>3, <1>4, <1>5, <1>6, <1>7, <1>8 DEF QuestionsFit, InCommands, InEvents, PromptWaits, InTurn, OneMessage, SessionFits
<1>12. BriefingsFit'
  <2>1. /\ PromptWaits' = PromptWaits /\ waiting'.briefs = waiting.briefs /\ InTurn' = InTurn
        /\ panel' = panel /\ commands' = commands /\ briefings' = briefings
    BY <1>1, <1>3, <1>6 DEF PromptWaits, InTurn
  <2>2. \A i \in DOMAIN agentEvents' :
          agentEvents'[i].on \in {"ended", "dropped"} => i \in DOMAIN agentEvents /\ agentEvents'[i] = agentEvents[i]
    BY <1>7
  <2>3. QED  BY <1>0, <2>1, <2>2 DEF BriefingsFit
<1>13. WaitsFit'
  BY <1>0, <1>1, <1>2, <1>3, <1>4, <1>5, <1>6, <1>7, <1>8 DEF WaitsFit, PromptWaits, OneMessage
<1>14. A!FirstPromptBriefs'
  BY <1>0, <1>1, <1>2, <1>3, <1>4, <1>5, <1>6, <1>7, <1>8 DEF A!FirstPromptBriefs, BriefingsFit, AgentTyped
<1> QED  BY <1>8, <1>9, <1>10, <1>11, <1>12, <1>13, <1>14 DEF AgentInv

LEMMA AgentStarts == ASSUME AgentInv, A!Starts PROVE AgentInv'
<1>0. AgentTyped /\ SessionFits /\ OneMessage /\ QuestionsFit /\ BriefingsFit /\ WaitsFit /\ A!FirstPromptBriefs
  BY DEF AgentInv
<1>1. panel' = panel /\ unanswered' = unanswered /\ commands' = commands /\ earlier' = earlier /\ waiting' = waiting /\ briefings' = briefings
  BY DEF A!Starts
<1>2. panel.session = "connecting" /\ agent.turn = "none" /\ panel \in PanelStates
  BY <1>0 DEF A!Starts, AgentTyped, SessionFits
<1>3. \E e \in AgentEvents : agentEvents' = <<e>> /\ e.on \in {"started", "failed"}
  <2>1. agentEvents = <<>>  BY DEF A!Starts
  <2>2. CASE agentEvents' = Append(agentEvents, [on |-> "failed"])  BY <2>1, <2>2 DEF AgentEvents
  <2>3. CASE \E mode \in A!Modes, effort \in {"default", "exact"} :
               agentEvents' = Append(agentEvents, [on |-> "started", options |-> [mode |-> mode, effort |-> effort]])
    BY <2>1, <2>3 DEF AgentEvents, OptionsShown
  <2>4. QED  BY <2>2, <2>3 DEF A!Starts, A!Emits
<1>4. agentEvents' \in Seq(AgentEvents) /\ DOMAIN agentEvents' = {1} /\ agentEvents'[1].on \in {"started", "failed"}
  BY <1>3
<1>5. agent' \in AgentStates /\ agent'.turn = "none" /\ (agent'.mode = "none" => agent' = A!NoAgent)
  BY DEF A!Starts, A!NoAgent, AgentStates, A!Modes
<1>6. AgentTyped'
  BY <1>0, <1>1, <1>2, <1>3, <1>4, <1>5 DEF AgentTyped, AgentStates, OptionsShown, A!Modes
<1>7. SessionFits'
  BY <1>0, <1>1, <1>2, <1>3, <1>4, <1>5, <1>6 DEF SessionFits, A!NoAgent, AgentTyped
<1>8. OneMessage'
  BY <1>0, <1>1, <1>2, <1>3, <1>4, <1>5, <1>6 DEF OneMessage, InCommands, InEvents, PromptWaits, InTurn, SessionFits
<1>9. QuestionsFit'
  BY <1>0, <1>1, <1>2, <1>3, <1>4, <1>5, <1>6 DEF QuestionsFit, InCommands, InEvents, PromptWaits, InTurn, OneMessage, SessionFits
<1>10. BriefingsFit'
  BY <1>0, <1>1, <1>2, <1>3, <1>4, <1>5, <1>6 DEF BriefingsFit, PromptWaits, InTurn, InCommands, InEvents, OneMessage, SessionFits, AgentTyped
<1>11. WaitsFit'
  BY <1>0, <1>1, <1>2, <1>3, <1>4, <1>5, <1>6 DEF WaitsFit, PromptWaits, OneMessage
<1>12. A!FirstPromptBriefs'
  BY <1>0, <1>1, <1>2, <1>3, <1>4, <1>5, <1>6 DEF A!FirstPromptBriefs, BriefingsFit, AgentTyped
<1> QED  BY <1>6, <1>7, <1>8, <1>9, <1>10, <1>11, <1>12 DEF AgentInv

LEMMA AgentDies == ASSUME AgentInv, A!Dies PROVE AgentInv'
<1>0. AgentTyped /\ SessionFits /\ OneMessage /\ QuestionsFit /\ BriefingsFit /\ WaitsFit /\ A!FirstPromptBriefs
  BY DEF AgentInv
<1>1. panel' = panel /\ unanswered' = {} /\ commands' = <<>> /\ earlier' = earlier /\ waiting' = A!NoPrompt /\ briefings' = briefings /\ agent' = A!NoAgent
  BY DEF A!Dies
<1>2. panel.session \in {"connecting", "ready"} /\ panel \in PanelStates
  BY <1>0 DEF A!Dies, AgentTyped, SessionFits, PanelStates
<1>3. /\ agentEvents' \in Seq(AgentEvents)
      /\ DOMAIN agentEvents' = 1 .. Len(agentEvents) + 1 /\ DOMAIN agentEvents = 1 .. Len(agentEvents) /\ Len(agentEvents) \in Nat
      /\ \A i \in DOMAIN agentEvents : agentEvents'[i] = agentEvents[i]
      /\ agentEvents'[Len(agentEvents) + 1].on = "failed"
      /\ \A i \in DOMAIN agentEvents' : i \in DOMAIN agentEvents \/ i = Len(agentEvents) + 1
  <2>1. agentEvents \in Seq(AgentEvents) /\ [on |-> "failed"] \in AgentEvents  BY <1>0 DEF AgentTyped, AgentEvents
  <2>2. QED  BY <2>1, AppendsCommand DEF A!Dies, A!Emits
<1>4. agent' \in AgentStates /\ agent'.turn = "none" /\ waiting'.at = "none" /\ DOMAIN commands' = {}
  BY <1>1 DEF A!NoAgent, AgentStates, A!NoPrompt
<1>5. AgentTyped'
  BY <1>0, <1>1, <1>2, <1>3, <1>4 DEF AgentTyped, AgentStates, OptionsShown, A!Modes, A!NoPrompt
<1>6. SessionFits'
  BY <1>0, <1>1, <1>2, <1>3, <1>4, <1>5 DEF SessionFits, A!NoAgent, AgentTyped
<1>7. OneMessage'
  BY <1>0, <1>1, <1>2, <1>3, <1>4, <1>5 DEF OneMessage, InCommands, InEvents, PromptWaits, InTurn, SessionFits
<1>8. QuestionsFit'
  BY <1>0, <1>1, <1>2, <1>3, <1>4, <1>5 DEF QuestionsFit, InCommands, InEvents, PromptWaits, InTurn, OneMessage, SessionFits
<1>9. BriefingsFit'
  BY <1>0, <1>1, <1>2, <1>3, <1>4, <1>5 DEF BriefingsFit, PromptWaits, InTurn, InCommands, InEvents, OneMessage, SessionFits, AgentTyped
<1>10. WaitsFit'
  BY <1>0, <1>1, <1>2, <1>3, <1>4, <1>5 DEF WaitsFit, PromptWaits, OneMessage
<1>11. A!FirstPromptBriefs'
  BY <1>0, <1>1, <1>2, <1>3, <1>4, <1>5 DEF A!FirstPromptBriefs, BriefingsFit, AgentTyped
<1> QED  BY <1>5, <1>6, <1>7, <1>8, <1>9, <1>10, <1>11 DEF AgentInv

-----------------------------------------------------------------------------
\* Every step of the panel, of the client, of the agent and of the person.
LEMMA AgentInductive == AgentInv /\ [A!Next]_(A!vars) => AgentInv'
<1> SUFFICES ASSUME AgentInv, [A!Next]_(A!vars) PROVE AgentInv'  OBVIOUS
<1>1. CASE A!Panel
  BY <1>1, ReadsEnvironment, TakesStart, TakesOptions, TakesRejection, TakesQuestion, TakesEnd, TakesDrop, TakesFailure DEF A!Panel
<1>2. CASE A!Client \/ A!PromptTask
  BY <1>2, TakesPrompt, CancelsTurn, SetsOption, GoesOn DEF A!Client, A!PromptTask
<1>3. CASE A!Starts \/ A!Changes \/ A!EndsTurn \/ A!Asks \/ A!Dies
  BY <1>3, AgentStarts, AnswersAChange, Ended, AsksFor, AgentDies DEF A!Changes
<1>4. CASE A!Send \/ A!Stop \/ A!Decide \/ A!NewThread  BY <1>4, QueuesMessage, SendsMessage, StopsTurn, Decides, Anew
<1>5. CASE \E mode \in A!Modes : A!PickMode(mode) \/ A!ChangesMode(mode)  BY <1>5, Picks, AgentChanges
<1>6. CASE UNCHANGED A!vars
  <2> USE <1>6 DEF A!vars
  <2>1. AgentTyped' /\ SessionFits' /\ OneMessage'
    BY DEF AgentInv, AgentTyped, SessionFits, OneMessage, InCommands, InEvents, PromptWaits, InTurn
  <2>2. QuestionsFit' /\ BriefingsFit' /\ WaitsFit' /\ A!FirstPromptBriefs'
    BY DEF AgentInv, QuestionsFit, BriefingsFit, WaitsFit, A!FirstPromptBriefs, InCommands, InEvents, PromptWaits, InTurn
  <2>3. QED  BY <2>1, <2>2 DEF AgentInv
<1>7. QED  BY <1>1, <1>2, <1>3, <1>4, <1>5, <1>6 DEF A!Next

LEMMA AgentInvHolds == A!Spec => []AgentInv
<1>1. QED  BY AgentInit, AgentInductive, PTL DEF A!Spec

LEMMA ThreadIsTyped == ASSUME AgentInv PROVE A!TypeOK
<1>1. AgentTyped /\ SessionFits /\ OneMessage /\ QuestionsFit  BY DEF AgentInv
<1>2. agent.turn # "none" \/ waiting # A!NoPrompt => panel.running
  BY <1>1 DEF OneMessage, AgentTyped, PromptWaits, InTurn
<1>3. QED  BY <1>1, <1>2 DEF A!TypeOK, AgentTyped, PanelStates, AgentStates, OptionsShown, SessionFits, QuestionsFit

(***************************************************************************)
(* The panel, the agent and their channels agree: who runs a turn, whom a  *)
(* question is for, and what is on its way when a session ends             *)
(* (connection.rs:257).                                                    *)
(***************************************************************************)
THEOREM ThreadTypeCorrect == A!Spec => []A!TypeOK
<1>1. AgentInv => A!TypeOK  BY ThreadIsTyped
<1>2. QED  BY <1>1, AgentInvHolds, PTL

(***************************************************************************)
(* The first prompt to reach an agent briefs it and no other does, also    *)
(* when a prompt was dropped on its way (panel.rs:60).                     *)
(***************************************************************************)
THEOREM OnlyTheFirstBriefs == A!Spec => []A!FirstPromptBriefs
<1>1. AgentInv => A!FirstPromptBriefs  BY DEF AgentInv
<1>2. QED  BY <1>1, AgentInvHolds, PTL

\* A prompt that goes on has seen the answer of every change that it needed.
LEMMA ReachesPrepared == ASSUME AgentInv, [A!Next]_(A!vars) PROVE [A!PromptWaited]_(A!vars)
<1>1. briefings \in Seq(BOOLEAN) /\ Len(briefings) \in Nat  BY DEF AgentInv, AgentTyped
<1>2. CASE briefings' = briefings  BY <1>1, <1>2 DEF A!PromptWaited
<1>3. CASE A!PromptGoesOn
  <2>1. earlier = {}  BY <1>3 DEF A!PromptGoesOn, AgentInv, WaitsFit, PromptWaits
  <2>2. QED  BY <1>3, <2>1 DEF A!PromptGoesOn, A!PromptWaited
<1>4. CASE A!NewThread  BY <1>1, <1>4 DEF A!NewThread, A!PromptWaited
<1>5. CASE UNCHANGED A!vars  BY <1>5
<1>6. QED
  BY <1>2, <1>3, <1>4, <1>5 DEF A!Next, A!Panel, A!Client, A!PromptTask, A!HandlePrompt, A!Changes, A!ReadsVariables, A!HandleStarted, A!HandleOptions,
    A!HandleRejected, A!HandlePermission, A!HandleTurnEnded, A!HandleDropped, A!HandleFailed, A!HandleCancel,
    A!HandleSetOption, A!Starts, A!AnswersChange, A!EndsTurn, A!Asks, A!Dies, A!Send, A!Stop, A!Decide, A!PickMode, A!ChangesMode

(***************************************************************************)
(* A prompt reaches the agent only after every change of the options that  *)
(* was under way when it was taken up has its answer (connection.rs:257).  *)
(***************************************************************************)
THEOREM PromptsAlwaysWait == A!Spec => A!PromptsWaitForOptions
<1>1. AgentInv /\ [A!Next]_(A!vars) => [A!PromptWaited]_(A!vars)  BY ReachesPrepared
<1>2. QED  BY <1>1, AgentInvHolds, PTL DEF A!Spec, A!PromptsWaitForOptions
=============================================================================
