-------------------------- MODULE CookieJarProofs --------------------------
(***************************************************************************)
(* The jars of any number of processes, with any cookies, share a file     *)
(* correctly.  Every property of CookieJar follows from one inductive      *)
(* invariant, which says of each process what its jar, the cookies that it *)
(* last saved and those of a save under way have to do with each other,    *)
(* and that the file stays as it is while a process holds its lock.  And,  *)
(* as one specification, what the parts that MCStores puts beside it keep. *)
(***************************************************************************)
EXTENDS MCStores, TLAPS

Keep == [since : SUBSET Keys, merged : SUBSET Keys, gone : SUBSET Keys,
         goneMerged : SUBSET Keys, took : SUBSET Keys]

Types ==
  /\ file \in Jars
  /\ lock \in Processes \union {Nobody}
  /\ expired \subseteq Values
  /\ cookies \in [Processes -> Jars]
  /\ revision \in [Processes -> Nat]
  /\ saved \in [Processes -> [revision : Nat, cookies : Jars]]
  /\ deleted \in [Processes -> SUBSET Keys]
  /\ step \in [Processes -> {"closed", "idle", "locked", "merged"}]
  /\ merged \in [Processes -> [cookies : Jars, revision : Nat, deleted : SUBSET Keys]]
  /\ removing \in [Processes -> BOOLEAN]
  /\ own \in [Processes -> Keep]

\* A process saves while it holds the lock, so no two do.
Locked == \A p \in Processes : lock = p <=> step[p] \in {"locked", "merged"}

Same(one, other, k) == Live(one)[k] = Live(other)[k]

\* Changes are counted, and a cookie of the jar is not to be deleted.
Counts(p) ==
  /\ saved[p].revision <= revision[p]
  /\ step[p] \in {"locked", "merged"} => saved[p].revision < revision[p]
  /\ step[p] = "merged" => merged[p].revision <= revision[p]
  /\ \A k \in deleted[p] : cookies[p][k] = NoCookie

\* A jar whose changes are counted as saved, or as merged, is as it was then.
Skips(p) ==
  /\ (step[p] = "idle" /\ ~Unsaved(p) /\ ~removing[p]) =>
       /\ \A k \in Keys : Same(cookies[p], saved[p].cookies, k)
       /\ deleted[p] = {}
  /\ (step[p] = "merged" /\ merged[p].revision = revision[p] /\ ~removing[p]) =>
       /\ \A k \in Keys : Same(cookies[p], merged[p].cookies, k)
       /\ deleted[p] = {}

\* A key that the process did not change and did not take is as it was last saved.
Unchanged(p) ==
  step[p] # "closed" =>
    \A k \in Keys \ (own[p].since \union own[p].merged \union own[p].took) :
      Same(cookies[p], saved[p].cookies, k) /\ k \notin deleted[p]

\* While a merge waits to be written, the file is as it was merged.
Writes(p) ==
  step[p] = "merged" =>
    /\ \A k \in Keys \ (own[p].merged \union own[p].took) :
         saved[p].cookies[k] \in expired \/ Same(merged[p].cookies, file, k)
    /\ \A k \in Keys \ own[p].since :
         Same(cookies[p], merged[p].cookies, k) /\ k \notin deleted[p]
    /\ merged[p].deleted \subseteq own[p].merged \union own[p].took

\* What a server deleted waits for a save, or is in the save under way.
Deletes(p) ==
  /\ step[p] \in {"idle", "locked"} => own[p].gone \subseteq deleted[p]
  /\ step[p] = "merged" =>
       /\ \A k \in own[p].goneMerged : merged[p].cookies[k] = NoCookie
       /\ own[p].gone \cap own[p].since \subseteq deleted[p]
       /\ \A k \in own[p].gone \ deleted[p] :
            k \in merged[p].deleted /\ cookies[p][k] = NoCookie

Good(p) == Counts(p) /\ Skips(p) /\ Unchanged(p) /\ Writes(p) /\ Deletes(p)

IInv == Types /\ Locked /\ \A p \in Processes : Good(p)

-----------------------------------------------------------------------------
(***************************************************************************)
(* What an action of another process, or time, leaves of a process.        *)
(***************************************************************************)
LEMMA OthersStayGood ==
  ASSUME NEW q \in Processes, Good(q),
         expired' = expired, cookies'[q] = cookies[q], revision'[q] = revision[q],
         saved'[q] = saved[q], deleted'[q] = deleted[q], step'[q] = step[q],
         merged'[q] = merged[q], removing'[q] = removing[q], own'[q] = own[q],
         step[q] = "merged" => file' = file
  PROVE  Good(q)'
<1>1. Counts(q)'
  BY DEF Good, Counts
<1>2. Skips(q)'
  BY DEF Good, Skips, Unsaved, Same, Live
<1>3. Unchanged(q)'
  BY DEF Good, Unchanged, Same, Live
<1>4. Writes(q)'
  BY DEF Good, Writes, Same, Live
<1>5. Deletes(q)'
  BY DEF Good, Deletes
<1> QED
  BY <1>1, <1>2, <1>3, <1>4, <1>5 DEF Good

\* Two cookies that are the same stay so when more values expire.
LEMMA SameStays ==
  ASSUME NEW v \in Values, expired' = expired \union {v},
         NEW one, NEW other, NEW k \in Keys, Same(one, other, k)
  PROVE  (IF one[k] \in expired' THEN NoCookie ELSE one[k])
           = (IF other[k] \in expired' THEN NoCookie ELSE other[k])
BY DEF Same, Live

LEMMA ExpireKeeps ==
  ASSUME IInv, NEW v \in Values, Expire(v)
  PROVE  IInv'
<1>1. Types'
  BY DEF IInv, Types, Expire
<1>2. Locked'
  BY DEF IInv, Locked, Expire
<1>3. ASSUME NEW q \in Processes
      PROVE  Good(q)'
  <2>0. Good(q) /\ expired' = expired \union {v}
    BY DEF IInv, Expire
  <2>1. Counts(q)'
    BY <2>0 DEF Good, Counts, Expire
  <2>2. Skips(q)'
    BY <2>0, SameStays DEF Good, Skips, Unsaved, Expire, Same, Live
  <2>3. Unchanged(q)'
    BY <2>0, SameStays DEF Good, Unchanged, Expire, Same, Live
  <2>4. Writes(q)'
    BY <2>0, SameStays DEF Good, Writes, Expire, Same, Live
  <2>5. Deletes(q)'
    BY <2>0 DEF Good, Deletes, Expire
  <2> QED
    BY <2>1, <2>2, <2>3, <2>4, <2>5 DEF Good
<1> QED
  BY <1>1, <1>2, <1>3 DEF IInv

LEMMA InitGood == Init => IInv
<1> SUFFICES ASSUME Init PROVE IInv
  OBVIOUS
<1>1. None \in Jars
  BY DEF None, Jars
<1>2. Types
  BY <1>1 DEF Init, Types, Keep, NothingOwn, NoMerge
<1>3. Locked
  BY NobodyAssumption DEF Init, Locked
<1>4. ASSUME NEW p \in Processes
      PROVE  Good(p)
  BY DEF Init, Good, Counts, Skips, Unchanged, Writes, Deletes, NothingOwn
<1> QED
  BY <1>2, <1>3, <1>4 DEF IInv

LEMMA LiveJar == \A jar \in Jars : Live(jar) \in Jars
BY DEF Live, Jars

LEMMA OpenKeeps ==
  ASSUME IInv, NEW p \in Processes, Open(p)
  PROVE  IInv'
<1>1. Types'
  BY LiveJar DEF IInv, Types, Open, Keep, NothingOwn
<1>2. Locked'
  BY DEF IInv, Locked, Types, Open
<1>3. Good(p)'
  BY DEF IInv, Types, Open, Good, Counts, Skips, Unchanged, Writes, Deletes, NothingOwn, Same, Live
<1>4. ASSUME NEW q \in Processes, q # p
      PROVE  Good(q)'
  BY <1>4, OthersStayGood DEF IInv, Types, Open
<1> QED
  BY <1>1, <1>2, <1>3, <1>4 DEF IInv

LEMMA EndKeeps ==
  ASSUME IInv, NEW p \in Processes, End(p)
  PROVE  IInv'
<1>1. Types'
  BY DEF IInv, Types, End, NoMerge, None, Jars
<1>2. Locked'
  BY NobodyAssumption DEF IInv, Locked, Types, End
<1>3. Good(p)'
  BY DEF IInv, Types, End, Good, Counts, Skips, Unchanged, Writes, Deletes
<1>4. ASSUME NEW q \in Processes, q # p
      PROVE  Good(q)'
  BY <1>4, OthersStayGood DEF IInv, Types, End
<1> QED
  BY <1>1, <1>2, <1>3, <1>4 DEF IInv

-----------------------------------------------------------------------------
(***************************************************************************)
(* Changes of a jar.                                                       *)
(***************************************************************************)
LEMMA OwnsTyped ==
  ASSUME Types, NEW p \in Processes, NEW keys \in SUBSET Keys, NEW gone \in BOOLEAN,
         Owns(p, keys, gone)
  PROVE  own' \in [Processes -> Keep]
<1>1. own[p].gone \union keys \in SUBSET Keys /\ own[p].gone \ keys \in SUBSET Keys
  BY DEF Types, Keep
<1>2. own[p].since \union keys \in SUBSET Keys
  BY DEF Types, Keep
<1>3. own[p] \in Keep
  BY DEF Types
<1>4. \A one, two \in SUBSET Keys : [own[p] EXCEPT !.since = one, !.gone = two] \in Keep
  BY <1>3 DEF Keep
<1>5. own' = [own EXCEPT ![p] = [own[p] EXCEPT !.since = own[p].since \union keys,
                                              !.gone = IF gone THEN own[p].gone \union keys
                                                               ELSE own[p].gone \ keys]]
  BY <1>3 DEF Owns, Types
<1>6. (IF gone THEN own[p].gone \union keys ELSE own[p].gone \ keys) \in SUBSET Keys
  BY <1>1
<1>7. [own[p] EXCEPT !.since = own[p].since \union keys,
                     !.gone = IF gone THEN own[p].gone \union keys ELSE own[p].gone \ keys]
        \in Keep
  BY <1>2, <1>4, <1>6
<1> QED
  BY <1>5, <1>7 DEF Types

LEMMA StoreKeeps ==
  ASSUME IInv, NEW p \in Processes, NEW k \in Keys, NEW v \in Values, Store(p, k, v)
  PROVE  IInv'
<1> USE DEF Store, Changes, Counted, Owns
<1>0. Good(p)
  BY DEF IInv
<1>1. Types'
  <2>1. own' \in [Processes -> Keep]
    BY OwnsTyped, {k} \in SUBSET Keys DEF IInv
  <2>2. cookies' \in [Processes -> Jars]
    BY DEF IInv, Types, Jars
  <2> QED
    BY <2>1, <2>2 DEF IInv, Types
<1>2. Locked'
  BY DEF IInv, Locked
<1>3. Good(p)'
  <2>1. Counts(p)'
    BY <1>0, NoCookieAssumption DEF IInv, Types, Jars, Good, Counts
  <2>2. Skips(p)'
    BY <1>0 DEF IInv, Types, Good, Counts, Skips, Unsaved
  <2>3. Unchanged(p)'
    BY <1>0 DEF IInv, Types, Jars, Keep, Good, Unchanged, Same, Live
  <2>4. Writes(p)'
    BY <1>0 DEF IInv, Types, Jars, Keep, Good, Writes, Same, Live
  <2>5. Deletes(p)'
    BY <1>0 DEF IInv, Types, Jars, Keep, Good, Deletes
  <2> QED
    BY <2>1, <2>2, <2>3, <2>4, <2>5 DEF Good
<1>4. ASSUME NEW q \in Processes, q # p
      PROVE  Good(q)'
  BY <1>4, OthersStayGood DEF IInv, Types
<1> QED
  BY <1>1, <1>2, <1>3, <1>4 DEF IInv

LEMMA ServerDeletesKeeps ==
  ASSUME IInv, NEW p \in Processes, NEW k \in Keys, ServerDeletes(p, k)
  PROVE  IInv'
<1> USE DEF ServerDeletes, Changes, Counted, Owns
<1>0. Good(p)
  BY DEF IInv
<1>1. Types'
  <2>1. own' \in [Processes -> Keep]
    BY OwnsTyped, {k} \in SUBSET Keys DEF IInv
  <2>2. cookies' \in [Processes -> Jars]
    BY DEF IInv, Types, Jars
  <2> QED
    BY <2>1, <2>2 DEF IInv, Types
<1>2. Locked'
  BY DEF IInv, Locked
<1>3. Good(p)'
  <2>1. Counts(p)'
    BY <1>0 DEF IInv, Types, Jars, Good, Counts
  <2>2. Skips(p)'
    BY <1>0 DEF IInv, Types, Good, Counts, Skips, Unsaved
  <2>3. Unchanged(p)'
    BY <1>0 DEF IInv, Types, Jars, Keep, Good, Unchanged, Same, Live
  <2>4. Writes(p)'
    BY <1>0 DEF IInv, Types, Jars, Keep, Good, Writes, Same, Live
  <2>5. Deletes(p)'
    BY <1>0 DEF IInv, Types, Jars, Keep, Good, Deletes
  <2> QED
    BY <2>1, <2>2, <2>3, <2>4, <2>5 DEF Good
<1>4. ASSUME NEW q \in Processes, q # p
      PROVE  Good(q)'
  BY <1>4, OthersStayGood DEF IInv, Types
<1> QED
  BY <1>1, <1>2, <1>3, <1>4 DEF IInv

LEMMA RemoveKeeps ==
  ASSUME IInv, NEW p \in Processes, NEW k \in Keys, Remove(p, k)
  PROVE  IInv'
<1> USE DEF Remove, Changes, Owns
<1>0. Good(p)
  BY DEF IInv
<1>1. Types'
  <2>1. own' \in [Processes -> Keep]
    BY OwnsTyped, {k} \in SUBSET Keys DEF IInv
  <2>2. cookies' \in [Processes -> Jars]
    BY DEF IInv, Types, Jars
  <2> QED
    BY <2>1, <2>2 DEF IInv, Types
<1>2. Locked'
  BY DEF IInv, Locked
<1>3. Good(p)'
  <2>1. Counts(p)'
    BY <1>0 DEF IInv, Types, Jars, Good, Counts
  <2>2. Skips(p)'
    BY <1>0 DEF IInv, Types, Skips
  <2>3. Unchanged(p)'
    BY <1>0 DEF IInv, Types, Jars, Keep, Good, Unchanged, Same, Live
  <2>4. Writes(p)'
    BY <1>0 DEF IInv, Types, Jars, Keep, Good, Writes, Same, Live
  <2>5. Deletes(p)'
    BY <1>0 DEF IInv, Types, Jars, Keep, Good, Deletes
  <2> QED
    BY <2>1, <2>2, <2>3, <2>4, <2>5 DEF Good
<1>4. ASSUME NEW q \in Processes, q # p
      PROVE  Good(q)'
  BY <1>4, OthersStayGood DEF IInv, Types
<1> QED
  BY <1>1, <1>2, <1>3, <1>4 DEF IInv

LEMMA ClearKeeps ==
  ASSUME IInv, NEW p \in Processes, Clear(p)
  PROVE  IInv'
<1> USE DEF Clear, Changes, Owns
<1>0. Good(p)
  BY DEF IInv
<1>1. Types'
  <2>1. own' \in [Processes -> Keep]
    BY OwnsTyped, {k \in Keys : cookies[p][k] # NoCookie} \in SUBSET Keys DEF IInv
  <2>2. cookies' \in [Processes -> Jars]
    BY DEF IInv, Types, Jars, None
  <2> QED
    BY <2>1, <2>2 DEF IInv, Types
<1>2. Locked'
  BY DEF IInv, Locked
<1>3. Good(p)'
  <2>1. Counts(p)'
    BY <1>0 DEF IInv, Types, Jars, None, Good, Counts
  <2>2. Skips(p)'
    BY <1>0 DEF IInv, Types, Skips
  <2>3. Unchanged(p)'
    BY <1>0 DEF IInv, Types, Jars, None, Keep, Good, Unchanged, Same, Live
  <2>4. Writes(p)'
    BY <1>0 DEF IInv, Types, Jars, None, Keep, Good, Writes, Same, Live
  <2>5. Deletes(p)'
    BY <1>0 DEF IInv, Types, Jars, None, Keep, Good, Deletes
  <2> QED
    BY <2>1, <2>2, <2>3, <2>4, <2>5 DEF Good
<1>4. ASSUME NEW q \in Processes, q # p
      PROVE  Good(q)'
  BY <1>4, OthersStayGood DEF IInv, Types
<1> QED
  BY <1>1, <1>2, <1>3, <1>4 DEF IInv

LEMMA RemovedKeeps ==
  ASSUME IInv, NEW p \in Processes, Removed(p)
  PROVE  IInv'
<1>0. Good(p)
  BY DEF IInv
<1>1. Types'
  BY DEF Removed, IInv, Types
<1>2. Locked'
  BY DEF Removed, IInv, Locked
<1>3. Good(p)'
  <2>1. Counts(p)'
    BY <1>0 DEF Removed, IInv, Types, Good, Counts
  <2>2. Skips(p)'
    BY <1>0 DEF Removed, IInv, Types, Good, Counts, Skips, Unsaved
  <2>3. Unchanged(p)'
    BY <1>0 DEF Removed, Good, Unchanged, Same, Live
  <2>4. Writes(p)'
    BY <1>0 DEF Removed, Good, Writes, Same, Live
  <2>5. Deletes(p)'
    BY <1>0 DEF Removed, Good, Deletes
  <2> QED
    BY <2>1, <2>2, <2>3, <2>4, <2>5 DEF Good
<1>4. ASSUME NEW q \in Processes, q # p
      PROVE  Good(q)'
  BY <1>4, OthersStayGood DEF Removed, IInv, Types
<1> QED
  BY <1>1, <1>2, <1>3, <1>4 DEF IInv

-----------------------------------------------------------------------------
(***************************************************************************)
(* save().                                                                 *)
(***************************************************************************)
LEMMA BeginKeeps ==
  ASSUME IInv, NEW p \in Processes, Begin(p)
  PROVE  IInv'
<1>0. Good(p)
  BY DEF IInv
<1>1. Types'
  BY DEF Begin, IInv, Types
<1>2. Locked'
  BY NobodyAssumption DEF Begin, IInv, Types, Locked
<1>3. Good(p)'
  <2>1. Counts(p)'
    <3>1. saved[p].revision \in Nat /\ revision[p] \in Nat
      BY DEF IInv, Types
    <3>2. saved[p].revision < revision[p]
      BY <1>0, <3>1 DEF Begin, Unsaved, Good, Counts
    <3> QED
      BY <1>0, <3>2 DEF Begin, IInv, Types, Good, Counts
  <2>2. Skips(p)'
    BY DEF Begin, IInv, Types, Skips
  <2>3. Unchanged(p)'
    BY <1>0 DEF Begin, IInv, Types, Good, Unchanged, Same, Live
  <2>4. Writes(p)'
    BY DEF Begin, IInv, Types, Writes
  <2>5. Deletes(p)'
    BY <1>0 DEF Begin, IInv, Types, Good, Deletes
  <2> QED
    BY <2>1, <2>2, <2>3, <2>4, <2>5 DEF Good
<1>4. ASSUME NEW q \in Processes, q # p
      PROVE  Good(q)'
  BY <1>4, OthersStayGood DEF Begin, IInv, Types
<1> QED
  BY <1>1, <1>2, <1>3, <1>4 DEF IInv

LEMMA MergedJar ==
  \A last, ours, current \in Jars, gone \in SUBSET Keys :
    Merged(last, ours, gone, current) \in Jars
BY DEF Merged, Jars

LEMMA MergeKeeps ==
  ASSUME IInv, NEW p \in Processes, Merge(p)
  PROVE  IInv'
<1> DEFINE result == Merged(saved[p].cookies, Live(cookies[p]), deleted[p], Live(file))
<1>0. Good(p)
  BY DEF IInv
<1>a. result \in Jars
  BY LiveJar, MergedJar DEF IInv, Types
<1>b. /\ cookies' = [cookies EXCEPT ![p] = result]
      /\ revision' = [revision EXCEPT ![p] = RevisionAfter(p, result)]
      /\ merged' = [merged EXCEPT ![p] = [cookies |-> result, deleted |-> deleted[p],
                                          revision |-> RevisionAfter(p, result)]]
      /\ own' = [own EXCEPT ![p].merged = @ \union own[p].since, ![p].since = {},
                            ![p].goneMerged = own[p].gone,
                            ![p].took = @ \union {k \in Keys :
                                          result[k] # Live(cookies[p])[k]}]
      /\ deleted' = [deleted EXCEPT ![p] = {}]
      /\ step' = [step EXCEPT ![p] = "merged"]
      /\ step[p] = "locked"
      /\ UNCHANGED <<file, lock, expired, saved, removing, bounds>>
  BY DEF Merge
<1>c. RevisionAfter(p, result) \in Nat /\ RevisionAfter(p, result) >= revision[p]
  BY DEF RevisionAfter, IInv, Types
<1>d. \A k \in Keys : result[k] =
        IF Live(cookies[p])[k] # NoCookie /\ saved[p].cookies[k] # Live(cookies[p])[k]
          THEN Live(cookies[p])[k]
        ELSE IF \/ saved[p].cookies[k] # NoCookie /\ Live(cookies[p])[k] = NoCookie
                \/ k \in deleted[p]
          THEN NoCookie
        ELSE Live(file)[k]
  BY DEF Merged
<1>e. \A k \in deleted[p] : result[k] = NoCookie
  BY <1>0, <1>d DEF Good, Counts, IInv, Types, Live
<1> HIDE DEF result
<1>1. Types'
  <2>1. own' \in [Processes -> Keep]
    <3>1. own[p] \in Keep
      BY DEF IInv, Types
    <3>2. \A one, two, three, four \in SUBSET Keys :
            [own[p] EXCEPT !.merged = one, !.since = two, !.goneMerged = three, !.took = four]
              \in Keep
      BY <3>1 DEF Keep
    <3>3. /\ own[p].merged \union own[p].since \in SUBSET Keys
          /\ own[p].gone \in SUBSET Keys
          /\ own[p].took \union {k \in Keys : result[k] # Live(cookies[p])[k]} \in SUBSET Keys
      BY <3>1 DEF Keep
    <3>4. [own[p] EXCEPT !.merged = own[p].merged \union own[p].since, !.since = {},
                         !.goneMerged = own[p].gone,
                         !.took = own[p].took \union {k \in Keys :
                                                      result[k] # Live(cookies[p])[k]}] \in Keep
      BY <3>2, <3>3
    <3> QED
      BY <1>b, <3>4 DEF IInv, Types
  <2>2. merged' \in [Processes -> [cookies : Jars, revision : Nat, deleted : SUBSET Keys]]
    BY <1>a, <1>b, <1>c DEF IInv, Types
  <2> QED
    BY <1>a, <1>b, <1>c, <2>1, <2>2 DEF IInv, Types
<1>2. Locked'
  BY <1>b DEF IInv, Types, Locked
<1>3. Good(p)'
  <2>1. Counts(p)'
    BY <1>0, <1>b, <1>c DEF IInv, Types, Good, Counts
  <2>2. Skips(p)'
    BY <1>b DEF IInv, Types, Skips, Same
  <2>3. Unchanged(p)'
    <3> SUFFICES ASSUME NEW k \in Keys,
                        k \notin own[p].since \union own[p].merged \union own[p].took,
                        result[k] = Live(cookies[p])[k]
                 PROVE  Same(cookies[p], saved[p].cookies, k)'
      BY <1>b DEF IInv, Types, Keep, Unchanged
    <3>1. Same(cookies[p], saved[p].cookies, k)
      BY <1>0, <1>b DEF Good, Unchanged
    <3> QED
      BY <3>1, <1>b DEF IInv, Types, Jars, Same, Live
  <2>4. Writes(p)'
    <3>1. ASSUME NEW k \in Keys,
                 k \notin own[p].since \union own[p].merged \union own[p].took,
                 result[k] = Live(cookies[p])[k]
          PROVE  saved[p].cookies[k] \in expired \/ Same(result, file, k)
      <4>1. Same(cookies[p], saved[p].cookies, k) /\ k \notin deleted[p]
        BY <1>0, <1>b, <3>1 DEF Good, Unchanged
      <4> QED
        BY <4>1, <1>d DEF IInv, Types, Jars, Same, Live
    <3>2. deleted[p] \subseteq own[p].since \union own[p].merged \union own[p].took
      BY <1>0, <1>b DEF Good, Unchanged, IInv, Types
    <3> QED
      BY <3>1, <3>2, <1>b DEF IInv, Types, Keep, Writes, Same, Live
  <2>5. Deletes(p)'
    BY <1>0, <1>b, <1>e DEF IInv, Types, Keep, Good, Deletes
  <2> QED
    BY <2>1, <2>2, <2>3, <2>4, <2>5 DEF Good
<1>4. ASSUME NEW q \in Processes, q # p
      PROVE  Good(q)'
  BY <1>4, <1>b, OthersStayGood DEF IInv, Types
<1> QED
  BY <1>1, <1>2, <1>3, <1>4 DEF IInv

LEMMA WriteKeeps ==
  ASSUME IInv, NEW p \in Processes, Write(p)
  PROVE  IInv'
<1> USE DEF Write, Unlocks, Written
<1>0. Good(p)
  BY DEF IInv
<1>1. Types'
  <2>1. own' \in [Processes -> Keep]
    <3>1. own[p] \in Keep
      BY DEF IInv, Types
    <3>2. \A gone \in SUBSET Keys :
            [own[p] EXCEPT !.merged = {}, !.goneMerged = {}, !.took = {}, !.gone = gone] \in Keep
      BY <3>1 DEF Keep
    <3>3. own[p].gone \cap own[p].since \in SUBSET Keys
      BY <3>1 DEF Keep
    <3>4. [own[p] EXCEPT !.merged = {}, !.goneMerged = {}, !.took = {},
                         !.gone = own[p].gone \cap own[p].since] \in Keep
      BY <3>2, <3>3
    <3> QED
      BY <3>4 DEF IInv, Types
  <2>2. merged[p].cookies \in Jars /\ merged[p].revision \in Nat
    BY DEF IInv, Types
  <2>3. NoMerge \in [cookies : Jars, revision : Nat, deleted : SUBSET Keys]
    BY DEF NoMerge, None, Jars
  <2> QED
    BY <2>1, <2>2, <2>3 DEF IInv, Types
<1>2. Locked'
  BY NobodyAssumption DEF IInv, Types, Locked
<1>3. Good(p)'
  <2>1. Counts(p)'
    BY <1>0 DEF IInv, Types, Good, Counts
  <2>2. Skips(p)'
    BY <1>0 DEF IInv, Types, Good, Skips, Unsaved, Same, Live
  <2>3. Unchanged(p)'
    BY <1>0 DEF IInv, Types, Keep, Good, Unchanged, Writes, Same, Live
  <2>4. Writes(p)'
    BY DEF IInv, Types, Writes
  <2>5. Deletes(p)'
    BY <1>0 DEF IInv, Types, Keep, Good, Deletes
  <2> QED
    BY <2>1, <2>2, <2>3, <2>4, <2>5 DEF Good
<1>4. ASSUME NEW q \in Processes, q # p
      PROVE  Good(q)'
  <2>1. step[q] # "merged"
    BY <1>4 DEF IInv, Locked
  <2> QED
    BY <1>4, <2>1, OthersStayGood DEF IInv, Types
<1> QED
  BY <1>1, <1>2, <1>3, <1>4 DEF IInv

LEMMA ReadFailsKeeps ==
  ASSUME IInv, NEW p \in Processes, ReadFails(p)
  PROVE  IInv'
<1> USE DEF ReadFails, Fails, Unlocks
<1>0. Good(p)
  BY DEF IInv
<1>1. Types'
  BY DEF IInv, Types, NoMerge, None, Jars
<1>2. Locked'
  BY NobodyAssumption DEF IInv, Types, Locked
<1>3. Good(p)'
  <2>1. Counts(p)'
    BY <1>0 DEF IInv, Types, Good, Counts
  <2>2. Skips(p)'
    BY <1>0 DEF IInv, Types, Good, Counts, Skips, Unsaved
  <2>3. Unchanged(p)'
    BY <1>0 DEF IInv, Types, Good, Unchanged, Same, Live
  <2>4. Writes(p)'
    BY DEF IInv, Types, Writes
  <2>5. Deletes(p)'
    BY <1>0 DEF IInv, Types, Good, Deletes
  <2> QED
    BY <2>1, <2>2, <2>3, <2>4, <2>5 DEF Good
<1>4. ASSUME NEW q \in Processes, q # p
      PROVE  Good(q)'
  BY <1>4, OthersStayGood DEF IInv, Types
<1> QED
  BY <1>1, <1>2, <1>3, <1>4 DEF IInv

LEMMA WriteFailsKeeps ==
  ASSUME IInv, NEW p \in Processes, WriteFails(p)
  PROVE  IInv'
<1> USE DEF WriteFails, Fails, Unlocks, Restored
<1>0. Good(p)
  BY DEF IInv
<1>1. Types'
  BY DEF IInv, Types, NoMerge, None, Jars
<1>2. Locked'
  BY NobodyAssumption DEF IInv, Types, Locked
<1>3. Good(p)'
  <2>1. Counts(p)'
    BY <1>0 DEF IInv, Types, Good, Counts
  <2>2. Skips(p)'
    BY <1>0 DEF IInv, Types, Good, Counts, Skips, Unsaved
  <2>3. Unchanged(p)'
    BY <1>0 DEF IInv, Types, Good, Unchanged, Writes, Same, Live
  <2>4. Writes(p)'
    BY DEF IInv, Types, Writes
  <2>5. Deletes(p)'
    BY <1>0 DEF IInv, Types, Keep, Good, Deletes
  <2> QED
    BY <2>1, <2>2, <2>3, <2>4, <2>5 DEF Good
<1>4. ASSUME NEW q \in Processes, q # p
      PROVE  Good(q)'
  BY <1>4, OthersStayGood DEF IInv, Types
<1> QED
  BY <1>1, <1>2, <1>3, <1>4 DEF IInv

-----------------------------------------------------------------------------
(***************************************************************************)
(* The invariant holds after every step.                                   *)
(***************************************************************************)
LEMMA StepKeeps == IInv /\ [Next]_vars => IInv'
<1> SUFFICES ASSUME IInv, [Next]_vars PROVE IInv'
  OBVIOUS
<1>1. ASSUME NEW p \in Processes, Process(p) PROVE IInv'
  BY <1>1, OpenKeeps, EndKeeps, StoreKeeps, ServerDeletesKeeps, RemoveKeeps, RemovedKeeps,
     ClearKeeps, BeginKeeps, MergeKeeps, WriteKeeps, ReadFailsKeeps, WriteFailsKeeps
     DEF Process
<1>2. ASSUME NEW v \in Values, Expire(v) PROVE IInv'
  BY <1>2, ExpireKeeps
<1>3. CASE UNCHANGED vars
  <2>1. Types' /\ Locked'
    BY <1>3 DEF vars, IInv, Types, Locked
  <2>2. ASSUME NEW q \in Processes PROVE Good(q)'
    BY <1>3, OthersStayGood DEF vars, IInv
  <2> QED
    BY <2>1, <2>2 DEF IInv
<1> QED
  BY <1>1, <1>2, <1>3 DEF Next

THEOREM Invariant == Spec => []IInv
BY InitGood, StepKeeps, PTL DEF Spec

(***************************************************************************)
(* Every jar, the file and its lock are of their types, one process at a   *)
(* time saves, and no cookie is in a jar and to be deleted from the file.  *)
(***************************************************************************)
THEOREM TypeCorrect == Spec => []TypeOK
<1>1. IInv => TypeOK
  BY DEF IInv, Types, Locked, Good, Counts, TypeOK
<1> QED
  BY <1>1, Invariant, PTL

(***************************************************************************)
(* cookies.rs:51: save() skips no jar that changed since it was last read  *)
(* or written, whatever happened while a save was writing.                 *)
(***************************************************************************)
THEOREM NoChangeIsSkipped == Spec => []SkippedJarsAreSaved
<1>1. IInv => SkippedJarsAreSaved
  <2> SUFFICES ASSUME IInv, NEW p \in Processes, step[p] = "idle", ~Unsaved(p), ~removing[p]
               PROVE  Live(cookies[p]) = Live(saved[p].cookies) /\ deleted[p] = {}
    BY DEF SkippedJarsAreSaved
  <2> QED
    BY DEF IInv, Good, Skips, Same, Live
<1> QED
  BY <1>1, Invariant, PTL

(***************************************************************************)
(* cookies.rs:112: a save replaces no cookie of the file but those the     *)
(* process changed, those it took in a save that failed and those that     *)
(* expired.                                                                *)
(***************************************************************************)
THEOREM SavesReplaceOwnChanges == Spec => OnlyOwnChangesReplace
<1> DEFINE Step == \A p \in Processes : Write(p) =>
                     \A k \in Replaces(p) : \/ k \in own[p].merged \union own[p].took
                                            \/ saved[p].cookies[k] \in expired
<1>1. IInv => Step
  <2> SUFFICES ASSUME IInv, NEW p \in Processes, Write(p), NEW k \in Replaces(p),
                      k \notin own[p].merged \union own[p].took
               PROVE  saved[p].cookies[k] \in expired
    OBVIOUS
  <2> QED
    BY DEF IInv, Good, Writes, Write, Replaces, Same
<1>2. IInv /\ [Next]_vars => [Step]_vars
  BY <1>1
<1> QED
  BY <1>2, Invariant, PTL DEF Spec, OnlyOwnChangesReplace

(***************************************************************************)
(* cookies.rs:61: a save that works deletes from the file what servers     *)
(* deleted before its merge, also before saves that failed, unless it was  *)
(* set again.                                                              *)
(***************************************************************************)
THEOREM SavesDelete == Spec => DeletionsReachTheFile
<1> DEFINE Step == \A p \in Processes : Write(p) =>
                     \A k \in own[p].goneMerged : file'[k] = NoCookie
<1>1. IInv => Step
  BY SMTT(20) DEF IInv, Good, Deletes, Write
<1>2. IInv /\ [Next]_vars => [Step]_vars
  BY SMTT(20), <1>1
<1> QED
  BY <1>2, Invariant, PTL DEF Spec, DeletionsReachTheFile
-----------------------------------------------------------------------------
(***************************************************************************)
(* The parts in one run.  A behavior of StoresSpec is one of a single      *)
(* part, so what the specification of each part keeps holds of it: SP is   *)
(* what is proved of those parts, which MCStores names otherwise.          *)
(***************************************************************************)
SP == INSTANCE StoresProofs WITH
        NoId <- NoCookie, MaxFailures <- MaxRefusals, saved <- written, file <- sessionFile,
        NoName <- NoItem

LEMMA PreferencesAreSame ==
  /\ P!Init <=> SP!P!Init
  /\ P!Next <=> SP!P!Next
  /\ P!TypeOK <=> SP!P!TypeOK
  /\ P!SavedReferenceExists <=> SP!P!SavedReferenceExists
  /\ P!NoSecretIsLost <=> SP!P!NoSecretIsLost
  /\ P!LastEditWins <=> SP!P!LastEditWins
  /\ P!OtherSettingsStay <=> SP!P!OtherSettingsStay
  /\ UNCHANGED P!vars <=> UNCHANGED SP!P!vars
BY DEF
     P!All, P!Background, P!DeletesEntry, P!Document, P!Edit, P!Ends, P!Fail, P!Finishes, P!Init,
     P!IsNewest, P!Last, P!LastEditWins, P!Load, P!MayUpdate, P!Migrate, P!Migrated, P!NewEdit,
     P!Next, P!NoSecretIsLost, P!Opens, P!OtherSettingsStay, P!Persist, P!Quiet, P!ReadCredentials,
     P!Replaces, P!Restores, P!Save, P!Saved, P!SavedReferenceExists, P!Saves, P!Stages, P!Start,
     P!Stop, P!Toggles, P!Told, P!TypeOK, P!Types, P!Unused, P!UpdatesOther, P!User, P!Waits,
     P!With, P!Without, P!Works, P!WritesEntry, P!counts, P!ghosts, P!vars, SP!P!All,
     SP!P!Background, SP!P!DeletesEntry, SP!P!Document, SP!P!Edit, SP!P!Ends, SP!P!Fail,
     SP!P!Finishes, SP!P!Init, SP!P!IsNewest, SP!P!Last, SP!P!LastEditWins, SP!P!Load,
     SP!P!MayUpdate, SP!P!Migrate, SP!P!Migrated, SP!P!NewEdit, SP!P!Next, SP!P!NoSecretIsLost,
     SP!P!Opens, SP!P!OtherSettingsStay, SP!P!Persist, SP!P!Quiet, SP!P!ReadCredentials,
     SP!P!Replaces, SP!P!Restores, SP!P!Save, SP!P!Saved, SP!P!SavedReferenceExists, SP!P!Saves,
     SP!P!Stages, SP!P!Start, SP!P!Stop, SP!P!Toggles, SP!P!Told, SP!P!TypeOK, SP!P!Types,
     SP!P!Unused, SP!P!UpdatesOther, SP!P!User, SP!P!Waits, SP!P!With, SP!P!Without, SP!P!Works,
     SP!P!WritesEntry, SP!P!counts, SP!P!ghosts, SP!P!vars

LEMMA HistoryIsSame ==
  /\ H!Init <=> SP!H!Init
  /\ H!Next <=> SP!H!Next
  /\ H!TypeOK <=> SP!H!TypeOK
  /\ H!SavedRequestsStay <=> SP!H!SavedRequestsStay
  /\ H!RecordsAreWhole <=> SP!H!RecordsAreWhole
  /\ H!OpenedRequestsAreFound <=> SP!H!OpenedRequestsAreFound
  /\ H!QuitSavesEverything <=> SP!H!QuitSavesEverything
  /\ UNCHANGED H!vars <=> UNCHANGED SP!H!vars
BY DEF
     H!AfterFailure, H!Cardinality, H!Clear, H!Counts, H!Current, H!Delete, H!Deletes, H!Does,
     H!End, H!Extensions, H!Fails, H!Finishes, H!Init, H!IsInjective, H!Job, H!Kill, H!Load,
     H!Next, H!Oldest, H!Op, H!OpDone, H!Open, H!OpenedRequestsAreFound, H!Panel, H!Queues, H!Quit,
     H!QuitSavesEverything, H!Reads, H!Record, H!RecordsAreWhole, H!RemoveAt, H!Removes,
     H!RemovesAll, H!Requests, H!SavedRequestsStay, H!SetToSeq, H!Taken, H!Touched, H!TypeOK,
     H!Undo, H!Worker, H!Works, H!WriteIndex, H!vars, SP!H!AfterFailure, SP!H!Cardinality,
     SP!H!Clear, SP!H!Counts, SP!H!Current, SP!H!Delete, SP!H!Deletes, SP!H!Does, SP!H!End,
     SP!H!Extensions, SP!H!Fails, SP!H!Finishes, SP!H!Init, SP!H!IsInjective, SP!H!Job, SP!H!Kill,
     SP!H!Load, SP!H!Next, SP!H!Oldest, SP!H!Op, SP!H!OpDone, SP!H!Open,
     SP!H!OpenedRequestsAreFound, SP!H!Panel, SP!H!Queues, SP!H!Quit, SP!H!QuitSavesEverything,
     SP!H!Reads, SP!H!Record, SP!H!RecordsAreWhole, SP!H!RemoveAt, SP!H!Removes, SP!H!RemovesAll,
     SP!H!Requests, SP!H!SavedRequestsStay, SP!H!SetToSeq, SP!H!Taken, SP!H!Touched, SP!H!TypeOK,
     SP!H!Undo, SP!H!Worker, SP!H!Works, SP!H!WriteIndex, SP!H!vars

LEMMA SessionIsSame ==
  /\ S!Init <=> SP!S!Init
  /\ S!Next <=> SP!S!Next
  /\ S!TypeOK <=> SP!S!TypeOK
  /\ S!FileIsCurrent <=> SP!S!FileIsCurrent
  /\ S!KeepsNewest <=> SP!S!KeepsNewest
  /\ UNCHANGED S!vars <=> UNCHANGED SP!S!vars
BY DEF
     S!Change, S!Checkpoint, S!Close, S!Fails, S!FileIsCurrent, S!Init, S!IsOlder, S!KeepsNewest,
     S!Kill, S!Next, S!NothingSaving, S!Save, S!SaveInBackground, S!Schedules, S!Task, S!TypeOK,
     S!vars, SP!S!Change, SP!S!Checkpoint, SP!S!Close, SP!S!Fails, SP!S!FileIsCurrent, SP!S!Init,
     SP!S!IsOlder, SP!S!KeepsNewest, SP!S!Kill, SP!S!Next, SP!S!NothingSaving, SP!S!Save,
     SP!S!SaveInBackground, SP!S!Schedules, SP!S!Task, SP!S!TypeOK, SP!S!vars

LEMMA EnvironmentsAreSame ==
  /\ E!Init <=> SP!E!Init
  /\ E!Next <=> SP!E!Next
  /\ E!TypeOK <=> SP!E!TypeOK
  /\ E!TabsFollowTheirFiles <=> SP!E!TabsFollowTheirFiles
  /\ E!ActiveIsSaved <=> SP!E!ActiveIsSaved
  /\ E!KeepsVariables <=> SP!E!KeepsVariables
  /\ E!ActiveStays <=> SP!E!ActiveStays
  /\ UNCHANGED E!vars <=> UNCHANGED SP!E!vars
BY DEF
     E!Activate, E!ActiveIsSaved, E!ActiveStays, E!Asks, E!CanRename, E!Cancel, E!Cardinality,
     E!ChangedOutside, E!Close, E!Create, E!Delete, E!Deletes, E!Edit, E!Editor, E!Fault, E!First,
     E!FirstFree, E!Follows, E!Happens, E!HasRoom, E!HasSpace, E!ImportCreates, E!ImportWrites,
     E!Imports, E!Init, E!KeepsVariables, E!Listed, E!Lost, E!Moved, E!Names, E!Next, E!Open,
     E!Others, E!Outcomes, E!Outside, E!Overwrite, E!Overwrites, E!Put, E!Read, E!Refresh,
     E!Relaunch, E!Relaunches, E!Reload, E!RemoveAt, E!Rename, E!Renamed, E!Save, E!SetsActive,
     E!Show, E!Strays, E!TabSet, E!TabsFollowTheirFiles, E!TabsOf, E!TakeTheirs, E!Taken, E!TypeOK,
     E!User, E!Variables, E!Writes, E!troubles, E!vars, SP!E!Activate, SP!E!ActiveIsSaved,
     SP!E!ActiveStays, SP!E!Asks, SP!E!CanRename, SP!E!Cancel, SP!E!Cardinality,
     SP!E!ChangedOutside, SP!E!Close, SP!E!Create, SP!E!Delete, SP!E!Deletes, SP!E!Edit,
     SP!E!Editor, SP!E!Fault, SP!E!First, SP!E!FirstFree, SP!E!Follows, SP!E!Happens, SP!E!HasRoom,
     SP!E!HasSpace, SP!E!ImportCreates, SP!E!ImportWrites, SP!E!Imports, SP!E!Init,
     SP!E!KeepsVariables, SP!E!Listed, SP!E!Lost, SP!E!Moved, SP!E!Names, SP!E!Next, SP!E!Open,
     SP!E!Others, SP!E!Outcomes, SP!E!Outside, SP!E!Overwrite, SP!E!Overwrites, SP!E!Put,
     SP!E!Read, SP!E!Refresh, SP!E!Relaunch, SP!E!Relaunches, SP!E!Reload, SP!E!RemoveAt,
     SP!E!Rename, SP!E!Renamed, SP!E!Save, SP!E!SetsActive, SP!E!Show, SP!E!Strays, SP!E!TabSet,
     SP!E!TabsFollowTheirFiles, SP!E!TabsOf, SP!E!TakeTheirs, SP!E!Taken, SP!E!TypeOK, SP!E!User,
     SP!E!Variables, SP!E!Writes, SP!E!troubles, SP!E!vars

LEMMA UpdaterIsSame ==
  /\ U!Init <=> SP!U!Init
  /\ U!Next <=> SP!U!Next
  /\ U!TypeOK <=> SP!U!TypeOK
  /\ U!OffersTheTrack <=> SP!U!OffersTheTrack
  /\ UNCHANGED U!vars <=> UNCHANGED SP!U!vars
BY DEF
     U!Answer, U!Background, U!Busy, U!ChangePreferences, U!Check, U!Checks, U!Download,
     U!Downloaded, U!Fails, U!FollowTrack, U!HasManifest, U!Init, U!Installations, U!Installed,
     U!IsLatest, U!MayCheck, U!Next, U!OffersTheTrack, U!Prepared, U!Relaunch, U!TypeOK, U!vars,
     SP!U!Answer, SP!U!Background, SP!U!Busy, SP!U!ChangePreferences, SP!U!Check, SP!U!Checks,
     SP!U!Download, SP!U!Downloaded, SP!U!Fails, SP!U!FollowTrack, SP!U!HasManifest, SP!U!Init,
     SP!U!Installations, SP!U!Installed, SP!U!IsLatest, SP!U!MayCheck, SP!U!Next,
     SP!U!OffersTheTrack, SP!U!Prepared, SP!U!Relaunch, SP!U!TypeOK, SP!U!vars

LEMMA InstallerIsSame ==
  /\ I!Init <=> SP!I!Init
  /\ I!Next <=> SP!I!Next
  /\ I!TypeOK <=> SP!I!TypeOK
  /\ I!AVersionRemains <=> SP!I!AVersionRemains
  /\ I!KeepsWhatConfirmed <=> SP!I!KeepsWhatConfirmed
  /\ UNCHANGED I!vars <=> UNCHANGED SP!I!vars
BY DEF
     I!AVersionRemains, I!App, I!CannotMoveNew, I!ClearsBackup, I!FindsBackup, I!FindsConfirmed,
     I!GivesUp, I!Goes, I!Init, I!IsWhole, I!KeepsWhatConfirmed, I!Kills, I!LooksAgain,
     I!LooksForBackup, I!MovesBack, I!MovesNew, I!MovesOld, I!Next, I!NotRunning, I!NothingIsLost,
     I!Opened, I!Opens, I!Quits, I!RemovesBackup, I!RemovesNew, I!Reopens, I!Restores, I!Script,
     I!StartGoes, I!Starts, I!StillNeeded, I!Stops, I!TimesOut, I!TypeOK, I!UserOpens,
     I!WaitsForQuit, I!vars, SP!I!AVersionRemains, SP!I!App, SP!I!CannotMoveNew,
     SP!I!ClearsBackup, SP!I!FindsBackup, SP!I!FindsConfirmed, SP!I!GivesUp, SP!I!Goes, SP!I!Init,
     SP!I!IsWhole, SP!I!KeepsWhatConfirmed, SP!I!Kills, SP!I!LooksAgain, SP!I!LooksForBackup,
     SP!I!MovesBack, SP!I!MovesNew, SP!I!MovesOld, SP!I!Next, SP!I!NotRunning, SP!I!NothingIsLost,
     SP!I!Opened, SP!I!Opens, SP!I!Quits, SP!I!RemovesBackup, SP!I!RemovesNew, SP!I!Reopens,
     SP!I!Restores, SP!I!Script, SP!I!StartGoes, SP!I!Starts, SP!I!StillNeeded, SP!I!Stops,
     SP!I!TimesOut, SP!I!TypeOK, SP!I!UserOpens, SP!I!WaitsForQuit, SP!I!vars

\* A step is one of the part that the behavior is of, and leaves the part.
LEMMA StepsOfAPart ==
  ASSUME [StoresNext]_storesVars
  PROVE  /\ part' = part
         /\ part = "preferences" => [P!Next]_(P!vars)
         /\ part = "history" => [H!Next]_(H!vars)
         /\ part = "session" => [S!Next]_(S!vars)
         /\ part = "environments" => [E!Next]_(E!vars)
         /\ part = "updater" => [U!Next]_(U!vars)
         /\ part = "installer" => [I!Next]_(I!vars)
<1>1. CASE StoresNext  BY <1>1 DEF StoresNext, Goes, OthersStay
<1>2. CASE UNCHANGED storesVars
  BY <1>2 DEF storesVars, preferencesVars, historyVars, sessionVars, environmentVars, updaterVars,
              installerVars, P!vars, H!vars, S!vars, E!vars, U!vars, I!vars
<1>3. QED  BY <1>1, <1>2

(***************************************************************************)
(* preferences/README.md:23 and store.rs:277: for any credentials and any  *)
(* number of edits, failures and starts, what the file refers to is in the *)
(* keyring, what is saved was typed, the last edit wins and the other      *)
(* settings stay.                                                          *)
(***************************************************************************)
THEOREM PreferencesStay == ASSUME SP!NamesAssumed PROVE StoresSpec => []PreferencesHold
<1> DEFINE Kept == part = "preferences" => SP!PreferencesInv
<1>1. StoresInit => Kept  BY PreferencesAreSame, SP!PreferencesInit DEF StoresInit
<1>2. Kept /\ [StoresNext]_storesVars => Kept'
  <2> SUFFICES ASSUME Kept, [StoresNext]_storesVars PROVE Kept'  OBVIOUS
  <2>1. part' = part /\ (part = "preferences" => [P!Next]_(P!vars))  BY StepsOfAPart
  <2>2. ASSUME part = "preferences" PROVE SP!PreferencesInv'
    <3>1. [SP!P!Next]_(SP!P!vars)  BY <2>1, <2>2, PreferencesAreSame
    <3>2. QED  BY <2>2, <3>1, SP!PreferencesInductive
  <2>3. QED  BY <2>1, <2>2
<1>3. Kept => PreferencesHold
  <2> SUFFICES ASSUME SP!PreferencesInv PROVE PreferencesHold  BY DEF PreferencesHold
  <2>1. SP!P!TypeOK  BY SP!PreferencesTypeFollows
  <2>2. SP!P!LastEditWins  BY SP!LastFollows
  <2>3. SP!P!SavedReferenceExists /\ SP!P!NoSecretIsLost /\ SP!P!OtherSettingsStay
    BY DEF SP!PreferencesInv, SP!FileFits
  <2>4. QED  BY <2>1, <2>2, <2>3, PreferencesAreSame DEF PreferencesHold
<1>4. QED  BY <1>1, <1>2, <1>3, PTL DEF StoresSpec

(***************************************************************************)
(* history.rs:220: for any limit and any number of requests, changes and   *)
(* faults, what was saved and not deleted stays with its files, what is    *)
(* listed is found when opened, and an app that quits has saved its list.  *)
(***************************************************************************)
THEOREM HistoryStays == ASSUME SP!SizesAssumed PROVE StoresSpec => []HistoryHolds
<1> DEFINE Kept == part = "history" => SP!HistoryInv
<1>1. StoresInit => Kept  BY HistoryIsSame, SP!HistoryInit DEF StoresInit
<1>2. Kept /\ [StoresNext]_storesVars => Kept'
  <2> SUFFICES ASSUME Kept, [StoresNext]_storesVars PROVE Kept'  OBVIOUS
  <2>1. part' = part /\ (part = "history" => [H!Next]_(H!vars))  BY StepsOfAPart
  <2>2. ASSUME part = "history" PROVE SP!HistoryInv'
    <3>1. [SP!H!Next]_(SP!H!vars)  BY <2>1, <2>2, HistoryIsSame
    <3>2. QED  BY <2>2, <3>1, SP!HistoryInductive
  <2>3. QED  BY <2>1, <2>2
<1>3. Kept => HistoryHolds  BY HistoryIsSame, SP!WhatFollows DEF HistoryHolds
<1>4. QED  BY <1>1, <1>2, <1>3, PTL DEF StoresSpec

(***************************************************************************)
(* service.rs:103 and install.rs:58: for any tracks, checks and starts of  *)
(* the app at any time, what is offered is of the track that is looked at; *)
(* a whole version of the app is left, and the one that confirmed once the *)
(* script is done, with the exceptions that UpdateInstaller names.         *)
(***************************************************************************)
THEOREM UpdatesStayFit == ASSUME NoTrack \notin Tracks PROVE StoresSpec => []UpdatesFit
<1> DEFINE Kept == /\ part = "updater" => SP!UpdaterInv
                   /\ part = "installer" => SP!InstallerInv
<1>1. StoresInit => Kept
  BY UpdaterIsSame, InstallerIsSame, SP!UpdaterInit, SP!InstallerInit DEF StoresInit
<1>2. Kept /\ [StoresNext]_storesVars => Kept'
  <2> SUFFICES ASSUME Kept, [StoresNext]_storesVars PROVE Kept'  OBVIOUS
  <2>1. /\ part' = part
        /\ part = "updater" => [U!Next]_(U!vars)
        /\ part = "installer" => [I!Next]_(I!vars)
    BY StepsOfAPart
  <2>2. ASSUME part = "updater" PROVE SP!UpdaterInv'
    <3>1. [SP!U!Next]_(SP!U!vars)  BY <2>1, <2>2, UpdaterIsSame
    <3>2. QED  BY <2>2, <3>1, SP!UpdaterInductive
  <2>3. ASSUME part = "installer" PROVE SP!InstallerInv'
    <3>1. [SP!I!Next]_(SP!I!vars)  BY <2>1, <2>3, InstallerIsSame
    <3>2. QED  BY <2>3, <3>1, SP!InstallerInductive
  <2>4. QED  BY <2>1, <2>2, <2>3
<1>3. Kept => UpdatesFit
  <2>1. SP!UpdaterInv => SP!U!TypeOK /\ SP!U!OffersTheTrack  BY DEF SP!UpdaterInv
  <2>2. SP!InstallerInv => SP!I!TypeOK /\ SP!I!AVersionRemains /\ SP!I!KeepsWhatConfirmed
    BY DEF SP!InstallerInv, SP!Place, SP!OldInPlace, SP!Unconfirmed, SP!Confirmed, SP!I!TypeOK,
           SP!I!AVersionRemains, SP!I!KeepsWhatConfirmed, SP!I!IsWhole
  <2>3. QED  BY <2>1, <2>2, UpdaterIsSame, InstallerIsSame DEF UpdatesFit
<1>4. QED  BY <1>1, <1>2, <1>3, PTL DEF StoresSpec

(***************************************************************************)
(* session.rs:125: for any sessions, and any number of saves that end in   *)
(* any order and of failed writes, the file holds the newest saved session *)
(* and no save replaces one that was captured later.                       *)
(***************************************************************************)
THEOREM NewestAlwaysStays == StoresSpec => NewestSessionStays
<1> DEFINE Kept == part = "session" => SP!S!TypeOK /\ SP!SessionInv
           Newer == part = "session" => S!KeepsNewest
<1>1. StoresInit => Kept  BY SessionIsSame, SP!SessionStarts, SP!SessionInvStarts DEF StoresInit
<1>2. Kept /\ [StoresNext]_storesVars => Kept' /\ [Newer]_sessionVars
  <2> SUFFICES ASSUME Kept, [StoresNext]_storesVars PROVE Kept' /\ [Newer]_sessionVars  OBVIOUS
  <2>1. part' = part /\ (part = "session" => [S!Next]_(S!vars))  BY StepsOfAPart
  <2>2. ASSUME part = "session" PROVE SP!S!TypeOK' /\ SP!SessionInv' /\ S!KeepsNewest
    <3>1. [SP!S!Next]_(SP!S!vars)  BY <2>1, <2>2, SessionIsSame
    <3>2. QED  BY <2>2, <3>1, SessionIsSame, SP!SessionTypeInductive, SP!SessionInductive
  <2>3. QED  BY <2>1, <2>2
<1>3. Kept => (part = "session" => S!TypeOK /\ S!FileIsCurrent)
  BY SessionIsSame DEF SP!SessionInv
<1>4. StoresSpec => [](part = "session" => S!TypeOK /\ S!FileIsCurrent)
  BY <1>1, <1>2, <1>3, PTL DEF StoresSpec
<1>5. StoresSpec => [][Newer]_sessionVars  BY <1>1, <1>2, PTL DEF StoresSpec
<1>6. QED  BY <1>4, <1>5 DEF NewestSessionStays

(***************************************************************************)
(* environment_editor.rs:66, environments.rs:118 and main_view.rs:1407:    *)
(* for any names, tabs and variables, no variables are replaced unseen,    *)
(* tabs follow their files, and the active environment stays and is saved. *)
(***************************************************************************)
THEOREM EnvironmentsStayKept == ASSUME SP!FilesAssumed PROVE StoresSpec => EnvironmentsAreKept
<1> DEFINE Kept == part = "environments" => SP!EnvironmentsInv
           Fits == part = "environments" => E!TypeOK /\ E!TabsFollowTheirFiles /\ E!ActiveIsSaved
           Stays == part = "environments" => E!KeepsVariables /\ E!ActiveStays
<1>1. StoresInit => Kept  BY EnvironmentsAreSame, SP!EnvironmentsInit DEF StoresInit
<1>2. Kept /\ [StoresNext]_storesVars => Kept'
  <2> SUFFICES ASSUME Kept, [StoresNext]_storesVars PROVE Kept'  OBVIOUS
  <2>1. part' = part /\ (part = "environments" => [E!Next]_(E!vars))  BY StepsOfAPart
  <2>2. ASSUME part = "environments" PROVE SP!EnvironmentsInv'
    <3>1. [SP!E!Next]_(SP!E!vars)  BY <2>1, <2>2, EnvironmentsAreSame
    <3>2. QED  BY <2>2, <3>1, SP!EnvironmentsInductive
  <2>3. QED  BY <2>1, <2>2
<1>3. Kept => Fits
  BY EnvironmentsAreSame, SP!EnvironmentsAreTyped, SP!TabsFollowNow DEF SP!EnvironmentsInv
<1>4. Kept /\ Kept' /\ [StoresNext]_storesVars => [Stays]_environmentVars
  <2> SUFFICES ASSUME SP!EnvironmentsInv, SP!EnvironmentsInv', [StoresNext]_storesVars,
                      part = "environments", ~UNCHANGED environmentVars
               PROVE  E!KeepsVariables /\ E!ActiveStays
    BY StepsOfAPart
  <2>1. E!Next /\ ~UNCHANGED E!vars  BY StepsOfAPart DEF E!vars, environmentVars
  <2>2. SP!E!Next /\ ~UNCHANGED SP!E!vars  BY <2>1, EnvironmentsAreSame
  <2>3. SP!E!KeepsVariables  BY <2>2, SP!VariablesStayNext
  <2>4. SP!E!ActiveStays  BY <2>2, SP!ActiveStaysNext
  <2>5. QED  BY <2>3, <2>4, EnvironmentsAreSame
<1>5. StoresSpec => []Fits  BY <1>1, <1>2, <1>3, PTL DEF StoresSpec
<1>6. StoresSpec => [][Stays]_environmentVars  BY <1>1, <1>2, <1>4, PTL DEF StoresSpec
<1>7. QED  BY <1>5, <1>6 DEF EnvironmentsAreKept
=============================================================================
