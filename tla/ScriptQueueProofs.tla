------------------------- MODULE ScriptQueueProofs -------------------------
(***************************************************************************)
(* What holds of ScriptQueue for any editors and any limit of the queue;   *)
(* and of the call of a gRPC tab, C, for any number of messages.  The two  *)
(* share no variable: the call of C is here held.                          *)
(***************************************************************************)
EXTENDS ScriptQueue, SequenceTheorems, WellFoundedInduction, TLAPS

CONSTANTS MaxReceived, MaxSent      \* of GrpcCall

VARIABLES kind, scripts, executor, raw, forwarder, output, messages, sent, held, log

C == INSTANCE GrpcCall WITH call <- held

-----------------------------------------------------------------------------
Assumed == NoEditor \notin Editors /\ QueueLimit \in Nat \ {0}

(***************************************************************************)
(* A query that is in the queue or with the worker is of an editor that    *)
(* waits for it, and is there once.                                        *)
(***************************************************************************)
QueriesFit ==
  /\ \A i \in 1 .. Len(pending) : pending[i] # NoEditor => editor[pending[i]] \in {"pushed", "asked"}
  /\ \A i, j \in 1 .. Len(pending) : i # j /\ pending[i] = pending[j] => pending[i] = NoEditor
  /\ current # NoEditor =>
       /\ editor[current] \in {"pushed", "asked"}
       /\ \A i \in 1 .. Len(pending) : pending[i] # current

ListenersFit ==
  /\ listeners \in Seq(Editors)
  /\ \A i, j \in 1 .. Len(listeners) : listeners[i] = listeners[j] => i = j

WorkerFits == worker = "querying" => used /\ running

IInv == TypeOK /\ RoomIsPassedOn /\ QueriesFit /\ ListenersFit /\ WorkerFits

-----------------------------------------------------------------------------
(***************************************************************************)
(* Induction over the naturals, as a fact about sets of them.              *)
(***************************************************************************)
LEMMA Smallest ==
  ASSUME NEW T, T \subseteq Nat, T # {}
  PROVE  \E n \in T : \A m \in T : n <= m
<1>1. PICK n \in T : \A m \in T : ~(<<m, n>> \in OpToRel(<, Nat))
  BY NatLessThanWellFounded, WFMin
<1>2. \A m \in T : ~(m < n)  BY <1>1 DEF OpToRel
<1>3. QED  BY <1>2

(***************************************************************************)
(* Live: the recursive function behind it exists, and keeps of a queue the *)
(* editors that did not give up, each once if it was there once.           *)
(***************************************************************************)
Keeps(queue, until, n) ==
  IF n = 0 THEN <<>>
  ELSE IF queue[n] = NoEditor THEN until[n - 1] ELSE Append(until[n - 1], queue[n])

LEMMA UntilExists ==
  ASSUME NEW queue, NEW len \in Nat
  PROVE  \E f : f = [n \in 0 .. len |-> Keeps(queue, f, n)]
<1> DEFINE T == {k \in Nat : ~ \E f : f = [n \in 0 .. k |-> Keeps(queue, f, n)]}
<1> SUFFICES ASSUME T # {} PROVE FALSE  OBVIOUS
<1>1. PICK k \in T : \A m \in T : k <= m  BY Smallest
<1>2. k # 0
  <2>1. SUFFICES ASSUME k = 0 PROVE FALSE  OBVIOUS
  <2>2. [n \in 0 .. 0 |-> <<>>] = [n \in 0 .. 0 |-> Keeps(queue, [m \in 0 .. 0 |-> <<>>], n)]
    BY DEF Keeps
  <2>3. QED  BY <1>1, <2>1, <2>2
<1>3. k - 1 \in Nat /\ k - 1 \notin T  BY <1>1, <1>2
<1>4. PICK f : f = [n \in 0 .. (k - 1) |-> Keeps(queue, f, n)]  BY <1>3
<1> DEFINE g == [n \in 0 .. k |-> IF n = k THEN Keeps(queue, f, k) ELSE f[n]]
<1>5. ASSUME NEW n \in 0 .. k PROVE g[n] = Keeps(queue, g, n)
  <2>1. CASE n = 0
    <3>1. f[0] = Keeps(queue, f, 0)  BY <1>2, <1>4
    <3>2. QED  BY <1>2, <2>1, <3>1 DEF Keeps
  <2>2. CASE n # 0
    <3>1. n - 1 \in 0 .. (k - 1) /\ g[n - 1] = f[n - 1]  BY <2>2
    <3>2. Keeps(queue, g, n) = Keeps(queue, f, n)  BY <2>2, <3>1 DEF Keeps
    <3>3. CASE n = k  BY <3>2, <3>3
    <3>4. CASE n # k
      <4>1. n \in 0 .. (k - 1)  BY <3>4
      <4>2. f[n] = Keeps(queue, f, n)  BY <1>4, <4>1
      <4>3. QED  BY <3>2, <3>4, <4>2
    <3>5. QED  BY <3>3, <3>4
  <2>3. QED  BY <2>1, <2>2
<1>6. g = [n \in 0 .. k |-> Keeps(queue, g, n)]  BY <1>5
<1>7. QED  BY <1>1, <1>6

LEMMA LiveIs ==
  ASSUME NEW queue, Len(queue) \in Nat
  PROVE  \E f : /\ f = [n \in 0 .. Len(queue) |-> Keeps(queue, f, n)]
                /\ Live(queue) = f[Len(queue)]
<1> DEFINE Until == CHOOSE f : f = [n \in 0 .. Len(queue) |-> Keeps(queue, f, n)]
<1>1. Until = [n \in 0 .. Len(queue) |-> Keeps(queue, Until, n)]  BY UntilExists
<1>2. Live(queue) = Until[Len(queue)]  BY DEF Live, Keeps
<1>3. QED  BY <1>1, <1>2

Once(queue) ==
  \A i, j \in 1 .. Len(queue) : i # j /\ queue[i] = queue[j] => queue[i] = NoEditor

LEMMA LiveKeeps ==
  ASSUME NoEditor \notin Editors,
         NEW queue \in Seq(Editors \union {NoEditor}), Once(queue)
  PROVE  LET live == Live(queue) IN
         /\ live \in Seq(Editors) /\ Len(live) <= Len(queue)
         /\ \A i \in 1 .. Len(live) : \E j \in 1 .. Len(queue) : live[i] = queue[j]
         /\ \A i, j \in 1 .. Len(live) : live[i] = live[j] => i = j
<1> DEFINE len == Len(queue)
<1>1. len \in Nat /\ \A n \in 1 .. len : queue[n] \in Editors \union {NoEditor}
  BY LenProperties, ElementOfSeq
<1>2. PICK f : /\ f = [n \in 0 .. len |-> Keeps(queue, f, n)]
               /\ Live(queue) = f[len]
  BY <1>1, LiveIs
<1> DEFINE Good(n) ==
             /\ f[n] \in Seq(Editors) /\ Len(f[n]) <= n
             /\ \A i \in 1 .. Len(f[n]) : \E j \in 1 .. n : f[n][i] = queue[j]
             /\ \A i, j \in 1 .. Len(f[n]) : f[n][i] = f[n][j] => i = j
           T == {n \in 0 .. len : ~Good(n)}
<1>3. SUFFICES ASSUME T # {} PROVE FALSE
  <2>1. Good(len)  BY <1>1, <1>3
  <2>2. Live(queue) = f[len]  BY <1>2
  <2>3. QED  BY ONLY <2>1, <2>2
<1>4. PICK n \in T : \A m \in T : n <= m
  <2>1. T \subseteq Nat  BY <1>1
  <2> HIDE DEF T
  <2>2. QED  BY <1>3, <2>1, Smallest
<1>5. n \in 0 .. len /\ f[n] = Keeps(queue, f, n)  BY <1>2, <1>4
<1>6. CASE n = 0
  <2>1. f[n] = <<>>  BY <1>5, <1>6 DEF Keeps
  <2>2. f[n] \in Seq(Editors) /\ Len(f[n]) = 0  BY <2>1, EmptySeq
  <2>3. QED  BY <1>4, <1>6, <2>2
<1>7. CASE n # 0
  <2>1. n - 1 \in 0 .. len /\ n - 1 \notin T /\ n \in 1 .. len  BY <1>1, <1>4, <1>5, <1>7
  <2>2. Good(n - 1)  BY <2>1
  <2>3. CASE queue[n] = NoEditor
    <3>1. f[n] = f[n - 1]  BY <1>5, <1>7, <2>3 DEF Keeps
    <3>2. Good(n)  BY <2>1, <2>2, <3>1
    <3>3. QED  BY <1>4, <3>2
  <2>4. CASE queue[n] # NoEditor
    <3> DEFINE old == f[n - 1]
    <3>1. f[n] = Append(old, queue[n]) /\ queue[n] \in Editors
      BY <1>1, <1>5, <1>7, <2>1, <2>4 DEF Keeps
    <3>2. /\ f[n] \in Seq(Editors) /\ Len(f[n]) = Len(old) + 1 /\ Len(old) \in Nat
          /\ \A i \in 1 .. Len(old) : f[n][i] = old[i]
          /\ f[n][Len(old) + 1] = queue[n]
      BY <2>2, <3>1, AppendProperties, LenProperties
    <3>3. \A i \in 1 .. Len(f[n]) : \E j \in 1 .. n : f[n][i] = queue[j]
      <4>1. TAKE i \in 1 .. Len(f[n])
      <4>2. CASE i = Len(old) + 1  BY <2>1, <3>2, <4>2
      <4>3. CASE i # Len(old) + 1
        <5>1. i \in 1 .. Len(old)  BY <3>2, <4>3
        <5>2. PICK j \in 1 .. (n - 1) : old[i] = queue[j]  BY <2>2, <5>1
        <5>3. j \in 1 .. n  BY <2>1, <5>2
        <5>4. QED  BY <3>2, <5>1, <5>2, <5>3
      <4>4. QED  BY <4>2, <4>3
    <3>4. \A i \in 1 .. Len(old) : f[n][i] # queue[n]
      <4>1. TAKE i \in 1 .. Len(old)
      <4>2. PICK j \in 1 .. (n - 1) : old[i] = queue[j]  BY <2>2
      <4>3. j \in 1 .. len /\ j # n  BY <1>1, <2>1, <4>2
      <4>4. queue[j] # queue[n]  BY <2>1, <2>4, <4>3 DEF Once
      <4>5. QED  BY <3>2, <4>2, <4>4
    <3>5. \A i, j \in 1 .. Len(f[n]) : f[n][i] = f[n][j] => i = j
      <4>1. SUFFICES ASSUME NEW i \in 1 .. Len(f[n]), NEW j \in 1 .. Len(f[n]), f[n][i] = f[n][j]
                     PROVE  i = j
        OBVIOUS
      <4>2. CASE i \in 1 .. Len(old) /\ j \in 1 .. Len(old)  BY <2>2, <3>2, <4>1, <4>2
      <4>3. CASE i = Len(old) + 1 \/ j = Len(old) + 1
        <5>1. f[n][i] = queue[n] /\ f[n][j] = queue[n]  BY <3>2, <4>1, <4>3
        <5>2. i \notin 1 .. Len(old) /\ j \notin 1 .. Len(old)  BY <3>2, <3>4, <5>1
        <5>3. QED  BY <3>2, <5>2
      <4>4. QED  BY <3>2, <4>2, <4>3
    <3>6. Len(f[n]) <= n  BY <2>1, <2>2, <3>2
    <3>7. QED  BY <1>4, <3>2, <3>3, <3>5, <3>6
  <2>5. QED  BY <2>3, <2>4
<1>8. QED  BY <1>6, <1>7

-----------------------------------------------------------------------------
(***************************************************************************)
(* Listeners.                                                              *)
(***************************************************************************)
LEMMA RemovedFirst ==
  ASSUME NEW S, NEW s \in Seq(S), \A i, j \in 1 .. Len(s) : s[i] = s[j] => i = j,
         NEW e
  PROVE  LET r == RemoveFirst(s, e) IN
         /\ r \in Seq(S)
         /\ \A i, j \in 1 .. Len(r) : r[i] = r[j] => i = j
         /\ ToSet(r) = ToSet(s) \ {e}
<1> DEFINE r == RemoveFirst(s, e)
<1>0. Len(s) \in Nat /\ DOMAIN s = 1 .. Len(s) /\ s \in [1 .. Len(s) -> S]  BY LenProperties
<1>1. CASE ~ \E i \in 1 .. Len(s) : s[i] = e
  <2>1. r = s  BY <1>1 DEF RemoveFirst
  <2>2. e \notin ToSet(s)  BY <1>0, <1>1 DEF ToSet
  <2>3. QED  BY <2>1, <2>2
<1>2. CASE \E i \in 1 .. Len(s) : s[i] = e
  <2> DEFINE I == {i \in 1 .. Len(s) : s[i] = e}
             at == CHOOSE x \in I : \A y \in I : x <= y
  <2>1. I \subseteq Nat /\ I # {}  BY <1>2
  <2>2. \E x \in I : \A y \in I : x <= y  BY <2>1, Smallest
  <2>3. at \in I  BY <2>2
  <2>4. r = SubSeq(s, 1, at - 1) \o SubSeq(s, at + 1, Len(s))
    BY <1>2, <2>1 DEF RemoveFirst, RemoveAt, SelectInSeq, Min
  <2> HIDE DEF at, r
  <2>5. at \in 1 .. Len(s) /\ s[at] = e  BY <2>3
  <2> DEFINE a == SubSeq(s, 1, at - 1)
             b == SubSeq(s, at + 1, Len(s))
  <2>6. /\ a \in Seq(S) /\ Len(a) = at - 1
        /\ \A i \in 1 .. at - 1 : a[i] = s[i]
    <3>1. \A i \in 1 .. at - 1 : s[i] \in S  BY <1>0, <2>5
    <3>2. at - 1 \in Int /\ 1 \in Int  BY <2>5
    <3>3. /\ a \in Seq(S) /\ Len(a) = IF 1 <= at - 1 THEN at - 1 - 1 + 1 ELSE 0
          /\ \A i \in 1 .. at - 1 - 1 + 1 : a[i] = s[1 + i - 1]
      BY <3>1, <3>2, SubSeqProperties
    <3>4. QED  BY <2>5, <3>3
  <2>7. /\ b \in Seq(S) /\ Len(b) = Len(s) - at
        /\ \A i \in 1 .. Len(s) - at : b[i] = s[at + i]
    <3>1. \A i \in at + 1 .. Len(s) : s[i] \in S  BY <1>0, <2>5
    <3>2. at + 1 \in Int /\ Len(s) \in Int  BY <1>0, <2>5
    <3>3. /\ b \in Seq(S)
          /\ Len(b) = IF at + 1 <= Len(s) THEN Len(s) - (at + 1) + 1 ELSE 0
          /\ \A i \in 1 .. Len(s) - (at + 1) + 1 : b[i] = s[(at + 1) + i - 1]
      BY <3>1, <3>2, SubSeqProperties
    <3>4. QED  BY <1>0, <2>5, <3>3
  <2>8. /\ r \in Seq(S) /\ Len(r) = Len(s) - 1
        /\ \A i \in 1 .. Len(r) : r[i] = IF i < at THEN s[i] ELSE s[i + 1]
    <3>1. /\ r \in Seq(S) /\ Len(r) = Len(a) + Len(b)
          /\ \A i \in 1 .. Len(a) + Len(b) : r[i] = IF i <= Len(a) THEN a[i] ELSE b[i - Len(a)]
      BY <2>4, <2>6, <2>7, ConcatProperties
    <3> HIDE DEF a, b
    <3>2. Len(r) = Len(s) - 1  BY <1>0, <2>5, <2>6, <2>7, <3>1
    <3>3. ASSUME NEW i \in 1 .. Len(r) PROVE r[i] = IF i < at THEN s[i] ELSE s[i + 1]
      <4>1. CASE i < at  BY <2>5, <2>6, <3>1, <3>3, <4>1
      <4>2. CASE ~(i < at)
        <5>1. r[i] = b[i - Len(a)]  BY <2>5, <2>6, <3>1, <3>3, <4>2
        <5>2. i - Len(a) \in 1 .. Len(s) - at  BY <1>0, <2>5, <2>6, <3>2, <3>3, <4>2
        <5>3. at + (i - Len(a)) = i + 1  BY <2>5, <2>6, <3>3
        <5>4. QED  BY <2>7, <4>2, <5>1, <5>2, <5>3
      <4>3. QED  BY <4>1, <4>2
    <3>4. QED  BY <3>1, <3>2, <3>3
  <2>9. \A i, j \in 1 .. Len(r) : r[i] = r[j] => i = j
    <3>1. SUFFICES ASSUME NEW i \in 1 .. Len(r), NEW j \in 1 .. Len(r), r[i] = r[j] PROVE i = j
      OBVIOUS
    <3> DEFINE Place(k) == IF k < at THEN k ELSE k + 1
    <3>2. /\ Place(i) \in 1 .. Len(s) /\ Place(j) \in 1 .. Len(s)
          /\ r[i] = s[Place(i)] /\ r[j] = s[Place(j)]
      BY <1>0, <2>5, <2>8
    <3>3. Place(i) = Place(j)  BY <3>1, <3>2
    <3>4. QED  BY <2>5, <3>3
  <2>10. ToSet(r) = ToSet(s) \ {e}
    <3>1. ASSUME NEW x \in ToSet(r) PROVE x \in ToSet(s) \ {e}
      <4>1. PICK i \in 1 .. Len(r) : x = r[i]  BY <2>8, <3>1, LenProperties DEF ToSet
      <4>2. PICK k \in 1 .. Len(s) : k # at /\ x = s[k]  BY <1>0, <2>5, <2>8, <4>1
      <4>3. QED  BY <1>0, <2>5, <4>2 DEF ToSet
    <3>2. ASSUME NEW x \in ToSet(s) \ {e} PROVE x \in ToSet(r)
      <4>1. PICK k \in 1 .. Len(s) : x = s[k] /\ k # at  BY <1>0, <2>5, <3>2 DEF ToSet
      <4> DEFINE i == IF k < at THEN k ELSE k - 1
      <4>2. i \in 1 .. Len(r) /\ r[i] = x  BY <1>0, <2>5, <2>8, <4>1
      <4>3. DOMAIN r = 1 .. Len(r)  BY <2>8, LenProperties
      <4>4. QED  BY <4>2, <4>3 DEF ToSet
    <3>3. QED  BY <3>1, <3>2
  <2>11. QED  BY <2>8, <2>9, <2>10 DEF r
<1>3. QED  BY <1>1, <1>2

LEMMA NotifiedOldest ==
  ASSUME NEW n \in Nat, NEW queue \in Seq(Editors), NEW already \in SUBSET ToSet(queue)
  PROVE  /\ Notified(n, queue, already) \subseteq ToSet(queue)
         /\ already \subseteq Notified(n, queue, already)
         /\ n > 0 /\ ToSet(queue) # {} => Notified(n, queue, already) # {}
<1>1. DOMAIN queue = 1 .. Len(queue) /\ Len(queue) \in Nat  BY LenProperties
<1>2. Notified(n, queue, already) \subseteq ToSet(queue)  BY DEF Notified, ToSet
<1>3. ASSUME n > 0, ToSet(queue) # {} PROVE Notified(n, queue, already) # {}
  <2>1. PICK i \in 1 .. Len(queue) : TRUE  BY <1>1, <1>3 DEF ToSet
  <2>2. 1 \in DOMAIN queue /\ 1 <= n  BY <1>1, <1>3, <2>1
  <2>3. queue[1] \in Notified(n, queue, already)  BY <2>2 DEF Notified
  <2>4. QED  BY <2>3
<1>4. QED  BY <1>2, <1>3 DEF Notified

-----------------------------------------------------------------------------
(***************************************************************************)
(* Each step keeps the invariant.                                          *)
(***************************************************************************)
Before == Assumed /\ IInv

LEMMA InitFits == Assumed /\ Init => IInv
<1> SUFFICES ASSUME Assumed, Init PROVE IInv  OBVIOUS
<1>1. /\ pending = <<>> /\ listeners = <<>> /\ current = NoEditor /\ worker = "waiting"
      /\ loaded = FALSE /\ notified = {} /\ \A e \in Editors : editor[e] = "idle"
  BY DEF Init
<1>2. pending \in Seq(Editors \union {NoEditor}) /\ listeners \in Seq(Editors)
      /\ Len(pending) = 0 /\ Len(listeners) = 0
  BY <1>1, EmptySeq
<1>3. DOMAIN listeners = {} /\ ToSet(listeners) = {}  BY <1>1 DEF ToSet
<1>4. TypeOK  BY <1>1, <1>2, <1>3 DEF Init, TypeOK, Assumed
<1>5. RoomIsPassedOn  BY <1>1 DEF RoomIsPassedOn
<1>6. QueriesFit /\ ListenersFit /\ WorkerFits
  BY <1>1, <1>2 DEF QueriesFit, ListenersFit, WorkerFits
<1>7. QED  BY <1>4, <1>5, <1>6 DEF IInv

\* The queue stays, and those that listen are still those that may be told of room.
LEMMA AskKeeps == ASSUME Before, NEW e \in Editors, Ask(e) PROVE IInv'
<1> USE DEF Before, IInv
<1>1. editor' = [editor EXCEPT ![e] = "starting"] /\ editor[e] = "idle"  BY DEF Ask, Moves
<1>2. TypeOK'  BY <1>1 DEF Ask, TypeOK
<1>3. RoomIsPassedOn'  BY <1>1 DEF Ask, TypeOK, RoomIsPassedOn
<1>4. QueriesFit'  BY <1>1 DEF Ask, TypeOK, QueriesFit
<1>5. QED  BY <1>2, <1>3, <1>4 DEF Ask, ListenersFit, WorkerFits

LEMMA ListenKeeps == ASSUME Before, NEW e \in Editors, Listen(e) PROVE IInv'
<1> USE DEF Before, IInv
<1>1. /\ editor' = [editor EXCEPT ![e] = "listening"] /\ editor[e] = "starting"
      /\ listeners' = Append(listeners, e)
  BY DEF Listen, Moves
<1>2. /\ listeners' \in Seq(Editors) /\ Len(listeners') = Len(listeners) + 1
      /\ \A i \in 1 .. Len(listeners) : listeners'[i] = listeners[i]
      /\ listeners'[Len(listeners) + 1] = e /\ Len(listeners) \in Nat
  BY <1>1, AppendProperties, LenProperties DEF ListenersFit
<1>3. DOMAIN listeners = 1 .. Len(listeners) /\ DOMAIN listeners' = 1 .. Len(listeners')
  BY <1>2, LenProperties DEF ListenersFit
<1>4. ToSet(listeners') = ToSet(listeners) \union {e}
  <2>1. ASSUME NEW x \in ToSet(listeners') PROVE x \in ToSet(listeners) \union {e}
    <3>1. PICK i \in 1 .. Len(listeners') : x = listeners'[i]  BY <1>3, <2>1 DEF ToSet
    <3>2. QED  BY <1>2, <1>3, <3>1 DEF ToSet
  <2>2. ASSUME NEW x \in ToSet(listeners) \union {e} PROVE x \in ToSet(listeners')
    BY <1>2, <1>3, <2>2 DEF ToSet
  <2>3. QED  BY <2>1, <2>2
<1>5. e \notin ToSet(listeners)  BY <1>1 DEF TypeOK
<1>6. ListenersFit'
  <2>1. \A i \in 1 .. Len(listeners) : listeners[i] # e  BY <1>3, <1>5 DEF ToSet
  <2>2. QED  BY <1>2, <2>1 DEF ListenersFit
<1>7. TypeOK'  BY <1>1, <1>4 DEF Listen, TypeOK
<1>8. RoomIsPassedOn'  BY <1>1 DEF Listen, TypeOK, RoomIsPassedOn
<1>9. QueriesFit'  BY <1>1 DEF Listen, TypeOK, QueriesFit
<1>10. QED  BY <1>6, <1>7, <1>8, <1>9 DEF Listen, WorkerFits

LEMMA LiveFits ==
  ASSUME Before
  PROVE  LET live == Live(pending) IN
         /\ live \in Seq(Editors) /\ Len(live) <= Len(pending) /\ Len(live) \in Nat
         /\ \A i \in 1 .. Len(live) :
              live[i] \in Editors /\ editor[live[i]] \in {"pushed", "asked"} /\ live[i] # current
         /\ \A i, j \in 1 .. Len(live) : live[i] = live[j] => i = j
<1> DEFINE live == Live(pending)
<1>1. /\ pending \in Seq(Editors \union {NoEditor}) /\ Once(pending) /\ NoEditor \notin Editors
  BY DEF Before, Assumed, IInv, TypeOK, QueriesFit, Once
<1>2. /\ live \in Seq(Editors) /\ Len(live) <= Len(pending)
      /\ \A i \in 1 .. Len(live) : \E j \in 1 .. Len(pending) : live[i] = pending[j]
      /\ \A i, j \in 1 .. Len(live) : live[i] = live[j] => i = j
  BY <1>1, LiveKeeps
<1> HIDE DEF live
<1>3. Len(live) \in Nat /\ \A i \in 1 .. Len(live) : live[i] \in Editors
  BY <1>2, LenProperties, ElementOfSeq
<1>4. \A i \in 1 .. Len(live) : editor[live[i]] \in {"pushed", "asked"} /\ live[i] # current
  <2>1. TAKE i \in 1 .. Len(live)
  <2>2. PICK j \in 1 .. Len(pending) : live[i] = pending[j]  BY <1>2
  <2>3. pending[j] # NoEditor  BY <1>1, <1>3, <2>2
  <2>4. QED  BY <2>2, <2>3 DEF Before, IInv, QueriesFit
<1>5. QED  BY <1>2, <1>3, <1>4 DEF live

LEMMA PushKeeps == ASSUME Before, NEW e \in Editors, Push(e) PROVE IInv'
<1> USE DEF Before, IInv
<1> DEFINE live == Live(pending)
<1>1. /\ editor' = [editor EXCEPT ![e] = "pushed"] /\ editor[e] = "listening"
      /\ pending' = Append(live, e) /\ Len(live) < QueueLimit
      /\ notified' = Notified(QueueLimit - Len(pending'), listeners, notified)
  BY DEF Push, Moves, HasRoom, Left
<1>2. /\ live \in Seq(Editors) /\ Len(live) \in Nat
      /\ \A i \in 1 .. Len(live) :
           live[i] \in Editors /\ editor[live[i]] \in {"pushed", "asked"} /\ live[i] # current
      /\ \A i, j \in 1 .. Len(live) : live[i] = live[j] => i = j
  BY LiveFits
<1> HIDE DEF live
<1>3. /\ pending' \in Seq(Editors) /\ Len(pending') = Len(live) + 1
      /\ \A i \in 1 .. Len(live) : pending'[i] = live[i]
      /\ pending'[Len(live) + 1] = e
  BY <1>1, <1>2, AppendProperties
<1>4. pending' \in Seq(Editors \union {NoEditor})  BY <1>3, SeqMonotonic, Zenon
<1>5. Len(pending') <= QueueLimit  BY <1>1, <1>2, <1>3 DEF Assumed
<1>6. QueueLimit - Len(pending') \in Nat  BY <1>2, <1>3, <1>5 DEF Assumed
<1>7. e \in ToSet(listeners)  BY <1>1 DEF TypeOK
<1>8. /\ notified' \subseteq ToSet(listeners)
      /\ QueueLimit - Len(pending') > 0 => notified' # {}
  <2>1. listeners \in Seq(Editors) /\ notified \in SUBSET ToSet(listeners)
    BY DEF ListenersFit, TypeOK
  <2>2. QED  BY <1>1, <1>6, <1>7, <2>1, NotifiedOldest
<1>9. TypeOK'  BY <1>1, <1>4, <1>5, <1>8 DEF Push, TypeOK
<1>10. RoomIsPassedOn'  BY <1>2, <1>3, <1>6, <1>8 DEF RoomIsPassedOn, Push, Assumed
<1>11. QueriesFit'
  <2>1. \A i \in 1 .. Len(pending') : editor'[pending'[i]] \in {"pushed", "asked"}
    <3>1. TAKE i \in 1 .. Len(pending')
    <3>2. CASE i = Len(live) + 1  BY <1>1, <1>3, <3>2 DEF TypeOK
    <3>3. CASE i # Len(live) + 1
      <4>1. i \in 1 .. Len(live)  BY <1>2, <1>3, <3>3
      <4>2. QED  BY <1>1, <1>2, <1>3, <4>1 DEF TypeOK
    <3>4. QED  BY <3>2, <3>3
  <2>2. \A i \in 1 .. Len(live) : live[i] # e  BY <1>1, <1>2
  <2>3. ASSUME NEW i \in 1 .. Len(pending'), NEW j \in 1 .. Len(pending'),
               i # j, pending'[i] = pending'[j]
        PROVE  FALSE
    <3>1. CASE i \in 1 .. Len(live) /\ j \in 1 .. Len(live)  BY <1>2, <1>3, <2>3, <3>1
    <3>2. CASE i \notin 1 .. Len(live)  BY <1>2, <1>3, <2>2, <2>3, <3>2
    <3>3. CASE j \notin 1 .. Len(live)  BY <1>2, <1>3, <2>2, <2>3, <3>3
    <3>4. QED  BY <3>1, <3>2, <3>3
  <2>4. current' = current  BY DEF Push
  <2>5. current # NoEditor =>
          /\ editor'[current] \in {"pushed", "asked"}
          /\ \A i \in 1 .. Len(pending') : pending'[i] # current
    <3>1. SUFFICES ASSUME current # NoEditor
                   PROVE  /\ editor'[current] \in {"pushed", "asked"}
                          /\ \A i \in 1 .. Len(pending') : pending'[i] # current
      OBVIOUS
    <3>2. editor[current] \in {"pushed", "asked"} /\ current # e /\ current \in Editors
      BY <1>1, <3>1 DEF QueriesFit, TypeOK
    <3>3. QED  BY <1>1, <1>2, <1>3, <3>2 DEF TypeOK
  <2>6. QED  BY <2>1, <2>3, <2>4, <2>5 DEF QueriesFit
<1>12. QED  BY <1>9, <1>10, <1>11 DEF Push, ListenersFit, WorkerFits

LEMMA FindsFullKeeps == ASSUME Before, NEW e \in Editors, FindsFull(e) PROVE IInv'
<1> USE DEF Before, IInv
<1> DEFINE live == Live(pending)
<1>1. /\ editor' = [editor EXCEPT ![e] = "waiting"] /\ editor[e] = "listening"
      /\ pending' = live /\ ~(Len(live) < QueueLimit)
  BY DEF FindsFull, Moves, HasRoom
<1>2. /\ live \in Seq(Editors) /\ Len(live) \in Nat /\ Len(live) <= Len(pending)
      /\ \A i \in 1 .. Len(live) :
           live[i] \in Editors /\ editor[live[i]] \in {"pushed", "asked"} /\ live[i] # current
      /\ \A i, j \in 1 .. Len(live) : live[i] = live[j] => i = j
  BY LiveFits
<1> HIDE DEF live
<1>3. pending' \in Seq(Editors \union {NoEditor})  BY <1>1, <1>2, SeqMonotonic, Zenon
<1>4. Len(pending) \in Nat /\ Len(pending) <= QueueLimit  BY LenProperties DEF TypeOK
<1>5. Len(pending') <= QueueLimit  BY <1>1, <1>2, <1>4 DEF Assumed
<1>6. TypeOK'  BY <1>1, <1>3, <1>5 DEF FindsFull, TypeOK
<1>7. RoomIsPassedOn'  BY <1>1 DEF RoomIsPassedOn, FindsFull
<1>8. QueriesFit'
  <2>1. \A i \in 1 .. Len(pending') : editor'[pending'[i]] \in {"pushed", "asked"}
    BY <1>1, <1>2 DEF TypeOK
  <2>2. current # NoEditor => editor'[current] \in {"pushed", "asked"}
    BY <1>1 DEF QueriesFit, TypeOK
  <2>3. QED  BY <1>1, <1>2, <2>1, <2>2 DEF QueriesFit, FindsFull
<1>9. QED  BY <1>6, <1>7, <1>8 DEF FindsFull, ListenersFit, WorkerFits

(***************************************************************************)
(* A listener is dropped: those that listen without it are listeners', and *)
(* one of them is told if it was.                                          *)
(***************************************************************************)
LEMMA RemovedListener ==
  ASSUME Before, NEW e \in Editors, listeners' = RemoveFirst(listeners, e)
  PROVE  ListenersFit' /\ ToSet(listeners') = ToSet(listeners) \ {e}
BY RemovedFirst DEF Before, IInv, ListenersFit

LEMMA DroppedTells ==
  ASSUME Before, NEW e \in Editors, Dropped(e)
  PROVE  /\ ListenersFit' /\ ToSet(listeners') = ToSet(listeners) \ {e}
         /\ notified' \subseteq ToSet(listeners')
         /\ notified # {} /\ ToSet(listeners') # {} => notified' # {}
<1>1. listeners' = RemoveFirst(listeners, e)  BY DEF Dropped
<1>2. ListenersFit' /\ ToSet(listeners') = ToSet(listeners) \ {e}  BY <1>1, RemovedListener
<1>3. notified \subseteq ToSet(listeners)  BY DEF Before, IInv, TypeOK
<1>4. CASE e \in notified
  <2>1. notified' = Notified(1, listeners', notified \ {e})  BY <1>1, <1>4 DEF Dropped
  <2>2. listeners' \in Seq(Editors) /\ notified \ {e} \in SUBSET ToSet(listeners')
    BY <1>2, <1>3 DEF ListenersFit
  <2>3. QED  BY <1>2, <2>1, <2>2, NotifiedOldest
<1>5. CASE e \notin notified
  <2>1. notified' = notified  BY <1>5 DEF Dropped
  <2>2. QED  BY <1>2, <1>3, <1>5, <2>1
<1>6. QED  BY <1>4, <1>5

LEMMA PushedKeeps == ASSUME Before, NEW e \in Editors, Pushed(e) PROVE IInv'
<1> USE DEF Before, IInv
<1>1. /\ editor[e] \in {"pushed", "answered"}
      /\ editor' = [editor EXCEPT ![e] = IF editor[e] = "pushed" THEN "asked" ELSE "idle"]
      /\ pending' = pending /\ current' = current
  BY DEF Pushed, Moves
<1>2. /\ ListenersFit' /\ ToSet(listeners') = ToSet(listeners) \ {e}
      /\ notified' \subseteq ToSet(listeners')
      /\ notified # {} /\ ToSet(listeners') # {} => notified' # {}
  BY DroppedTells DEF Pushed
<1>3. TypeOK'  BY <1>1, <1>2 DEF Pushed, TypeOK
<1>4. RoomIsPassedOn'
  <2>1. SUFFICES ASSUME Len(pending) < QueueLimit, NEW w \in Editors, editor'[w] = "waiting"
                 PROVE  notified' # {} \/ \E d \in Editors : editor'[d] \in {"starting", "listening"}
    BY <1>1 DEF RoomIsPassedOn
  <2>2. editor[w] = "waiting" /\ w # e  BY <1>1, <2>1 DEF TypeOK
  <2>3. w \in ToSet(listeners')  BY <1>2, <2>2 DEF TypeOK
  <2>4. CASE notified # {}  BY <1>2, <2>3, <2>4
  <2>5. CASE notified = {}
    <3>1. PICK d \in Editors : editor[d] \in {"starting", "listening"}
      BY <2>1, <2>2, <2>5 DEF RoomIsPassedOn
    <3>2. editor'[d] = editor[d]  BY <1>1, <3>1 DEF TypeOK
    <3>3. QED  BY <3>1, <3>2
  <2>6. QED  BY <2>4, <2>5
<1>5. QueriesFit'
  <2>1. \A d \in Editors : editor[d] \in {"pushed", "asked"} => editor'[d] \in {"pushed", "asked"}
    BY <1>1 DEF TypeOK
  <2>2. \A i \in 1 .. Len(pending) : pending[i] \in Editors \union {NoEditor}
    BY ElementOfSeq DEF TypeOK
  <2>3. current \in Editors \union {NoEditor}  BY DEF TypeOK
  <2>4. QED  BY <1>1, <2>1, <2>2, <2>3 DEF QueriesFit
<1>6. QED  BY <1>2, <1>3, <1>4, <1>5 DEF Pushed, WorkerFits

LEMMA TriesAgainKeeps == ASSUME Before, NEW e \in Editors, TriesAgain(e) PROVE IInv'
<1> USE DEF Before, IInv
<1>1. /\ editor[e] = "waiting" /\ editor' = [editor EXCEPT ![e] = "starting"]
      /\ pending' = pending /\ current' = current /\ notified' = notified \ {e}
      /\ listeners' = RemoveFirst(listeners, e)
  BY DEF TriesAgain, Moves
<1>2. ListenersFit' /\ ToSet(listeners') = ToSet(listeners) \ {e}  BY <1>1, RemovedListener
<1>3. TypeOK'  BY <1>1, <1>2 DEF TriesAgain, TypeOK
<1>4. RoomIsPassedOn'  BY <1>1 DEF RoomIsPassedOn, TypeOK
<1>5. QueriesFit'
  <2>1. \A d \in Editors : editor[d] \in {"pushed", "asked"} => editor'[d] = editor[d]
    BY <1>1 DEF TypeOK
  <2>2. \A i \in 1 .. Len(pending) : pending[i] \in Editors \union {NoEditor}
    BY ElementOfSeq DEF TypeOK
  <2>3. current \in Editors \union {NoEditor}  BY DEF TypeOK
  <2>4. QED  BY <1>1, <2>1, <2>2, <2>3 DEF QueriesFit
<1>6. QED  BY <1>2, <1>3, <1>4, <1>5 DEF TriesAgain, WorkerFits

LEMMA GivesUpWaiting ==
  ASSUME Before, NEW e \in Editors, GivesUp(e), editor[e] = "waiting" PROVE IInv'
<1> USE DEF Before, IInv
<1>1. /\ editor' = [editor EXCEPT ![e] = "idle"] /\ Dropped(e)
      /\ pending' = pending /\ current' = current
  BY DEF GivesUp, Moves
<1>2. /\ ListenersFit' /\ ToSet(listeners') = ToSet(listeners) \ {e}
      /\ notified' \subseteq ToSet(listeners')
      /\ notified # {} /\ ToSet(listeners') # {} => notified' # {}
  BY <1>1, DroppedTells
<1>3. TypeOK'  BY <1>1, <1>2 DEF GivesUp, TypeOK
<1>4. RoomIsPassedOn'
  <2>1. SUFFICES ASSUME Len(pending) < QueueLimit, NEW w \in Editors, editor'[w] = "waiting"
                 PROVE  notified' # {} \/ \E d \in Editors : editor'[d] \in {"starting", "listening"}
    BY <1>1 DEF RoomIsPassedOn
  <2>2. editor[w] = "waiting" /\ w # e  BY <1>1, <2>1 DEF TypeOK
  <2>3. w \in ToSet(listeners')  BY <1>2, <2>2 DEF TypeOK
  <2>4. CASE notified # {}  BY <1>2, <2>3, <2>4
  <2>5. CASE notified = {}
    <3>1. PICK d \in Editors : editor[d] \in {"starting", "listening"}
      BY <2>1, <2>2, <2>5 DEF RoomIsPassedOn
    <3>2. editor'[d] = editor[d]  BY <1>1, <3>1 DEF TypeOK
    <3>3. QED  BY <3>1, <3>2
  <2>6. QED  BY <2>4, <2>5
<1>5. QueriesFit'
  <2>1. \A d \in Editors : editor[d] \in {"pushed", "asked"} => editor'[d] = editor[d]
    BY <1>1 DEF TypeOK
  <2>2. \A i \in 1 .. Len(pending) : pending[i] \in Editors \union {NoEditor}
    BY ElementOfSeq DEF TypeOK
  <2>3. current \in Editors \union {NoEditor}  BY DEF TypeOK
  <2>4. QED  BY <1>1, <2>1, <2>2, <2>3 DEF QueriesFit
<1>6. QED  BY <1>2, <1>3, <1>4, <1>5 DEF GivesUp, WorkerFits

LEMMA GivesUpAsked ==
  ASSUME Before, NEW e \in Editors, GivesUp(e), editor[e] = "asked" PROVE IInv'
<1> USE DEF Before, IInv
<1>1. /\ editor' = [editor EXCEPT ![e] = "idle"]
      /\ pending' = [i \in DOMAIN pending |-> IF pending[i] = e THEN NoEditor ELSE pending[i]]
      /\ current' = IF current = e THEN NoEditor ELSE current
      /\ listeners' = listeners /\ notified' = notified
      /\ UNCHANGED <<worker, loaded, running, used, asks>>
  BY DEF GivesUp, Moves
<1>2. /\ DOMAIN pending = 1 .. Len(pending) /\ Len(pending) \in Nat
      /\ \A i \in 1 .. Len(pending) : pending[i] \in Editors \union {NoEditor}
  BY LenProperties, ElementOfSeq DEF TypeOK
<1>3. pending' \in Seq(Editors \union {NoEditor}) /\ Len(pending') = Len(pending)
  <2>1. pending' \in [1 .. Len(pending) -> Editors \union {NoEditor}]  BY <1>1, <1>2
  <2>2. QED  BY <1>2, <2>1
<1>4. TypeOK'  BY <1>1, <1>3 DEF TypeOK
<1>5. RoomIsPassedOn'
  <2>1. \A d \in Editors : /\ editor'[d] = "waiting" => editor[d] = "waiting"
                           /\ editor[d] \in {"starting", "listening"} => editor'[d] = editor[d]
    BY <1>1 DEF TypeOK
  <2>2. QED  BY <1>1, <1>3, <2>1 DEF RoomIsPassedOn
<1>6. QueriesFit'
  <2>1. \A d \in Editors \ {e} : editor'[d] = editor[d]  BY <1>1 DEF TypeOK
  <2>2. \A i \in 1 .. Len(pending') : pending'[i] = IF pending[i] = e THEN NoEditor ELSE pending[i]
    BY <1>1, <1>2, <1>3
  <2>3. current \in Editors \union {NoEditor}  BY DEF TypeOK
  <2>4. \A i \in 1 .. Len(pending') : pending'[i] # NoEditor => editor'[pending'[i]] \in {"pushed", "asked"}
    BY <1>2, <1>3, <2>1, <2>2 DEF QueriesFit
  <2>5. \A i, j \in 1 .. Len(pending') : i # j /\ pending'[i] = pending'[j] => pending'[i] = NoEditor
    BY <1>2, <1>3, <2>2 DEF QueriesFit
  <2>6. current' # NoEditor =>
          /\ editor'[current'] \in {"pushed", "asked"}
          /\ \A i \in 1 .. Len(pending') : pending'[i] # current'
    BY <1>1, <1>3, <2>1, <2>2, <2>3 DEF QueriesFit
  <2>7. QED  BY <2>4, <2>5, <2>6 DEF QueriesFit
<1>7. QED  BY <1>1, <1>4, <1>5, <1>6 DEF ListenersFit, WorkerFits

LEMMA PopKeeps == ASSUME Before, Pop PROVE IInv'
<1> USE DEF Before, IInv
<1>1. /\ pending # <<>> /\ worker' = "popped"
      /\ current' = pending[1] /\ pending' = Tail(pending)
      /\ notified' = Notified(1, listeners, notified)
      /\ UNCHANGED <<editor, listeners, loaded, running, used, asks>>
  BY DEF Pop
<1>2. /\ pending' \in Seq(Editors \union {NoEditor}) /\ Len(pending) \in Nat
      /\ Len(pending') = Len(pending) - 1 /\ Len(pending') \in Nat
      /\ \A i \in 1 .. Len(pending') : pending'[i] = pending[i + 1]
  BY <1>1, HeadTailProperties, LenProperties DEF TypeOK
<1>3. current' \in Editors \union {NoEditor}
  BY <1>1, <1>2, ElementOfSeq DEF TypeOK
<1>4. /\ notified' \subseteq ToSet(listeners)
      /\ ToSet(listeners) # {} => notified' # {}
  <2>1. listeners \in Seq(Editors) /\ notified \in SUBSET ToSet(listeners)
    BY DEF ListenersFit, TypeOK
  <2>2. QED  BY <1>1, <2>1, NotifiedOldest
<1>5. Len(pending') <= QueueLimit  BY <1>2 DEF TypeOK, Assumed
<1>6. TypeOK'  BY <1>1, <1>2, <1>3, <1>4, <1>5 DEF TypeOK
<1>7. RoomIsPassedOn'  BY <1>1, <1>4 DEF TypeOK, RoomIsPassedOn
<1>8. QueriesFit'
  <2>1. \A i \in 1 .. Len(pending') : i + 1 \in 1 .. Len(pending) /\ i + 1 # 1
    BY <1>2
  <2>2. 1 \in 1 .. Len(pending)  BY <1>2
  <2>3. \A i \in 1 .. Len(pending') : pending'[i] # NoEditor => editor'[pending'[i]] \in {"pushed", "asked"}
    BY <1>1, <1>2, <2>1 DEF QueriesFit
  <2>4. ASSUME NEW i \in 1 .. Len(pending'), NEW j \in 1 .. Len(pending'),
               i # j, pending'[i] = pending'[j]
        PROVE  pending'[i] = NoEditor
    <3>1. i + 1 # j + 1  BY <1>2, <2>4
    <3>2. QED  BY <1>2, <2>1, <2>4, <3>1 DEF QueriesFit
  <2>5. current' # NoEditor =>
          /\ editor'[current'] \in {"pushed", "asked"}
          /\ \A i \in 1 .. Len(pending') : pending'[i] # current'
    BY <1>1, <1>2, <2>1, <2>2 DEF QueriesFit
  <2>6. QED  BY <2>3, <2>4, <2>5 DEF QueriesFit
<1>9. QED  BY <1>1, <1>6, <1>7, <1>8 DEF ListenersFit, WorkerFits

LEMMA WorkKeeps == ASSUME Before, Unload \/ Skip \/ Start PROVE IInv'
<1> USE DEF Before, IInv
<1>1. UNCHANGED <<editor, pending, listeners, notified, current>>  BY DEF Unload, Skip, Start
<1>2. TypeOK' /\ WorkerFits'
  <2>1. CASE Unload  BY <2>1 DEF Unload, TypeOK, WorkerFits
  <2>2. CASE Skip  BY <2>2 DEF Skip, TypeOK, WorkerFits
  <2>3. CASE Start  BY <2>3 DEF Start, TypeOK, WorkerFits
  <2>4. QED  BY <2>1, <2>2, <2>3
<1>3. QED  BY <1>1, <1>2 DEF RoomIsPassedOn, QueriesFit, ListenersFit

LEMMA AnswerKeeps == ASSUME Before, Answer PROVE IInv'
<1> USE DEF Before, IInv
<1>1. /\ worker = "querying" /\ worker' = "waiting" /\ current' = NoEditor
      /\ loaded' \in BOOLEAN
      /\ editor' = [e \in Editors |->
                      IF e # current THEN editor[e]
                      ELSE IF editor[e] = "pushed" THEN "answered" ELSE "idle"]
      /\ UNCHANGED <<pending, listeners, notified, running, used, asks>>
  BY DEF Answer
<1>2. \A e \in Editors : e = current => editor[e] \in {"pushed", "asked"}
  BY DEF QueriesFit, Assumed
<1>3. TypeOK'
  <2>1. \A e \in Editors : (editor'[e] \in {"listening", "waiting", "pushed", "answered"})
                            <=> (editor[e] \in {"listening", "waiting", "pushed", "answered"})
    BY <1>1, <1>2
  <2>2. ToSet(listeners)' =
          {e \in Editors : editor'[e] \in {"listening", "waiting", "pushed", "answered"}}
    BY <1>1, <2>1 DEF TypeOK
  <2>3. loaded' => running' /\ used'  BY <1>1 DEF WorkerFits
  <2>4. editor' \in [Editors -> {"idle", "starting", "listening", "waiting", "pushed",
                                "answered", "asked"}]
    BY <1>1 DEF TypeOK
  <2>5. QED  BY <1>1, <2>2, <2>3, <2>4 DEF TypeOK
<1>4. RoomIsPassedOn'
  <2>1. \A e \in Editors : /\ editor'[e] = "waiting" => editor[e] = "waiting"
                           /\ editor[e] \in {"starting", "listening"} => editor'[e] = editor[e]
    BY <1>1, <1>2
  <2>2. QED  BY <1>1, <2>1 DEF RoomIsPassedOn
<1>5. QueriesFit'
  <2>1. \A i \in 1 .. Len(pending) : pending[i] \in Editors \union {NoEditor}
    BY ElementOfSeq DEF TypeOK
  <2>2. QED  BY <1>1, <2>1 DEF QueriesFit
<1>6. QED  BY <1>1, <1>3, <1>4, <1>5 DEF ListenersFit, WorkerFits

LEMMA NextKeeps == Assumed /\ IInv /\ [Next]_vars => IInv'
<1> SUFFICES ASSUME Assumed, IInv, [Next]_vars PROVE IInv'  OBVIOUS
<1>0. Before  BY DEF Before
<1>1. CASE UNCHANGED vars
  BY <1>1 DEF vars, IInv, TypeOK, RoomIsPassedOn, QueriesFit, ListenersFit, WorkerFits
<1>2. ASSUME NEW e \in Editors, Ask(e) \/ Continue(e) \/ GivesUp(e) PROVE IInv'
  <2>1. CASE GivesUp(e)
    <3>1. editor[e] \in {"waiting", "asked"}  BY <2>1 DEF GivesUp
    <3>2. QED  BY <1>0, <2>1, <3>1, GivesUpWaiting, GivesUpAsked
  <2>2. QED
    BY <1>0, <1>2, <2>1, AskKeeps, ListenKeeps, PushKeeps, PushedKeeps, FindsFullKeeps,
       TriesAgainKeeps DEF Continue
<1>3. CASE Work  BY <1>0, <1>3, PopKeeps, WorkKeeps, AnswerKeeps DEF Work
<1>4. QED  BY <1>1, <1>2, <1>3 DEF Next

LEMMA InvariantHolds == ASSUME Assumed PROVE Spec => []IInv
<1>1. Init => IInv  BY InitFits
<1>2. IInv /\ [Next]_vars => IInv'  BY NextKeeps
<1>3. QED  BY <1>1, <1>2, PTL DEF Spec

(***************************************************************************)
(* worker.rs:61 "so a concurrent pop cannot strand this request": while    *)
(* there is room, an editor that waits for it is told, or another that is  *)
(* about to look at the queue tells it.                                    *)
(***************************************************************************)
THEOREM RoomIsAlwaysPassedOn == ASSUME Assumed PROVE Spec => []RoomIsPassedOn
<1>1. IInv => RoomIsPassedOn  BY DEF IInv
<1>2. QED  BY <1>1, InvariantHolds, PTL

(***************************************************************************)
(* worker.rs:81: the queue never holds more than its limit, and exactly    *)
(* the editors between their look at the queue and its outcome listen.     *)
(***************************************************************************)
THEOREM TypeCorrect == ASSUME Assumed PROVE Spec => []TypeOK
<1>1. IInv => TypeOK  BY DEF IInv
<1>2. QED  BY <1>1, InvariantHolds, PTL

(***************************************************************************)
(* worker.rs:66: the answer to a query reaches the editor that asked it: a *)
(* query is with the worker or in the queue once, and its editor waits for *)
(* it, so an editor that gave up or asked again is not given an old answer.*)
(***************************************************************************)
THEOREM AnswersFit == ASSUME Assumed PROVE Spec => []QueriesFit
<1>1. IInv => QueriesFit  BY DEF IInv
<1>2. QED  BY <1>1, InvariantHolds, PTL

-----------------------------------------------------------------------------
(***************************************************************************)
(* GrpcCall: any numbers of messages in each direction.                    *)
(***************************************************************************)
\* The events of a call, those that end it, and those its task emits.
EventNames ==
  {"before", "sent", "metadata", "received", "message", "after", "finished", "failed", "cancelled"}
CallEvents == EventNames \X Nat
Finals == {"finished", "failed"}
RawNames == {"sent", "metadata", "received", "finished", "failed"}

CallTyped ==
  /\ kind \in {"unary", "stream"} /\ scripts \subseteq {"message", "after"}
  /\ executor \in [at : {"connecting", "reading", "done", "aborted"}, received : Nat]
  /\ raw \in Seq(CallEvents) /\ output \in Seq(CallEvents) /\ log \in Seq(CallEvents)
  /\ forwarder \in [at : {"none", "idle", "message", "after", "ended"}, message : Nat]
  /\ messages \in {"open", "sending", "ended"} /\ sent \in Nat
  /\ held \in {"open", "ended", "cancelled"}

(***************************************************************************)
(* What is said of a sequence of events.                                   *)
(***************************************************************************)
NoFinal(s) == \A i \in 1 .. Len(s) : s[i][1] \notin Finals
OnlySent(s) == \A i \in 1 .. Len(s) : s[i][1] = "sent"
IsRaw(s) == \A i \in 1 .. Len(s) : s[i][1] \in RawNames
Closed(s) ==
  \A i \in 1 .. Len(s) : s[i][1] \in Finals => \A j \in i + 1 .. Len(s) : s[j][1] = "sent"

\* ScriptsAreInPlace of a sequence.
InPlace(s) ==
  /\ Closed(s)
  /\ \A i \in 1 .. Len(s) :
       /\ s[i][1] = "before" => i = 1
       /\ s[i][1] = "message" => i > 1 /\ s[i - 1] = <<"received", s[i][2]>>
       /\ s[i][1] = "after" =>
            i < Len(s) /\ s[i + 1] \in {C!Event("finished"), C!Event("cancelled")}
       /\ s[i][1] = "finished" /\ "after" \in scripts => i > 1 /\ s[i - 1] = C!Event("after")

\* The messages of a sequence are those after number a up to number b, in order.
Increasing(s) ==
  \A i, j \in 1 .. Len(s) :
    s[i][1] = "received" /\ s[j][1] = "received" /\ i < j => s[i][2] < s[j][2]
Numbered(s, a, b) ==
  /\ Increasing(s)
  /\ \A i \in 1 .. Len(s) : s[i][1] = "received" => s[i][2] \in a + 1 .. b
  /\ \A n \in a + 1 .. b : \E i \in 1 .. Len(s) : s[i] = <<"received", n>>

\* They are the first ones, as far as they go, and at most b.
Partly(s, b) ==
  /\ Increasing(s)
  /\ \A i \in 1 .. Len(s) : s[i][1] = "received" =>
       /\ s[i][2] \in 1 .. b
       /\ \A n \in 1 .. s[i][2] : \E j \in 1 .. i : s[j] = <<"received", n>>

(***************************************************************************)
(* The call while the tab holds it, and after.                             *)
(***************************************************************************)
OpenFits ==
  held = "open" =>
    /\ executor.at # "aborted"
    /\ forwarder.at = "none" <=> scripts = {}
    /\ scripts = {} => raw = <<>>
    /\ IsRaw(raw) /\ Closed(raw) /\ NoFinal(log)
    /\ executor.at \in {"connecting", "reading"} =>
         NoFinal(raw) /\ NoFinal(output) /\ forwarder.at \notin {"after", "ended"}
    /\ forwarder.at \in {"after", "ended"} \/ ~NoFinal(output) => OnlySent(raw)
    /\ forwarder.at \in {"message", "after"} => NoFinal(output)
    /\ forwarder.at = "message" =>
         Len(C!Shown) > 0 /\ C!Shown[Len(C!Shown)] = <<"received", forwarder.message>>
    /\ forwarder.at = "after" => "after" \in scripts

ClosedFits ==
  held # "open" =>
    executor.at = "aborted" /\ raw = <<>> /\ output = <<>> /\ messages # "sending" /\ forwarder.at = "none"

NumbersFit ==
  held # "cancelled" =>
    \E p \in 0 .. executor.received : Numbered(C!Shown, 0, p) /\ Numbered(raw, p, executor.received)

CallInv ==
  CallTyped /\ OpenFits /\ ClosedFits /\ InPlace(C!Shown) /\ NumbersFit /\ Partly(C!Shown, executor.received)

-----------------------------------------------------------------------------
(***************************************************************************)
(* Appending an event.                                                     *)
(***************************************************************************)
LEMMA Appended ==
  ASSUME NEW s \in Seq(CallEvents), NEW e \in CallEvents
  PROVE  /\ Append(s, e) \in Seq(CallEvents) /\ Len(s) \in Nat /\ Len(Append(s, e)) = Len(s) + 1
         /\ \A i \in 1 .. Len(s) : Append(s, e)[i] = s[i]
         /\ Append(s, e)[Len(s) + 1] = e
         /\ \A i \in 1 .. Len(s) + 1 : i \in 1 .. Len(s) \/ i = Len(s) + 1
BY AppendProperties, LenProperties

LEMMA AppendedNumbers ==
  ASSUME NEW s \in Seq(CallEvents), NEW e \in CallEvents, NEW a \in Nat, NEW b \in Nat, a <= b,
         Numbered(s, a, b), e = <<"received", b + 1>>
  PROVE  Numbered(Append(s, e), a, b + 1)
<1> DEFINE t == Append(s, e)
<1>1. /\ Len(s) \in Nat /\ Len(t) = Len(s) + 1
      /\ \A i \in 1 .. Len(s) : t[i] = s[i]
      /\ t[Len(s) + 1] = e
      /\ \A i \in 1 .. Len(s) + 1 : i \in 1 .. Len(s) \/ i = Len(s) + 1
  BY Appended
<1> HIDE DEF t
<1>2. \A i \in 1 .. Len(s) : s[i][1] = "received" => s[i][2] \in a + 1 .. b  BY DEF Numbered
<1>3. Increasing(t)
  <2>1. SUFFICES ASSUME NEW i \in 1 .. Len(t), NEW j \in 1 .. Len(t),
                        t[i][1] = "received", t[j][1] = "received", i < j
                 PROVE  t[i][2] < t[j][2]
    BY DEF Increasing
  <2>2. i \in 1 .. Len(s)  BY <1>1, <2>1
  <2>3. CASE j \in 1 .. Len(s)  BY <1>1, <2>1, <2>2, <2>3 DEF Numbered, Increasing
  <2>4. CASE j = Len(s) + 1
    <3>1. t[j][2] = b + 1  BY <1>1, <2>4
    <3>2. t[i][2] \in a + 1 .. b  BY <1>1, <1>2, <2>1, <2>2
    <3>3. QED  BY <3>1, <3>2
  <2>5. QED  BY <1>1, <2>3, <2>4
<1>4. \A i \in 1 .. Len(t) : t[i][1] = "received" => t[i][2] \in a + 1 .. b + 1
  <2>1. a + 1 .. b \subseteq a + 1 .. b + 1 /\ b + 1 \in a + 1 .. b + 1  OBVIOUS
  <2>2. QED  BY <1>1, <1>2, <2>1
<1>5. \A n \in a + 1 .. b + 1 : \E i \in 1 .. Len(t) : t[i] = <<"received", n>>
  <2>1. TAKE n \in a + 1 .. b + 1
  <2>2. 1 .. Len(s) \subseteq 1 .. Len(t) /\ Len(s) + 1 \in 1 .. Len(t)  BY <1>1
  <2>3. CASE n = b + 1  BY <1>1, <2>2, <2>3
  <2>4. CASE n # b + 1
    <3>1. n \in a + 1 .. b  BY <2>4
    <3>2. QED  BY <1>1, <2>2, <3>1 DEF Numbered
  <2>5. QED  BY <2>3, <2>4
<1>6. QED  BY <1>3, <1>4, <1>5 DEF Numbered, t

LEMMA AppendedOthers ==
  ASSUME NEW s \in Seq(CallEvents), NEW e \in CallEvents, e[1] # "received"
  PROVE  /\ \A a, b \in Nat : Numbered(s, a, b) => Numbered(Append(s, e), a, b)
         /\ \A b \in Nat : Partly(s, b) => Partly(Append(s, e), b)
<1> DEFINE t == Append(s, e)
<1>1. /\ Len(s) \in Nat /\ Len(t) = Len(s) + 1
      /\ \A i \in 1 .. Len(s) : t[i] = s[i]
      /\ t[Len(s) + 1] = e
      /\ \A i \in 1 .. Len(s) + 1 : i \in 1 .. Len(s) \/ i = Len(s) + 1
      /\ 1 .. Len(s) \subseteq 1 .. Len(t)
  BY Appended
<1> HIDE DEF t
<1>2. \A i \in 1 .. Len(t) : t[i][1] = "received" => i \in 1 .. Len(s) /\ t[i] = s[i]
  BY <1>1
<1>3. Increasing(s) => Increasing(t)  BY <1>2 DEF Increasing
<1>4. ASSUME NEW a \in Nat, NEW b \in Nat, Numbered(s, a, b) PROVE Numbered(t, a, b)
  BY <1>1, <1>2, <1>3, <1>4 DEF Numbered
<1>5. ASSUME NEW b \in Nat, Partly(s, b) PROVE Partly(t, b)
  <2>1. \A i \in 1 .. Len(s) : \A j \in 1 .. i : j \in 1 .. Len(s)  BY <1>1
  <2>2. Increasing(t)  BY <1>3, <1>5 DEF Partly
  <2>3. ASSUME NEW i \in 1 .. Len(t), t[i][1] = "received"
        PROVE  /\ t[i][2] \in 1 .. b
               /\ \A n \in 1 .. t[i][2] : \E j \in 1 .. i : t[j] = <<"received", n>>
    <3>1. i \in 1 .. Len(s) /\ t[i] = s[i]  BY <1>2, <2>3
    <3>2. /\ s[i][2] \in 1 .. b
          /\ \A n \in 1 .. s[i][2] : \E j \in 1 .. i : s[j] = <<"received", n>>
      BY <1>5, <2>3, <3>1 DEF Partly
    <3>3. \A j \in 1 .. i : t[j] = s[j]  BY <1>1, <2>1, <3>1
    <3>4. QED  BY <3>1, <3>2, <3>3
  <2>4. QED  BY <2>2, <2>3 DEF Partly
<1>6. QED  BY <1>4, <1>5 DEF t

LEMMA AppendedPartly ==
  ASSUME NEW s \in Seq(CallEvents), NEW e \in CallEvents, NEW p \in Nat, NEW b \in Nat, p < b,
         Numbered(s, 0, p), e = <<"received", p + 1>>
  PROVE  Partly(Append(s, e), b)
<1> DEFINE t == Append(s, e)
<1>1. /\ Len(s) \in Nat /\ Len(t) = Len(s) + 1
      /\ t[Len(s) + 1] = e
      /\ \A i \in 1 .. Len(s) + 1 : i \in 1 .. Len(s) \/ i = Len(s) + 1
  BY Appended
<1>0. Numbered(t, 0, p + 1)  BY AppendedNumbers
<1> HIDE DEF t
<1>2. /\ Increasing(t)
      /\ \A i \in 1 .. Len(t) : t[i][1] = "received" => t[i][2] \in 1 .. p + 1
      /\ \A n \in 1 .. p + 1 : \E i \in 1 .. Len(t) : t[i] = <<"received", n>>
  <2>1. 0 + 1 = 1  OBVIOUS
  <2>2. QED  BY <1>0, <2>1 DEF Numbered
<1>3. ASSUME NEW i \in 1 .. Len(t), t[i][1] = "received"
      PROVE  /\ t[i][2] \in 1 .. b
             /\ \A n \in 1 .. t[i][2] : \E j \in 1 .. i : t[j] = <<"received", n>>
  <2>1. t[i][2] \in 1 .. p + 1 /\ t[i][2] \in 1 .. b  BY <1>2, <1>3
  <2>2. ASSUME NEW n \in 1 .. t[i][2] PROVE \E j \in 1 .. i : t[j] = <<"received", n>>
    <3>1. n \in 1 .. p + 1  BY <2>1
    <3>2. PICK j \in 1 .. Len(t) : t[j] = <<"received", n>>  BY <1>2, <3>1
    <3>3. ~(i < j)
      <4>0. t[j][1] = "received"  BY <3>2
      <4>1. i < j => t[i][2] < t[j][2]  BY <1>2, <1>3, <4>0 DEF Increasing
      <4>2. t[j][2] = n /\ ~(t[i][2] < n)  BY <2>1, <3>2
      <4>3. QED  BY <4>1, <4>2
    <3>4. j \in 1 .. i  BY <1>1, <3>3
    <3>5. QED  BY <3>2, <3>4
  <2>3. QED  BY <2>1, <2>2
<1>4. QED  BY <1>2, <1>3 DEF Partly, t

LEMMA AppendedInPlace ==
  ASSUME NEW s \in Seq(CallEvents), NEW e \in CallEvents, InPlace(s),
         e[1] \notin {"before", "after"}, e[1] = "sent" \/ NoFinal(s),
         e[1] = "message" => Len(s) > 0 /\ s[Len(s)] = <<"received", e[2]>>,
         e[1] = "finished" => "after" \notin scripts
  PROVE  InPlace(Append(s, e))
<1> DEFINE t == Append(s, e)
<1>1. /\ Len(s) \in Nat /\ Len(t) = Len(s) + 1
      /\ \A i \in 1 .. Len(s) : t[i] = s[i]
      /\ t[Len(s) + 1] = e
      /\ \A i \in 1 .. Len(s) + 1 : i \in 1 .. Len(s) \/ i = Len(s) + 1
  BY Appended
<1> HIDE DEF t
<1>2. Closed(t)
  <2>1. SUFFICES ASSUME NEW i \in 1 .. Len(t), t[i][1] \in Finals, NEW j \in i + 1 .. Len(t)
                 PROVE  t[j][1] = "sent"
    BY DEF Closed
  <2>2. i \in 1 .. Len(s) /\ s[i][1] \in Finals  BY <1>1, <2>1
  <2>3. CASE j \in 1 .. Len(s)
    <3>1. j \in i + 1 .. Len(s)  BY <2>1, <2>3, <1>1
    <3>2. QED  BY <3>1, <2>2, <2>3, <1>1 DEF InPlace, Closed
  <2>4. CASE j = Len(s) + 1
    <3>1. e[1] = "sent"  BY <2>2 DEF NoFinal
    <3>2. QED  BY <3>1, <2>4, <1>1
  <2>5. QED  BY <1>1, <2>1, <2>3, <2>4
<1>3. ASSUME NEW i \in 1 .. Len(t)
      PROVE  /\ t[i][1] = "before" => i = 1
             /\ t[i][1] = "message" => i > 1 /\ t[i - 1] = <<"received", t[i][2]>>
             /\ t[i][1] = "after" =>
                  i < Len(t) /\ t[i + 1] \in {C!Event("finished"), C!Event("cancelled")}
             /\ t[i][1] = "finished" /\ "after" \in scripts => i > 1 /\ t[i - 1] = C!Event("after")
  <2>1. CASE i \in 1 .. Len(s)
    <3>1. i > 1 => i - 1 \in 1 .. Len(s) /\ t[i - 1] = s[i - 1]  BY <1>1, <2>1
    <3>2. i < Len(s) => i + 1 \in 1 .. Len(s) /\ t[i + 1] = s[i + 1]  BY <1>1, <2>1
    <3>3. i < Len(s) => i < Len(t)  BY <1>1, <2>1
    <3>4. QED  BY <1>1, <2>1, <3>1, <3>2, <3>3 DEF InPlace
  <2>2. CASE i = Len(s) + 1
    <3>1. Len(s) > 0 => i > 1 /\ i - 1 = Len(s) /\ t[i - 1] = s[Len(s)]  BY <1>1, <2>2
    <3>2. t[i] = e  BY <1>1, <2>2
    <3>3. QED  BY <3>1, <3>2
  <2>3. QED  BY <1>1, <2>1, <2>2
<1>4. QED  BY <1>2, <1>3 DEF InPlace, t

(***************************************************************************)
(* The report of After response, and then the status.                      *)
(***************************************************************************)
LEMMA StatusInPlace ==
  ASSUME NEW s \in Seq(CallEvents), InPlace(s), NoFinal(s)
  PROVE  InPlace(Append(Append(s, C!Event("after")), C!Event("finished")))
<1> DEFINE r == Append(s, C!Event("after"))
           t == Append(r, C!Event("finished"))
<1>0. C!Event("after") \in CallEvents /\ C!Event("finished") \in CallEvents
  BY DEF C!Event, CallEvents, EventNames
<1>1. /\ r \in Seq(CallEvents) /\ Len(s) \in Nat /\ Len(r) = Len(s) + 1
      /\ \A i \in 1 .. Len(s) : r[i] = s[i]
      /\ r[Len(s) + 1] = C!Event("after")
  BY <1>0, Appended
<1> HIDE DEF r
<1>2. /\ Len(t) = Len(r) + 1
      /\ \A i \in 1 .. Len(r) : t[i] = r[i]
      /\ t[Len(r) + 1] = C!Event("finished")
  BY <1>0, <1>1, Appended
<1> HIDE DEF t
<1>3. /\ Len(t) = Len(s) + 2
      /\ \A i \in 1 .. Len(s) : t[i] = s[i] /\ i < Len(t) /\ i \in Nat
      /\ t[Len(s) + 1] = C!Event("after") /\ t[Len(s) + 2] = C!Event("finished")
      /\ \A i \in 1 .. Len(t) : i \in 1 .. Len(s) \/ i = Len(s) + 1 \/ i = Len(s) + 2
  BY <1>1, <1>2
<1>4. Closed(t)
  <2>1. SUFFICES ASSUME NEW i \in 1 .. Len(t), t[i][1] \in Finals, NEW j \in i + 1 .. Len(t)
                 PROVE  FALSE
    BY DEF Closed
  <2>2. i = Len(s) + 2  BY <1>3, <2>1 DEF NoFinal, C!Event, Finals
  <2>3. QED  BY <1>1, <1>3, <2>1, <2>2
<1>5. ASSUME NEW i \in 1 .. Len(t)
      PROVE  /\ t[i][1] = "before" => i = 1
             /\ t[i][1] = "message" => i > 1 /\ t[i - 1] = <<"received", t[i][2]>>
             /\ t[i][1] = "after" =>
                  i < Len(t) /\ t[i + 1] \in {C!Event("finished"), C!Event("cancelled")}
             /\ t[i][1] = "finished" /\ "after" \in scripts => i > 1 /\ t[i - 1] = C!Event("after")
  <2>1. CASE i \in 1 .. Len(s)
    <3>1. i > 1 => i - 1 \in 1 .. Len(s) /\ t[i - 1] = s[i - 1]  BY <1>1, <1>3, <2>1
    <3>2. i < Len(s) => i + 1 \in 1 .. Len(s) /\ t[i + 1] = s[i + 1]  BY <1>1, <1>3, <2>1
    <3>3. QED  BY <1>3, <2>1, <3>1, <3>2 DEF InPlace
  <2>2. CASE i = Len(s) + 1
    <3>1. i < Len(t) /\ i + 1 = Len(s) + 2  BY <1>1, <1>3, <2>2
    <3>2. t[i][1] = "after"  BY <1>3, <2>2 DEF C!Event
    <3>3. QED  BY <1>3, <3>1, <3>2
  <2>3. CASE i = Len(s) + 2
    <3>1. i > 1 /\ i - 1 = Len(s) + 1  BY <1>1, <2>3
    <3>2. t[i][1] = "finished"  BY <1>3, <2>3 DEF C!Event
    <3>3. QED  BY <1>3, <3>1, <3>2
  <2>4. QED  BY <1>3, <2>1, <2>2, <2>3
<1>6. QED  BY <1>4, <1>5 DEF InPlace, t, r

(***************************************************************************)
(* A first part of a sequence: the tab shows it when the rest is dropped.  *)
(***************************************************************************)
First(t, s) ==
  t \in Seq(CallEvents) /\ Len(t) <= Len(s) /\ \A i \in 1 .. Len(t) : t[i] = s[i]

LEMMA FirstPartly ==
  ASSUME NEW s \in Seq(CallEvents), NEW t, First(t, s), NEW b \in Nat, Partly(s, b)
  PROVE  Partly(t, b)
<1>1. Len(s) \in Nat /\ Len(t) \in Nat /\ Len(t) <= Len(s) /\ \A i \in 1 .. Len(t) : t[i] = s[i]
  BY LenProperties DEF First
<1>2. \A i \in 1 .. Len(t) : i \in 1 .. Len(s) /\ \A j \in 1 .. i : j \in 1 .. Len(t)  BY <1>1
<1>3. QED  BY <1>1, <1>2 DEF Partly, Increasing

\* The user's cancelling ends what is shown, also after an After response.
LEMMA CancelledInPlace ==
  ASSUME NEW s \in Seq(CallEvents), NEW t, First(t, s), InPlace(s), NoFinal(t)
  PROVE  InPlace(Append(t, C!Event("cancelled")))
<1> DEFINE u == Append(t, C!Event("cancelled"))
<1>0. C!Event("cancelled") \in CallEvents /\ t \in Seq(CallEvents)
  BY DEF C!Event, CallEvents, EventNames, First
<1>1. Len(s) \in Nat /\ Len(t) \in Nat /\ Len(t) <= Len(s) /\ \A i \in 1 .. Len(t) : t[i] = s[i]
  BY LenProperties DEF First
<1>2. /\ Len(u) = Len(t) + 1
      /\ \A i \in 1 .. Len(t) : u[i] = t[i]
      /\ u[Len(t) + 1] = C!Event("cancelled")
      /\ \A i \in 1 .. Len(u) : i \in 1 .. Len(t) \/ i = Len(t) + 1
  BY <1>0, Appended
<1> HIDE DEF u
<1>3. Closed(u)
  BY <1>2 DEF Closed, NoFinal, C!Event, Finals
<1>4. ASSUME NEW i \in 1 .. Len(u)
      PROVE  /\ u[i][1] = "before" => i = 1
             /\ u[i][1] = "message" => i > 1 /\ u[i - 1] = <<"received", u[i][2]>>
             /\ u[i][1] = "after" =>
                  i < Len(u) /\ u[i + 1] \in {C!Event("finished"), C!Event("cancelled")}
             /\ u[i][1] = "finished" /\ "after" \in scripts => i > 1 /\ u[i - 1] = C!Event("after")
  <2>1. CASE i \in 1 .. Len(t)
    <3>1. i > 1 => i - 1 \in 1 .. Len(t) /\ u[i - 1] = s[i - 1]  BY <1>1, <1>2, <2>1
    <3>2. i < Len(t) => i + 1 \in 1 .. Len(t) /\ u[i + 1] = s[i + 1]  BY <1>1, <1>2, <2>1
    <3>3. i = Len(t) => u[i + 1] = C!Event("cancelled")  BY <1>2
    <3>4. i < Len(u) /\ (i < Len(t) \/ i = Len(t)) /\ i \in 1 .. Len(s) /\ u[i] = s[i]
      BY <1>1, <1>2, <2>1
    <3>5. QED  BY <3>1, <3>2, <3>3, <3>4 DEF InPlace
  <2>2. CASE i = Len(t) + 1
    <3>1. u[i][1] = "cancelled"  BY <1>2, <2>2 DEF C!Event
    <3>2. QED  BY <3>1
  <2>3. QED  BY <1>2, <2>1, <2>2
<1>5. QED  BY <1>3, <1>4 DEF InPlace, u

\* A call that ended drops at most messages that were sent.
LEMMA EndedInPlace ==
  ASSUME NEW s \in Seq(CallEvents), NEW t, First(t, s), InPlace(s), ~NoFinal(t)
  PROVE  /\ InPlace(t)
         /\ \A b \in Nat : Numbered(s, 0, b) => Numbered(t, 0, b)
<1>1. Len(s) \in Nat /\ Len(t) \in Nat /\ Len(t) <= Len(s) /\ \A i \in 1 .. Len(t) : t[i] = s[i]
  BY LenProperties DEF First
<1>2. 1 .. Len(t) \subseteq 1 .. Len(s)  BY <1>1
<1>3. PICK k \in 1 .. Len(t) : t[k][1] \in Finals  BY DEF NoFinal
<1>4. \A i \in 1 .. Len(s) : i <= k \/ s[i][1] = "sent"
  <2>1. TAKE i \in 1 .. Len(s)
  <2>2. i > k => i \in k + 1 .. Len(s)  BY <1>1
  <2>3. k \in 1 .. Len(s) /\ s[k][1] \in Finals  BY <1>1, <1>2, <1>3
  <2>4. i > k => s[i][1] = "sent"  BY <2>2, <2>3 DEF InPlace, Closed
  <2>5. QED  BY <2>4, <1>1
<1>5. Closed(t)
  <2>1. SUFFICES ASSUME NEW i \in 1 .. Len(t), t[i][1] \in Finals, NEW j \in i + 1 .. Len(t)
                 PROVE  t[j][1] = "sent"
    BY DEF Closed
  <2>2. i \in 1 .. Len(s) /\ j \in i + 1 .. Len(s) /\ j \in 1 .. Len(t)  BY <1>1
  <2>3. QED  BY <1>1, <2>1, <2>2 DEF InPlace, Closed
<1>6. ASSUME NEW i \in 1 .. Len(t)
      PROVE  /\ t[i][1] = "before" => i = 1
             /\ t[i][1] = "message" => i > 1 /\ t[i - 1] = <<"received", t[i][2]>>
             /\ t[i][1] = "after" =>
                  i < Len(t) /\ t[i + 1] \in {C!Event("finished"), C!Event("cancelled")}
             /\ t[i][1] = "finished" /\ "after" \in scripts => i > 1 /\ t[i - 1] = C!Event("after")
  <2>1. i \in 1 .. Len(s) /\ t[i] = s[i]  BY <1>1, <1>2
  <2>2. i > 1 => i - 1 \in 1 .. Len(t) /\ t[i - 1] = s[i - 1]  BY <1>1
  <2>3. t[i][1] = "after" => i < Len(t)
    <3>1. t[i][1] = "after" => i <= k /\ i # k  BY <1>3, <1>4, <2>1 DEF Finals
    <3>2. QED  BY <3>1, <1>1
  <2>4. i < Len(t) => i + 1 \in 1 .. Len(t) /\ t[i + 1] = s[i + 1]  BY <1>1
  <2>5. QED  BY <2>1, <2>2, <2>3, <2>4 DEF InPlace
<1>7. ASSUME NEW b \in Nat, Numbered(s, 0, b) PROVE Numbered(t, 0, b)
  <2>1. Increasing(t)  BY <1>1, <1>2, <1>7 DEF Numbered, Increasing
  <2>2. \A i \in 1 .. Len(t) : t[i][1] = "received" => t[i][2] \in 0 + 1 .. b
    BY <1>1, <1>2, <1>7 DEF Numbered
  <2>3. ASSUME NEW n \in 0 + 1 .. b PROVE \E i \in 1 .. Len(t) : t[i] = <<"received", n>>
    <3>1. PICK i \in 1 .. Len(s) : s[i] = <<"received", n>>  BY <1>7, <2>3 DEF Numbered
    <3>2. i <= k  BY <1>4, <3>1
    <3>3. i \in 1 .. Len(t)  BY <1>1, <3>2
    <3>4. QED  BY <1>1, <3>1, <3>3
  <2>4. QED  BY <2>1, <2>2, <2>3 DEF Numbered
<1>8. QED  BY <1>5, <1>6, <1>7 DEF InPlace

(***************************************************************************)
(* Taking the first event of a sequence.                                   *)
(***************************************************************************)
LEMMA TakenNumbers ==
  ASSUME NEW s \in Seq(CallEvents), s # <<>>, NEW a \in Nat, NEW b \in Nat, Numbered(s, a, b)
  PROVE  /\ Head(s)[1] = "received" =>
              Head(s) = <<"received", a + 1>> /\ a < b /\ Numbered(Tail(s), a + 1, b)
         /\ Head(s)[1] # "received" => Numbered(Tail(s), a, b)
<1> DEFINE t == Tail(s)
<1>1. /\ Len(s) \in Nat /\ Len(s) > 0 /\ Head(s) = s[1] /\ s[1] \in CallEvents
      /\ t \in Seq(CallEvents) /\ Len(t) = Len(s) - 1
      /\ \A i \in 1 .. Len(t) : t[i] = s[i + 1] /\ i + 1 \in 1 .. Len(s)
      /\ 1 \in 1 .. Len(s)
      /\ \A i \in 1 .. Len(s) : i = 1 \/ (i > 1 /\ i - 1 \in 1 .. Len(t) /\ t[i - 1] = s[i])
  BY HeadTailProperties, LenProperties, EmptySeq
<1> HIDE DEF t
<1>2. Increasing(t)
  <2>1. SUFFICES ASSUME NEW i \in 1 .. Len(t), NEW j \in 1 .. Len(t),
                        t[i][1] = "received", t[j][1] = "received", i < j
                 PROVE  t[i][2] < t[j][2]
    BY DEF Increasing
  <2>2. i + 1 < j + 1  BY <2>1
  <2>3. QED  BY <1>1, <2>1, <2>2 DEF Numbered, Increasing
<1>3. CASE s[1][1] # "received"
  <2>1. \A i \in 1 .. Len(t) : t[i][1] = "received" => t[i][2] \in a + 1 .. b  BY <1>1 DEF Numbered
  <2>2. \A n \in a + 1 .. b : \E i \in 1 .. Len(t) : t[i] = <<"received", n>>
    <3>1. TAKE n \in a + 1 .. b
    <3>2. PICK i \in 1 .. Len(s) : s[i] = <<"received", n>>  BY DEF Numbered
    <3>3. i # 1  BY <1>3, <3>2
    <3>4. QED  BY <1>1, <3>2, <3>3
  <2>3. QED  BY <1>1, <1>2, <1>3, <2>1, <2>2 DEF Numbered, t
<1>4. CASE s[1][1] = "received"
  <2>1. s[1][2] \in a + 1 .. b  BY <1>1, <1>4 DEF Numbered
  <2>2. a + 1 \in a + 1 .. b /\ a < b  BY <2>1
  <2>3. PICK k \in 1 .. Len(s) : s[k] = <<"received", a + 1>>  BY <2>2 DEF Numbered
  <2>4. ~(1 < k)
    <3>1. 1 < k => s[1][2] < s[k][2]  BY <1>1, <1>4, <2>3 DEF Numbered, Increasing
    <3>2. s[k][2] = a + 1 /\ ~(s[1][2] < a + 1)  BY <2>1, <2>3
    <3>3. QED  BY <3>1, <3>2
  <2>5. s[1] = <<"received", a + 1>>
    <3>1. k = 1  BY <1>1, <2>4
    <3>2. QED  BY <2>3, <3>1
  <2>6. \A i \in 1 .. Len(t) : t[i][1] = "received" => t[i][2] \in (a + 1) + 1 .. b
    <3>1. TAKE i \in 1 .. Len(t)
    <3>2. HAVE t[i][1] = "received"
    <3>3. s[i + 1][2] \in a + 1 .. b /\ t[i] = s[i + 1] /\ 1 < i + 1  BY <1>1, <3>2 DEF Numbered
    <3>4. s[1][2] < s[i + 1][2]  BY <1>1, <1>4, <3>2, <3>3 DEF Numbered, Increasing
    <3>5. s[1][2] = a + 1  BY <2>5
    <3>6. QED  BY <3>3, <3>4, <3>5
  <2>7. \A n \in (a + 1) + 1 .. b : \E i \in 1 .. Len(t) : t[i] = <<"received", n>>
    <3>1. TAKE n \in (a + 1) + 1 .. b
    <3>2. n \in a + 1 .. b /\ n # a + 1  OBVIOUS
    <3>3. PICK i \in 1 .. Len(s) : s[i] = <<"received", n>>  BY <3>2 DEF Numbered
    <3>4. i # 1  BY <2>5, <3>2, <3>3
    <3>5. QED  BY <1>1, <3>3, <3>4
  <2>8. QED  BY <1>1, <1>2, <1>4, <2>2, <2>5, <2>6, <2>7 DEF Numbered, t
<1>5. QED  BY <1>3, <1>4

-----------------------------------------------------------------------------
(***************************************************************************)
(* What the tab shows and will show.                                       *)
(***************************************************************************)
LEMMA Concatenated ==
  ASSUME NEW s \in Seq(CallEvents), NEW t \in Seq(CallEvents)
  PROVE  /\ s \o t \in Seq(CallEvents)
         /\ NoFinal(s \o t) <=> NoFinal(s) /\ NoFinal(t)
         /\ \A e \in CallEvents : s \o Append(t, e) = Append(s \o t, e)
         /\ First(s, s \o t)
<1>1. /\ s \o t \in Seq(CallEvents) /\ Len(s \o t) = Len(s) + Len(t) /\ Len(s) \in Nat /\ Len(t) \in Nat
      /\ \A i \in 1 .. Len(s) + Len(t) : (s \o t)[i] = IF i <= Len(s) THEN s[i] ELSE t[i - Len(s)]
  BY ConcatProperties, LenProperties
<1>2. \A i \in 1 .. Len(s) : i \in 1 .. Len(s \o t) /\ (s \o t)[i] = s[i]  BY <1>1
<1>3. \A i \in 1 .. Len(t) : Len(s) + i \in 1 .. Len(s \o t) /\ (s \o t)[Len(s) + i] = t[i]
  <2>1. TAKE i \in 1 .. Len(t)
  <2>2. Len(s) + i \in 1 .. Len(s) + Len(t) /\ ~(Len(s) + i <= Len(s)) /\ (Len(s) + i) - Len(s) = i
    BY <1>1
  <2>3. QED  BY <1>1, <2>2
<1>4. NoFinal(s \o t) => NoFinal(s) /\ NoFinal(t)  BY <1>2, <1>3 DEF NoFinal
<1>5. NoFinal(s) /\ NoFinal(t) => NoFinal(s \o t)
  <2>1. SUFFICES ASSUME NoFinal(s), NoFinal(t), NEW i \in 1 .. Len(s \o t)
                 PROVE  (s \o t)[i][1] \notin Finals
    BY DEF NoFinal
  <2>2. CASE i <= Len(s)
    <3>1. i \in 1 .. Len(s)  BY <1>1, <2>2
    <3>2. QED  BY <1>2, <2>1, <3>1 DEF NoFinal
  <2>3. CASE ~(i <= Len(s))
    <3>1. i - Len(s) \in 1 .. Len(t) /\ (s \o t)[i] = t[i - Len(s)]  BY <1>1, <2>3
    <3>2. QED  BY <2>1, <3>1 DEF NoFinal
  <2>4. QED  BY <2>2, <2>3
<1>6. ASSUME NEW e \in CallEvents PROVE s \o Append(t, e) = Append(s \o t, e)
  <2>1. <<e>> \in Seq(CallEvents)  OBVIOUS
  <2>2. Append(t, e) = t \o <<e>> /\ Append(s \o t, e) = (s \o t) \o <<e>>  BY <1>1, AppendIsConcat
  <2>3. QED  BY <2>1, <2>2, ConcatAssociative
<1>7. First(s, s \o t)  BY <1>1, <1>2 DEF First
<1>8. QED  BY <1>1, <1>4, <1>5, <1>6, <1>7

LEMMA AppendedKinds ==
  ASSUME NEW s \in Seq(CallEvents), NEW e \in CallEvents
  PROVE  /\ NoFinal(s) /\ e[1] \notin Finals => NoFinal(Append(s, e))
         /\ OnlySent(s) /\ e[1] = "sent" => OnlySent(Append(s, e))
         /\ IsRaw(s) /\ e[1] \in RawNames => IsRaw(Append(s, e))
         /\ Closed(s) /\ (e[1] = "sent" \/ NoFinal(s)) => Closed(Append(s, e))
<1> DEFINE t == Append(s, e)
<1>1. /\ Len(s) \in Nat /\ Len(t) = Len(s) + 1
      /\ \A i \in 1 .. Len(s) : t[i] = s[i]
      /\ t[Len(s) + 1] = e
      /\ \A i \in 1 .. Len(s) + 1 : i \in 1 .. Len(s) \/ i = Len(s) + 1
  BY Appended
<1> HIDE DEF t
<1>2. /\ NoFinal(s) /\ e[1] \notin Finals => NoFinal(t)
      /\ OnlySent(s) /\ e[1] = "sent" => OnlySent(t)
      /\ IsRaw(s) /\ e[1] \in RawNames => IsRaw(t)
  BY <1>1 DEF NoFinal, OnlySent, IsRaw
<1>3. Closed(s) /\ (e[1] = "sent" \/ NoFinal(s)) => Closed(t)
  <2>1. SUFFICES ASSUME Closed(s), e[1] = "sent" \/ NoFinal(s),
                        NEW i \in 1 .. Len(t), t[i][1] \in Finals, NEW j \in i + 1 .. Len(t)
                 PROVE  t[j][1] = "sent"
    BY DEF Closed
  <2>2. i \in 1 .. Len(s) /\ s[i][1] \in Finals  BY <1>1, <2>1
  <2>3. CASE j \in 1 .. Len(s)
    <3>1. j \in i + 1 .. Len(s)  BY <2>1, <2>3, <1>1
    <3>2. QED  BY <3>1, <2>1, <2>2, <2>3, <1>1 DEF Closed
  <2>4. CASE j = Len(s) + 1
    <3>1. e[1] = "sent"  BY <2>1, <2>2 DEF NoFinal
    <3>2. QED  BY <3>1, <2>4, <1>1
  <2>5. QED  BY <1>1, <2>1, <2>3, <2>4
<1>4. QED  BY <1>2, <1>3 DEF t

LEMMA TakenKinds ==
  ASSUME NEW s \in Seq(CallEvents), s # <<>>
  PROVE  /\ Head(s) \in CallEvents /\ Tail(s) \in Seq(CallEvents) /\ Head(s) = s[1] /\ 1 \in 1 .. Len(s)
         /\ NoFinal(s) => NoFinal(Tail(s)) /\ Head(s)[1] \notin Finals
         /\ OnlySent(s) => OnlySent(Tail(s)) /\ Head(s)[1] = "sent"
         /\ IsRaw(s) => IsRaw(Tail(s)) /\ Head(s)[1] \in RawNames
         /\ Closed(s) => Closed(Tail(s)) /\ (Head(s)[1] \in Finals => OnlySent(Tail(s)))
<1> DEFINE t == Tail(s)
<1>1. /\ Len(s) \in Nat /\ Len(s) > 0 /\ Head(s) = s[1] /\ s[1] \in CallEvents
      /\ t \in Seq(CallEvents) /\ Len(t) = Len(s) - 1
      /\ \A i \in 1 .. Len(t) : t[i] = s[i + 1] /\ i + 1 \in 1 .. Len(s)
      /\ 1 \in 1 .. Len(s)
  BY HeadTailProperties, LenProperties, EmptySeq
<1> HIDE DEF t
<1>2. /\ NoFinal(s) => NoFinal(t) /\ s[1][1] \notin Finals
      /\ OnlySent(s) => OnlySent(t) /\ s[1][1] = "sent"
      /\ IsRaw(s) => IsRaw(t) /\ s[1][1] \in RawNames
  BY <1>1 DEF NoFinal, OnlySent, IsRaw
<1>3. ASSUME Closed(s) PROVE Closed(t)
  <2>1. SUFFICES ASSUME NEW i \in 1 .. Len(t), t[i][1] \in Finals, NEW j \in i + 1 .. Len(t)
                 PROVE  t[j][1] = "sent"
    BY DEF Closed
  <2>2. j + 1 \in (i + 1) + 1 .. Len(s) /\ j \in 1 .. Len(t)  BY <1>1, <2>1
  <2>3. QED  BY <1>1, <1>3, <2>1, <2>2 DEF Closed
<1>4. ASSUME Closed(s), s[1][1] \in Finals PROVE OnlySent(t)
  <2>1. SUFFICES ASSUME NEW i \in 1 .. Len(t) PROVE t[i][1] = "sent"  BY DEF OnlySent
  <2>2. i + 1 \in 1 + 1 .. Len(s)  BY <1>1
  <2>3. QED  BY <1>1, <1>4, <2>2 DEF Closed
<1>5. QED  BY <1>1, <1>2, <1>3, <1>4 DEF t

LEMMA MorePartly ==
  ASSUME NEW s, NEW a \in Nat, NEW b \in Nat, a <= b, Partly(s, a)
  PROVE  Partly(s, b)
<1>1. 1 .. a \subseteq 1 .. b  OBVIOUS
<1>2. QED  BY <1>1 DEF Partly

LEMMA NothingLeft ==
  ASSUME NEW a \in Nat, NEW b \in Nat, a <= b, Numbered(<<>>, a, b)
  PROVE  a = b
<1>1. Len(<<>>) = 0  OBVIOUS
<1>2. a < b => a + 1 \in a + 1 .. b  OBVIOUS
<1>3. \A i \in 1 .. Len(<<>>) : FALSE  BY <1>1
<1>4. QED  BY <1>2, <1>3 DEF Numbered

LEMMA NoNumbers ==
  ASSUME NEW a \in Nat
  PROVE  Numbered(<<>>, a, a)
<1>1. Len(<<>>) = 0 /\ a + 1 .. a = {}  OBVIOUS
<1>2. \A i \in 1 .. Len(<<>>) : FALSE  BY <1>1
<1>3. QED  BY <1>1, <1>2 DEF Numbered, Increasing

\* The same scripts follow a call until it is over.
LEMMA SameScripts ==
  ASSUME scripts' = scripts, InPlace(C!Shown')
  PROVE  InPlace(C!Shown)'
BY DEF InPlace, Closed

-----------------------------------------------------------------------------
(***************************************************************************)
(* The first states.                                                       *)
(***************************************************************************)
LEMMA CallStarts == C!Init => CallInv
<1>1. SUFFICES ASSUME C!Init PROVE CallInv  OBVIOUS
<1> DEFINE first == IF kind = "stream" THEN <<>> ELSE <<<<"sent", 1>>>>
<1>2. PICK report \in {<<>>, <<C!Event("before")>>} :
        /\ raw = IF scripts = {} THEN <<>> ELSE first
        /\ output = report \o IF scripts = {} THEN first ELSE <<>>
  BY <1>1 DEF C!Init
<1>3. <<"sent", 1>> \in CallEvents /\ C!Event("before") \in CallEvents
  BY DEF CallEvents, EventNames, C!Event
<1>4. /\ log = <<>> /\ held = "open" /\ log \in Seq(CallEvents)
      /\ executor = [at |-> "connecting", received |-> 0]
      /\ executor.at = "connecting" /\ executor.received = 0
      /\ kind \in {"unary", "stream"} /\ scripts \subseteq {"message", "after"}
      /\ forwarder.at = IF scripts = {} THEN "none" ELSE "idle"
  BY <1>1 DEF C!Init
<1>5. /\ report \in Seq(CallEvents)
      /\ first \in Seq(CallEvents) /\ raw \in Seq(CallEvents)
      /\ (IF scripts = {} THEN first ELSE <<>>) \in Seq(CallEvents)
  <2>1. \A e \in CallEvents : <<e>> \in Seq(CallEvents)  OBVIOUS
  <2>2. <<>> \in Seq(CallEvents)  OBVIOUS
  <2>3. report \in Seq(CallEvents) /\ first \in Seq(CallEvents)  BY <1>3, <2>1, <2>2
  <2>4. QED  BY <1>2, <2>2, <2>3
<1>6. output \in Seq(CallEvents)  BY <1>2, <1>5, Concatenated
<1>7. C!Shown = output  BY <1>4, <1>6, ConcatEmptySeq DEF C!Shown
<1>8. \/ output = <<>> \/ output = <<C!Event("before")>>
      \/ output = <<<<"sent", 1>>>> \/ output = Append(<<C!Event("before")>>, <<"sent", 1>>)
  <2> DEFINE none == <<>>
  <2>1. /\ \A s \in Seq(CallEvents) : none \o s = s /\ s \o none = s
        /\ \A a, b \in CallEvents : <<a>> \o <<b>> = Append(<<a>>, b)
        /\ \A e \in CallEvents : <<e>> \in Seq(CallEvents)
        /\ none \in Seq(CallEvents)
    <3>1. none \in Seq(CallEvents) /\ \A e \in CallEvents : <<e>> \in Seq(CallEvents)  OBVIOUS
    <3>2. \A s \in Seq(CallEvents) : none \o s = s /\ s \o none = s  BY ConcatEmptySeq
    <3>3. \A a, b \in CallEvents : <<a>> \o <<b>> = Append(<<a>>, b)  BY <3>1, AppendIsConcat
    <3>4. QED  BY <3>1, <3>2, <3>3
  <2>2. CASE report = none /\ scripts = {}  BY <1>2, <1>3, <1>5, <2>1, <2>2
  <2>3. CASE report = none /\ scripts # {}  BY <1>2, <1>3, <1>5, <2>1, <2>3
  <2>4. CASE report = <<C!Event("before")>> /\ scripts # {}  BY <1>2, <1>3, <1>5, <2>1, <2>4
  <2>5. CASE report = <<C!Event("before")>> /\ scripts = {}
    <3>1. output = <<C!Event("before")>> \o first  BY <1>2, <2>5
    <3>2. CASE first = none  BY <1>3, <2>1, <3>1, <3>2
    <3>3. CASE first = <<<<"sent", 1>>>>  BY <1>3, <2>1, <3>1, <3>3
    <3>4. QED  BY <3>2, <3>3
  <2>6. QED  BY <1>2, <2>2, <2>3, <2>4, <2>5
<1>9. /\ Len(output) \in 0 .. 2
      /\ \A i \in 1 .. Len(output) : output[i][1] \in {"before", "sent"} /\ (output[i][1] = "before" => i = 1)
  <2>1. CASE output = <<>>  BY <2>1
  <2>2. CASE output = <<C!Event("before")>>  BY <2>2 DEF C!Event
  <2>3. CASE output = <<<<"sent", 1>>>>  BY <2>3
  <2>4. CASE output = Append(<<C!Event("before")>>, <<"sent", 1>>)
    <3>1. <<C!Event("before")>> \in Seq(CallEvents) /\ Len(<<C!Event("before")>>) = 1  BY <1>3
    <3>2. /\ Len(output) = 2 /\ output[1] = C!Event("before") /\ output[2] = <<"sent", 1>>
      BY <1>3, <2>4, <3>1, Appended
    <3>3. \A i \in 1 .. Len(output) : i = 1 \/ i = 2  BY <3>2
    <3>4. QED  BY <3>2, <3>3 DEF C!Event
  <2>5. QED  BY <1>8, <2>1, <2>2, <2>3, <2>4
<1>10. OnlySent(raw)
  <2>1. CASE raw = <<>>  BY <2>1 DEF OnlySent
  <2>2. CASE raw = <<<<"sent", 1>>>>  BY <2>2 DEF OnlySent
  <2>3. QED  BY <1>2, <2>1, <2>2
<1>11. NoFinal(raw) /\ IsRaw(raw) /\ Closed(raw) /\ NoFinal(output) /\ NoFinal(log)
  BY <1>4, <1>9, <1>10 DEF OnlySent, NoFinal, IsRaw, Closed, RawNames, Finals
<1>12. CallTyped  BY <1>1, <1>4, <1>5, <1>6 DEF CallTyped, C!Init
<1>13. OpenFits  BY <1>2, <1>4, <1>10, <1>11 DEF OpenFits
<1>14. ClosedFits  BY <1>4 DEF ClosedFits
<1>15. InPlace(C!Shown)
  BY <1>7, <1>9 DEF InPlace, Closed, Finals
<1>16. Numbered(output, 0, 0) /\ Numbered(raw, 0, 0)
  <2>1. 0 + 1 .. 0 = {}  OBVIOUS
  <2>2. QED  BY <1>9, <1>10, <2>1 DEF Numbered, Increasing, OnlySent
<1>17. NumbersFit
  <2>1. 0 \in 0 .. 0  OBVIOUS
  <2>2. QED  BY <1>4, <1>7, <1>16, <2>1 DEF NumbersFit
<1>18. Partly(C!Shown, executor.received)  BY <1>4, <1>7, <1>9 DEF Partly, Increasing
<1>19. QED  BY <1>12, <1>13, <1>14, <1>15, <1>17, <1>18 DEF CallInv

-----------------------------------------------------------------------------
(***************************************************************************)
(* An event of the task goes to the scripts, or to the tab when there are  *)
(* none; r messages are received then.                                     *)
(***************************************************************************)
LEMMA EmitsKeeps ==
  ASSUME CallInv, held = "open", NEW e \in CallEvents, e[1] \in RawNames, C!Emits(e),
         UNCHANGED <<scripts, log>>,
         \/ e[1] = "sent"
         \/ NoFinal(raw) /\ NoFinal(output) /\ forwarder.at \notin {"after", "ended"},
         NEW r \in Nat,
         e[1] = "received" => r = executor.received + 1 /\ e = <<"received", r>>,
         e[1] # "received" => r = executor.received
  PROVE  /\ raw' \in Seq(CallEvents) /\ output' \in Seq(CallEvents)
         /\ scripts = {} => raw' = <<>>
         /\ scripts # {} => C!Shown' = C!Shown /\ output' = output
         /\ IsRaw(raw') /\ Closed(raw')
         /\ e[1] \notin Finals =>
              (NoFinal(raw) => NoFinal(raw')) /\ (NoFinal(output) => NoFinal(output'))
         /\ (forwarder.at \in {"after", "ended"} \/ ~NoFinal(output')) => OnlySent(raw')
         /\ InPlace(C!Shown')
         /\ \E p \in 0 .. r : Numbered(C!Shown', 0, p) /\ Numbered(raw', p, r)
         /\ Partly(C!Shown', r)
<1>1. /\ raw \in Seq(CallEvents) /\ output \in Seq(CallEvents) /\ log \in Seq(CallEvents)
      /\ executor.received \in Nat
  BY DEF CallInv, CallTyped
<1>2. /\ scripts = {} => raw = <<>>
      /\ forwarder.at = "none" <=> scripts = {}
      /\ IsRaw(raw) /\ Closed(raw) /\ NoFinal(log)
      /\ forwarder.at \in {"after", "ended"} \/ ~NoFinal(output) => OnlySent(raw)
  BY DEF CallInv, OpenFits
<1>3. C!Shown \in Seq(CallEvents) /\ (NoFinal(C!Shown) <=> NoFinal(log) /\ NoFinal(output))
  BY <1>1, Concatenated DEF C!Shown
<1>4. PICK p \in 0 .. executor.received : Numbered(C!Shown, 0, p) /\ Numbered(raw, p, executor.received)
  BY DEF CallInv, NumbersFit
<1>5. InPlace(C!Shown) /\ Partly(C!Shown, executor.received)  BY DEF CallInv
<1>6. p \in Nat /\ p <= executor.received /\ executor.received <= r /\ p \in 0 .. r
  BY <1>1, <1>4
<1>7. CASE scripts # {}
  <2>1. raw' = Append(raw, e) /\ output' = output /\ C!Shown' = C!Shown  BY <1>7 DEF C!Emits, C!Follows, C!Shown
  <2>2. raw' \in Seq(CallEvents)  BY <1>1, <2>1, Appended
  <2>3. /\ NoFinal(raw) /\ e[1] \notin Finals => NoFinal(raw')
        /\ OnlySent(raw) /\ e[1] = "sent" => OnlySent(raw')
        /\ IsRaw(raw')
        /\ e[1] = "sent" \/ NoFinal(raw) => Closed(raw')
    BY <1>1, <1>2, <2>1, AppendedKinds
  <2>4. Numbered(raw', p, r)
    <3>1. CASE e[1] = "received"
      <4>1. r = executor.received + 1 /\ e = <<"received", executor.received + 1>>  BY <3>1
      <4>2. QED  BY <1>1, <1>4, <1>6, <2>1, <4>1, AppendedNumbers
    <3>2. CASE e[1] # "received"  BY <1>1, <1>4, <1>6, <2>1, <3>2, AppendedOthers
    <3>3. QED  BY <3>1, <3>2
  <2>5. Partly(C!Shown', r)  BY <1>1, <1>5, <1>6, <2>1, MorePartly
  <2>6. InPlace(C!Shown')  BY <1>5, <2>1
  <2>7. Closed(raw') /\ ((forwarder.at \in {"after", "ended"} \/ ~NoFinal(output')) => OnlySent(raw'))
    BY <1>2, <2>1, <2>3
  <2>8. \E q \in 0 .. r : Numbered(C!Shown', 0, q) /\ Numbered(raw', q, r)  BY <1>4, <1>6, <2>1, <2>4
  <2>9. QED  BY <1>1, <1>7, <2>1, <2>2, <2>3, <2>5, <2>6, <2>7, <2>8
<1>8. CASE scripts = {}
  <2>1. output' = Append(output, e) /\ raw' = <<>> /\ raw = <<>>  BY <1>2, <1>8 DEF C!Emits, C!Follows
  <2>2. C!Shown' = Append(C!Shown, e)
    <3>1. C!Shown' = log \o Append(output, e)  BY <2>1 DEF C!Shown
    <3>2. QED  BY <1>1, <3>1, Concatenated DEF C!Shown
  <2>3. output' \in Seq(CallEvents) /\ raw' \in Seq(CallEvents)  BY <1>1, <2>1, Appended
  <2>4. NoFinal(output) /\ e[1] \notin Finals => NoFinal(output')  BY <1>1, <2>1, AppendedKinds
  <2>5. Len(raw') = 0  BY <2>1
  <2>6. IsRaw(raw') /\ Closed(raw') /\ NoFinal(raw') /\ OnlySent(raw')
    BY <2>5 DEF IsRaw, Closed, NoFinal, OnlySent
  <2>7. p = executor.received  BY <1>1, <1>4, <1>6, <2>1, NothingLeft
  <2>8. InPlace(C!Shown')
    <3>1. e[1] = "sent" \/ NoFinal(C!Shown)  BY <1>2, <1>3
    <3>2. /\ e[1] \notin {"before", "after"} /\ e[1] # "message"
          /\ e[1] = "finished" => "after" \notin scripts
      BY <1>8 DEF RawNames
    <3>3. QED  BY <1>3, <1>5, <2>2, <3>1, <3>2, AppendedInPlace
  <2>9. CASE e[1] = "received"
    <3>1. r = p + 1 /\ e = <<"received", p + 1>> /\ p < r /\ 0 <= p /\ r \in 0 .. r  BY <1>6, <2>7, <2>9
    <3>2. Numbered(C!Shown', 0, r)  BY <1>3, <1>4, <1>6, <2>2, <3>1, AppendedNumbers
    <3>3. Partly(C!Shown', r)  BY <1>3, <1>4, <1>6, <2>2, <3>1, AppendedPartly
    <3>4. Numbered(raw', r, r)  BY <2>1, NoNumbers
    <3>5. QED  BY <1>8, <2>1, <2>3, <2>4, <2>6, <2>8, <3>1, <3>2, <3>3, <3>4
  <2>10. CASE e[1] # "received"
    <3>1. r = p /\ r \in 0 .. r  BY <2>7, <2>10
    <3>2. Numbered(C!Shown', 0, r)  BY <1>3, <1>4, <1>6, <2>2, <2>10, <3>1, AppendedOthers
    <3>3. Partly(C!Shown', r)  BY <1>3, <1>5, <2>2, <2>7, <2>10, <3>1, AppendedOthers
    <3>4. Numbered(raw', r, r)  BY <2>1, NoNumbers
    <3>5. QED  BY <1>8, <2>1, <2>3, <2>4, <2>6, <2>8, <3>1, <3>2, <3>3, <3>4
  <2>11. QED  BY <2>9, <2>10
<1>9. QED  BY <1>7, <1>8

LEMMA EventKeeps ==
  ASSUME CallInv, held = "open", NEW e \in CallEvents, e[1] \in RawNames, C!Emits(e),
         UNCHANGED <<kind, scripts, forwarder, log, held>>,
         messages' \in {"open", "sending", "ended"}, sent' \in Nat,
         executor' \in [at : {"connecting", "reading", "done", "aborted"}, received : Nat],
         executor'.at # "aborted",
         e[1] = "sent" \/ executor.at \in {"connecting", "reading"},
         executor'.at \in {"connecting", "reading"} =>
           executor.at \in {"connecting", "reading"} /\ e[1] \notin Finals,
         e[1] = "received" =>
           executor'.received = executor.received + 1 /\ e = <<"received", executor'.received>>,
         e[1] # "received" => executor'.received = executor.received
  PROVE  CallInv'
<1> DEFINE r == executor'.received
<1>1. r \in Nat  OBVIOUS
<1>2. \/ e[1] = "sent"
      \/ NoFinal(raw) /\ NoFinal(output) /\ forwarder.at \notin {"after", "ended"}
  BY DEF CallInv, OpenFits
<1>3. e[1] = "received" => r = executor.received + 1 /\ e = <<"received", r>>  OBVIOUS
<1>4. e[1] # "received" => r = executor.received  OBVIOUS
<1>5. UNCHANGED <<scripts, log>>  OBVIOUS
<1> HIDE DEF r
<1>6. /\ raw' \in Seq(CallEvents) /\ output' \in Seq(CallEvents)
      /\ scripts = {} => raw' = <<>>
      /\ scripts # {} => C!Shown' = C!Shown /\ output' = output
      /\ IsRaw(raw') /\ Closed(raw')
      /\ e[1] \notin Finals =>
           (NoFinal(raw) => NoFinal(raw')) /\ (NoFinal(output) => NoFinal(output'))
      /\ (forwarder.at \in {"after", "ended"} \/ ~NoFinal(output')) => OnlySent(raw')
      /\ InPlace(C!Shown')
      /\ \E p \in 0 .. r : Numbered(C!Shown', 0, p) /\ Numbered(raw', p, r)
      /\ Partly(C!Shown', r)
  BY <1>1, <1>2, <1>3, <1>4, <1>5, EmitsKeeps
<1>7. CallTyped'  BY <1>6 DEF CallTyped, CallInv
<1>8. /\ forwarder.at = "none" <=> scripts = {}
      /\ NoFinal(log)
      /\ executor.at \in {"connecting", "reading"} =>
           NoFinal(raw) /\ NoFinal(output) /\ forwarder.at \notin {"after", "ended"}
      /\ forwarder.at \in {"message", "after"} => NoFinal(output)
      /\ forwarder.at = "message" =>
           Len(C!Shown) > 0 /\ C!Shown[Len(C!Shown)] = <<"received", forwarder.message>>
      /\ forwarder.at = "after" => "after" \in scripts
  BY DEF CallInv, OpenFits
<1>9. /\ executor'.at \in {"connecting", "reading"} =>
           NoFinal(raw') /\ NoFinal(output') /\ forwarder.at \notin {"after", "ended"}
      /\ forwarder.at \in {"message", "after"} => NoFinal(output')
      /\ forwarder.at = "message" =>
           Len(C!Shown') > 0 /\ C!Shown'[Len(C!Shown')] = <<"received", forwarder.message>>
  BY <1>6, <1>8
<1>10. OpenFits'  BY <1>6, <1>8, <1>9 DEF OpenFits, NoFinal, IsRaw, Closed, OnlySent
<1>11. ClosedFits'  BY DEF ClosedFits
<1>12. InPlace(C!Shown)'  BY <1>6, SameScripts
<1>13. NumbersFit'  BY <1>6 DEF NumbersFit, Numbered, Increasing, r
<1>14. Partly(C!Shown, executor.received)'  BY <1>6 DEF Partly, Increasing, r
<1>15. QED  BY <1>7, <1>10, <1>11, <1>12, <1>13, <1>14 DEF CallInv

LEMMA TaskKeeps ==
  ASSUME CallInv, C!Responds \/ C!Receives \/ (\E outcome \in {"finished", "failed"} : C!Ends(outcome)) \/ C!LogsSent
  PROVE  CallInv'
<1>1. /\ executor \in [at : {"connecting", "reading", "done", "aborted"}, received : Nat]
      /\ sent \in Nat /\ messages \in {"open", "sending", "ended"}
  BY DEF CallInv, CallTyped
<1>2. held # "open" => executor.at = "aborted" /\ messages # "sending"  BY DEF CallInv, ClosedFits
<1>3. \A name \in EventNames, n \in Nat : <<name, n>> \in CallEvents  BY DEF CallEvents
<1>4. CASE C!Responds
  <2>1. /\ C!Event("metadata") \in CallEvents /\ C!Event("metadata")[1] = "metadata"
        /\ "metadata" \in RawNames /\ "metadata" \notin Finals
    BY <1>3 DEF C!Event, EventNames, RawNames, Finals
  <2>2. held = "open" /\ C!Emits(C!Event("metadata")) /\ executor.at = "connecting"
        /\ executor' = [executor EXCEPT !.at = "reading"]
        /\ UNCHANGED <<kind, scripts, forwarder, log, held>> /\ messages' = messages /\ sent' = sent
    BY <1>2, <1>4 DEF C!Responds, C!Rest
  <2>3. executor' \in [at : {"connecting", "reading", "done", "aborted"}, received : Nat]
        /\ executor'.at = "reading" /\ executor'.received = executor.received
    BY <1>1, <2>2
  <2>4. QED  BY <1>1, <2>1, <2>2, <2>3, EventKeeps
<1>5. CASE C!Receives
  <2> DEFINE e == <<"received", executor.received + 1>>
  <2>1. e \in CallEvents /\ e[1] = "received" /\ "received" \in RawNames /\ "received" \notin Finals
    BY <1>1, <1>3 DEF EventNames, RawNames, Finals
  <2>2. held = "open" /\ C!Emits(e) /\ executor.at = "reading"
        /\ executor' = [executor EXCEPT !.received = @ + 1]
        /\ UNCHANGED <<kind, scripts, forwarder, log, held>> /\ messages' = messages /\ sent' = sent
    BY <1>2, <1>5 DEF C!Receives, C!Rest
  <2>3. executor' \in [at : {"connecting", "reading", "done", "aborted"}, received : Nat]
        /\ executor'.at = "reading" /\ executor'.received = executor.received + 1
    BY <1>1, <2>2
  <2>4. e = <<"received", executor'.received>>  BY <2>3
  <2> HIDE DEF e
  <2>5. QED  BY <1>1, <2>1, <2>2, <2>3, <2>4, EventKeeps
<1>6. ASSUME NEW outcome \in {"finished", "failed"}, C!Ends(outcome) PROVE CallInv'
  <2>1. /\ C!Event(outcome) \in CallEvents /\ C!Event(outcome)[1] = outcome
        /\ outcome \in RawNames /\ outcome # "received"
    BY <1>3 DEF C!Event, EventNames, RawNames
  <2>2. held = "open" /\ C!Emits(C!Event(outcome)) /\ executor.at \in {"connecting", "reading"}
        /\ executor' = [executor EXCEPT !.at = "done"]
        /\ UNCHANGED <<kind, scripts, forwarder, log, held>> /\ messages' = messages /\ sent' = sent
    BY <1>2, <1>6 DEF C!Ends, C!Rest
  <2>3. executor' \in [at : {"connecting", "reading", "done", "aborted"}, received : Nat]
        /\ executor'.at = "done" /\ executor'.received = executor.received
    BY <1>1, <2>2
  <2>4. QED  BY <1>1, <2>1, <2>2, <2>3, EventKeeps
<1>7. CASE C!LogsSent
  <2> DEFINE e == <<"sent", sent>>
  <2>1. e \in CallEvents /\ e[1] = "sent" /\ "sent" \in RawNames /\ "sent" \notin Finals
    BY <1>1, <1>3 DEF EventNames, RawNames, Finals
  <2>2. held = "open" /\ C!Emits(e) /\ executor' = executor /\ sent' = sent /\ messages' = "open"
        /\ UNCHANGED <<kind, scripts, forwarder, log, held>>
    BY <1>2, <1>7 DEF C!LogsSent
  <2>3. executor.at # "aborted"  BY <2>2 DEF CallInv, OpenFits
  <2> HIDE DEF e
  <2>4. QED  BY <1>1, <2>1, <2>2, <2>3, EventKeeps
<1>8. QED  BY <1>4, <1>5, <1>6, <1>7

-----------------------------------------------------------------------------
(***************************************************************************)
(* What the scripts pass on.                                               *)
(***************************************************************************)
LEMMA PassedOn ==
  ASSUME NEW e \in CallEvents, log \in Seq(CallEvents), output \in Seq(CallEvents)
  PROVE  /\ output \o <<e>> = Append(output, e)
         /\ output \o <<e>> \in Seq(CallEvents)
         /\ log \o (output \o <<e>>) = Append(C!Shown, e)
<1>1. output \o <<e>> = Append(output, e)  BY AppendIsConcat
<1>2. log \o Append(output, e) = Append(C!Shown, e)  BY Concatenated DEF C!Shown
<1>3. QED  BY <1>1, <1>2, Appended

LEMMA PassedBoth ==
  ASSUME NEW d \in CallEvents, NEW e \in CallEvents, log \in Seq(CallEvents), output \in Seq(CallEvents)
  PROVE  /\ output \o <<d, e>> = Append(Append(output, d), e)
         /\ output \o <<d, e>> \in Seq(CallEvents)
         /\ log \o (output \o <<d, e>>) = Append(Append(C!Shown, d), e)
<1>1. <<d>> \in Seq(CallEvents) /\ Len(<<d>>) = 1 /\ <<d>>[1] = d  OBVIOUS
<1>2. <<d, e>> \in Seq(CallEvents) /\ Len(<<d, e>>) = 2 /\ <<d, e>>[1] = d /\ <<d, e>>[2] = e  OBVIOUS
<1>3. <<d, e>> = Append(<<d>>, e)
  <2>1. /\ Append(<<d>>, e) \in Seq(CallEvents) /\ Len(Append(<<d>>, e)) = 2
        /\ Append(<<d>>, e)[1] = d /\ Append(<<d>>, e)[2] = e
    BY <1>1, Appended
  <2>2. \A i \in 1 .. 2 : i = 1 \/ i = 2  OBVIOUS
  <2>3. QED  BY <1>2, <2>1, <2>2, SeqEqual
<1>4. output \o <<d>> = Append(output, d)  BY AppendIsConcat
<1>5. output \o <<d, e>> = Append(Append(output, d), e)  BY <1>1, <1>3, <1>4, Concatenated
<1>6. Append(output, d) \in Seq(CallEvents)  BY Appended
<1>7. Append(Append(output, d), e) \in Seq(CallEvents)  BY <1>6, Appended
<1>8. log \o Append(output, d) = Append(C!Shown, d)  BY Concatenated DEF C!Shown
<1>9. log \o Append(Append(output, d), e) = Append(Append(C!Shown, d), e)
  <2> DEFINE o == Append(output, d)
  <2>1. o \in Seq(CallEvents)  BY <1>6
  <2> HIDE DEF o
  <2>2. log \o Append(o, e) = Append(log \o o, e)  BY <2>1, Concatenated
  <2>3. QED  BY <1>8, <2>2 DEF o
<1>10. QED  BY <1>5, <1>7, <1>9

LEMMA TakesKeeps ==
  ASSUME CallInv, C!Takes
  PROVE  CallInv'
<1> DEFINE e == Head(raw)
           r == executor.received
<1>1. /\ raw \in Seq(CallEvents) /\ output \in Seq(CallEvents) /\ log \in Seq(CallEvents)
      /\ r \in Nat /\ raw # <<>> /\ raw' = Tail(raw)
      /\ UNCHANGED <<kind, scripts, executor, messages, sent, held, log>>
  BY DEF CallInv, CallTyped, C!Takes
<1>2. held = "open" /\ forwarder.at = "idle" /\ scripts # {}
  BY DEF CallInv, ClosedFits, OpenFits, C!Takes
<1>3. /\ IsRaw(raw) /\ Closed(raw) /\ NoFinal(log) /\ executor.at # "aborted"
      /\ executor.at \in {"connecting", "reading"} => NoFinal(raw) /\ NoFinal(output)
      /\ ~NoFinal(output) => OnlySent(raw)
  BY <1>2 DEF CallInv, OpenFits
<1>4. /\ e \in CallEvents /\ Tail(raw) \in Seq(CallEvents)
      /\ NoFinal(raw) => NoFinal(Tail(raw)) /\ e[1] \notin Finals
      /\ OnlySent(raw) => OnlySent(Tail(raw)) /\ e[1] = "sent"
      /\ IsRaw(Tail(raw)) /\ e[1] \in RawNames
      /\ Closed(Tail(raw))
      /\ e[1] \in Finals => OnlySent(Tail(raw))
  BY <1>1, <1>3, TakenKinds
<1>5. e[1] \in EventNames /\ e[2] \in Nat /\ e = <<e[1], e[2]>>  BY <1>4 DEF CallEvents
<1>6. PICK p \in 0 .. r : Numbered(C!Shown, 0, p) /\ Numbered(raw, p, r)
  BY <1>2 DEF CallInv, NumbersFit
<1>7. p \in Nat /\ p <= r  BY <1>1, <1>6
<1>8. /\ e[1] = "received" => e = <<"received", p + 1>> /\ p < r /\ Numbered(Tail(raw), p + 1, r)
      /\ e[1] # "received" => Numbered(Tail(raw), p, r)
  BY <1>1, <1>6, <1>7, TakenNumbers
<1>9. C!Shown \in Seq(CallEvents) /\ (NoFinal(C!Shown) <=> NoFinal(log) /\ NoFinal(output))
      /\ InPlace(C!Shown) /\ Partly(C!Shown, r)
  BY <1>1, Concatenated DEF C!Shown, CallInv
<1>10. CASE e[1] = "finished" /\ "after" \in scripts /\ C!Goes("after", 0) /\ UNCHANGED output
  <2>1. forwarder' = [at |-> "after", message |-> 0] /\ output' = output /\ C!Shown' = C!Shown
    BY <1>1, <1>10 DEF C!Goes, C!Shown
  <2>2. CallTyped'  BY <1>1, <1>4, <2>1 DEF CallTyped, CallInv
  <2>3. e[1] \in Finals /\ e[1] # "sent"  BY <1>10 DEF Finals
  <2>4. executor.at \notin {"connecting", "reading"} /\ NoFinal(output) /\ OnlySent(Tail(raw))
    BY <1>3, <1>4, <2>3
  <2>5. OpenFits'
    BY <1>1, <1>2, <1>3, <1>4, <1>10, <2>1, <2>4 DEF OpenFits, NoFinal, IsRaw, Closed, OnlySent
  <2>6. ClosedFits'  BY <1>1, <1>2 DEF ClosedFits
  <2>7. InPlace(C!Shown)'  BY <1>1, <1>9, <2>1, SameScripts
  <2>8. Numbered(C!Shown', 0, p) /\ Numbered(raw', p, r)  BY <1>1, <1>6, <1>8, <1>10, <2>1
  <2>9. NumbersFit'  BY <1>1, <1>6, <2>8 DEF NumbersFit, Numbered, Increasing
  <2>10. Partly(C!Shown, executor.received)'  BY <1>1, <1>9, <2>1 DEF Partly, Increasing
  <2>11. QED  BY <2>2, <2>5, <2>6, <2>7, <2>9, <2>10 DEF CallInv
<1>11. ASSUME NEW to \in {"idle", "message", "ended"}, NEW m \in Nat,
              forwarder' = [at |-> to, message |-> m], C!Passes(<<e>>),
              e[1] = "finished" => "after" \notin scripts,
              to = "ended" => e[1] = "finished",
              to = "message" => e[1] = "received" /\ m = e[2]
       PROVE  CallInv'
  <2>1. output' = output \o <<e>>  BY <1>11 DEF C!Passes
  <2>2. /\ output' = Append(output, e) /\ output' \in Seq(CallEvents) /\ C!Shown' = Append(C!Shown, e)
    <3>1. C!Shown' = log \o (output \o <<e>>)  BY <1>1, <2>1 DEF C!Shown
    <3>2. QED  BY <1>1, <1>4, <2>1, <3>1, PassedOn
  <2>3. CallTyped'  BY <1>1, <1>4, <1>11, <2>2 DEF CallTyped, CallInv
  <2>4. NoFinal(output) /\ e[1] \notin Finals => NoFinal(output')  BY <1>1, <1>4, <2>2, AppendedKinds
  <2>5. e[1] = "sent" \/ NoFinal(C!Shown)  BY <1>3, <1>4, <1>9
  <2>6. e[1] = "finished" => e[1] \in Finals  BY DEF Finals
  <2>7. e[1] = "received" => NoFinal(output) /\ e[1] \notin Finals  BY <1>3, <1>4 DEF Finals
  <2>8. Len(C!Shown') > 0 /\ C!Shown'[Len(C!Shown')] = e
    <3>1. Len(C!Shown) \in Nat /\ Len(C!Shown') = Len(C!Shown) + 1 /\ C!Shown'[Len(C!Shown) + 1] = e
      BY <1>4, <1>9, <2>2, Appended
    <3>2. QED  BY <3>1
  <2>9. /\ executor.at \in {"connecting", "reading"} =>
             NoFinal(Tail(raw)) /\ NoFinal(output') /\ to \notin {"after", "ended"}
        /\ to = "ended" \/ ~NoFinal(output') => OnlySent(Tail(raw))
        /\ to = "message" => NoFinal(output') /\ C!Shown'[Len(C!Shown')] = <<"received", m>>
    BY <1>3, <1>4, <1>5, <1>11, <2>4, <2>6, <2>7, <2>8
  <2>10. OpenFits'
    BY <1>1, <1>2, <1>3, <1>4, <1>11, <2>8, <2>9 DEF OpenFits, NoFinal, IsRaw, Closed, OnlySent
  <2>11. ClosedFits'  BY <1>1, <1>2 DEF ClosedFits
  <2>12. InPlace(C!Shown)'
    <3>1. e[1] \notin {"before", "after", "message"}  BY <1>4 DEF RawNames
    <3>2. InPlace(C!Shown')  BY <1>4, <1>9, <1>11, <2>2, <2>5, <3>1, AppendedInPlace
    <3>3. QED  BY <1>1, <3>2, SameScripts
  <2>13. /\ \E q \in 0 .. r : Numbered(C!Shown', 0, q) /\ Numbered(Tail(raw), q, r)
         /\ Partly(C!Shown', r)
    <3>1. CASE e[1] = "received"
      <4>1. p + 1 \in 0 .. r /\ 0 <= p  BY <1>1, <1>7, <1>8, <3>1
      <4>2. Numbered(C!Shown', 0, p + 1)  BY <1>4, <1>6, <1>7, <1>8, <1>9, <2>2, <3>1, <4>1, AppendedNumbers
      <4>3. Partly(C!Shown', r)  BY <1>1, <1>4, <1>6, <1>7, <1>8, <1>9, <2>2, <3>1, AppendedPartly
      <4>4. QED  BY <1>8, <3>1, <4>1, <4>2, <4>3
    <3>2. CASE e[1] # "received"
      <4>1. Numbered(C!Shown', 0, p) /\ Partly(C!Shown', r)
        BY <1>1, <1>4, <1>6, <1>7, <1>9, <2>2, <3>2, AppendedOthers
      <4>2. QED  BY <1>6, <1>8, <3>2, <4>1
    <3>3. QED  BY <3>1, <3>2
  <2>14. NumbersFit'  BY <1>1, <2>13 DEF NumbersFit, Numbered, Increasing
  <2>15. Partly(C!Shown, executor.received)'  BY <1>1, <2>13 DEF Partly, Increasing
  <2>16. QED  BY <2>3, <2>10, <2>11, <2>12, <2>14, <2>15 DEF CallInv
<1>12. forwarder \in [at : {"none", "idle", "message", "after", "ended"}, message : Nat]
  BY DEF CallInv, CallTyped
<1>13. CASE e[1] = "finished" /\ "after" \notin scripts /\ C!Goes("ended", 0) /\ C!Passes(<<e>>)
  BY <1>11, <1>13 DEF C!Goes
<1>14. CASE e[1] = "received" /\ "message" \in scripts /\ C!Goes("message", e[2]) /\ C!Passes(<<e>>)
  BY <1>5, <1>11, <1>14 DEF C!Goes
<1>15. CASE e[1] # "finished" /\ UNCHANGED forwarder /\ C!Passes(<<e>>)
  <2>1. forwarder' = [at |-> "idle", message |-> forwarder.message] /\ forwarder.message \in Nat
    BY <1>2, <1>12, <1>15
  <2>2. QED  BY <1>11, <1>15, <2>1
<1>16. QED  BY <1>10, <1>13, <1>14, <1>15 DEF C!Takes

LEMMA ScriptsKeep ==
  ASSUME CallInv, C!OnMessage \/ C!AfterResponse
  PROVE  CallInv'
<1> DEFINE r == executor.received
<1>1. /\ raw \in Seq(CallEvents) /\ output \in Seq(CallEvents) /\ log \in Seq(CallEvents)
      /\ forwarder.message \in Nat
      /\ r \in Nat
      /\ UNCHANGED <<kind, scripts, executor, raw, messages, sent, held, log>>
  BY DEF CallInv, CallTyped, C!OnMessage, C!AfterResponse
<1>2. held = "open" /\ forwarder.at \in {"message", "after"} /\ scripts # {}
  BY DEF CallInv, ClosedFits, OpenFits, C!OnMessage, C!AfterResponse
<1>3. /\ IsRaw(raw) /\ Closed(raw) /\ NoFinal(log) /\ executor.at # "aborted" /\ NoFinal(output)
      /\ executor.at \in {"connecting", "reading"} => NoFinal(raw) /\ forwarder.at # "after"
      /\ forwarder.at = "after" => OnlySent(raw)
      /\ forwarder.at = "message" =>
           Len(C!Shown) > 0 /\ C!Shown[Len(C!Shown)] = <<"received", forwarder.message>>
  BY <1>2 DEF CallInv, OpenFits
<1>4. PICK p \in 0 .. r : Numbered(C!Shown, 0, p) /\ Numbered(raw, p, r)
  BY <1>2 DEF CallInv, NumbersFit
<1>5. C!Shown \in Seq(CallEvents) /\ NoFinal(C!Shown) /\ InPlace(C!Shown) /\ Partly(C!Shown, r) /\ p \in Nat
  BY <1>1, <1>3, <1>4, Concatenated DEF C!Shown, CallInv
<1>6. ASSUME NEW to \in {"idle", "ended"}, forwarder' = [at |-> to, message |-> 0],
             output' \in Seq(CallEvents), to = "idle" => NoFinal(output'),
             to = "ended" => forwarder.at = "after",
             InPlace(C!Shown'), Numbered(C!Shown', 0, p), Partly(C!Shown', r)
      PROVE  CallInv'
  <2>1. CallTyped'  BY <1>1, <1>6 DEF CallTyped, CallInv
  <2>2. OpenFits'
    BY <1>1, <1>2, <1>3, <1>6 DEF OpenFits, NoFinal, IsRaw, Closed, OnlySent
  <2>3. ClosedFits'  BY <1>1, <1>2 DEF ClosedFits
  <2>4. InPlace(C!Shown)'  BY <1>1, <1>6, SameScripts
  <2>5. NumbersFit'  BY <1>1, <1>4, <1>6 DEF NumbersFit, Numbered, Increasing
  <2>6. Partly(C!Shown, executor.received)'  BY <1>1, <1>6 DEF Partly, Increasing
  <2>7. QED  BY <2>1, <2>2, <2>3, <2>4, <2>5, <2>6 DEF CallInv
<1>7. CASE C!OnMessage
  <2> DEFINE e == <<"message", forwarder.message>>
  <2>1. forwarder' = [at |-> "idle", message |-> 0] /\ forwarder.at = "message"
        /\ (output' = output \o <<e>> \/ output' = output)
    BY <1>7 DEF C!OnMessage, C!Goes, C!Passes
  <2>2. e \in CallEvents /\ e[1] = "message" /\ e[2] = forwarder.message
        /\ "message" \notin Finals
    BY <1>1 DEF CallEvents, EventNames, Finals
  <2> HIDE DEF e
  <2>3. CASE output' = output
    <3>1. C!Shown' = C!Shown  BY <1>1, <2>3 DEF C!Shown
    <3>2. QED  BY <1>1, <1>3, <1>4, <1>5, <1>6, <2>1, <2>3, <3>1
  <2>4. CASE output' = output \o <<e>>
    <3>1. /\ output' = Append(output, e) /\ output' \in Seq(CallEvents) /\ C!Shown' = Append(C!Shown, e)
      <4>1. C!Shown' = log \o (output \o <<e>>)  BY <1>1, <2>4 DEF C!Shown
      <4>2. QED  BY <1>1, <2>2, <2>4, <4>1, PassedOn
    <3>2. NoFinal(output')  BY <1>1, <1>3, <2>2, <3>1, AppendedKinds
    <3>3. InPlace(C!Shown')  BY <1>3, <1>5, <2>1, <2>2, <3>1, AppendedInPlace
    <3>4. Numbered(C!Shown', 0, p) /\ Partly(C!Shown', r)  BY <1>1, <1>4, <1>5, <2>2, <3>1, AppendedOthers
    <3>5. QED  BY <1>6, <2>1, <3>1, <3>2, <3>3, <3>4
  <2>5. QED  BY <2>1, <2>3, <2>4
<1>8. CASE C!AfterResponse
  <2> DEFINE d == C!Event("after")
             e == C!Event("finished")
  <2>1. forwarder' = [at |-> "ended", message |-> 0] /\ forwarder.at = "after"
        /\ output' = output \o <<d, e>>
    BY <1>8 DEF C!AfterResponse, C!Goes, C!Passes, C!ReportThenStatus
  <2>2. d \in CallEvents /\ e \in CallEvents /\ d[1] # "received" /\ e[1] # "received"
    BY DEF CallEvents, EventNames, C!Event
  <2>3. InPlace(Append(Append(C!Shown, d), e))  BY <1>5, StatusInPlace
  <2> HIDE DEF d, e
  <2>4. /\ output' \in Seq(CallEvents) /\ C!Shown' = Append(Append(C!Shown, d), e)
    <3>1. C!Shown' = log \o (output \o <<d, e>>)  BY <1>1, <2>1 DEF C!Shown
    <3>2. QED  BY <1>1, <2>1, <2>2, <3>1, PassedBoth
  <2>5. Append(C!Shown, d) \in Seq(CallEvents) /\ Numbered(Append(C!Shown, d), 0, p) /\ Partly(Append(C!Shown, d), r)
    BY <1>1, <1>4, <1>5, <2>2, AppendedOthers, Appended
  <2>6. Numbered(C!Shown', 0, p) /\ Partly(C!Shown', r)  BY <1>1, <1>5, <2>2, <2>4, <2>5, AppendedOthers
  <2>7. QED  BY <1>6, <2>1, <2>3, <2>4, <2>6
<1>9. QED  BY <1>7, <1>8

-----------------------------------------------------------------------------
(***************************************************************************)
(* The tab.                                                                *)
(***************************************************************************)
LEMMA AllTaken ==
  ASSUME NEW s \in Seq(CallEvents), NEW a \in Nat, NEW b \in Nat, a <= b, Numbered(s, a, b), OnlySent(s)
  PROVE  a = b
<1>1. a < b => a + 1 \in a + 1 .. b  OBVIOUS
<1>2. \A i \in 1 .. Len(s), n \in Nat : s[i] # <<"received", n>>
  <2>1. \A i \in 1 .. Len(s) : s[i][1] = "sent"  BY DEF OnlySent
  <2>2. "sent" # "received"  OBVIOUS
  <2>3. QED  BY <2>1, <2>2
<1>3. a + 1 \in Nat /\ (~(a < b) => a = b)  OBVIOUS
<1>4. \A n \in a + 1 .. b : \E i \in 1 .. Len(s) : s[i] = <<"received", n>>  BY DEF Numbered
<1>5. ~(a < b)  BY <1>1, <1>2, <1>3, <1>4
<1>6. QED  BY <1>3, <1>5

\* The events of a batch, and those that wait for the next.
LEMMA Batches ==
  ASSUME NEW s \in Seq(CallEvents), NEW n \in 1 .. Len(s)
  PROVE  /\ SubSeq(s, 1, n) \in Seq(CallEvents) /\ Len(SubSeq(s, 1, n)) = n
         /\ SubSeq(s, n + 1, Len(s)) \in Seq(CallEvents)
         /\ SubSeq(s, 1, n) \o SubSeq(s, n + 1, Len(s)) = s
<1>1. Len(s) \in Nat /\ n \in Nat /\ 1 <= n /\ n <= Len(s)  BY LenProperties
<1>2. 1 \in 1 .. Len(s) + 1 /\ n \in 1 - 1 .. Len(s) /\ Len(s) \in n .. Len(s)  BY <1>1
<1>3. SubSeq(s, 1, n) \o SubSeq(s, n + 1, Len(s)) = SubSeq(s, 1, Len(s))
  BY <1>2, ConcatAdjacentSubSeq
<1>4. \A i \in 1 .. Len(s) : s[i] \in CallEvents  BY ElementOfSeq
<1>5. /\ \A i \in 1 .. n : s[i] \in CallEvents
      /\ \A i \in n + 1 .. Len(s) : s[i] \in CallEvents
  BY <1>1, <1>4
<1>6. SubSeq(s, 1, n) \in Seq(CallEvents) /\ Len(SubSeq(s, 1, n)) = n
  BY <1>1, <1>5, SubSeqProperties
<1>7. SubSeq(s, n + 1, Len(s)) \in Seq(CallEvents)  BY <1>1, <1>5, SubSeqProperties
<1>8. QED  BY <1>3, <1>6, <1>7, SubSeqFull

LEMMA ReceiveKeeps ==
  ASSUME CallInv, NEW n \in 1 .. Len(output), C!Receive(n)
  PROVE  CallInv'
<1> DEFINE batch == SubSeq(output, 1, n)
           rest == SubSeq(output, n + 1, Len(output))
           r == executor.received
<1>1. /\ raw \in Seq(CallEvents) /\ output \in Seq(CallEvents) /\ log \in Seq(CallEvents)
      /\ executor \in [at : {"connecting", "reading", "done", "aborted"}, received : Nat]
      /\ r \in Nat /\ held = "open" /\ messages # "sending"
      /\ log' = log \o batch
      /\ UNCHANGED <<kind, scripts, messages, sent>>
  BY DEF CallInv, CallTyped, C!Receive, C!IsFree, C!ShowsBatch
<1>2. /\ batch \in Seq(CallEvents) /\ Len(batch) = n
      /\ rest \in Seq(CallEvents) /\ batch \o rest = output
  BY <1>1, Batches
<1>3. /\ NoFinal(output) <=> NoFinal(batch) /\ NoFinal(rest)
      /\ log' \in Seq(CallEvents) /\ (NoFinal(log') <=> NoFinal(log) /\ NoFinal(batch))
  <2> HIDE DEF batch, rest
  <2>1. NoFinal(batch \o rest) <=> NoFinal(batch) /\ NoFinal(rest)  BY <1>2, Concatenated
  <2>2. log \o batch \in Seq(CallEvents) /\ (NoFinal(log \o batch) <=> NoFinal(log) /\ NoFinal(batch))
    BY <1>1, <1>2, Concatenated
  <2>3. QED  BY <1>1, <1>2, <2>1, <2>2
<1>4. (log \o batch) \o rest = C!Shown
  <2> HIDE DEF batch, rest
  <2>1. log \in Seq(CallEvents) /\ batch \in Seq(CallEvents) /\ rest \in Seq(CallEvents)
    BY <1>1, <1>2
  <2>2. (log \o batch) \o rest = log \o (batch \o rest)  BY <2>1, ConcatAssociative
  <2>3. QED  BY <1>2, <2>2 DEF C!Shown
<1>5. NoFinal(log) /\ (~NoFinal(output) => OnlySent(raw))  BY <1>1 DEF CallInv, OpenFits
<1>6. InPlace(C!Shown) /\ Partly(C!Shown, r) /\ C!Shown \in Seq(CallEvents)
  BY <1>1, Concatenated DEF CallInv, C!Shown
<1>7. (\E i \in 1 .. n : batch[i][1] \in {"finished", "failed"}) <=> ~NoFinal(batch)
  BY <1>2 DEF NoFinal, Finals
<1>8. CASE ~NoFinal(batch)
  <2>1. /\ held' = "ended" /\ executor' = [executor EXCEPT !.at = "aborted"]
        /\ forwarder' = [at |-> "none", message |-> 0] /\ raw' = <<>> /\ output' = <<>>
    BY <1>7, <1>8 DEF C!Receive, C!Drops
  <2>2. /\ executor' \in [at : {"connecting", "reading", "done", "aborted"}, received : Nat]
        /\ executor'.at = "aborted" /\ executor'.received = r
    BY <1>1, <2>1
  <2>3. C!Shown' = log'
    <3>1. C!Shown' = log' \o <<>>  BY <2>1 DEF C!Shown
    <3>2. QED  BY <1>3, <3>1, ConcatEmptySeq
  <2>4. First(log', C!Shown)
    <3>1. First(log \o batch, (log \o batch) \o rest)  BY <1>1, <1>2, <1>3, Concatenated
    <3>2. QED  BY <1>1, <1>4, <3>1
  <2>5. ~NoFinal(log')  BY <1>3, <1>8
  <2>6. PICK p \in 0 .. r : Numbered(C!Shown, 0, p) /\ Numbered(raw, p, r)
    BY <1>1 DEF CallInv, NumbersFit
  <2>7. p = r
    <3>1. OnlySent(raw) /\ p \in Nat /\ p <= r  BY <1>1, <1>3, <1>5, <1>8, <2>6
    <3>2. QED  BY <1>1, <2>6, <3>1, AllTaken
  <2>8. InPlace(log') /\ Numbered(log', 0, r)
    BY <1>1, <1>6, <2>4, <2>5, <2>6, <2>7, EndedInPlace
  <2>9. Partly(log', r)  BY <1>1, <1>6, <2>4, FirstPartly
  <2>10. CallTyped'
    <3>1. <<>> \in Seq(CallEvents)  OBVIOUS
    <3>2. QED  BY <1>1, <1>3, <2>1, <2>2, <3>1 DEF CallTyped, CallInv
  <2>11. OpenFits' /\ ClosedFits'  BY <1>1, <2>1, <2>2 DEF OpenFits, ClosedFits
  <2>12. InPlace(C!Shown)'  BY <1>1, <2>3, <2>8, SameScripts
  <2>13. Numbered(raw', r, r) /\ r \in 0 .. r  BY <1>1, <2>1, NoNumbers
  <2>14. NumbersFit'  BY <2>2, <2>3, <2>8, <2>13 DEF NumbersFit, Numbered, Increasing
  <2>15. Partly(C!Shown, executor.received)'  BY <2>2, <2>3, <2>9 DEF Partly, Increasing
  <2>16. QED  BY <2>10, <2>11, <2>12, <2>14, <2>15 DEF CallInv
<1>9. CASE NoFinal(batch)
  <2>1. output' = rest /\ UNCHANGED <<executor, forwarder, raw, held>>
    BY <1>7, <1>9 DEF C!Receive
  <2>2. C!Shown' = C!Shown
    <3>1. C!Shown' = (log \o batch) \o rest  BY <1>1, <2>1 DEF C!Shown
    <3>2. QED  BY <1>4, <3>1
  <2>3. CallTyped'  BY <1>1, <1>2, <1>3, <2>1 DEF CallTyped, CallInv
  <2>4. NoFinal(log') /\ (NoFinal(output') <=> NoFinal(output))  BY <1>3, <1>5, <1>9, <2>1
  <2>5. OpenFits'
    BY <1>1, <2>1, <2>2, <2>4 DEF CallInv, OpenFits, NoFinal, IsRaw, Closed, OnlySent
  <2>6. ClosedFits'  BY <1>1, <2>1 DEF ClosedFits
  <2>7. InPlace(C!Shown)'  BY <1>1, <1>6, <2>2, SameScripts
  <2>8. NumbersFit'  BY <2>1, <2>2 DEF CallInv, NumbersFit, Numbered, Increasing
  <2>9. Partly(C!Shown, executor.received)'  BY <1>6, <2>1, <2>2 DEF Partly, Increasing
  <2>10. QED  BY <2>3, <2>5, <2>6, <2>7, <2>8, <2>9 DEF CallInv
<1>10. QED  BY <1>8, <1>9

LEMMA CancelKeeps ==
  ASSUME CallInv, C!Cancel
  PROVE  CallInv'
<1> DEFINE r == executor.received
           e == C!Event("cancelled")
<1>1. /\ raw \in Seq(CallEvents) /\ output \in Seq(CallEvents) /\ log \in Seq(CallEvents)
      /\ executor \in [at : {"connecting", "reading", "done", "aborted"}, received : Nat]
      /\ r \in Nat /\ held = "open" /\ messages # "sending"
      /\ log' = Append(log, e) /\ held' = "cancelled" /\ executor' = [executor EXCEPT !.at = "aborted"]
      /\ forwarder' = [at |-> "none", message |-> 0] /\ raw' = <<>> /\ output' = <<>>
      /\ UNCHANGED <<kind, scripts, messages, sent>>
  BY DEF CallInv, CallTyped, C!Cancel, C!Drops, C!IsFree
<1>2. e \in CallEvents /\ e[1] # "received"  BY DEF CallEvents, EventNames, C!Event
<1>3. NoFinal(log) /\ InPlace(C!Shown) /\ Partly(C!Shown, r)  BY <1>1 DEF CallInv, OpenFits
<1>4. First(log, C!Shown) /\ C!Shown \in Seq(CallEvents)  BY <1>1, Concatenated DEF C!Shown
<1>5. InPlace(Append(log, e))  BY <1>3, <1>4, CancelledInPlace
<1> HIDE DEF e
<1>6. Partly(Append(log, e), r)
  <2>1. Partly(log, r)  BY <1>1, <1>3, <1>4, FirstPartly
  <2>2. QED  BY <1>1, <1>2, <2>1, AppendedOthers
<1>7. log' \in Seq(CallEvents)  BY <1>1, <1>2, Appended
<1>8. C!Shown' = log'
  <2>1. C!Shown' = log' \o <<>>  BY <1>1 DEF C!Shown
  <2>2. QED  BY <1>7, <2>1, ConcatEmptySeq
<1>9. /\ executor' \in [at : {"connecting", "reading", "done", "aborted"}, received : Nat]
      /\ executor'.at = "aborted" /\ executor'.received = r
  BY <1>1
<1>10. CallTyped'
  <2>1. <<>> \in Seq(CallEvents)  OBVIOUS
  <2>2. QED  BY <1>1, <1>7, <1>9, <2>1 DEF CallTyped, CallInv
<1>11. OpenFits' /\ ClosedFits' /\ NumbersFit'
  BY <1>1, <1>9 DEF OpenFits, ClosedFits, NumbersFit
<1>12. InPlace(C!Shown)'  BY <1>1, <1>5, <1>8, SameScripts
<1>13. Partly(C!Shown, executor.received)'  BY <1>1, <1>6, <1>8, <1>9 DEF Partly, Increasing
<1>14. QED  BY <1>10, <1>11, <1>12, <1>13 DEF CallInv

LEMMA SendsKeep ==
  ASSUME CallInv, C!SendMessage \/ C!EndStream
  PROVE  CallInv'
<1>1. /\ UNCHANGED <<kind, scripts, executor, raw, forwarder, output, held, log>>
      /\ held = "open" /\ messages' \in {"sending", "ended"}
      /\ sent' = sent \/ sent' = sent + 1
  BY DEF C!SendMessage, C!EndStream, C!IsFree
<1>2. C!Shown' = C!Shown  BY <1>1 DEF C!Shown
<1>3. CallTyped'  BY <1>1 DEF CallTyped, CallInv
<1>4. OpenFits'
  BY <1>1, <1>2 DEF CallInv, OpenFits, NoFinal, IsRaw, Closed, OnlySent
<1>5. ClosedFits'  BY <1>1 DEF ClosedFits
<1>6. InPlace(C!Shown)'  BY <1>1, <1>2, SameScripts DEF CallInv
<1>7. NumbersFit'  BY <1>1, <1>2 DEF CallInv, NumbersFit, Numbered, Increasing
<1>8. Partly(C!Shown, executor.received)'  BY <1>1, <1>2 DEF CallInv, Partly, Increasing
<1>9. QED  BY <1>3, <1>4, <1>5, <1>6, <1>7, <1>8 DEF CallInv

-----------------------------------------------------------------------------
(***************************************************************************)
(* The theorems.                                                           *)
(***************************************************************************)
LEMMA CallStepKeeps == CallInv /\ [C!Next]_(C!vars) => CallInv'
<1>1. SUFFICES ASSUME CallInv, [C!Next]_(C!vars) PROVE CallInv'  OBVIOUS
<1>2. CASE UNCHANGED C!vars
  <2>1. UNCHANGED <<kind, scripts, executor, raw, forwarder, output, messages, sent, held, log>>
    BY <1>2 DEF C!vars
  <2>2. C!Shown' = C!Shown  BY <2>1 DEF C!Shown
  <2>3. CallTyped' /\ ClosedFits'  BY <1>1, <2>1 DEF CallTyped, ClosedFits, CallInv
  <2>4. OpenFits'
    BY <1>1, <2>1, <2>2 DEF CallInv, OpenFits, NoFinal, IsRaw, Closed, OnlySent
  <2>5. InPlace(C!Shown)'  BY <1>1, <2>1, <2>2, SameScripts DEF CallInv
  <2>6. NumbersFit'  BY <1>1, <2>1, <2>2 DEF CallInv, NumbersFit, Numbered, Increasing
  <2>7. Partly(C!Shown, executor.received)'  BY <1>1, <2>1, <2>2 DEF CallInv, Partly, Increasing
  <2>8. QED  BY <2>3, <2>4, <2>5, <2>6, <2>7 DEF CallInv
<1>3. QED
  BY <1>1, <1>2, TaskKeeps, TakesKeeps, ScriptsKeep, ReceiveKeeps, CancelKeeps, SendsKeep
  DEF C!Next, C!Pipeline

LEMMA CallInductive == C!Spec => []CallInv
<1>1. C!Init => CallInv  BY CallStarts
<1>2. CallInv /\ [C!Next]_(C!vars) => CallInv'  BY CallStepKeeps
<1>3. QED  BY <1>1, <1>2, PTL DEF C!Spec

LEMMA CallIsTyped == CallInv => C!TypeOK
BY DEF CallInv, CallTyped, ClosedFits, C!TypeOK

(***************************************************************************)
(* The parts of a call have the states the code gives them, and one that   *)
(* the tab no longer holds is aborted and its events are gone.             *)
(***************************************************************************)
THEOREM CallTypeCorrect == C!Spec => []C!TypeOK
<1>1. CallInv => C!TypeOK  BY CallIsTyped
<1>2. QED  BY <1>1, CallInductive, PTL

LEMMA ReportsInPlace == CallInv => C!ScriptsAreInPlace
<1>1. SUFFICES ASSUME InPlace(C!Shown) PROVE C!ScriptsAreInPlace  BY DEF CallInv
<1>2. QED  BY <1>1 DEF InPlace, Closed, Finals, C!ScriptsAreInPlace

(***************************************************************************)
(* call.rs:45: the reports of scripts are where they belong in what the    *)
(* tab shows, however many messages arrive and however they are batched.   *)
(***************************************************************************)
THEOREM ScriptsAlwaysInPlace == C!Spec => []C!ScriptsAreInPlace
<1>1. CallInv => C!ScriptsAreInPlace  BY ReportsInPlace
<1>2. QED  BY <1>1, CallInductive, PTL

LEMMA NumbersShown == CallInv => C!ReceivedAreShown
<1>1. SUFFICES ASSUME CallInv PROVE C!ReceivedAreShown  OBVIOUS
<1> DEFINE places == {i \in 1 .. Len(C!Shown) : C!Shown[i][1] = "received"}
           numbers == {C!Shown[i][2] : i \in places}
           r == executor.received
<1>2. /\ C!Shown \in Seq(CallEvents) /\ Len(C!Shown) \in Nat /\ r \in Nat
  BY <1>1, Concatenated, LenProperties DEF CallInv, CallTyped, C!Shown
<1>3. Increasing(C!Shown)  BY <1>1 DEF CallInv, Partly
<1>4. \A i \in places : C!Shown[i][2] \in 1 .. r
  BY <1>1 DEF CallInv, Partly
<1>5. \A i \in places : \A n \in 1 .. C!Shown[i][2] : \E j \in 1 .. i : C!Shown[j] = <<"received", n>>
  BY <1>1 DEF CallInv, Partly
<1>6. ASSUME NEW i \in places, NEW n \in 1 .. C!Shown[i][2] PROVE n \in numbers
  <2>1. PICK j \in 1 .. i : C!Shown[j] = <<"received", n>>  BY <1>5
  <2>2. j \in places /\ C!Shown[j][2] = n  BY <1>2, <2>1
  <2>3. QED  BY <2>2
<1>7. ASSUME held = "ended" PROVE numbers = 1 .. r
  <2>1. PICK p \in 0 .. r : Numbered(C!Shown, 0, p) /\ Numbered(raw, p, r) /\ raw = <<>>
    BY <1>1, <1>7 DEF CallInv, NumbersFit, ClosedFits
  <2>2. p = r  BY <1>2, <2>1, NothingLeft
  <2>3. \A n \in 1 .. r : \E i \in 1 .. Len(C!Shown) : C!Shown[i] = <<"received", n>>
    <3>1. Numbered(C!Shown, 0, r) /\ 0 + 1 = 1  BY <2>1, <2>2
    <3>2. QED  BY <3>1 DEF Numbered
  <2>4. ASSUME NEW n \in 1 .. r PROVE n \in numbers
    <3>1. PICK i \in 1 .. Len(C!Shown) : C!Shown[i] = <<"received", n>>  BY <2>3
    <3>2. i \in places /\ C!Shown[i][2] = n  BY <3>1
    <3>3. QED  BY <3>2
  <2>5. numbers \subseteq 1 .. r  BY <1>4
  <2>6. QED  BY <2>4, <2>5
<1>8. \A i, j \in places : i < j => C!Shown[i][2] < C!Shown[j][2]  BY <1>3 DEF Increasing
<1>9. \A n \in numbers : 1 .. n \subseteq numbers  BY <1>6
<1>10. numbers \subseteq 1 .. r  BY <1>4
<1>11. QED  BY <1>7, <1>8, <1>9, <1>10 DEF C!ReceivedAreShown

(***************************************************************************)
(* call.rs:28: the tab shows the messages of the server in order, without  *)
(* gap and once, and all of them when the server ended the call.           *)
(***************************************************************************)
THEOREM ReceivedAlwaysShown == C!Spec => []C!ReceivedAreShown
<1>1. CallInv => C!ReceivedAreShown  BY NumbersShown
<1>2. QED  BY <1>1, CallInductive, PTL
=============================================================================
