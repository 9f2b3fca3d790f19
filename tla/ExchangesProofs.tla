--------------------------- MODULE ExchangesProofs ---------------------------
(***************************************************************************)
(* What holds of four of the parts that MCExchanges puts side by side, for *)
(* any values of their constants: W is the WebSocket, R the Collection     *)
(* Runner, X the exchange of an HTTP request and S a request with its      *)
(* scripts.  They share no variable; the task of R is here runTask, the    *)
(* history and the stop of X are inHistory and toldStop, and the session   *)
(* of S is changed.                                                        *)
(***************************************************************************)
EXTENDS Integers, Sequences, FiniteSets, SequenceTheorems, FiniteSetTheorems, WellFoundedInduction,
        TLAPS

CONSTANTS EVENT_QUEUE, QUEUED_BYTES, Sizes, MaxConnections, MaxMessages,    \* of WebSocket
          MaxRequests, MaxIterations, MaxChoices, MaxPauses, MaxRuns,      \* of CollectionRunner
          UPDATE_QUEUE, MaxSends, MaxEvents,                               \* of RequestExchange
          REQUEST_LIMIT, CONCURRENT_REQUESTS, MaxJobs, MaxPromises         \* of ScriptedSend

VARIABLES
  draft, tab, history, opened, held, messages, task, reader, writer, events, backlog, waker, received,
  open, preparing, run, runTask, executing, appJar, session, sent, counts,
  exchange, window, execution, unsent, updates, toldStop, cancelling, view, inHistory, sends,
  wentOut, between,
  future, thread, scripts, script, late, cancelled, changed, locals, reports, output, after

W == INSTANCE WebSocket
R == INSTANCE CollectionRunner WITH task <- runTask
X == INSTANCE RequestExchange WITH history <- inHistory, stop <- toldStop
S == INSTANCE ScriptedSend WITH session <- changed

-----------------------------------------------------------------------------
(***************************************************************************)
(* WebSocket: any limits, sizes, messages and connections.                 *)
(***************************************************************************)
LimitsAssumed == EVENT_QUEUE \in Nat \ {0} /\ QUEUED_BYTES \in Nat \ {0} /\ Sizes \subseteq Nat

Events ==
  {event \in [kind : {"connected", "received", "sent", "notSent", "closed", "failed"}, bytes : Nat] :
     event.kind # "received" => event.bytes = 0}
Senders == {"task", "reader", "writer"}

SocketTyped ==
  /\ W!TypeOK
  /\ tab \in [at : {"free", "taking", "waking"}, bytes : Nat]
  /\ history \in Seq({"sent", "ended"} \X Nat) /\ opened \in Nat
  /\ task.result \in {"none", "closed", "failed"}
  /\ reader \in [at : {"none", "reading", "registering", "looking", "parked", "pushing"}, bytes : Nat]
  /\ writer.reports \in {"none", "sent", "notSent"}
  /\ writer = [at |-> writer.at, reports |-> writer.reports]
  /\ task = [at |-> task.at, result |-> task.result]
  /\ events \in [queue : Seq(Events), parked : Seq(Senders), read : BOOLEAN]
  /\ backlog \in Int

(***************************************************************************)
(* The queue: who has its slot taken waits, and does nothing else.         *)
(***************************************************************************)
IsParked(sender) == \E i \in 1 .. Len(events.parked) : events.parked[i] = sender

QueueFits ==
  /\ \A i, j \in 1 .. Len(events.parked) : events.parked[i] = events.parked[j] => i = j
  /\ Len(events.queue) <= EVENT_QUEUE + Len(events.parked)
  /\ IsParked("task") => task.at = "over"
  /\ IsParked("reader") => reader.at \in {"none", "reading"}
  /\ IsParked("writer") => writer.at \in {"none", "waiting"}
  /\ ~events.read => events.queue = <<>> /\ events.parked = <<>>

\* A task that ends reports how.
SocketTaskFits ==
  /\ task.at = "last" => task.result \in {"closed", "failed"}
  /\ writer.at = "reporting" => writer.reports \in {"sent", "notSent"}
  /\ writer.at = "sending" => writer.reports = "sent"
  /\ writer.at # "none" => W!IsOpen
  /\ events.read <=> draft \in {"connecting", "connected", "closing"}
  /\ tab.at # "free" => events.read
  /\ tab.at = "free" => tab = W!Free
  /\ task.at = "none" => draft \in {"disconnected", "gone"}
  /\ task.at \in {"none", "handshake", "greeting"} =>
       tab = W!Free /\ events.queue = <<>> /\ events.parked = <<>> /\ backlog = 0

(***************************************************************************)
(* History knows of each connection but the last how it ended.             *)
(***************************************************************************)
HistoryFits ==
  /\ \A i \in 1 .. Len(history) : history[i][2] \in 1 .. opened
  /\ draft = "connecting" => \A i \in 1 .. Len(history) : history[i][2] # opened
  /\ draft \in {"connecting", "connected", "closing"} => opened > 0
  /\ draft \in {"connected", "closing"} =>
       /\ history # <<>> /\ history[Len(history)] = <<"sent", opened>>
       /\ \A i \in 1 .. Len(history) : history[i] # <<"ended", opened>>

(***************************************************************************)
(* The reader registers before it looks; who takes bytes off comes to wake *)
(* it after that.                                                          *)
(***************************************************************************)
WakeFits ==
  /\ reader.at \in {"registering", "looking", "parked", "pushing"} => reader.bytes \in Sizes
  /\ reader.at \in {"looking", "parked"} => waker \in {"set", "woken"}
  /\ reader.at = "parked" => waker = "woken" \/ tab.at = "waking" \/ backlog >= QUEUED_BYTES
  /\ reader.at \in {"reading", "registering", "looking", "parked"} /\ ~events.read => backlog = 0

SocketInv ==
  /\ SocketTyped /\ QueueFits /\ SocketTaskFits
  /\ W!HistoryPairsUp /\ HistoryFits
  /\ W!BacklogIsExact /\ WakeFits

-----------------------------------------------------------------------------
(***************************************************************************)
(* Induction over the naturals, as a fact about sets of them.              *)
(***************************************************************************)
LEMMA Smallest ==
  ASSUME NEW T, T \subseteq Nat, T # {}
  PROVE  \E n \in T : \A m \in T : n <= m
<1>1. PICK n \in T : \A m \in T : ~(<<m, n>> \in OpToRel(<, Nat))
  BY NatLessThanWellFounded, WFMin
<1>2. \A m \in T : ~(m < n)  BY <1>1 DEF OpToRel
<1>3. QED  BY <1>2

(***************************************************************************)
(* BytesOf adds up the bytes of a queue's events.                          *)
(***************************************************************************)
Adds(queue, sum, n) == IF n = 0 THEN 0 ELSE sum[n - 1] + queue[n].bytes
Sums(queue, sum) == sum = [n \in 0 .. Len(queue) |-> Adds(queue, sum, n)]

LEMMA SumExists ==
  ASSUME NEW queue, NEW len \in Nat
  PROVE  \E f : f = [n \in 0 .. len |-> Adds(queue, f, n)]
<1> DEFINE T == {k \in Nat : ~ \E f : f = [n \in 0 .. k |-> Adds(queue, f, n)]}
<1> SUFFICES ASSUME T # {} PROVE FALSE  OBVIOUS
<1>1. PICK k \in T : \A m \in T : k <= m  BY Smallest
<1>2. k # 0
  <2>1. SUFFICES ASSUME k = 0 PROVE FALSE  OBVIOUS
  <2>2. [n \in 0 .. 0 |-> 0] = [n \in 0 .. 0 |-> Adds(queue, [m \in 0 .. 0 |-> 0], n)]
    BY DEF Adds
  <2>3. QED  BY <1>1, <2>1, <2>2
<1>3. k - 1 \in Nat /\ k - 1 \notin T  BY <1>1, <1>2
<1>4. PICK f : f = [n \in 0 .. (k - 1) |-> Adds(queue, f, n)]  BY <1>3
<1> DEFINE g == [n \in 0 .. k |-> IF n = k THEN Adds(queue, f, k) ELSE f[n]]
<1>5. ASSUME NEW n \in 0 .. k PROVE g[n] = Adds(queue, g, n)
  <2>1. CASE n = 0
    <3>1. f[0] = Adds(queue, f, 0)  BY <1>2, <1>4
    <3>2. QED  BY <1>2, <2>1, <3>1 DEF Adds
  <2>2. CASE n # 0
    <3>1. n - 1 \in 0 .. (k - 1) /\ g[n - 1] = f[n - 1]  BY <2>2
    <3>2. Adds(queue, g, n) = Adds(queue, f, n)  BY <2>2, <3>1 DEF Adds
    <3>3. CASE n = k  BY <3>2, <3>3
    <3>4. CASE n # k
      <4>1. n \in 0 .. (k - 1)  BY <3>4
      <4>2. f[n] = Adds(queue, f, n)  BY <1>4, <4>1
      <4>3. QED  BY <3>2, <3>4, <4>2
    <3>5. QED  BY <3>3, <3>4
  <2>3. QED  BY <2>1, <2>2
<1>6. g = [n \in 0 .. k |-> Adds(queue, g, n)]  BY <1>5
<1>7. QED  BY <1>1, <1>6

LEMMA EventBytes ==
  ASSUME NEW queue \in Seq(Events), NEW n \in 1 .. Len(queue)
  PROVE  queue[n] \in Events /\ queue[n].bytes \in Nat
<1>1. queue[n] \in Events  BY ElementOfSeq, Zenon
<1>2. QED  BY <1>1 DEF Events

LEMMA BytesOfIs ==
  ASSUME NEW queue \in Seq(Events)
  PROVE  \E f : /\ W!BytesOf(queue) = f[Len(queue)] /\ f[0] = 0
                /\ \A n \in 1 .. Len(queue) : f[n] = f[n - 1] + queue[n].bytes
                /\ \A n \in 0 .. Len(queue) : f[n] \in Nat
<1>0. Len(queue) \in Nat /\ \A n \in 1 .. Len(queue) : queue[n].bytes \in Nat
  BY LenProperties, EventBytes, Zenon
<1> DEFINE f == CHOOSE f : f = [n \in 0 .. Len(queue) |-> Adds(queue, f, n)]
<1>1. f = [n \in 0 .. Len(queue) |-> Adds(queue, f, n)]  BY <1>0, SumExists
<1>2. W!BytesOf(queue) = f[Len(queue)]  BY DEF W!BytesOf, Adds
<1> HIDE DEF f
<1>3. f[0] = 0  BY <1>0, <1>1 DEF Adds
<1>4. \A n \in 1 .. Len(queue) : f[n] = f[n - 1] + queue[n].bytes
  BY <1>0, <1>1 DEF Adds
<1>5. \A n \in 0 .. Len(queue) : f[n] \in Nat
  <2> DEFINE T == {n \in 0 .. Len(queue) : f[n] \notin Nat}
  <2> SUFFICES ASSUME T # {} PROVE FALSE  OBVIOUS
  <2>1. T \subseteq Nat  BY <1>0
  <2>2. PICK n \in T : \A m \in T : n <= m  BY <2>1, Smallest
  <2>3. n # 0  BY <1>3, <2>2
  <2>4. n - 1 \in 0 .. Len(queue) /\ n - 1 \notin T /\ n \in 1 .. Len(queue)
    BY <1>0, <2>2, <2>3
  <2>5. QED  BY <1>0, <1>4, <2>2, <2>4
<1>6. QED  BY <1>2, <1>3, <1>4, <1>5

LEMMA BytesAreNat == ASSUME NEW queue \in Seq(Events) PROVE W!BytesOf(queue) \in Nat
<1>1. Len(queue) \in 0 .. Len(queue)  BY LenProperties
<1>2. QED  BY <1>1, BytesOfIs

LEMMA NoBytes == W!BytesOf(<<>>) = 0
<1>1. <<>> \in Seq(Events) /\ Len(<<>>) = 0  BY EmptySeq
<1>2. QED  BY <1>1, BytesOfIs

\* Two sums that begin with a and b and add the same go on as far from each other.
LEMMA SumsGoOn ==
  ASSUME NEW f, NEW g, NEW len \in Nat, NEW shift \in Nat,
         \A n \in 0 .. len : f[n] \in Nat, \A n \in 0 .. len : g[n + shift] \in Nat,
         \A n \in 1 .. len : f[n] - f[n - 1] = g[n + shift] - g[(n - 1) + shift]
  PROVE  f[len] - f[0] = g[len + shift] - g[shift]
<1> DEFINE T == {n \in 0 .. len : f[n] - f[0] # g[n + shift] - g[shift]}
<1>0. g[0 + shift] = g[shift]  OBVIOUS
<1>1. SUFFICES ASSUME T # {} PROVE FALSE
  <2>1. len \in 0 .. len  OBVIOUS
  <2>2. QED  BY <1>1, <2>1
<1>2. T \subseteq Nat  OBVIOUS
<1>3. PICK n \in T : \A m \in T : n <= m  BY <1>1, <1>2, Smallest
<1>4. f[0] \in Nat /\ g[shift] \in Nat
  <2>1. 0 \in 0 .. len  OBVIOUS
  <2>2. QED  BY <1>0, <2>1
<1>5. n # 0  BY <1>0, <1>3, <1>4
<1>6. n - 1 \in 0 .. len /\ n - 1 \notin T /\ n \in 1 .. len /\ n \in 0 .. len  BY <1>3, <1>5
<1>7. f[n - 1] - f[0] = g[(n - 1) + shift] - g[shift]  BY <1>6
<1>8. f[n] - f[n - 1] = g[n + shift] - g[(n - 1) + shift]  BY <1>6
<1>9. f[n] \in Nat /\ f[n - 1] \in Nat /\ g[n + shift] \in Nat /\ g[(n - 1) + shift] \in Nat
  BY <1>6
<1>10. f[n] - f[0] # g[n + shift] - g[shift]  BY <1>3
<1> HIDE DEF T
<1>11. QED  BY ONLY <1>4, <1>7, <1>8, <1>9, <1>10

LEMMA BytesAppended ==
  ASSUME NEW queue \in Seq(Events), NEW event \in Events
  PROVE  W!BytesOf(Append(queue, event)) = W!BytesOf(queue) + event.bytes
<1> DEFINE len == Len(queue)
           longer == Append(queue, event)
<1>1. /\ len \in Nat /\ longer \in Seq(Events) /\ Len(longer) = len + 1
      /\ \A i \in 1 .. len : longer[i] = queue[i]
      /\ longer[len + 1] = event /\ event.bytes \in Nat
  BY LenProperties, AppendProperties DEF Events
<1>2. PICK f : /\ W!BytesOf(queue) = f[len] /\ f[0] = 0
               /\ \A n \in 1 .. len : f[n] = f[n - 1] + queue[n].bytes
               /\ \A n \in 0 .. len : f[n] \in Nat
  BY BytesOfIs
<1>3. PICK g : /\ W!BytesOf(longer) = g[Len(longer)] /\ g[0] = 0
               /\ \A n \in 1 .. Len(longer) : g[n] = g[n - 1] + longer[n].bytes
               /\ \A n \in 0 .. Len(longer) : g[n] \in Nat
  BY <1>1, BytesOfIs
<1> HIDE DEF len, longer
<1>4. \A n \in 0 .. len : g[n + 0] \in Nat  BY <1>1, <1>3
<1>5. \A n \in 1 .. len : f[n] - f[n - 1] = g[n + 0] - g[(n - 1) + 0]
  <2>1. TAKE n \in 1 .. len
  <2>2. /\ n + 0 = n /\ (n - 1) + 0 = n - 1 /\ n \in 1 .. Len(longer)
        /\ n \in 0 .. len /\ n - 1 \in 0 .. len
        /\ n \in 0 .. Len(longer) /\ n - 1 \in 0 .. Len(longer)
    BY <1>1
  <2>3. f[n] = f[n - 1] + queue[n].bytes /\ g[n] = g[n - 1] + queue[n].bytes
    BY <1>1, <1>2, <1>3, <2>2
  <2>4. queue[n].bytes \in Nat  BY EventBytes, Zenon DEF len
  <2>5. /\ f[n] \in Nat /\ f[n - 1] \in Nat /\ g[n] \in Nat /\ g[n - 1] \in Nat
    BY <1>2, <1>3, <2>2
  <2>6. QED  BY <2>2, <2>3, <2>4, <2>5
<1>6. f[len] - f[0] = g[len + 0] - g[0]
  <2>1. \A n \in 0 .. len : f[n] \in Nat  BY <1>2
  <2>2. 0 \in Nat /\ len \in Nat  BY <1>1
  <2>3. QED  BY <1>4, <1>5, <2>1, <2>2, SumsGoOn, Zenon
<1>7. f[len] \in Nat /\ g[len] \in Nat /\ len + 0 = len  BY <1>1, <1>2, <1>3
<1>8. f[len] = g[len]  BY <1>2, <1>3, <1>6, <1>7
<1>9. g[len + 1] = g[len] + event.bytes
  <2>1. len + 1 \in 1 .. Len(longer) /\ (len + 1) - 1 = len  BY <1>1
  <2>2. QED  BY <1>1, <1>3, <2>1
<1>10. QED  BY <1>1, <1>2, <1>3, <1>8, <1>9 DEF longer

LEMMA BytesOfTail ==
  ASSUME NEW queue \in Seq(Events), queue # <<>>
  PROVE  W!BytesOf(queue) = W!BytesOf(Tail(queue)) + queue[1].bytes
<1> DEFINE len == Len(queue)
           rest == Tail(queue)
<1>1. /\ len \in Nat /\ len > 0 /\ rest \in Seq(Events) /\ Len(rest) = len - 1
      /\ \A i \in 1 .. Len(rest) : rest[i] = queue[i + 1]
  BY EmptySeq, LenProperties, HeadTailProperties
<1>2. PICK f : /\ W!BytesOf(rest) = f[Len(rest)] /\ f[0] = 0
               /\ \A n \in 1 .. Len(rest) : f[n] = f[n - 1] + rest[n].bytes
               /\ \A n \in 0 .. Len(rest) : f[n] \in Nat
  BY <1>1, BytesOfIs
<1>3. PICK g : /\ W!BytesOf(queue) = g[len] /\ g[0] = 0
               /\ \A n \in 1 .. len : g[n] = g[n - 1] + queue[n].bytes
               /\ \A n \in 0 .. len : g[n] \in Nat
  BY BytesOfIs
<1>0. \A n \in 1 .. len : queue[n].bytes \in Nat  BY EventBytes, Zenon
<1> DEFINE short == Len(rest)
<1>4. short \in Nat /\ short + 1 = len  BY <1>1
<1> HIDE DEF len, rest, short
<1>5. \A n \in 0 .. short : g[n + 1] \in Nat  BY <1>3, <1>4
<1>6. \A n \in 1 .. short : f[n] - f[n - 1] = g[n + 1] - g[(n - 1) + 1]
  <2>1. TAKE n \in 1 .. short
  <2>2. /\ (n - 1) + 1 = n /\ (n + 1) - 1 = n /\ n + 1 \in 1 .. len /\ n \in 0 .. len
        /\ n + 1 \in 0 .. len /\ n \in 0 .. short /\ n - 1 \in 0 .. short
    BY <1>4
  <2>3. f[n] = f[n - 1] + queue[n + 1].bytes /\ g[n + 1] = g[n] + queue[n + 1].bytes
    BY <1>1, <1>2, <1>3, <2>2 DEF short
  <2>4. queue[n + 1].bytes \in Nat  BY <1>0, <2>2
  <2>5. /\ f[n] \in Nat /\ f[n - 1] \in Nat /\ g[n + 1] \in Nat /\ g[n] \in Nat
    BY <1>2, <1>3, <2>2 DEF short
  <2>6. QED  BY <2>2, <2>3, <2>4, <2>5
<1>7. f[short] - f[0] = g[short + 1] - g[1]
  <2>1. \A n \in 0 .. short : f[n] \in Nat  BY <1>2 DEF short
  <2>2. 1 \in Nat  OBVIOUS
  <2>3. QED  BY <1>4, <1>5, <1>6, <2>1, <2>2, SumsGoOn, Zenon
<1>8. g[1] = queue[1].bytes /\ g[1] \in Nat
  <2>1. 1 \in 1 .. len /\ 1 - 1 = 0 /\ 1 \in 0 .. len  BY <1>1
  <2>2. QED  BY <1>0, <1>3, <2>1
<1>9. f[short] \in Nat /\ g[len] \in Nat  BY <1>1, <1>2, <1>3, <1>4 DEF short
<1>10. g[len] = f[short] + queue[1].bytes  BY <1>2, <1>4, <1>7, <1>8, <1>9
<1>11. QED  BY <1>2, <1>3, <1>10 DEF short, rest

-----------------------------------------------------------------------------
(***************************************************************************)
(* Senders that wait for room are few, for each waits once.                *)
(***************************************************************************)
LEMMA FewWait ==
  ASSUME NEW parked \in Seq(Senders),
         \A i, j \in 1 .. Len(parked) : parked[i] = parked[j] => i = j
  PROVE  Len(parked) \in Nat /\ Len(parked) <= 3
<1>1. Len(parked) \in Nat  BY LenProperties, Zenon
<1>2. \A i \in 1 .. Len(parked) : parked[i] \in Senders  BY ElementOfSeq, Zenon
<1>3. ASSUME Len(parked) > 3 PROVE FALSE
  <2>1. /\ 1 \in 1 .. Len(parked) /\ 2 \in 1 .. Len(parked)
        /\ 3 \in 1 .. Len(parked) /\ 4 \in 1 .. Len(parked)
    BY <1>1, <1>3
  <2>2. QED  BY <1>2, <2>1 DEF Senders
<1>4. QED
  <2> DEFINE len == Len(parked)
  <2>1. len \in Nat /\ ~(len > 3)  BY <1>1, <1>3, Zenon
  <2> HIDE DEF len
  <2>2. len <= 3  BY ONLY <2>1
  <2>3. QED  BY <1>1, <2>2, Zenon DEF len

\* What Emits leaves, when the sender does not wait already.
Emitted(sender, bytes) ==
  /\ events' \in [queue : Seq(Events), parked : Seq(Senders), read : BOOLEAN]
  /\ events'.read = events.read
  /\ ~events.read => events' = events
  /\ events.read => W!BytesOf(events'.queue) = W!BytesOf(events.queue) + bytes
  /\ Len(events'.queue) <= EVENT_QUEUE + Len(events'.parked)
  /\ Len(events'.queue) <= EVENT_QUEUE + 3
  /\ \A i, j \in 1 .. Len(events'.parked) : events'.parked[i] = events'.parked[j] => i = j
  /\ \A other \in Senders \ {sender} : IsParked(other)' => IsParked(other)
  /\ IsParked(sender)' => events.read /\ W!Parks

LEMMA EmitsFits ==
  ASSUME LimitsAssumed, SocketInv, NEW sender \in Senders, ~IsParked(sender),
         NEW kind \in {"connected", "received", "sent", "notSent", "closed", "failed"},
         NEW bytes \in Nat, kind # "received" => bytes = 0, W!Emits(sender, kind, bytes)
  PROVE  Emitted(sender, bytes)
<1> DEFINE queue == Append(events.queue, W!Event(kind, bytes))
           parked == IF W!Parks THEN Append(events.parked, sender) ELSE events.parked
<1>1. /\ events.queue \in Seq(Events) /\ events.parked \in Seq(Senders) /\ events.read \in BOOLEAN
      /\ events = [queue |-> events.queue, parked |-> events.parked, read |-> events.read]
      /\ Len(events.queue) <= EVENT_QUEUE + Len(events.parked)
      /\ \A i, j \in 1 .. Len(events.parked) : events.parked[i] = events.parked[j] => i = j
      /\ ~events.read => events.queue = <<>> /\ events.parked = <<>>
  BY DEF SocketInv, SocketTyped, QueueFits
<1>2. /\ Len(events.queue) \in Nat /\ Len(events.parked) \in Nat /\ EVENT_QUEUE \in Nat
      /\ Len(events.parked) <= 3
  <2>1. Len(events.queue) \in Nat /\ EVENT_QUEUE \in Nat  BY <1>1, LenProperties DEF LimitsAssumed
  <2>2. Len(events.parked) \in Nat /\ Len(events.parked) <= 3  BY <1>1, FewWait, Zenon
  <2>3. QED  BY <2>1, <2>2
<1>3. CASE ~events.read
  <2>1. events' = events  BY <1>3 DEF W!Emits
  <2>2. ~IsParked(sender)'  BY <2>1 DEF IsParked
  <2>3. \A other : IsParked(other)' => IsParked(other)  BY <2>1 DEF IsParked
  <2>4. QED  BY <1>1, <1>2, <1>3, <2>1, <2>2, <2>3 DEF Emitted
<1>4. CASE events.read
  <2>1. W!Event(kind, bytes) \in Events /\ W!Event(kind, bytes).bytes = bytes  BY DEF W!Event, Events
  <2>2. /\ queue \in Seq(Events) /\ Len(queue) = Len(events.queue) + 1
        /\ W!BytesOf(queue) = W!BytesOf(events.queue) + bytes
    BY <1>1, <2>1, AppendProperties, BytesAppended
  <2>3. /\ Append(events.parked, sender) \in Seq(Senders)
        /\ Len(Append(events.parked, sender)) = Len(events.parked) + 1
        /\ \A i \in 1 .. Len(events.parked) : Append(events.parked, sender)[i] = events.parked[i]
        /\ Append(events.parked, sender)[Len(events.parked) + 1] = sender
    BY <1>1, AppendProperties
  <2>4. /\ parked \in Seq(Senders)
        /\ Len(queue) <= EVENT_QUEUE + Len(parked)
        /\ \A i \in 1 .. Len(parked) : parked[i] = sender \/ \E j \in 1 .. Len(events.parked) : parked[i] = events.parked[j]
    BY <1>1, <1>2, <2>2, <2>3 DEF W!Parks
  <2>5. \A i, j \in 1 .. Len(parked) : parked[i] = parked[j] => i = j
    BY <1>1, <1>2, <2>3 DEF IsParked
  <2>6. events' = [queue |-> queue, parked |-> parked, read |-> events.read]
    BY <1>1, <1>4 DEF W!Emits
  <2> HIDE DEF queue, parked
  <2>7. Len(parked) <= 3 /\ Len(parked) \in Nat  BY <2>4, <2>5, FewWait
  <2>8. Len(queue) <= EVENT_QUEUE + 3  BY <1>2, <2>2, <2>4, <2>7
  <2>9. events'.queue = queue /\ events'.parked = parked /\ events'.read  BY <1>4, <2>6
  <2>10. \A other \in Senders \ {sender} : IsParked(other)' => IsParked(other)
    BY <2>4, <2>9 DEF IsParked
  <2>13. IsParked(sender)' => W!Parks  BY <2>9 DEF IsParked, parked
  <2>11. events' \in [queue : Seq(Events), parked : Seq(Senders), read : BOOLEAN]
    BY <1>1, <2>2, <2>4, <2>6
  <2>12. QED  BY <1>4, <2>2, <2>4, <2>5, <2>8, <2>9, <2>10, <2>11, <2>13 DEF Emitted
<1>5. QED  BY <1>1, <1>3, <1>4

LEMMA EmptyFits ==
  ASSUME LimitsAssumed, NEW reads \in BOOLEAN,
         events' = [queue |-> <<>>, parked |-> <<>>, read |-> reads]
  PROVE  /\ events' \in [queue : Seq(Events), parked : Seq(Senders), read : BOOLEAN]
         /\ events'.queue = <<>> /\ events'.parked = <<>> /\ events'.read = reads
         /\ Len(events'.queue) = 0 /\ Len(events'.parked) = 0
         /\ \A sender : ~IsParked(sender)'
<1>1. <<>> \in Seq(Events) /\ <<>> \in Seq(Senders) /\ Len(<<>>) = 0  BY EmptySeq
<1>2. events'.queue = <<>> /\ events'.parked = <<>> /\ events'.read = reads  OBVIOUS
<1>3. \A sender : ~IsParked(sender)'  BY <1>1, <1>2 DEF IsParked
<1>4. QED  BY <1>1, <1>2, <1>3

\* What is left when the tab took the first event.
LEMMA ReadFits ==
  ASSUME LimitsAssumed, SocketInv, events.queue # <<>>,
         events' = [events EXCEPT !.queue = Tail(@), !.parked = IF @ = <<>> THEN @ ELSE Tail(@)]
  PROVE  /\ events' \in [queue : Seq(Events), parked : Seq(Senders), read : BOOLEAN]
         /\ events'.read = events.read
         /\ W!BytesOf(events.queue) = W!BytesOf(events'.queue) + Head(events.queue).bytes
         /\ Head(events.queue) \in Events
         /\ Len(events'.queue) <= EVENT_QUEUE + Len(events'.parked)
         /\ Len(events'.queue) <= EVENT_QUEUE + 3
         /\ \A i, j \in 1 .. Len(events'.parked) : events'.parked[i] = events'.parked[j] => i = j
         /\ \A sender : IsParked(sender)' => IsParked(sender)
<1> DEFINE queue == Tail(events.queue)
           parked == IF events.parked = <<>> THEN <<>> ELSE Tail(events.parked)
<1>1. /\ events.queue \in Seq(Events) /\ events.parked \in Seq(Senders) /\ events.read \in BOOLEAN
      /\ events = [queue |-> events.queue, parked |-> events.parked, read |-> events.read]
      /\ Len(events.queue) <= EVENT_QUEUE + Len(events.parked)
      /\ \A i, j \in 1 .. Len(events.parked) : events.parked[i] = events.parked[j] => i = j
  BY DEF SocketInv, SocketTyped, QueueFits
<1>2. /\ Len(events.queue) \in Nat /\ Len(events.parked) \in Nat /\ EVENT_QUEUE \in Nat
      /\ Len(events.queue) > 0
  BY <1>1, EmptySeq, LenProperties DEF LimitsAssumed
<1>3. /\ queue \in Seq(Events) /\ Len(queue) = Len(events.queue) - 1
      /\ Head(events.queue) = events.queue[1] /\ Head(events.queue) \in Events
  BY <1>1, HeadTailProperties
<1>4. W!BytesOf(events.queue) = W!BytesOf(queue) + Head(events.queue).bytes
  BY <1>1, <1>3, BytesOfTail
<1>5. /\ parked \in Seq(Senders)
      /\ Len(parked) = IF events.parked = <<>> THEN 0 ELSE Len(events.parked) - 1
      /\ \A i \in 1 .. Len(parked) : i + 1 \in 1 .. Len(events.parked) /\ parked[i] = events.parked[i + 1]
  <2>1. CASE events.parked = <<>>
    <3>1. Len(<<>>) = 0  BY EmptySeq
    <3>2. QED  BY <1>1, <2>1, <3>1
  <2>2. CASE events.parked # <<>>
    <3>1. /\ Tail(events.parked) \in Seq(Senders) /\ Len(Tail(events.parked)) = Len(events.parked) - 1
          /\ \A i \in 1 .. Len(Tail(events.parked)) : Tail(events.parked)[i] = events.parked[i + 1]
      BY <1>1, <2>2, HeadTailProperties
    <3>2. QED  BY <1>2, <2>2, <3>1
  <2>3. QED  BY <2>1, <2>2
<1>6. events' = [queue |-> queue, parked |-> parked, read |-> events.read]  BY <1>1
<1>7. events.parked = <<>> => Len(events.parked) = 0  BY EmptySeq
<1> HIDE DEF queue, parked
<1>8. events'.queue = queue /\ events'.parked = parked /\ events'.read = events.read  BY ONLY <1>6
<1>9. \A i, j \in 1 .. Len(parked) : parked[i] = parked[j] => i = j
  <2>1. TAKE i, j \in 1 .. Len(parked)
  <2>2. HAVE parked[i] = parked[j]
  <2>3. i + 1 = j + 1  BY <1>1, <1>5, <2>2, Zenon
  <2>4. QED  BY <2>3
<1>10. Len(parked) \in Nat /\ Len(parked) <= 3  BY <1>5, <1>9, FewWait
<1>11. Len(queue) <= EVENT_QUEUE + Len(parked) /\ Len(queue) <= EVENT_QUEUE + 3
  BY <1>1, <1>2, <1>3, <1>5, <1>7, <1>10
<1>12. \A sender : IsParked(sender)' => IsParked(sender)  BY <1>5, <1>8 DEF IsParked
<1>13. events' \in [queue : Seq(Events), parked : Seq(Senders), read : BOOLEAN]
  BY <1>1, <1>3, <1>5, <1>6
<1>14. /\ W!BytesOf(events.queue) = W!BytesOf(events'.queue) + Head(events.queue).bytes
       /\ Len(events'.queue) <= EVENT_QUEUE + Len(events'.parked)
       /\ Len(events'.queue) <= EVENT_QUEUE + 3
  BY ONLY <1>4, <1>8, <1>11
<1>15. \A i, j \in 1 .. Len(events'.parked) : events'.parked[i] = events'.parked[j] => i = j
  BY ONLY <1>8, <1>9
<1>16. QED  BY <1>3, <1>8, <1>12, <1>13, <1>14, <1>15, Zenon

-----------------------------------------------------------------------------
(***************************************************************************)
(* Steps of the connection's task that leave the queue and the tab alone.  *)
(***************************************************************************)
Quiet ==
  \/ W!Handshakes \/ W!StopsHandshake \/ (\E bytes \in Sizes : W!Receives(bytes)) \/ W!StreamEnds
  \/ W!Woken \/ W!Takes \/ W!SendEnds \/ W!AbandonsSend \/ W!StartsClosing \/ W!CloseFrameSent
  \/ W!CloseTimesOut \/ W!SendMessage

LEMMA QuietKeeps == LimitsAssumed /\ SocketInv /\ Quiet => SocketInv'
<1> SUFFICES ASSUME LimitsAssumed, SocketInv, Quiet PROVE SocketInv'  OBVIOUS
<1> USE DEF Quiet, W!Handshakes, W!StopsHandshake, W!Receives, W!StreamEnds, W!Woken, W!Takes, W!SendEnds,
            W!AbandonsSend, W!Abandons, W!StartsClosing, W!CloseFrameSent, W!CloseTimesOut, W!SendMessage,
            W!Finishes, W!IsReading, W!IsWaiting, W!NoReader, W!Reading, W!NoWriter, W!Waiting,
            W!tabVars, W!queueVars
<1>0. SocketTyped /\ QueueFits /\ SocketTaskFits /\ W!HistoryPairsUp /\ HistoryFits /\ W!BacklogIsExact /\ WakeFits
  BY DEF SocketInv
<1>r. /\ task = [at |-> task.at, result |-> task.result]
      /\ writer = [at |-> writer.at, reports |-> writer.reports]
      /\ reader = [at |-> reader.at, bytes |-> reader.bytes]
  BY <1>0 DEF SocketTyped
<1>1. UNCHANGED <<draft, tab, history, opened, held, events, backlog, waker>>  OBVIOUS
<1>2. \A sender : IsParked(sender)' <=> IsParked(sender)  BY <1>1 DEF IsParked
<1>3. \A sender : W!Sends(sender) => ~IsParked(sender)  BY DEF W!Sends, W!Contains, IsParked
<1>4. SocketTyped'
  BY <1>0, <1>1 DEF SocketTyped, W!TypeOK, W!IsOpen, LimitsAssumed
<1>5. QueueFits'
  <2>1. /\ IsParked("task")' => task.at = "over"
        /\ IsParked("reader")' => reader.at \in {"none", "reading"} /\ ~W!Sends("reader")
        /\ IsParked("writer")' => writer.at \in {"none", "waiting"} /\ ~W!Sends("writer")
    BY <1>0, <1>2, <1>3 DEF QueueFits
  <2>2. task.at = "over" => task'.at = "over"
    BY <1>0, <1>r DEF SocketTyped, W!TypeOK, SocketTaskFits, W!IsOpen
  <2>3. reader.at \in {"none", "reading"} /\ ~W!Sends("reader") => reader'.at \in {"none", "reading"}
    BY <1>r
  <2>4. writer.at \in {"none", "waiting"} /\ ~W!Sends("writer") => writer'.at \in {"none", "waiting"}
    BY <1>r
  <2>5. QED  BY <1>0, <1>1, <2>1, <2>2, <2>3, <2>4 DEF QueueFits
<1>6. SocketTaskFits'
  BY <1>0, <1>r, <1>1 DEF SocketTaskFits, W!IsOpen
<1>7. W!HistoryPairsUp' /\ HistoryFits'
  BY <1>0, <1>1 DEF W!HistoryPairsUp, HistoryFits
<1>8. W!BacklogIsExact'
  BY <1>0, <1>r, <1>1 DEF W!BacklogIsExact, W!QueuedBytes, W!IsOpen
<1>9. WakeFits'
  BY <1>0, <1>r, <1>1 DEF WakeFits
<1>10. QED  BY <1>4, <1>5, <1>6, <1>7, <1>8, <1>9 DEF SocketInv

LEMMA ReaderKeeps == LimitsAssumed /\ SocketInv /\ (W!Registers \/ W!Looks) => SocketInv'
<1> SUFFICES ASSUME LimitsAssumed, SocketInv, W!Registers \/ W!Looks PROVE SocketInv'  OBVIOUS
<1> USE DEF W!Registers, W!Looks, W!tabVars
<1>0. SocketTyped /\ QueueFits /\ SocketTaskFits /\ W!HistoryPairsUp /\ HistoryFits /\ W!BacklogIsExact /\ WakeFits
  BY DEF SocketInv
<1>r. reader = [at |-> reader.at, bytes |-> reader.bytes]  BY <1>0 DEF SocketTyped
<1>1. UNCHANGED <<draft, tab, history, opened, held, events, task, writer>>  OBVIOUS
<1>2. \A sender : IsParked(sender)' <=> IsParked(sender)  BY <1>1 DEF IsParked
<1>3. reader.bytes \in Sizes /\ reader.bytes \in Nat /\ reader'.bytes = reader.bytes
  BY <1>0, <1>r DEF WakeFits, LimitsAssumed
<1>4. SocketTyped'
  BY <1>0, <1>1, <1>3 DEF SocketTyped, W!TypeOK, W!IsOpen
<1>5. QueueFits'
  BY <1>0, <1>r, <1>1, <1>2 DEF QueueFits
<1>6. SocketTaskFits'
  BY <1>0, <1>r, <1>1 DEF SocketTaskFits, W!IsOpen, SocketTyped, W!TypeOK
<1>7. W!HistoryPairsUp' /\ HistoryFits'
  BY <1>0, <1>1 DEF W!HistoryPairsUp, HistoryFits
<1>8. W!BacklogIsExact'
  <2>1. W!IsOpen' <=> W!IsOpen  BY <1>1 DEF W!IsOpen
  <2>2. W!BytesOf(events'.queue) \in Nat /\ W!BytesOf(events.queue) = W!BytesOf(events'.queue)
    BY <1>0, <1>1, BytesAreNat DEF SocketTyped
  <2>3. W!QueuedBytes' - W!QueuedBytes = backlog' - backlog
    BY <1>0, <1>r, <1>1, <1>3, <2>2 DEF W!QueuedBytes, SocketTyped
  <2>4. W!QueuedBytes \in Int /\ W!QueuedBytes' \in Int /\ backlog \in Int /\ backlog' \in Int
    BY <1>0, <1>1, <1>3, <2>2 DEF W!QueuedBytes, SocketTyped
  <2>5. backlog = W!QueuedBytes => backlog' = W!QueuedBytes'  BY <2>3, <2>4
  <2>6. ASSUME NEW size \in Sizes, \A other \in Sizes : other <= size, backlog < QUEUED_BYTES + size
        PROVE  backlog' < QUEUED_BYTES + size
    <3>1. reader.bytes <= size /\ size \in Nat  BY <1>3, <2>6 DEF LimitsAssumed
    <3>2. QED  BY <1>3, <2>4, <2>6, <3>1 DEF LimitsAssumed
  <2>7. QED  BY <1>0, <1>1, <2>1, <2>5, <2>6 DEF W!BacklogIsExact
<1>9. WakeFits'
  BY <1>0, <1>r, <1>1, <1>3 DEF WakeFits, SocketTyped, LimitsAssumed
<1>10. QED  BY <1>4, <1>5, <1>6, <1>7, <1>8, <1>9 DEF SocketInv

LEMMA EmittersKeep == LimitsAssumed /\ SocketInv /\ (W!Greets \/ W!Farewell \/ W!Pushes \/ W!Reports) => SocketInv'
<1> SUFFICES ASSUME LimitsAssumed, SocketInv, W!Greets \/ W!Farewell \/ W!Pushes \/ W!Reports PROVE SocketInv'  OBVIOUS
<1>0. SocketTyped /\ QueueFits /\ SocketTaskFits /\ W!HistoryPairsUp /\ HistoryFits /\ W!BacklogIsExact /\ WakeFits
  BY DEF SocketInv
<1>r. /\ task = [at |-> task.at, result |-> task.result]
      /\ writer = [at |-> writer.at, reports |-> writer.reports]
      /\ reader = [at |-> reader.at, bytes |-> reader.bytes]
  BY <1>0 DEF SocketTyped
<1>1. UNCHANGED <<draft, tab, history, opened, held, backlog, waker>>
  BY DEF W!Greets, W!Farewell, W!Pushes, W!Reports, W!tabVars
<1>2. PICK sender \in Senders, bytes \in Nat :
        /\ Emitted(sender, bytes)
        /\ \/ sender = "task" /\ bytes = 0 /\ (W!Greets \/ W!Farewell)
           \/ sender = "reader" /\ bytes = reader.bytes /\ W!Pushes
           \/ sender = "writer" /\ bytes = 0 /\ W!Reports
  <2>1. CASE W!Greets \/ W!Farewell
    <3>1. ~IsParked("task")  BY <1>0, <2>1 DEF QueueFits, W!Greets, W!Farewell
    <3>2. PICK kind \in {"connected", "closed", "failed"} : W!Emits("task", kind, 0)
      BY <1>0, <2>1 DEF SocketTaskFits, W!Greets, W!Farewell
    <3>3. "task" \in Senders /\ 0 \in Nat  BY DEF Senders
    <3>4. Emitted("task", 0)  BY <3>1, <3>2, <3>3, EmitsFits
    <3>5. QED  BY <2>1, <3>3, <3>4
  <2>2. CASE W!Pushes
    <3>1. ~IsParked("reader")  BY <1>0, <2>2 DEF W!Pushes, QueueFits
    <3>2. reader.bytes \in Nat  BY <1>0, <2>2 DEF W!Pushes, WakeFits, LimitsAssumed
    <3>3. "reader" \in Senders  BY DEF Senders
    <3>4. Emitted("reader", reader.bytes)  BY <2>2, <3>1, <3>2, <3>3, EmitsFits DEF W!Pushes
    <3>5. QED  BY <2>2, <3>2, <3>3, <3>4
  <2>3. CASE W!Reports
    <3>1. ~IsParked("writer")  BY <1>0, <2>3 DEF W!Reports, QueueFits
    <3>2. writer.reports \in {"sent", "notSent"}  BY <1>0, <2>3 DEF W!Reports, SocketTaskFits
    <3>3. "writer" \in Senders /\ 0 \in Nat  BY DEF Senders
    <3>4. Emitted("writer", 0)  BY <2>3, <3>1, <3>2, <3>3, EmitsFits DEF W!Reports
    <3>5. QED  BY <2>3, <3>3, <3>4
  <2>4. QED  BY <2>1, <2>2, <2>3
<1>d. /\ sender = "task" => bytes = 0 /\ (W!Greets \/ W!Farewell)
      /\ sender = "reader" => bytes = reader.bytes /\ W!Pushes
      /\ sender = "writer" => bytes = 0 /\ W!Reports
  BY <1>2
<1> USE DEF W!Greets, W!Farewell, W!Pushes, W!Reports, W!tabVars, W!Finishes, W!NoReader, W!Reading, W!NoWriter, W!Waiting
<1>s. /\ sender = "task" => task.at = "greeting" \/ task'.at = "over"
      /\ sender = "reader" => reader'.at \in {"none", "reading"}
      /\ sender = "writer" => writer'.at = "waiting"
  <2>1. (W!Greets \/ W!Farewell) => task.at = "greeting" \/ task'.at = "over"  BY <1>r
  <2>2. W!Pushes => reader'.at \in {"none", "reading"}  BY <1>r
  <2>3. W!Reports => writer'.at = "waiting"  OBVIOUS
  <2>4. QED  BY <1>d, <2>1, <2>2, <2>3, Zenon
<1>4. SocketTyped'
  BY <1>0, <1>1, <1>2 DEF SocketTyped, W!TypeOK, W!IsOpen, Emitted
<1>3. ~(task.at = "greeting" /\ W!Parks)
  <2>1. task.at = "greeting" => Len(events.queue) = 0  BY <1>0, EmptySeq DEF SocketTaskFits
  <2>2. QED  BY <2>1 DEF W!Parks, LimitsAssumed
<1>5. QueueFits'
  <2>1. /\ \A i, j \in 1 .. Len(events'.parked) : events'.parked[i] = events'.parked[j] => i = j
        /\ Len(events'.queue) <= EVENT_QUEUE + Len(events'.parked)
        /\ ~events'.read => events'.queue = <<>> /\ events'.parked = <<>>
    BY <1>0, <1>2 DEF QueueFits, Emitted
  <2>2. /\ IsParked("task")' => (sender = "task" /\ W!Parks) \/ IsParked("task")
        /\ IsParked("reader")' => (sender = "reader" /\ events.read) \/ IsParked("reader")
        /\ IsParked("writer")' => sender = "writer" \/ IsParked("writer")
    <3>1. \A other \in Senders : IsParked(other)' => (other = sender /\ events.read /\ W!Parks) \/ IsParked(other)
      BY <1>2 DEF Emitted
    <3>2. "task" \in Senders /\ "reader" \in Senders /\ "writer" \in Senders  BY DEF Senders
    <3>3. QED  BY <3>1, <3>2, Zenon
  <2>3. IsParked("task")' => task'.at = "over"
    <3>1. IsParked("task") => task.at = "over"  BY <1>0 DEF QueueFits
    <3>2. task.at = "over" => task'.at = "over"
      BY <1>0, <1>r DEF SocketTyped, W!TypeOK, SocketTaskFits, W!IsOpen
    <3>3. QED  BY <1>3, <1>s, <2>2, <3>1, <3>2, Zenon
  <2>4. IsParked("reader")' => reader'.at \in {"none", "reading"}
    <3>1. IsParked("reader") => reader.at \in {"none", "reading"}  BY <1>0 DEF QueueFits
    <3>2. reader.at \in {"none", "reading"} => reader'.at \in {"none", "reading"}  BY <1>r
    <3>3. QED  BY <1>s, <2>2, <3>1, <3>2, Zenon
  <2>5. IsParked("writer")' => writer'.at \in {"none", "waiting"}
    <3>1. IsParked("writer") => writer.at \in {"none", "waiting"}  BY <1>0 DEF QueueFits
    <3>2. writer.at \in {"none", "waiting"} => writer'.at \in {"none", "waiting"}  BY <1>r
    <3>3. QED  BY <1>s, <2>2, <3>1, <3>2
  <2>6. QED  BY <2>1, <2>3, <2>4, <2>5 DEF QueueFits
<1>6. SocketTaskFits'
  BY <1>0, <1>r, <1>1, <1>2 DEF SocketTaskFits, W!IsOpen, SocketTyped, W!TypeOK, Emitted
<1>7. W!HistoryPairsUp' /\ HistoryFits'
  BY <1>0, <1>1 DEF W!HistoryPairsUp, HistoryFits
<1>8. W!BacklogIsExact'
  <2>1. W!BytesOf(events.queue) \in Nat /\ (events.read => W!BytesOf(events'.queue) = W!BytesOf(events.queue) + bytes)
    BY <1>0, <1>2, BytesAreNat DEF Emitted, SocketTyped
  <2>2. events.read' <=> events.read  BY <1>2 DEF Emitted
  <2>3. CASE sender = "task" /\ W!Greets
    <3>1. task.at = "greeting" /\ tab = W!Free /\ events.queue = <<>> /\ backlog = 0  BY <1>0, <2>3 DEF SocketTaskFits
    <3>2. bytes = 0  BY <1>d, <2>3, Zenon
    <3>3. events.read => W!BytesOf(events'.queue) = 0  BY <2>1, <3>1, <3>2, NoBytes
    <3>4. events.read => reader'.at # "pushing"  BY <2>3
    <3>5. tab'.at # "taking" /\ backlog' = 0  BY <1>1, <3>1 DEF W!Free
    <3>6. events.read => W!QueuedBytes' = 0  BY <3>3, <3>4, <3>5 DEF W!QueuedBytes
    <3>7. \A size \in Sizes : 0 < QUEUED_BYTES + size  BY DEF LimitsAssumed
    <3>8. QED  BY <2>2, <3>5, <3>6, <3>7 DEF W!BacklogIsExact
  <2>4. CASE sender = "task" /\ W!Farewell  BY <2>4 DEF W!BacklogIsExact, W!IsOpen
  <2>5. CASE sender \in {"reader", "writer"}
    <3>0. W!Pushes \/ W!Reports  BY <1>d, <2>5
    <3>1. (events'.read /\ W!IsOpen') => (events.read /\ W!IsOpen)
      BY <1>r, <2>2, <3>0 DEF W!IsOpen
    <3>2. events.read => W!QueuedBytes' = W!QueuedBytes
      <4>1. CASE sender = "reader"
        <5>1. bytes = reader.bytes /\ W!Pushes  BY <1>d, <4>1, Zenon
        <5>2. QED  BY <1>0, <1>r, <1>1, <2>1, <5>1 DEF W!QueuedBytes, SocketTyped
      <4>2. CASE sender = "writer"
        <5>1. bytes = 0 /\ W!Reports  BY <1>d, <4>2, Zenon
        <5>2. QED  BY <1>0, <1>r, <1>1, <2>1, <5>1 DEF W!QueuedBytes, SocketTyped
      <4>3. QED  BY <2>5, <4>1, <4>2
    <3>3. QED  BY <1>0, <1>1, <3>1, <3>2 DEF W!BacklogIsExact
  <2>6. sender = "task" => W!Greets \/ W!Farewell  BY <1>d, Zenon
  <2>7. QED  BY <1>2, <2>3, <2>4, <2>5, <2>6 DEF Senders
<1>9. WakeFits'
  <2>1. events'.read = events.read  BY <1>2 DEF Emitted
  <2>2. reader' = reader \/ reader' = W!NoReader \/ (reader' = W!Reading /\ events.read)  OBVIOUS
  <2>3. QED  BY <1>0, <1>r, <1>1, <2>1, <2>2 DEF WakeFits
<1>10. QED  BY <1>4, <1>5, <1>6, <1>7, <1>8, <1>9 DEF SocketInv

-----------------------------------------------------------------------------
(***************************************************************************)
(* What history is told.                                                   *)
(***************************************************************************)
LEMMA EndedFits ==
  ASSUME SocketInv, draft' \in {"disconnected", "gone"}, opened' = opened,
         history' = IF draft \in {"connected", "closing"} THEN W!Ended ELSE history
  PROVE  /\ W!HistoryPairsUp' /\ HistoryFits'
         /\ history' \in Seq({"sent", "ended"} \X Nat)
<1>1. /\ W!HistoryPairsUp /\ HistoryFits /\ opened \in Nat
      /\ history \in Seq({"sent", "ended"} \X Nat)
      /\ draft \in {"disconnected", "connecting", "connected", "closing", "gone"}
  BY DEF SocketInv, SocketTyped, W!TypeOK
<1>2. CASE draft \notin {"connected", "closing"}
  BY <1>1, <1>2 DEF W!HistoryPairsUp, HistoryFits
<1>3. CASE draft \in {"connected", "closing"}
  <2>1. /\ Len(history) \in Nat /\ Len(history) > 0 /\ DOMAIN history = 1 .. Len(history)
        /\ history[Len(history)] = <<"sent", opened>>
        /\ \A i \in 1 .. Len(history) : history[i] # <<"ended", opened>> /\ history[i][2] \in 1 .. opened
    BY <1>1, <1>3, EmptySeq, LenProperties DEF HistoryFits
  <2>2. /\ history' \in Seq({"sent", "ended"} \X Nat) /\ Len(history') = Len(history) + 1
        /\ \A i \in 1 .. Len(history) : history'[i] = history[i]
        /\ history'[Len(history) + 1] = <<"ended", opened>>
        /\ DOMAIN history' = 1 .. (Len(history) + 1)
    BY <1>1, <1>3, AppendProperties, LenProperties DEF W!Ended
  <2>3. HistoryFits'  BY <1>1, <2>1, <2>2 DEF HistoryFits
  <2>4. /\ \A i, j \in 1 .. Len(history) : history[i] = history[j] => i = j
        /\ \A i \in 1 .. Len(history) :
             history[i][1] = "ended" => i > 1 /\ history[i - 1] = <<"sent", history[i][2]>>
    BY <1>1, <2>1 DEF W!HistoryPairsUp
  <2>5. \A i, j \in 1 .. (Len(history) + 1) : history'[i] = history'[j] => i = j
    BY <2>1, <2>2, <2>4
  <2>6. \A i \in 1 .. (Len(history) + 1) :
          history'[i][1] = "ended" => i > 1 /\ history'[i - 1] = <<"sent", history'[i][2]>>
    <3>1. TAKE i \in 1 .. (Len(history) + 1)
    <3>2. HAVE history'[i][1] = "ended"
    <3>3. CASE i \in 1 .. Len(history)
      <4>1. i > 1 /\ history[i - 1] = <<"sent", history[i][2]>> /\ history'[i] = history[i]
        BY <2>2, <2>4, <3>2, <3>3
      <4>2. i - 1 \in 1 .. Len(history)  BY <2>1, <3>3, <4>1
      <4>3. QED  BY <2>2, <4>1, <4>2
    <3>4. CASE i = Len(history) + 1
      <4>1. i > 1 /\ i - 1 = Len(history) /\ Len(history) \in 1 .. Len(history)  BY <2>1, <3>4
      <4>2. QED  BY <2>1, <2>2, <3>4, <4>1
    <3>5. QED  BY <2>1, <3>3, <3>4
  <2>7. W!Last(history')[1] = "ended"  BY <2>2 DEF W!Last
  <2>8. QED  BY <2>2, <2>3, <2>5, <2>6, <2>7 DEF W!HistoryPairsUp
<1>4. QED  BY <1>2, <1>3

LEMMA SentFits ==
  ASSUME SocketInv, draft = "connecting", draft' = "connected", opened' = opened, history' = W!Sent
  PROVE  /\ W!HistoryPairsUp' /\ HistoryFits'
         /\ history' \in Seq({"sent", "ended"} \X Nat)
<1>1. /\ W!HistoryPairsUp /\ HistoryFits /\ opened \in Nat
      /\ history \in Seq({"sent", "ended"} \X Nat)
  BY DEF SocketInv, SocketTyped
<1>2. /\ Len(history) \in Nat /\ DOMAIN history = 1 .. Len(history) /\ opened > 0
      /\ \A i \in 1 .. Len(history) : history[i][2] # opened /\ history[i][2] \in 1 .. opened
  BY <1>1, LenProperties DEF HistoryFits
<1>3. /\ history' \in Seq({"sent", "ended"} \X Nat) /\ Len(history') = Len(history) + 1
      /\ \A i \in 1 .. Len(history) : history'[i] = history[i]
      /\ history'[Len(history) + 1] = <<"sent", opened>>
      /\ DOMAIN history' = 1 .. (Len(history) + 1)
  BY <1>1, AppendProperties, LenProperties DEF W!Sent
<1>4. HistoryFits'
  <2>1. history' # <<>>  BY <1>2, <1>3, EmptySeq
  <2>2. \A i \in 1 .. (Len(history) + 1) : history'[i][2] \in 1 .. opened /\ history'[i] # <<"ended", opened>>
    BY <1>2, <1>3
  <2>3. QED  BY <1>2, <1>3, <2>1, <2>2 DEF HistoryFits
<1>5. /\ \A i, j \in 1 .. Len(history) : history[i] = history[j] => i = j
      /\ \A i \in 1 .. Len(history) :
           history[i][1] = "ended" => i > 1 /\ history[i - 1] = <<"sent", history[i][2]>>
  BY <1>1, <1>2 DEF W!HistoryPairsUp
<1>6. \A i, j \in 1 .. (Len(history) + 1) : history'[i] = history'[j] => i = j
  BY <1>2, <1>3, <1>5
<1>7. \A i \in 1 .. (Len(history) + 1) :
        history'[i][1] = "ended" => i > 1 /\ history'[i - 1] = <<"sent", history'[i][2]>>
  <2>1. TAKE i \in 1 .. (Len(history) + 1)
  <2>2. HAVE history'[i][1] = "ended"
  <2>3. i \in 1 .. Len(history)
    <3>1. i # Len(history) + 1  BY <1>3, <2>2
    <3>2. QED  BY <1>2, <3>1
  <2>4. i > 1 /\ history[i - 1] = <<"sent", history[i][2]>> /\ history'[i] = history[i]
    BY <1>3, <1>5, <2>2, <2>3
  <2>5. i - 1 \in 1 .. Len(history)  BY <1>2, <2>3, <2>4
  <2>6. QED  BY <1>3, <2>4, <2>5
<1>8. QED  BY <1>3, <1>4, <1>6, <1>7 DEF W!HistoryPairsUp

-----------------------------------------------------------------------------
(***************************************************************************)
(* Steps of the tab.                                                       *)
(***************************************************************************)
LEMMA ConnectKeeps == LimitsAssumed /\ SocketInv /\ W!Connect => SocketInv'
<1> SUFFICES ASSUME LimitsAssumed, SocketInv, W!Connect PROVE SocketInv'  OBVIOUS
<1> USE DEF W!Connect, W!NoReader, W!NoWriter, W!Free
<1>0. SocketTyped /\ QueueFits /\ SocketTaskFits /\ W!HistoryPairsUp /\ HistoryFits  BY DEF SocketInv
<1>1. /\ events' \in [queue : Seq(Events), parked : Seq(Senders), read : BOOLEAN]
      /\ events'.queue = <<>> /\ events'.parked = <<>> /\ events'.read
      /\ Len(events'.queue) = 0 /\ Len(events'.parked) = 0
      /\ \A sender : ~IsParked(sender)'
  BY EmptyFits
<1>2. SocketTyped'  BY <1>0, <1>1 DEF SocketTyped, W!TypeOK, W!IsOpen, LimitsAssumed
<1>3. QueueFits'  BY <1>1 DEF QueueFits, LimitsAssumed
<1>4. SocketTaskFits'  BY <1>0, <1>1 DEF SocketTaskFits
<1>5. W!HistoryPairsUp'  BY <1>0 DEF W!HistoryPairsUp
<1>6. HistoryFits'
  <2>1. opened \in Nat /\ \A i \in 1 .. Len(history) : history[i][2] \in 1 .. opened
    BY <1>0 DEF SocketTyped, HistoryFits
  <2>2. \A i \in 1 .. Len(history) : history[i][2] \in 1 .. (opened + 1) /\ history[i][2] # opened + 1
    BY <2>1
  <2>3. QED  BY <2>1, <2>2 DEF HistoryFits
<1>7. W!BacklogIsExact'  BY DEF W!BacklogIsExact, W!IsOpen
<1>8. WakeFits'  BY DEF WakeFits
<1>9. QED  BY <1>2, <1>3, <1>4, <1>5, <1>6, <1>7, <1>8 DEF SocketInv

\* The draft drops its events, and with them the connection.
LEMMA StopsKeep ==
  ASSUME LimitsAssumed, SocketInv, W!StopsReading, draft' \in {"disconnected", "gone"}, ~held', tab = W!Free,
         UNCHANGED <<tab, opened, task, reader, writer>>,
         history' = IF draft \in {"connected", "closing"} THEN W!Ended ELSE history,
         task.at = "none" => draft' = "gone"
  PROVE  SocketInv'
<1> USE DEF W!StopsReading, W!Wakes
<1>0. SocketTyped /\ QueueFits /\ SocketTaskFits /\ W!HistoryPairsUp /\ HistoryFits /\ WakeFits  BY DEF SocketInv
<1>1. /\ events' \in [queue : Seq(Events), parked : Seq(Senders), read : BOOLEAN]
      /\ events'.queue = <<>> /\ events'.parked = <<>> /\ ~events'.read
      /\ Len(events'.queue) = 0 /\ Len(events'.parked) = 0
      /\ \A sender : ~IsParked(sender)'
  BY EmptyFits
<1>2. /\ W!HistoryPairsUp' /\ HistoryFits' /\ history' \in Seq({"sent", "ended"} \X Nat)
  BY EndedFits
<1>3. SocketTyped'  BY <1>0, <1>1, <1>2 DEF SocketTyped, W!TypeOK, W!IsOpen, LimitsAssumed
<1>4. QueueFits'  BY <1>1 DEF QueueFits, LimitsAssumed
<1>5. SocketTaskFits'  BY <1>0, <1>1 DEF SocketTaskFits, W!IsOpen, W!Free
<1>6. W!BacklogIsExact'  BY <1>1 DEF W!BacklogIsExact
<1>7. WakeFits'  BY <1>0 DEF WakeFits, SocketTyped, W!TypeOK
<1>8. QED  BY <1>2, <1>3, <1>4, <1>5, <1>6, <1>7 DEF SocketInv

LEMMA DisconnectKeeps == LimitsAssumed /\ SocketInv /\ W!Disconnect => SocketInv'
<1> SUFFICES ASSUME LimitsAssumed, SocketInv, W!Disconnect PROVE SocketInv'  OBVIOUS
<1>0. SocketTyped /\ QueueFits /\ SocketTaskFits /\ W!HistoryPairsUp /\ HistoryFits /\ W!BacklogIsExact /\ WakeFits
  BY DEF SocketInv
<1>1. CASE draft = "connecting"
  <2>1. draft' = "disconnected" /\ W!StopsReading  BY <1>1 DEF W!Disconnect, W!Disconnects
  <2>2. task.at # "none"  BY <1>0, <1>1 DEF SocketTaskFits
  <2>3. QED  BY <1>1, <2>1, <2>2, StopsKeep DEF W!Disconnect
<1>2. CASE draft = "connected"
  <2>1. /\ draft' = "closing" /\ held' = FALSE
        /\ UNCHANGED <<tab, history, opened, task, reader, writer, events, backlog, waker>>
    BY <1>2 DEF W!Disconnect, W!Disconnects, W!queueVars
  <2>2. \A sender : IsParked(sender)' <=> IsParked(sender)  BY <2>1 DEF IsParked
  <2>3. SocketTyped'  BY <1>0, <1>2, <2>1 DEF SocketTyped, W!TypeOK, W!IsOpen
  <2>4. QueueFits'  BY <1>0, <2>1, <2>2 DEF QueueFits
  <2>5. SocketTaskFits'  BY <1>0, <1>2, <2>1 DEF SocketTaskFits, W!IsOpen
  <2>6. W!HistoryPairsUp' /\ HistoryFits'  BY <1>0, <1>2, <2>1 DEF W!HistoryPairsUp, HistoryFits
  <2>7. W!BacklogIsExact'  BY <1>0, <2>1 DEF W!BacklogIsExact, W!QueuedBytes, W!IsOpen
  <2>8. WakeFits'  BY <1>0, <2>1 DEF WakeFits
  <2>9. QED  BY <2>3, <2>4, <2>5, <2>6, <2>7, <2>8 DEF SocketInv
<1>3. QED  BY <1>1, <1>2 DEF W!Disconnect

LEMMA CloseTabKeeps == LimitsAssumed /\ SocketInv /\ W!CloseTab => SocketInv'
<1>1. LimitsAssumed /\ SocketInv /\ W!CloseTab => SocketTaskFits  BY DEF SocketInv
<1>2. QED  BY <1>1, StopsKeep DEF W!CloseTab

LEMMA ReadKeeps == LimitsAssumed /\ SocketInv /\ W!Read => SocketInv'
<1> SUFFICES ASSUME LimitsAssumed, SocketInv, W!Read PROVE SocketInv'  OBVIOUS
<1>0. SocketTyped /\ QueueFits /\ SocketTaskFits /\ W!HistoryPairsUp /\ HistoryFits /\ W!BacklogIsExact /\ WakeFits
  BY DEF SocketInv
<1> DEFINE event == Head(events.queue)
<1>1. /\ events.read /\ events.queue # <<>> /\ tab = W!Free
      /\ UNCHANGED <<opened, messages, task, reader, writer, received>>
  BY DEF W!Read
<1>2. task.at \notin {"none", "handshake", "greeting"}  BY <1>0, <1>1 DEF SocketTaskFits
<1>3. CASE W!End
  <2>1. task.at # "none"  BY <1>2
  <2>2. QED  BY <1>1, <1>3, <2>1, StopsKeep DEF W!End
<1>4. CASE ~W!End
  <2>1. /\ events' = [events EXCEPT !.queue = Tail(@), !.parked = IF @ = <<>> THEN @ ELSE Tail(@)]
        /\ tab' = IF event.kind = "received" THEN [at |-> "taking", bytes |-> event.bytes] ELSE W!Free
        /\ UNCHANGED <<held, backlog, waker>>
        /\ \/ draft = "connecting" /\ draft' = "connected" /\ history' = W!Sent
           \/ UNCHANGED <<draft, history>>
    BY <1>4 DEF W!Read
  <2> HIDE DEF event
  <2>2. /\ events' \in [queue : Seq(Events), parked : Seq(Senders), read : BOOLEAN]
        /\ events'.read = events.read
        /\ W!BytesOf(events.queue) = W!BytesOf(events'.queue) + event.bytes
        /\ event \in Events
        /\ Len(events'.queue) <= EVENT_QUEUE + Len(events'.parked)
        /\ Len(events'.queue) <= EVENT_QUEUE + 3
        /\ \A i, j \in 1 .. Len(events'.parked) : events'.parked[i] = events'.parked[j] => i = j
        /\ \A sender : IsParked(sender)' => IsParked(sender)
    BY <1>1, <2>1, ReadFits DEF event
  <2>3. event.bytes \in Nat /\ (event.kind # "received" => event.bytes = 0)  BY <2>2 DEF Events
  <2>4. /\ W!HistoryPairsUp' /\ HistoryFits' /\ history' \in Seq({"sent", "ended"} \X Nat)
    <3>1. CASE draft = "connecting" /\ draft' = "connected" /\ history' = W!Sent
      BY <1>1, <3>1, SentFits
    <3>2. CASE UNCHANGED <<draft, history>>
      BY <1>0, <1>1, <3>2 DEF W!HistoryPairsUp, HistoryFits, SocketTyped
    <3>3. QED  BY <2>1, <3>1, <3>2
  <2>5. SocketTyped'
    BY <1>0, <1>1, <2>1, <2>2, <2>3, <2>4 DEF SocketTyped, W!TypeOK, W!IsOpen, W!Free
  <2>6. QueueFits'
    BY <1>0, <1>1, <2>2 DEF QueueFits
  <2>7. SocketTaskFits'
    BY <1>0, <1>1, <1>2, <2>1, <2>2 DEF SocketTaskFits, W!IsOpen, W!Free
  <2>8. W!BacklogIsExact'
    <3>1. W!BytesOf(events.queue) \in Nat /\ W!BytesOf(events'.queue) \in Nat
      BY <1>0, <2>5, BytesAreNat DEF SocketTyped
    <3>2. tab.at # "taking"  BY <1>1 DEF W!Free
    <3>3. W!QueuedBytes' = W!QueuedBytes
      BY <1>0, <1>1, <2>1, <2>2, <2>3, <3>1, <3>2 DEF W!QueuedBytes, W!Free, SocketTyped
    <3>4. QED  BY <1>0, <1>1, <2>1, <2>2, <3>3 DEF W!BacklogIsExact, W!IsOpen
  <2>9. WakeFits'
    BY <1>0, <1>1, <2>1 DEF WakeFits, W!Free
  <2>10. QED  BY <2>4, <2>5, <2>6, <2>7, <2>8, <2>9 DEF SocketInv
<1>5. QED  BY <1>3, <1>4

LEMMA TakeOffKeeps == LimitsAssumed /\ SocketInv /\ W!TakeOff => SocketInv'
<1> SUFFICES ASSUME LimitsAssumed, SocketInv, W!TakeOff PROVE SocketInv'  OBVIOUS
<1> USE DEF W!TakeOff, W!TakesOff, W!Wakes
<1>0. SocketTyped /\ QueueFits /\ SocketTaskFits /\ W!HistoryPairsUp /\ HistoryFits /\ W!BacklogIsExact /\ WakeFits
  BY DEF SocketInv
<1>r. tab = [at |-> tab.at, bytes |-> tab.bytes] /\ tab.bytes \in Nat /\ backlog \in Int
  BY <1>0 DEF SocketTyped
<1>1. /\ UNCHANGED <<draft, history, opened, held, task, reader, writer, events>>
      /\ tab.at \in {"taking", "waking"} /\ backlog' \in Int
  BY <1>r
<1>2. \A sender : IsParked(sender)' <=> IsParked(sender)  BY <1>1 DEF IsParked
<1>3. SocketTyped'  BY <1>0, <1>r, <1>1 DEF SocketTyped, W!TypeOK, W!IsOpen, W!Free
<1>4. QueueFits'  BY <1>0, <1>1, <1>2 DEF QueueFits
<1>5. SocketTaskFits'  BY <1>0, <1>r, <1>1 DEF SocketTaskFits, W!IsOpen, W!Free
<1>6. W!HistoryPairsUp' /\ HistoryFits'  BY <1>0, <1>1 DEF W!HistoryPairsUp, HistoryFits
<1>7. W!BacklogIsExact'
  <2>1. W!BytesOf(events.queue) \in Nat /\ W!BytesOf(events'.queue) = W!BytesOf(events.queue)
    BY <1>0, <1>1, BytesAreNat DEF SocketTyped
  <2>2. W!QueuedBytes \in Int /\ W!QueuedBytes' \in Int /\ W!QueuedBytes' - W!QueuedBytes = backlog' - backlog
    BY <1>0, <1>r, <1>1, <2>1 DEF W!QueuedBytes, W!Free, SocketTyped
  <2>3. backlog = W!QueuedBytes => backlog' = W!QueuedBytes'  BY <1>r, <1>1, <2>2
  <2>4. backlog' <= backlog  BY <1>r
  <2>5. \A size \in Sizes : backlog < QUEUED_BYTES + size => backlog' < QUEUED_BYTES + size
    BY <1>r, <1>1, <2>4 DEF LimitsAssumed
  <2>6. QED  BY <1>0, <1>1, <2>3, <2>5 DEF W!BacklogIsExact, W!IsOpen
<1>8. WakeFits'
  <2>1. events.read  BY <1>0, <1>1 DEF SocketTaskFits
  <2>2. QED  BY <1>0, <1>r, <1>1, <2>1 DEF WakeFits
<1>9. QED  BY <1>3, <1>4, <1>5, <1>6, <1>7, <1>8 DEF SocketInv

-----------------------------------------------------------------------------
LEMMA SocketStarts == LimitsAssumed /\ W!Init => SocketInv
<1> SUFFICES ASSUME LimitsAssumed, W!Init PROVE SocketInv  OBVIOUS
<1> USE DEF W!Init, W!Free, W!NoReader, W!NoWriter
<1>1. <<>> \in Seq(Events) /\ <<>> \in Seq(Senders) /\ Len(<<>>) = 0
      /\ <<>> \in Seq({"sent", "ended"} \X Nat) /\ DOMAIN <<>> = {}
  BY EmptySeq
<1>2. \A sender : ~IsParked(sender)  BY <1>1 DEF IsParked
<1>3. SocketTyped  BY <1>1 DEF SocketTyped, W!TypeOK, W!IsOpen, LimitsAssumed
<1>4. QueueFits  BY <1>1, <1>2 DEF QueueFits, LimitsAssumed
<1>5. SocketTaskFits  BY DEF SocketTaskFits, W!IsOpen
<1>6. W!HistoryPairsUp /\ HistoryFits  BY <1>1 DEF W!HistoryPairsUp, HistoryFits
<1>7. W!BacklogIsExact /\ WakeFits  BY DEF W!BacklogIsExact, WakeFits
<1>8. QED  BY <1>3, <1>4, <1>5, <1>6, <1>7 DEF SocketInv

LEMMA SocketStepKeeps == LimitsAssumed /\ SocketInv /\ [W!Next]_(W!vars) => SocketInv'
<1> SUFFICES ASSUME LimitsAssumed, SocketInv, [W!Next]_(W!vars) PROVE SocketInv'  OBVIOUS
<1>1. CASE Quiet  BY <1>1, QuietKeeps
<1>2. CASE W!Registers \/ W!Looks  BY <1>2, ReaderKeeps
<1>3. CASE W!Greets \/ W!Farewell \/ W!Pushes \/ W!Reports  BY <1>3, EmittersKeep
<1>4. CASE W!Connect  BY <1>4, ConnectKeeps
<1>5. CASE W!Disconnect  BY <1>5, DisconnectKeeps
<1>6. CASE W!CloseTab  BY <1>6, CloseTabKeeps
<1>7. CASE W!Read  BY <1>7, ReadKeeps
<1>8. CASE W!TakeOff  BY <1>8, TakeOffKeeps
<1>9. CASE UNCHANGED W!vars
  <2>1. UNCHANGED <<draft, tab, history, opened, held, task, reader, writer, events, backlog, waker>>
    BY <1>9 DEF W!vars
  <2>2. \A sender : IsParked(sender)' <=> IsParked(sender)  BY <2>1 DEF IsParked
  <2>3. SocketTyped' /\ QueueFits' /\ SocketTaskFits'
    BY <2>1, <2>2 DEF SocketInv, SocketTyped, W!TypeOK, W!IsOpen, QueueFits, SocketTaskFits
  <2>4. W!HistoryPairsUp' /\ HistoryFits'
    BY <2>1 DEF SocketInv, W!HistoryPairsUp, HistoryFits
  <2>5. W!BacklogIsExact' /\ WakeFits'
    BY <2>1 DEF SocketInv, W!BacklogIsExact, W!QueuedBytes, W!IsOpen, WakeFits
  <2>6. QED  BY <2>3, <2>4, <2>5 DEF SocketInv
<1>10. QED
  BY <1>1, <1>2, <1>3, <1>4, <1>5, <1>6, <1>7, <1>8, <1>9
  DEF W!Next, W!Server, W!User, W!Reader, W!Writer, W!Reads, Quiet

LEMMA SocketInductive == ASSUME LimitsAssumed PROVE W!Spec => []SocketInv
<1>1. W!Init => SocketInv  BY SocketStarts
<1>2. SocketInv /\ [W!Next]_(W!vars) => SocketInv'  BY SocketStepKeeps
<1>3. QED  BY <1>1, <1>2, PTL DEF W!Spec

-----------------------------------------------------------------------------
(***************************************************************************)
(* For any limits and sizes, and any number of messages and connections,   *)
(* every reachable state is well formed: no sender waits for room twice,   *)
(* so the queue never holds more than EVENT_QUEUE events and one of each   *)
(* sender.                                                                 *)
(***************************************************************************)
THEOREM SocketTypeCorrect == ASSUME LimitsAssumed PROVE W!Spec => []W!TypeOK
<1>1. SocketInv => W!TypeOK  BY DEF SocketInv, SocketTyped
<1>2. QED  BY <1>1, SocketInductive, PTL

(***************************************************************************)
(* draft.rs:579: history is told of each connection that was established   *)
(* once, and then once of its end, and of no other.                        *)
(***************************************************************************)
THEOREM HistoryAlwaysPairsUp == ASSUME LimitsAssumed PROVE W!Spec => []W!HistoryPairsUp
<1>1. SocketInv => W!HistoryPairsUp  BY DEF SocketInv
<1>2. QED  BY <1>1, SocketInductive, PTL

(***************************************************************************)
(* websocket.rs:225: while the tab reads an open connection, the bytes     *)
(* counted are those of the events in the queue and at its two ends, and   *)
(* exceed the limit by less than one message.                              *)
(***************************************************************************)
THEOREM BacklogIsAlwaysExact == ASSUME LimitsAssumed PROVE W!Spec => []W!BacklogIsExact
<1>1. SocketInv => W!BacklogIsExact  BY DEF SocketInv
<1>2. QED  BY <1>1, SocketInductive, PTL

(***************************************************************************)
(* websocket.rs:381: a reader that waits is woken already, or the tab has  *)
(* still to take bytes off or to wake it: no wake-up is lost between the   *)
(* look at the bytes and the wait.                                         *)
(***************************************************************************)
SomeoneWakes ==
  W!Parked => \/ waker = "woken" \/ tab.at \in {"taking", "waking"}
              \/ events.read /\ events.queue # <<>>

THEOREM NoWakeIsLost == ASSUME LimitsAssumed PROVE W!Spec => []SomeoneWakes
<1>1. SocketInv => SomeoneWakes
  <2>1. SUFFICES ASSUME SocketInv, W!Parked, waker # "woken", tab.at \notin {"taking", "waking"}
                 PROVE  events.read /\ events.queue # <<>>
    BY DEF SomeoneWakes
  <2>2. backlog >= QUEUED_BYTES /\ backlog # 0  BY <2>1 DEF SocketInv, WakeFits, W!Parked, LimitsAssumed, SocketTyped
  <2>3. events.read  BY <2>1, <2>2 DEF SocketInv, WakeFits, W!Parked, SocketTyped
  <2>4. W!IsOpen  BY <2>1 DEF SocketInv, SocketTyped, W!TypeOK, W!Parked
  <2>5. backlog = W!BytesOf(events.queue) + 0 + 0
    BY <2>1, <2>3, <2>4 DEF SocketInv, W!BacklogIsExact, W!QueuedBytes, W!Parked
  <2>6. QED  BY <2>2, <2>3, <2>5, NoBytes
<1>2. QED  BY <1>1, SocketInductive, PTL

-----------------------------------------------------------------------------
(***************************************************************************)
(* CollectionRunner: any runs, requests, iterations, pauses and choices.   *)
(***************************************************************************)
Names == Nat \X Nat
Executions ==
  [name : Names, at : {"going", "answered"}, dropped : BOOLEAN,
   jar : {"app", "none", "fresh", "copy"}, keeps : BOOLEAN]
Runs ==
  [status : {"none", "running", "paused", "stopped", "complete"}, requests : Nat, iterations : Nat,
   next : Names, sending : BOOLEAN, clock : BOOLEAN, results : Seq(Names), stopOnError : BOOLEAN,
   keepVariables : BOOLEAN, saveCookies : BOOLEAN, jar : {"app", "none", "fresh", "copy"},
   cookies : SUBSET Names, kept : BOOLEAN]

RunTyped ==
  /\ R!TypeOK
  /\ open \in BOOLEAN /\ preparing \in BOOLEAN /\ run \in Runs
  /\ executing \in SUBSET Executions
  /\ appJar \in SUBSET Names /\ session \in SUBSET Names /\ sent \in Nat
  /\ counts \in [choices : Nat, pauses : Nat, runs : Nat]

\* The task is of the run that goes on, and waits for at most one request.
RunTaskFits ==
  /\ runTask # "none" => open /\ R!IsActive
  /\ open /\ R!IsActive => (run.sending <=> runTask = "sending")
  /\ preparing => ~R!IsActive
  /\ \A e \in executing :
       /\ e.name[1] <= R!Number
       /\ e.name[1] = R!Number => e.jar = run.jar /\ e.keeps = run.keepVariables
       /\ ~e.dropped => runTask = "sending" /\ e.name = <<R!Number, sent>>
       /\ e.dropped => e.at = "going"

\* What is kept of earlier runs is not of this one.
NamesFit ==
  /\ \A name \in appJar \union session \union run.cookies : name[1] <= R!Number
  /\ run.status = "none" => run = R!NoRun /\ R!Number = 0 /\ executing = {}

\* Where the cookies of request k are.
Keeps(k) ==
  /\ run.jar = "app" => <<R!Number, k>> \in appJar
  /\ run.jar = "fresh" /\ run.saveCookies =>
       <<R!Number, k>> \in appJar \/ (run.kept /\ <<R!Number, k>> \in run.cookies)
  /\ run.keepVariables => <<R!Number, k>> \in session

CookiesFit ==
  /\ run.saveCookies => run.jar \in {"app", "fresh"}
  /\ ~run.saveCookies /\ run.status # "none" => run.jar # "app" /\ ~run.kept
  /\ run.kept => run.jar = "fresh" /\ ~R!IsOver
  /\ run.jar = "fresh" /\ run.saveCookies /\ ~R!IsOver => run.kept
  /\ \A k \in 1 .. Len(run.results) : Keeps(k)
  /\ \A e \in executing : ~e.dropped /\ e.at = "answered" => Keeps(e.name[2])

Apart ==
  /\ ~run.saveCookies => \A cookie \in appJar : cookie[1] # R!Number
  /\ ~run.keepVariables => \A variable \in session : variable[1] # R!Number

\* Without a choice, requests go out in their order.
Progress ==
  R!IsActive /\ counts.choices = 0 =>
    Len(run.results) = (run.next[1] - 1) * run.requests + (run.next[2] - 1)

RunInv ==
  /\ RunTyped /\ RunTaskFits /\ NamesFit /\ CookiesFit /\ Apart /\ Progress
  /\ R!EachGoesOutOnce /\ R!CompleteRunsSendAll

-----------------------------------------------------------------------------
LEMMA StartKeeps == RunInv /\ R!Start => RunInv'
<1> SUFFICES ASSUME RunInv, R!Start PROVE RunInv'  OBVIOUS
<1>1. preparing' \in BOOLEAN /\ UNCHANGED <<open, run, runTask, executing, appJar, session, sent, counts>>
  BY DEF R!Start
<1>2. R!IsActive' = R!IsActive /\ R!Number' = R!Number /\ R!IsOver' = R!IsOver
  BY <1>1 DEF R!IsActive, R!Number, R!IsOver
<1>3. RunTyped' /\ RunTaskFits' /\ NamesFit'
  <2>1. RunTyped /\ RunTaskFits /\ NamesFit /\ ~R!IsActive  BY DEF RunInv, R!Start
  <2>2. RunTyped'  BY <1>1, <1>2, <2>1 DEF RunTyped, R!TypeOK
  <2>3. RunTaskFits'  BY <1>1, <1>2, <2>1 DEF RunTaskFits
  <2>4. NamesFit'  BY <1>1, <1>2, <2>1 DEF NamesFit
  <2>5. QED  BY <2>2, <2>3, <2>4
<1>4. CookiesFit' /\ Apart'
  BY <1>1, <1>2 DEF RunInv, CookiesFit, Keeps, Apart
<1>5. Progress' /\ R!EachGoesOutOnce' /\ R!CompleteRunsSendAll'
  BY <1>1, <1>2 DEF RunInv, Progress, R!EachGoesOutOnce, R!CompleteRunsSendAll
<1>6. QED  BY <1>3, <1>4, <1>5 DEF RunInv

LEMMA BeginKeeps == ASSUME NEW requests \in Nat, MaxIterations \in Nat, RunInv, R!Begin(requests) PROVE RunInv'
<1>0. RunTyped /\ RunTaskFits /\ NamesFit /\ CookiesFit /\ Apart /\ Progress /\ R!EachGoesOutOnce /\ R!CompleteRunsSendAll
  BY DEF RunInv
<1>1. preparing' \in BOOLEAN /\ UNCHANGED <<open, executing, appJar, session>>
  BY DEF R!Begin
<1>2. CASE requests = 0
  <2>1. UNCHANGED <<run, runTask, sent, counts>>  BY <1>2 DEF R!Begin
  <2>2. R!IsActive' = R!IsActive /\ R!Number' = R!Number /\ R!IsOver' = R!IsOver
    BY <1>1, <2>1 DEF R!IsActive, R!Number, R!IsOver
  <2>3. RunTyped' /\ RunTaskFits' /\ NamesFit'
    <3>1. RunTyped'  BY <1>0, <1>1, <2>1, <2>2 DEF RunTyped, R!TypeOK
    <3>2. RunTaskFits'  BY <1>0, <1>1, <2>1, <2>2 DEF RunTaskFits, R!Begin
    <3>3. NamesFit'  BY <1>0, <1>1, <2>1, <2>2 DEF NamesFit
    <3>4. QED  BY <3>1, <3>2, <3>3
  <2>4. CookiesFit' /\ Apart'
    BY <1>1, <2>1, <2>2 DEF RunInv, CookiesFit, Keeps, Apart
  <2>5. Progress' /\ R!EachGoesOutOnce' /\ R!CompleteRunsSendAll'
    BY <1>1, <2>1, <2>2 DEF RunInv, Progress, R!EachGoesOutOnce, R!CompleteRunsSendAll
  <2>6. QED  BY <2>3, <2>4, <2>5 DEF RunInv
<1>3. CASE requests # 0
  <2>1. PICK jar \in R!Jars, iterations \in 1 .. MaxIterations, stop \in BOOLEAN, keep \in BOOLEAN :
          run' = [status |-> "running", requests |-> requests, iterations |-> iterations,
                  next |-> <<1, 1>>, sending |-> FALSE, clock |-> TRUE, results |-> <<>>,
                  stopOnError |-> stop, keepVariables |-> keep, saveCookies |-> jar.saveCookies,
                  jar |-> jar.jar, cookies |-> jar.cookies, kept |-> jar.kept]
    BY <1>3 DEF R!Begin
  <2>2. /\ runTask' = "waiting" /\ sent' = 0 /\ counts' = [counts EXCEPT !.runs = @ + 1] /\ open
    BY <1>3 DEF R!Begin
  <2>3. /\ R!Number' = R!Number + 1 /\ R!Number \in Nat /\ counts' \in [choices : Nat, pauses : Nat, runs : Nat]
    BY <1>0, <2>2 DEF R!Number, RunTyped
  <2>4. /\ jar.jar \in {"app", "none", "fresh", "copy"} /\ jar.cookies \in SUBSET Names
        /\ jar.kept \in BOOLEAN /\ jar.saveCookies \in BOOLEAN
        /\ \A name \in jar.cookies : name \in appJar
        /\ jar.saveCookies => jar.jar \in {"app", "fresh"}
        /\ ~jar.saveCookies => jar.jar # "app" /\ ~jar.kept
        /\ jar.kept => jar.jar = "fresh"
        /\ jar.jar = "fresh" /\ jar.saveCookies => jar.kept
    <3>1. appJar \in SUBSET Names  BY <1>0 DEF RunTyped
    <3>2. \/ jar = [jar |-> "none", cookies |-> {}, kept |-> FALSE, saveCookies |-> FALSE]
          \/ jar = [jar |-> "fresh", cookies |-> {}, kept |-> TRUE, saveCookies |-> TRUE]
          \/ jar = [jar |-> "fresh", cookies |-> {}, kept |-> FALSE, saveCookies |-> FALSE]
          \/ jar = [jar |-> "app", cookies |-> {}, kept |-> FALSE, saveCookies |-> TRUE]
          \/ jar = [jar |-> "copy", cookies |-> appJar, kept |-> FALSE, saveCookies |-> FALSE]
      BY DEF R!Jars
    <3>3. jar.cookies = {} \/ jar.cookies = appJar  BY <3>2
    <3>4. \/ jar.jar \in {"none", "fresh", "copy"} /\ jar.saveCookies = FALSE /\ jar.kept = FALSE
          \/ jar.jar = "fresh" /\ jar.saveCookies = TRUE /\ jar.kept = TRUE
          \/ jar.jar = "app" /\ jar.saveCookies = TRUE /\ jar.kept = FALSE
      BY <3>2
    <3>5. QED  BY <3>1, <3>3, <3>4
  <2>5. <<>> \in Seq(Names) /\ Len(<<>>) = 0  BY EmptySeq
  <2>6. iterations \in Nat /\ iterations >= 1 /\ requests >= 1  BY <1>3
  <2>7. run' \in Runs /\ run'.status = "running" /\ run'.next = <<1, 1>>
        /\ R!IsActive' /\ ~R!IsOver' /\ Len(run'.results) = 0 /\ ~run'.sending
    BY <1>1, <2>1, <2>2, <2>4, <2>5, <2>6 DEF Runs, Names, R!IsActive, R!IsOver
  <2>8. \A e \in executing : e.dropped /\ e.at = "going" /\ e.name[1] # R!Number' /\ e.name[1] <= R!Number'
    <3>1. ~R!IsActive /\ runTask # "sending"  BY <1>0, <1>3 DEF RunTaskFits, R!Begin
    <3>2. \A e \in executing : e.name[1] <= R!Number /\ e.name[1] \in Nat
      BY <1>0 DEF RunTaskFits, RunTyped, Executions, Names
    <3>3. \A e \in executing : e.dropped /\ e.at = "going"  BY <1>0, <3>1 DEF RunTaskFits
    <3>4. QED  BY <2>3, <3>2, <3>3
  <2>9. \A name \in appJar \union session \union run'.cookies : name[1] # R!Number' /\ name[1] <= R!Number'
    <3>1. \A name \in run'.cookies : name \in appJar  BY <2>1, <2>4
    <3>2. \A name \in appJar \union session : name[1] \in Nat /\ name[1] <= R!Number
      BY <1>0 DEF NamesFit, RunTyped, Names
    <3>3. QED  BY <2>3, <3>1, <3>2
  <2>10. RunTyped'
    <3>1. run'.next \in (1 .. run'.iterations) \X (1 .. run'.requests) /\ run'.clock  BY <2>1, <2>6
    <3>2. run'.next # R!Over  BY <2>7 DEF R!Over
    <3>3. R!TypeOK'  BY <2>2, <2>7, <3>1, <3>2 DEF R!TypeOK
    <3>4. QED  BY <1>0, <1>1, <2>2, <2>3, <2>7, <3>3 DEF RunTyped
  <2>11. RunTaskFits'  BY <1>1, <2>2, <2>7, <2>8 DEF RunTaskFits, R!Begin
  <2>12. NamesFit'  BY <1>1, <2>7, <2>9 DEF NamesFit
  <2>13. CookiesFit'  BY <1>1, <2>1, <2>4, <2>7, <2>8 DEF CookiesFit
  <2>14. Apart'  BY <1>1, <2>9 DEF Apart
  <2>15. Progress'  BY <2>1, <2>6, <2>7 DEF Progress
  <2>16. R!EachGoesOutOnce'  BY <1>1, <2>2, <2>7, <2>8 DEF R!EachGoesOutOnce
  <2>17. R!CompleteRunsSendAll'  BY <2>7 DEF R!CompleteRunsSendAll
  <2>18. QED  BY <2>10, <2>11, <2>12, <2>13, <2>14, <2>15, <2>16, <2>17 DEF RunInv
<1>4. QED  BY <1>2, <1>3

-----------------------------------------------------------------------------
(***************************************************************************)
(* Pausing and resuming.                                                   *)
(***************************************************************************)
LEMMA PauseKeeps == RunInv /\ (R!Pause \/ R!Resume) => RunInv'
<1> SUFFICES ASSUME RunInv, R!Pause \/ R!Resume PROVE RunInv'  OBVIOUS
<1>0. RunTyped /\ RunTaskFits /\ NamesFit /\ CookiesFit /\ Apart /\ Progress /\ R!EachGoesOutOnce /\ R!CompleteRunsSendAll
  BY DEF RunInv
<1>1. /\ open /\ R!IsActive /\ run.status \in {"running", "paused"}
      /\ UNCHANGED <<open, preparing, executing, appJar, session, sent>>
      /\ \/ run' = [run EXCEPT !.status = "paused", !.clock = FALSE]
         \/ run' = [run EXCEPT !.status = "running", !.clock = TRUE]
      /\ runTask' = runTask \/ (~run.sending /\ runTask' = "waiting")
  BY DEF R!Pause, R!Resume, R!PausesRun, R!ResumesTask, R!IsActive
<1>2. /\ counts' \in [choices : Nat, pauses : Nat, runs : Nat]
      /\ counts'.choices = counts.choices /\ R!Number' = R!Number /\ R!Number \in Nat
  BY <1>0 DEF R!Pause, R!Resume, RunTyped, R!Number
<1>3. run \in Runs  BY <1>0 DEF RunTyped
<1>4. /\ run' \in Runs /\ run'.status \in {"running", "paused"} /\ run'.clock = (run'.status = "running")
      /\ run'.requests = run.requests /\ run'.iterations = run.iterations /\ run'.next = run.next
      /\ run'.sending = run.sending /\ run'.results = run.results /\ run'.kept = run.kept
      /\ run'.keepVariables = run.keepVariables /\ run'.saveCookies = run.saveCookies
      /\ run'.jar = run.jar /\ run'.cookies = run.cookies
  BY <1>1, <1>3 DEF Runs
<1>5. R!IsActive' /\ R!IsActive /\ ~R!IsOver' /\ ~R!IsOver  BY <1>1, <1>4 DEF R!IsActive, R!IsOver
<1>6. RunTyped'
  <2>1. R!TypeOK'  BY <1>0, <1>1, <1>4, <1>5 DEF RunTyped, R!TypeOK
  <2>2. QED  BY <1>0, <1>1, <1>2, <1>4, <2>1 DEF RunTyped
<1>7. RunTaskFits'  BY <1>0, <1>1, <1>2, <1>4, <1>5 DEF RunTaskFits
<1>8. NamesFit'  BY <1>0, <1>1, <1>2, <1>4 DEF NamesFit
<1>9. CookiesFit'  BY <1>0, <1>1, <1>2, <1>4, <1>5 DEF CookiesFit, Keeps
<1>10. Apart'  BY <1>0, <1>1, <1>2, <1>4 DEF Apart
<1>11. Progress'  BY <1>0, <1>1, <1>2, <1>4, <1>5 DEF Progress
<1>12. R!EachGoesOutOnce'  BY <1>0, <1>1, <1>2, <1>4, <1>5 DEF R!EachGoesOutOnce
<1>13. R!CompleteRunsSendAll'  BY <1>4 DEF R!CompleteRunsSendAll
<1>14. QED  BY <1>6, <1>7, <1>8, <1>9, <1>10, <1>11, <1>12, <1>13 DEF RunInv

(***************************************************************************)
(* A run that ends: its request is cancelled, and the app takes its        *)
(* cookies if they are to be kept.                                         *)
(***************************************************************************)
LEMMA DroppedFits ==
  ASSUME executing \in SUBSET Executions, R!Dropped
  PROVE  /\ executing' \in SUBSET Executions
         /\ \A e \in executing' : e.dropped /\ e.at = "going" /\ \E f \in executing : e = [f EXCEPT !.dropped = TRUE]
<1>1. \A e \in executing' : \E f \in executing : f.at = "going" /\ e = [f EXCEPT !.dropped = TRUE]
  BY DEF R!Dropped
<1>2. \A f \in Executions :
        [f EXCEPT !.dropped = TRUE] \in Executions /\ [f EXCEPT !.dropped = TRUE].dropped
        /\ [f EXCEPT !.dropped = TRUE].at = f.at
  BY DEF Executions
<1>3. QED  BY <1>1, <1>2

LEMMA EndKeeps == RunInv /\ (R!Stop \/ R!Close) => RunInv'
<1> SUFFICES ASSUME RunInv, R!Stop \/ R!Close PROVE RunInv'  OBVIOUS
<1>0. RunTyped /\ RunTaskFits /\ NamesFit /\ CookiesFit /\ Apart /\ Progress /\ R!EachGoesOutOnce /\ R!CompleteRunsSendAll
  BY DEF RunInv
<1>1. /\ open /\ runTask' = "none" /\ R!Dropped /\ R!TakesCookies
      /\ UNCHANGED <<session, sent, counts>>
      /\ open' \in BOOLEAN /\ preparing' \in BOOLEAN
      /\ \/ /\ R!IsActive /\ open' = open /\ preparing' = preparing
            /\ run' = [run EXCEPT !.status = "stopped", !.sending = FALSE, !.clock = FALSE, !.kept = FALSE]
         \/ run' = [run EXCEPT !.kept = FALSE] /\ ~open' /\ ~preparing'
  BY <1>0 DEF R!Stop, R!Close, R!Finishes, RunTyped
<1>2. R!Number' = R!Number /\ R!Number \in Nat  BY <1>0, <1>1 DEF RunTyped, R!Number
<1>3. run \in Runs /\ executing \in SUBSET Executions  BY <1>0 DEF RunTyped
<1>4. /\ run' \in Runs /\ run'.status \in {run.status, "stopped"} /\ run'.clock = (run'.status = "running")
      /\ run'.requests = run.requests /\ run'.iterations = run.iterations /\ run'.next = run.next
      /\ run'.results = run.results /\ run'.kept = FALSE
      /\ run'.keepVariables = run.keepVariables /\ run'.saveCookies = run.saveCookies
      /\ run'.jar = run.jar /\ run'.cookies = run.cookies /\ run'.stopOnError = run.stopOnError
      /\ run.status = "none" => run'.status = "none" /\ run' = [run EXCEPT !.kept = FALSE]
  BY <1>0, <1>1, <1>3 DEF Runs, R!IsActive, RunTyped, R!TypeOK
<1>5. /\ executing' \in SUBSET Executions
      /\ \A e \in executing' : e.dropped /\ e.at = "going" /\ \E f \in executing : e.name = f.name /\ e.jar = f.jar /\ e.keeps = f.keeps
  <2>1. \A f \in Executions : LET e == [f EXCEPT !.dropped = TRUE] IN
          e.name = f.name /\ e.jar = f.jar /\ e.keeps = f.keeps
    BY DEF Executions
  <2>2. /\ executing' \in SUBSET Executions
        /\ \A e \in executing' : e.dropped /\ e.at = "going" /\ \E f \in executing : e = [f EXCEPT !.dropped = TRUE]
    BY <1>1, <1>3, DroppedFits
  <2>3. ASSUME NEW e \in executing'
        PROVE  e.dropped /\ e.at = "going" /\ \E f \in executing : e.name = f.name /\ e.jar = f.jar /\ e.keeps = f.keeps
    <3>1. PICK f \in executing : e = [f EXCEPT !.dropped = TRUE]  BY <2>2
    <3>2. f \in Executions  BY <1>3
    <3>3. e.name = f.name /\ e.jar = f.jar /\ e.keeps = f.keeps  BY <2>1, <3>1, <3>2
    <3>4. QED  BY <2>2, <3>3
  <2>4. QED  BY <2>2, <2>3
<1>6. ~(open' /\ R!IsActive') /\ (R!IsActive' => R!IsActive) /\ (preparing' => ~R!IsActive')
  <2>1. CASE /\ R!IsActive /\ open' = open /\ preparing' = preparing
             /\ run' = [run EXCEPT !.status = "stopped", !.sending = FALSE, !.clock = FALSE, !.kept = FALSE]
    <3>1. run'.status = "stopped"  BY <1>3, <2>1 DEF Runs
    <3>2. QED  BY <3>1 DEF R!IsActive
  <2>2. CASE run' = [run EXCEPT !.kept = FALSE] /\ ~open' /\ ~preparing'
    <3>1. run'.status = run.status  BY <1>3, <2>2 DEF Runs
    <3>2. QED  BY <2>2, <3>1 DEF R!IsActive
  <2>3. QED  BY <1>1, <2>1, <2>2
<1>7. /\ appJar' \in SUBSET Names
      /\ \A name \in appJar : name \in appJar'
      /\ \A name \in appJar' : name \in appJar \/ (run.kept /\ name \in run.cookies)
      /\ run.kept => \A name \in run.cookies : name \in appJar'
  BY <1>0, <1>1, <1>3 DEF R!TakesCookies, RunTyped, Runs
<1>8. RunTyped'
  <2>1. R!TypeOK'  BY <1>0, <1>1, <1>4, <1>6 DEF RunTyped, R!TypeOK
  <2>2. QED  BY <1>0, <1>1, <1>4, <1>5, <1>7, <2>1 DEF RunTyped
<1>9. RunTaskFits'
  <2>1. preparing' => ~R!IsActive'  BY <1>6
  <2>2. \A e \in executing' : e.name[1] <= R!Number' /\ (e.name[1] = R!Number' => e.jar = run'.jar /\ e.keeps = run'.keepVariables)
    BY <1>0, <1>2, <1>4, <1>5 DEF RunTaskFits
  <2>3. QED  BY <1>1, <1>5, <1>6, <2>1, <2>2 DEF RunTaskFits
<1>10. NamesFit'
  <2>1. \A name \in appJar' \union session' \union run'.cookies : name[1] <= R!Number'
    BY <1>0, <1>1, <1>2, <1>4, <1>7 DEF NamesFit
  <2>2. run'.status = "none" => run' = R!NoRun /\ R!Number' = 0 /\ executing' = {}
    BY <1>0, <1>2, <1>4, <1>5 DEF NamesFit, R!NoRun
  <2>3. QED  BY <2>1, <2>2 DEF NamesFit
<1>11. CookiesFit'
  <2>1. \A k : Keeps(k) => Keeps(k)'  BY <1>1, <1>2, <1>4, <1>7 DEF Keeps
  <2>2. R!IsOver' \/ run'.jar = "app"
    <3>1. CASE run.status = "none"  BY <1>0, <1>4, <3>1 DEF NamesFit, R!NoRun
    <3>2. CASE run.status # "none"
      BY <1>0, <1>4, <1>6, <3>2 DEF R!IsOver, R!IsActive, RunTyped, R!TypeOK
    <3>3. QED  BY <3>1, <3>2
  <2>3. QED  BY <1>0, <1>4, <1>5, <2>1, <2>2 DEF CookiesFit
<1>12. Apart'
  <2>1. run.kept => run.saveCookies
    BY <1>0, <1>3 DEF CookiesFit, NamesFit, R!NoRun
  <2>2. QED  BY <1>0, <1>1, <1>2, <1>4, <1>7, <2>1 DEF Apart
<1>13. Progress'  BY <1>0, <1>1, <1>4, <1>6 DEF Progress
<1>14. R!EachGoesOutOnce'
  <2>1. sent \in {Len(run.results), Len(run.results) + 1}
    BY <1>0, <1>3, LenProperties DEF R!EachGoesOutOnce, Runs
  <2>2. QED  BY <1>1, <1>4, <1>5, <1>6, <2>1 DEF R!EachGoesOutOnce
<1>15. R!CompleteRunsSendAll'  BY <1>0, <1>1, <1>4 DEF R!CompleteRunsSendAll
<1>16. QED  BY <1>8, <1>9, <1>10, <1>11, <1>12, <1>13, <1>14, <1>15 DEF RunInv

-----------------------------------------------------------------------------
(***************************************************************************)
(* Sending a request, and what it does.                                    *)
(***************************************************************************)
LEMMA SendKeeps == RunInv /\ R!Send => RunInv'
<1> SUFFICES ASSUME RunInv, R!Send PROVE RunInv'  OBVIOUS
<1>0. RunTyped /\ RunTaskFits /\ NamesFit /\ CookiesFit /\ Apart /\ Progress /\ R!EachGoesOutOnce /\ R!CompleteRunsSendAll
  BY DEF RunInv
<1>1. runTask = "waiting" /\ UNCHANGED <<open, preparing, appJar, session, counts>>  BY DEF R!Send
<1>2. open /\ R!IsActive /\ ~run.sending /\ (\A e \in executing : e.dropped)  BY <1>0, <1>1 DEF RunTaskFits
<1>3. run \in Runs /\ executing \in SUBSET Executions /\ sent \in Nat /\ R!Number \in Nat
  BY <1>0 DEF RunTyped, R!Number
<1>4. R!Number' = R!Number  BY <1>1 DEF R!Number
<1>5. CASE ~R!MaySend
  <2>1. runTask' = "none" /\ UNCHANGED <<run, sent, executing>>  BY <1>5 DEF R!Send
  <2>2. R!IsActive' = R!IsActive /\ R!IsOver' = R!IsOver  BY <1>1, <2>1 DEF R!IsActive, R!IsOver
  <2>3. RunTyped'  BY <1>0, <1>1, <2>1, <2>2 DEF RunTyped, R!TypeOK
  <2>4. RunTaskFits'  BY <1>0, <1>1, <1>2, <1>4, <2>1, <2>2 DEF RunTaskFits
  <2>5. NamesFit' /\ Apart'  BY <1>0, <1>1, <1>4, <2>1 DEF NamesFit, Apart
  <2>6. CookiesFit'  BY <1>0, <1>1, <1>4, <2>1, <2>2 DEF CookiesFit, Keeps
  <2>7. Progress' /\ R!EachGoesOutOnce' /\ R!CompleteRunsSendAll'
    BY <1>0, <1>1, <2>1, <2>2 DEF Progress, R!EachGoesOutOnce, R!CompleteRunsSendAll
  <2>8. QED  BY <2>3, <2>4, <2>5, <2>6, <2>7 DEF RunInv
<1>6. CASE R!MaySend
  <2> DEFINE e0 == [name |-> <<R!Number, sent + 1>>, at |-> "going", dropped |-> FALSE,
                    jar |-> run.jar, keeps |-> run.keepVariables]
  <2>1. /\ run' = [run EXCEPT !.sending = TRUE] /\ runTask' = "sending" /\ sent' = sent + 1
        /\ executing' = executing \union {e0}
    BY <1>6 DEF R!Send
  <2>2. /\ e0 \in Executions /\ e0.name = <<R!Number, sent + 1>> /\ e0.at = "going" /\ ~e0.dropped
        /\ e0.jar = run.jar /\ e0.keeps = run.keepVariables
    BY <1>3 DEF Executions, Names, Runs
  <2> HIDE DEF e0
  <2>3. /\ run' \in Runs /\ run'.status = run.status /\ run'.clock = run.clock
        /\ run'.requests = run.requests /\ run'.iterations = run.iterations /\ run'.next = run.next
        /\ run'.results = run.results /\ run'.kept = run.kept /\ run'.sending
        /\ run'.keepVariables = run.keepVariables /\ run'.saveCookies = run.saveCookies
        /\ run'.jar = run.jar /\ run'.cookies = run.cookies /\ run'.stopOnError = run.stopOnError
    BY <1>3, <2>1 DEF Runs
  <2>4. R!IsActive' = R!IsActive /\ R!IsOver' = R!IsOver  BY <1>1, <2>3 DEF R!IsActive, R!IsOver
  <2>5. RunTyped'
    <3>1. R!TypeOK'  BY <1>0, <1>1, <2>1, <2>3, <2>4 DEF RunTyped, R!TypeOK
    <3>2. QED  BY <1>0, <1>1, <1>3, <2>1, <2>2, <2>3, <3>1 DEF RunTyped
  <2>6. RunTaskFits'
    <3>1. \A e \in executing' : e \in executing \/ e = e0  BY <2>1
    <3>2. e0.name[1] = R!Number /\ R!Number <= R!Number  BY <1>3, <2>2
    <3>3. QED  BY <1>0, <1>1, <1>2, <1>4, <2>1, <2>2, <2>3, <2>4, <3>1, <3>2 DEF RunTaskFits
  <2>7. NamesFit'
    <3>1. run.status # "none"  BY <1>2 DEF R!IsActive
    <3>2. QED  BY <1>0, <1>1, <1>4, <2>3, <3>1 DEF NamesFit
  <2>8. Apart'  BY <1>0, <1>1, <1>4, <2>3 DEF Apart
  <2>9. CookiesFit'
    <3>1. \A k : Keeps(k) => Keeps(k)'  BY <1>1, <1>4, <2>3 DEF Keeps
    <3>2. \A e \in executing' : ~e.dropped => e.at = "going"  BY <1>2, <2>1, <2>2
    <3>3. QED  BY <1>0, <2>3, <2>4, <3>1, <3>2 DEF CookiesFit
  <2>10. Progress' /\ R!CompleteRunsSendAll'
    BY <1>0, <1>1, <2>3, <2>4 DEF Progress, R!CompleteRunsSendAll
  <2>11. R!EachGoesOutOnce'
    <3>1. sent = Len(run.results) /\ Len(run.results) \in Nat
      BY <1>0, <1>2, <1>3, LenProperties DEF R!EachGoesOutOnce, Runs
    <3>2. \A e, f \in executing' : ~e.dropped /\ ~f.dropped => e = f  BY <1>2, <2>1
    <3>3. QED  BY <1>1, <1>2, <2>1, <2>3, <2>4, <3>1, <3>2 DEF R!EachGoesOutOnce
  <2>12. QED  BY <2>5, <2>6, <2>7, <2>8, <2>9, <2>10, <2>11 DEF RunInv
<1>7. QED  BY <1>5, <1>6

\* What the request leaves is where its results will look for it.
LEMMA ExecuteKeeps == ASSUME NEW e, RunInv, R!Execute(e) PROVE RunInv'
<1>0. RunTyped /\ RunTaskFits /\ NamesFit /\ CookiesFit /\ Apart /\ Progress /\ R!EachGoesOutOnce /\ R!CompleteRunsSendAll
  BY DEF RunInv
<1>1. /\ e \in executing /\ e.at = "going" /\ UNCHANGED <<open, preparing, runTask, sent, counts>>
      /\ session' = (IF e.keeps THEN session \union {e.name} ELSE session)
      /\ appJar' = (IF e.jar = "app" THEN appJar \union {e.name} ELSE appJar)
  BY DEF R!Execute, R!SetsVariables
<1>2. /\ run \in Runs /\ executing \in SUBSET Executions /\ e \in Executions /\ R!Number \in Nat /\ R!Number' = R!Number
  BY <1>0, <1>1 DEF RunTyped, R!Number
<1>3. e.name \in Names /\ e.name[1] \in Nat /\ e.name[1] <= R!Number /\ e.jar \in {"app", "none", "fresh", "copy"}
  BY <1>0, <1>1, <1>2 DEF Executions, Names, RunTaskFits
<1>4. e.name[1] = R!Number => e.jar = run.jar /\ e.keeps = run.keepVariables
  BY <1>0, <1>1 DEF RunTaskFits
<1>5. /\ run' \in Runs /\ run'.status = run.status /\ run'.clock = run.clock
      /\ run'.requests = run.requests /\ run'.iterations = run.iterations /\ run'.next = run.next
      /\ run'.results = run.results /\ run'.kept = run.kept /\ run'.sending = run.sending
      /\ run'.keepVariables = run.keepVariables /\ run'.saveCookies = run.saveCookies
      /\ run'.jar = run.jar /\ run'.stopOnError = run.stopOnError
      /\ \A name \in run.cookies : name \in run'.cookies
      /\ \A name \in run'.cookies : name \in run.cookies \/ name = e.name
      /\ e.jar = "fresh" /\ e.name[1] = R!Number => e.name \in run'.cookies
      /\ run' = run \/ (e.jar \in {"fresh", "copy"} /\ e.name[1] = R!Number)
  <2>1. CASE e.jar \in {"fresh", "copy"} /\ e.name[1] = R!Number
    <3>1. run' = [run EXCEPT !.cookies = @ \union {e.name}]  BY <2>1 DEF R!Execute
    <3>2. QED  BY <1>2, <1>3, <2>1, <3>1 DEF Runs
  <2>2. CASE ~(e.jar \in {"fresh", "copy"} /\ e.name[1] = R!Number)
    <3>1. run' = run  BY <2>2 DEF R!Execute
    <3>2. QED  BY <1>2, <2>2, <3>1
  <2>3. QED  BY <2>1, <2>2
<1>6. R!IsActive' = R!IsActive /\ R!IsOver' = R!IsOver  BY <1>1, <1>5 DEF R!IsActive, R!IsOver
<1> DEFINE e1 == [e EXCEPT !.at = "answered"]
<1>7. /\ e1 \in Executions /\ e1.name = e.name /\ e1.dropped = e.dropped /\ e1.jar = e.jar /\ e1.keeps = e.keeps
  BY <1>2 DEF Executions
<1>8. \A f \in executing' : f \in executing \/ (f = e1 /\ ~e.dropped)
  BY DEF R!Execute
<1>9. \A f \in executing' : f = e1 \/ f # e
  BY DEF R!Execute
<1> HIDE DEF e1
<1>10. appJar' \in SUBSET Names /\ session' \in SUBSET Names
  BY <1>0, <1>1, <1>3 DEF RunTyped
<1>11. RunTyped'
  <2>1. R!TypeOK'  BY <1>0, <1>1, <1>5, <1>6 DEF RunTyped, R!TypeOK
  <2>2. executing' \in SUBSET Executions  BY <1>2, <1>7, <1>8
  <2>3. QED  BY <1>0, <1>1, <1>5, <1>10, <2>1, <2>2 DEF RunTyped
<1>12. RunTaskFits'
  <2>1. ASSUME NEW f \in executing'
        PROVE  /\ f.name[1] <= R!Number
               /\ f.name[1] = R!Number => f.jar = run.jar /\ f.keeps = run.keepVariables
               /\ ~f.dropped => runTask = "sending" /\ f.name = <<R!Number, sent>>
               /\ f.dropped => f.at = "going"
    <3>1. CASE f \in executing  BY <1>0, <3>1 DEF RunTaskFits
    <3>2. CASE f = e1 /\ ~e.dropped  BY <1>0, <1>1, <1>3, <1>4, <1>7, <3>2 DEF RunTaskFits
    <3>3. QED  BY <1>8, <3>1, <3>2
  <2>2. QED  BY <1>0, <1>1, <1>2, <1>5, <1>6, <2>1 DEF RunTaskFits
<1>13. NamesFit'
  <2>1. \A name \in appJar' \union session' \union run'.cookies : name[1] <= R!Number'
    BY <1>0, <1>1, <1>2, <1>3, <1>5 DEF NamesFit
  <2>2. run.status # "none"  BY <1>0, <1>1 DEF NamesFit
  <2>3. QED  BY <1>5, <2>1, <2>2 DEF NamesFit
<1>14. Apart'
  <2>1. ~run.saveCookies /\ run.status # "none" => run.jar # "app"  BY <1>0 DEF CookiesFit
  <2>2. run.status # "none"  BY <1>0, <1>1 DEF NamesFit
  <2>3. QED  BY <1>0, <1>1, <1>2, <1>4, <1>5, <2>1, <2>2 DEF Apart
<1>15. CookiesFit'
  <2>1. \A k : Keeps(k) => Keeps(k)'  BY <1>1, <1>2, <1>5 DEF Keeps
  <2>2. ASSUME ~e.dropped PROVE Keeps(e.name[2])'
    <3>1. e.name = <<R!Number, sent>> /\ open /\ R!IsActive  BY <1>0, <1>1, <2>2 DEF RunTaskFits
    <3>2. run.jar = "fresh" /\ run.saveCookies => run.kept
      BY <1>0, <3>1 DEF CookiesFit, R!IsOver, R!IsActive
    <3>3. e.name[1] = R!Number /\ <<R!Number, e.name[2]>> = e.name  BY <3>1
    <3>4. QED  BY <1>1, <1>2, <1>4, <1>5, <3>2, <3>3 DEF Keeps
  <2>3. \A f \in executing' : ~f.dropped /\ f.at = "answered" => Keeps(f.name[2])'
    BY <1>0, <1>7, <1>8, <2>1, <2>2 DEF CookiesFit
  <2>4. \A k \in 1 .. Len(run'.results) : Keeps(k)'  BY <1>0, <1>5, <2>1 DEF CookiesFit
  <2>5. QED  BY <1>0, <1>5, <1>6, <2>3, <2>4 DEF CookiesFit
<1>16. Progress' /\ R!CompleteRunsSendAll'
  BY <1>0, <1>1, <1>5, <1>6 DEF Progress, R!CompleteRunsSendAll
<1>17. R!EachGoesOutOnce'
  <2>1. \A f, g \in executing' : ~f.dropped /\ ~g.dropped => f = g
    BY <1>0, <1>1, <1>7, <1>8, <1>9 DEF R!EachGoesOutOnce
  <2>2. QED  BY <1>0, <1>1, <1>5, <1>6, <2>1 DEF R!EachGoesOutOnce
<1>18. QED  BY <1>11, <1>12, <1>13, <1>14, <1>15, <1>16, <1>17 DEF RunInv

LEMMA CancelledKeeps == ASSUME NEW e, RunInv, R!Cancelled(e) PROVE RunInv'
<1>0. RunTyped /\ RunTaskFits /\ NamesFit /\ CookiesFit /\ Apart /\ Progress /\ R!EachGoesOutOnce /\ R!CompleteRunsSendAll
  BY DEF RunInv
<1>1. /\ executing' \in SUBSET executing
      /\ UNCHANGED <<open, preparing, run, runTask, appJar, session, sent, counts>>
  BY DEF R!Cancelled
<1>2. R!IsActive' = R!IsActive /\ R!Number' = R!Number /\ R!IsOver' = R!IsOver
  BY <1>1 DEF R!IsActive, R!Number, R!IsOver
<1>3. RunTyped' /\ RunTaskFits'
  BY <1>0, <1>1, <1>2 DEF RunTyped, R!TypeOK, RunTaskFits
<1>4. NamesFit' /\ Apart' /\ CookiesFit'
  BY <1>0, <1>1, <1>2 DEF NamesFit, Apart, CookiesFit, Keeps
<1>5. Progress' /\ R!EachGoesOutOnce' /\ R!CompleteRunsSendAll'
  BY <1>0, <1>1, <1>2 DEF Progress, R!EachGoesOutOnce, R!CompleteRunsSendAll
<1>6. QED  BY <1>3, <1>4, <1>5 DEF RunInv

-----------------------------------------------------------------------------
(***************************************************************************)
(* Recording a result.                                                     *)
(***************************************************************************)
LEMMA AdvancedFits ==
  ASSUME run \in Runs, run.next \in (1 .. run.iterations) \X (1 .. run.requests), NEW choice \in R!Chosen
  PROVE  /\ R!Advanced(choice) \in {R!Over} \union ((1 .. run.iterations) \X (1 .. run.requests))
         /\ choice = {} =>
              IF run.next[2] < run.requests THEN R!Advanced(choice) = <<run.next[1], run.next[2] + 1>>
              ELSE R!Advanced(choice) = IF run.next[1] = run.iterations THEN R!Over ELSE <<run.next[1] + 1, 1>>
<1>1. /\ run.iterations \in Nat /\ run.requests \in Nat
      /\ run.next[1] \in 1 .. run.iterations /\ run.next[2] \in 1 .. run.requests
  BY DEF Runs
<1> DEFINE index == R!Index(choice, run.next[2])
<1>2. R!Advanced(choice) = IF index # 0 THEN <<run.next[1], index>>
                         ELSE IF run.next[1] = run.iterations THEN R!Over ELSE <<run.next[1] + 1, 1>>
  BY DEF R!Advanced, R!IsLast, R!NextStart
<1>3. choice = {} => index = IF run.next[2] < run.requests THEN run.next[2] + 1 ELSE 0
  BY DEF R!Index
<1>4. index \in 0 .. run.requests
  <2>1. CASE choice = {}  BY <1>1, <1>3, <2>1
  <2>2. CASE choice # {}
    <3>1. PICK i \in 0 .. run.requests : choice = {i}  BY <2>2 DEF R!Chosen
    <3>2. index \in choice  BY <2>2 DEF R!Index
    <3>3. QED  BY <3>1, <3>2
  <2>3. QED  BY <2>1, <2>2
<1> HIDE DEF index
<1>5. 1 <= run.requests  BY <1>1
<1>6. R!Advanced(choice) \in {R!Over} \union ((1 .. run.iterations) \X (1 .. run.requests))
  <2>1. CASE index # 0  BY <1>1, <1>2, <1>4, <2>1
  <2>2. CASE index = 0 /\ run.next[1] = run.iterations  BY <1>2, <2>2
  <2>3. CASE index = 0 /\ run.next[1] # run.iterations
    <3>1. run.next[1] + 1 \in 1 .. run.iterations  BY <1>1, <2>3
    <3>2. QED  BY <1>1, <1>2, <1>5, <2>3, <3>1
  <2>4. QED  BY <2>1, <2>2, <2>3
<1>7. choice = {} =>
        IF run.next[2] < run.requests THEN R!Advanced(choice) = <<run.next[1], run.next[2] + 1>>
        ELSE R!Advanced(choice) = IF run.next[1] = run.iterations THEN R!Over ELSE <<run.next[1] + 1, 1>>
  BY <1>1, <1>2, <1>3
<1>8. QED  BY <1>6, <1>7

LEMMA RowEnds == \A i, r \in Nat : (i - 1) * r + r = i * r /\ i * r = r * i
  BY SMT

LEMMA RecordKeeps ==
  ASSUME NEW e \in executing, NEW choice \in R!Chosen, NEW error \in BOOLEAN, RunInv, R!Record(e, choice, error)
  PROVE  RunInv'
<1>0. RunTyped /\ RunTaskFits /\ NamesFit /\ CookiesFit /\ Apart /\ Progress /\ R!EachGoesOutOnce /\ R!CompleteRunsSendAll
  BY DEF RunInv
<1> DEFINE ends     == error /\ run.stopOnError
           to       == IF ends THEN R!Over ELSE R!Advanced(choice)
           recorded == [run EXCEPT !.sending = FALSE, !.results = Append(@, run.next), !.next = to]
<1>1. /\ runTask = "sending" /\ e.at = "answered" /\ executing' = executing \ {e}
      /\ UNCHANGED <<open, preparing, session, sent>>
      /\ counts' = [counts EXCEPT !.choices = IF choice = {} THEN @ ELSE @ + 1]
  BY DEF R!Record
<1>2. /\ run \in Runs /\ executing \in SUBSET Executions /\ counts \in [choices : Nat, pauses : Nat, runs : Nat]
  BY <1>0 DEF RunTyped
<1>3. /\ counts' \in [choices : Nat, pauses : Nat, runs : Nat] /\ R!Number' = R!Number /\ R!Number \in Nat
      /\ counts'.choices = 0 => counts.choices = 0 /\ choice = {}
  BY <1>1, <1>2 DEF R!Number
<1>4. /\ open /\ R!IsActive /\ ~R!IsOver /\ run.sending /\ ~e.dropped /\ e.name = <<R!Number, sent>>
      /\ run.status \in {"running", "paused"}
  BY <1>0, <1>1 DEF RunTaskFits, R!IsActive, R!IsOver
<1>5. /\ run.next \in (1 .. run.iterations) \X (1 .. run.requests)
      /\ run.next \in Names /\ run.iterations \in Nat /\ run.requests \in Nat
      /\ run.next[1] \in 1 .. run.iterations /\ run.next[2] \in 1 .. run.requests
  BY <1>0, <1>2, <1>4 DEF RunTyped, R!TypeOK, Runs, Names
<1>6. /\ run.results \in Seq(Names) /\ Append(run.results, run.next) \in Seq(Names)
      /\ Len(run.results) \in Nat /\ Len(Append(run.results, run.next)) = Len(run.results) + 1
  BY <1>2, <1>5, AppendProperties, LenProperties DEF Runs
<1>7. sent = Len(run.results) + 1  BY <1>0, <1>4 DEF R!EachGoesOutOnce
<1>8. to \in {R!Over} \union ((1 .. run.iterations) \X (1 .. run.requests)) /\ to \in Names
  <2>1. to \in {R!Over} \union ((1 .. run.iterations) \X (1 .. run.requests))
    BY <1>2, <1>5, AdvancedFits
  <2>2. QED  BY <1>5, <2>1 DEF R!Over, Names
<1>9. \A f \in executing' : f \in executing /\ f.dropped /\ f.at = "going"
  BY <1>0, <1>1, <1>4 DEF R!EachGoesOutOnce, RunTaskFits
<1>10. \A k \in 1 .. Len(run.results) + 1 : Keeps(k)
  <2>1. Keeps(sent)  BY <1>0, <1>1, <1>4 DEF CookiesFit
  <2>2. \A k \in 1 .. Len(run.results) + 1 : k \in 1 .. Len(run.results) \/ k = sent  BY <1>6, <1>7
  <2>3. QED  BY <1>0, <2>1, <2>2 DEF CookiesFit
<1>11. ASSUME counts'.choices = 0, ~ends
       PROVE  IF to = R!Over THEN Len(run.results) + 1 = run.requests * run.iterations
              ELSE Len(run.results) + 1 = (to[1] - 1) * run.requests + (to[2] - 1)
  <2>1. Len(run.results) = (run.next[1] - 1) * run.requests + (run.next[2] - 1)
    BY <1>0, <1>3, <1>4, <1>11 DEF Progress
  <2>2. to = IF run.next[2] < run.requests THEN <<run.next[1], run.next[2] + 1>>
             ELSE IF run.next[1] = run.iterations THEN R!Over ELSE <<run.next[1] + 1, 1>>
    BY <1>2, <1>3, <1>5, <1>11, AdvancedFits
  <2> HIDE DEF to
  <2> DEFINE before == (run.next[1] - 1) * run.requests
  <2>3. /\ before + run.requests = run.next[1] * run.requests
        /\ run.next[1] * run.requests = run.requests * run.next[1]
        /\ before \in Int
    BY <1>5, RowEnds
  <2>4. Len(run.results) = before + (run.next[2] - 1)  BY <2>1
  <2>5. CASE run.next[2] < run.requests
    <3>1. to = <<run.next[1], run.next[2] + 1>> /\ to # R!Over  BY <1>5, <2>2, <2>5 DEF R!Over
    <3>2. (to[1] - 1) * run.requests = before /\ to[2] = run.next[2] + 1  BY <3>1
    <3> HIDE DEF before
    <3>3. Len(run.results) + 1 = before + (to[2] - 1)  BY <1>5, <2>3, <2>4, <3>2
    <3>4. QED  BY <3>1, <3>2, <3>3
  <2>6. CASE run.next[2] = run.requests /\ run.next[1] = run.iterations
    <3>1. to = R!Over  BY <1>5, <2>2, <2>6
    <3> HIDE DEF before
    <3>2. Len(run.results) + 1 = before + run.requests  BY <1>5, <2>3, <2>4, <2>6
    <3>3. QED  BY <2>3, <2>6, <3>1, <3>2
  <2>7. CASE run.next[2] = run.requests /\ run.next[1] # run.iterations
    <3>1. to = <<run.next[1] + 1, 1>> /\ to # R!Over  BY <1>5, <2>2, <2>7 DEF R!Over
    <3>2. to[1] - 1 = run.next[1] /\ to[2] - 1 = 0  BY <1>5, <3>1
    <3> HIDE DEF before
    <3>3. Len(run.results) + 1 = before + run.requests  BY <1>5, <2>3, <2>4, <2>7
    <3>4. Len(run.results) + 1 = run.next[1] * run.requests  BY <2>3, <3>3
    <3>5. Len(run.results) + 1 = run.next[1] * run.requests + 0  BY <1>6, <3>4
    <3>6. QED  BY <3>1, <3>2, <3>5
  <2>8. QED  BY <1>5, <2>5, <2>6, <2>7
<1>12. /\ recorded \in Runs /\ recorded.status = run.status /\ recorded.clock = run.clock
       /\ recorded.requests = run.requests /\ recorded.iterations = run.iterations /\ recorded.next = to
       /\ recorded.results = Append(run.results, run.next) /\ recorded.kept = run.kept /\ ~recorded.sending
       /\ recorded.keepVariables = run.keepVariables /\ recorded.saveCookies = run.saveCookies
       /\ recorded.jar = run.jar /\ recorded.cookies = run.cookies /\ recorded.stopOnError = run.stopOnError
  BY <1>2, <1>6, <1>8 DEF Runs
<1>13. CASE to = R!Over
  <2>1. /\ run' = [recorded EXCEPT !.status = "complete", !.sending = FALSE, !.clock = FALSE, !.kept = FALSE]
        /\ runTask' = "none" /\ R!TakesCookies
    BY <1>12, <1>13 DEF R!Record, R!Finishes
  <2> HIDE DEF recorded
  <2>2. /\ run' \in Runs /\ run'.status = "complete" /\ run'.clock = FALSE
        /\ run'.requests = run.requests /\ run'.iterations = run.iterations /\ run'.next = R!Over
        /\ run'.results = Append(run.results, run.next) /\ ~run'.kept /\ ~run'.sending
        /\ run'.keepVariables = run.keepVariables /\ run'.saveCookies = run.saveCookies
        /\ run'.jar = run.jar /\ run'.cookies = run.cookies /\ run'.stopOnError = run.stopOnError
    BY <1>12, <1>13, <2>1 DEF Runs
  <2>3. ~R!IsActive' /\ R!IsOver'  BY <2>2 DEF R!IsActive, R!IsOver
  <2>4. /\ appJar' \in SUBSET Names
        /\ \A name \in appJar : name \in appJar'
        /\ \A name \in appJar' : name \in appJar \/ (run.kept /\ name \in run.cookies)
        /\ run.kept => \A name \in run.cookies : name \in appJar'
    BY <1>0, <1>2, <2>1 DEF R!TakesCookies, RunTyped, Runs
  <2>5. RunTyped'
    <3>1. R!TypeOK'  BY <1>0, <2>1, <2>2, <2>3 DEF RunTyped, R!TypeOK
    <3>2. QED  BY <1>0, <1>1, <1>3, <2>2, <2>4, <3>1 DEF RunTyped
  <2>6. RunTaskFits'
    BY <1>0, <1>1, <1>3, <1>9, <2>1, <2>2, <2>3 DEF RunTaskFits
  <2>7. NamesFit'  BY <1>0, <1>1, <1>3, <2>2, <2>4 DEF NamesFit
  <2>8. \A k : Keeps(k) => Keeps(k)'  BY <1>1, <1>3, <2>2, <2>4 DEF Keeps
  <2>9. CookiesFit'
    <3>1. \A k \in 1 .. Len(run'.results) : Keeps(k)'  BY <1>6, <1>10, <2>2, <2>8
    <3>2. QED  BY <1>0, <1>4, <1>9, <2>2, <2>3, <3>1 DEF CookiesFit
  <2>10. Apart'
    <3>1. run.kept => run.saveCookies  BY <1>0, <1>4 DEF CookiesFit
    <3>2. QED  BY <1>0, <1>1, <1>3, <2>2, <2>4, <3>1 DEF Apart
  <2>11. Progress'  BY <2>3 DEF Progress
  <2>12. R!EachGoesOutOnce'
    BY <1>1, <1>6, <1>7, <1>9, <2>2, <2>3 DEF R!EachGoesOutOnce
  <2>13. R!CompleteRunsSendAll'
    <3>1. SUFFICES ASSUME counts'.choices = 0, ~run'.stopOnError
                   PROVE  Len(run'.results) = run'.requests * run'.iterations
      BY DEF R!CompleteRunsSendAll
    <3>2. Len(run.results) + 1 = run.requests * run.iterations  BY <1>11, <1>13, <2>2, <3>1
    <3>3. QED  BY <1>6, <2>2, <3>2
  <2>14. QED  BY <2>5, <2>6, <2>7, <2>9, <2>10, <2>11, <2>12, <2>13 DEF RunInv
<1>14. CASE to # R!Over
  <2>1. /\ run' = recorded /\ runTask' = (IF run.status = "running" THEN "waiting" ELSE "none") /\ appJar' = appJar
    BY <1>12, <1>14 DEF R!Record
  <2>2. ~ends  BY <1>14
  <2> HIDE DEF recorded, to, ends
  <2>3. R!IsActive' /\ ~R!IsOver'  BY <1>1, <1>4, <1>12, <2>1 DEF R!IsActive, R!IsOver
  <2>4. RunTyped'
    <3>1. R!TypeOK'  BY <1>0, <1>4, <1>8, <1>12, <1>14, <2>1 DEF RunTyped, R!TypeOK
    <3>2. QED  BY <1>0, <1>1, <1>3, <1>12, <2>1, <3>1 DEF RunTyped
  <2>5. RunTaskFits'
    BY <1>0, <1>1, <1>3, <1>4, <1>9, <1>12, <2>1, <2>3 DEF RunTaskFits
  <2>6. NamesFit'
    <3>1. run'.status # "none"  BY <1>4, <1>12, <2>1
    <3>2. QED  BY <1>0, <1>1, <1>3, <1>12, <2>1, <3>1 DEF NamesFit
  <2>7. CookiesFit'
    <3>1. \A k : Keeps(k) => Keeps(k)'  BY <1>1, <1>3, <1>12, <2>1 DEF Keeps
    <3>2. \A k \in 1 .. Len(run'.results) : Keeps(k)'  BY <1>6, <1>10, <1>12, <2>1, <3>1
    <3>3. QED  BY <1>0, <1>4, <1>9, <1>12, <2>1, <2>3, <3>2 DEF CookiesFit
  <2>8. Apart'  BY <1>0, <1>1, <1>3, <1>12, <2>1 DEF Apart
  <2>9. Progress'
    <3>1. SUFFICES ASSUME counts'.choices = 0
                   PROVE  Len(run'.results) = (run'.next[1] - 1) * run'.requests + (run'.next[2] - 1)
      BY DEF Progress
    <3>2. Len(run.results) + 1 = (to[1] - 1) * run.requests + (to[2] - 1)  BY <1>11, <1>14, <2>2, <3>1
    <3>3. Len(run'.results) = Len(run.results) + 1 /\ run'.next = to /\ run'.requests = run.requests
      BY <1>6, <1>12, <2>1
    <3>4. QED  BY <3>2, <3>3
  <2>10. R!EachGoesOutOnce'
    BY <1>1, <1>4, <1>6, <1>7, <1>9, <1>12, <2>1, <2>3 DEF R!EachGoesOutOnce
  <2>11. R!CompleteRunsSendAll'  BY <1>4, <1>12, <2>1 DEF R!CompleteRunsSendAll
  <2>12. QED  BY <2>4, <2>5, <2>6, <2>7, <2>8, <2>9, <2>10, <2>11 DEF RunInv
<1>15. QED  BY <1>13, <1>14

-----------------------------------------------------------------------------
LEMMA RunStarts == R!Init => RunInv
<1> SUFFICES ASSUME R!Init PROVE RunInv  OBVIOUS
<1>1. <<>> \in Seq(Names) /\ Len(<<>>) = 0  BY EmptySeq
<1>2. /\ run = R!NoRun /\ run \in Runs /\ run.status = "none" /\ run.next = R!Over /\ run.jar = "app"
      /\ run.clock = FALSE /\ run.saveCookies = FALSE /\ run.kept = FALSE /\ run.keepVariables = FALSE
      /\ run.cookies = {} /\ Len(run.results) = 0
  BY <1>1 DEF R!Init, R!NoRun, Runs, Names, R!Over
<1>3. ~R!IsActive /\ R!Number = 0  BY <1>2 DEF R!Init, R!IsActive, R!Number
<1>4. RunTyped /\ RunTaskFits /\ NamesFit
  BY <1>2, <1>3 DEF R!Init, RunTyped, R!TypeOK, RunTaskFits, NamesFit
<1>5. CookiesFit /\ Apart
  BY <1>2, <1>3 DEF R!Init, CookiesFit, Apart
<1>6. Progress /\ R!EachGoesOutOnce /\ R!CompleteRunsSendAll
  BY <1>2, <1>3 DEF R!Init, Progress, R!EachGoesOutOnce, R!CompleteRunsSendAll
<1>7. QED  BY <1>4, <1>5, <1>6 DEF RunInv

LEMMA RunStepKeeps == ASSUME MaxIterations \in Nat, MaxRequests \in Nat, RunInv, [R!Next]_(R!vars) PROVE RunInv'
<1>1. CASE R!Start  BY <1>1, StartKeeps
<1>2. CASE R!Begins
  <2>1. PICK requests \in 0 .. MaxRequests : R!Begin(requests)  BY <1>2 DEF R!Begins
  <2>2. QED  BY <2>1, BeginKeeps
<1>3. CASE R!Pause \/ R!Resume  BY <1>3, PauseKeeps
<1>4. CASE R!Stop \/ R!Close  BY <1>4, EndKeeps
<1>5. CASE R!Send  BY <1>5, SendKeeps
<1>6. CASE R!Records
  <2>1. PICK e \in executing, choice \in R!Chosen, error \in BOOLEAN : R!Record(e, choice, error)
    BY <1>6 DEF R!Records
  <2>2. QED  BY <2>1, RecordKeeps
<1>7. CASE R!Executes
  <2>1. PICK e \in executing : R!Execute(e)  BY <1>7 DEF R!Executes
  <2>2. QED  BY <2>1, ExecuteKeeps
<1>8. CASE \E e \in executing : R!Cancelled(e)
  <2>1. PICK e \in executing : R!Cancelled(e)  BY <1>8
  <2>2. QED  BY <2>1, CancelledKeeps
<1>9. CASE UNCHANGED R!vars
  <2>1. UNCHANGED <<open, preparing, run, runTask, executing, appJar, session, sent, counts>>
    BY <1>9 DEF R!vars
  <2>2. R!IsActive' = R!IsActive /\ R!Number' = R!Number /\ R!IsOver' = R!IsOver
    BY <2>1 DEF R!IsActive, R!Number, R!IsOver
  <2>3. RunTyped' /\ RunTaskFits' /\ NamesFit'
    BY <2>1, <2>2 DEF RunInv, RunTyped, R!TypeOK, RunTaskFits, NamesFit
  <2>4. CookiesFit' /\ Apart'
    BY <2>1, <2>2 DEF RunInv, CookiesFit, Keeps, Apart
  <2>5. Progress' /\ R!EachGoesOutOnce' /\ R!CompleteRunsSendAll'
    BY <2>1, <2>2 DEF RunInv, Progress, R!EachGoesOutOnce, R!CompleteRunsSendAll
  <2>6. QED  BY <2>3, <2>4, <2>5 DEF RunInv
<1>10. QED  BY <1>1, <1>2, <1>3, <1>4, <1>5, <1>6, <1>7, <1>8, <1>9 DEF R!Next

LEMMA WhatFollows ==
  RunInv => /\ R!TypeOK /\ R!EachGoesOutOnce /\ R!CompleteRunsSendAll
            /\ R!CookiesReachTheApp /\ R!VariablesStayApart
<1> SUFFICES ASSUME RunInv
             PROVE  /\ R!TypeOK /\ R!EachGoesOutOnce /\ R!CompleteRunsSendAll
                    /\ R!CookiesReachTheApp /\ R!VariablesStayApart
  OBVIOUS
<1>1. RunTyped /\ CookiesFit /\ NamesFit /\ Apart  BY DEF RunInv
<1>2. run.results \in Seq(Names) /\ DOMAIN run.results = 1 .. Len(run.results)
  BY <1>1, LenProperties DEF RunTyped, Runs
<1>3. \A k \in DOMAIN run.results : Keeps(k)  BY <1>1, <1>2 DEF CookiesFit
<1>4. ASSUME run.saveCookies, R!IsOver, NEW k \in DOMAIN run.results PROVE <<R!Number, k>> \in appJar
  <2>1. run.jar \in {"app", "fresh"} /\ ~run.kept  BY <1>1, <1>4 DEF CookiesFit, RunTyped, Runs
  <2>2. QED  BY <1>3, <1>4, <2>1 DEF Keeps
<1>5. R!CookiesReachTheApp  BY <1>1, <1>4 DEF R!CookiesReachTheApp, Apart
<1>6. R!VariablesStayApart  BY <1>1, <1>3 DEF R!VariablesStayApart, Apart, Keeps
<1>7. R!TypeOK /\ R!EachGoesOutOnce /\ R!CompleteRunsSendAll  BY DEF RunInv, RunTyped
<1>8. QED  BY <1>5, <1>6, <1>7

LEMMA RunInductive == ASSUME MaxIterations \in Nat, MaxRequests \in Nat PROVE R!Spec => []RunInv
<1>1. R!Init => RunInv  BY RunStarts
<1>2. RunInv /\ [R!Next]_(R!vars) => RunInv'  BY RunStepKeeps
<1>3. QED  BY <1>1, <1>2, PTL DEF R!Spec

(***************************************************************************)
(* Whatever is started, paused, chosen, stopped and closed, a run's        *)
(* status, clock, position and task have a value that fits.                *)
(***************************************************************************)
THEOREM RunTypeCorrect ==
  ASSUME MaxIterations \in Nat, MaxRequests \in Nat PROVE R!Spec => []R!TypeOK
<1>1. RunInv => R!TypeOK  BY WhatFollows
<1>2. QED  BY <1>1, RunInductive, PTL

(***************************************************************************)
(* runner.rs:783: a run of any length sends one request at a time and each *)
(* once, however often it is paused and resumed.                           *)
(***************************************************************************)
THEOREM RunsSendEachOnce ==
  ASSUME MaxIterations \in Nat, MaxRequests \in Nat PROVE R!Spec => []R!EachGoesOutOnce
<1>1. RunInv => R!EachGoesOutOnce  BY WhatFollows
<1>2. QED  BY <1>1, RunInductive, PTL

(***************************************************************************)
(* runner.rs:158: a run that nothing cut short sent every request of every *)
(* iteration.                                                              *)
(***************************************************************************)
THEOREM RunsAreComplete ==
  ASSUME MaxIterations \in Nat, MaxRequests \in Nat PROVE R!Spec => []R!CompleteRunsSendAll
<1>1. RunInv => R!CompleteRunsSendAll  BY WhatFollows
<1>2. QED  BY <1>1, RunInductive, PTL

(***************************************************************************)
(* runner.rs:54: a run leaves its cookies to the app if they are to be     *)
(* kept and nothing otherwise, however it ends.                            *)
(***************************************************************************)
THEOREM CookiesAreLeftAsAsked ==
  ASSUME MaxIterations \in Nat, MaxRequests \in Nat PROVE R!Spec => []R!CookiesReachTheApp
<1>1. QED  BY WhatFollows, RunInductive, PTL

(***************************************************************************)
(* runner.rs:681: a run leaves its variables to the app's session if they  *)
(* are to be kept and none otherwise.                                      *)
(***************************************************************************)
THEOREM VariablesAreLeftAsAsked ==
  ASSUME MaxIterations \in Nat, MaxRequests \in Nat PROVE R!Spec => []R!VariablesStayApart
<1>1. QED  BY WhatFollows, RunInductive, PTL

-----------------------------------------------------------------------------
(***************************************************************************)
(* RequestExchange: any queue, requests and events.                        *)
(***************************************************************************)

(***************************************************************************)
(* The queue has some length, and bounds are numbers.                      *)
(***************************************************************************)
QueueAssumed == UPDATE_QUEUE \in Nat

Updates == Nat \X Nat
Places == {"none", "scripts", "sent", "body", "stream", "post", "done"}

ExchangeTyped ==
  /\ exchange \in [at : {"idle", "sending"},
                   stream : {"none", "pending", "open", "stopping", "ended"}]
  /\ window \in {"none", "reading", "awaiting"}
  /\ execution \in [at : Places, opened : BOOLEAN, read : Nat,
                    result : {"none", "error", "timeout", "response"}]
  /\ unsent \in Seq(Updates)
  /\ updates \in [queue : Seq(Updates), open : BOOLEAN]
  /\ toldStop \in BOOLEAN
  /\ cancelling \in {"no", "not yet", "went out"}
  /\ view \in [kind : {"empty", "waiting", "stream", "response", "failed"}, events : Seq(Updates),
               log : {"none", "open", "stopping", "stopped", "ended", "failed"}]
  /\ inHistory \in Seq(Nat) /\ sends \in Nat
  /\ wentOut \in SUBSET (1 .. sends) /\ between \in SUBSET wentOut

Sending == exchange.at = "sending"

\* Nothing is left of a request that is over.
IdleFits ==
  ~Sending =>
    /\ exchange = X!Idle /\ window = "none" /\ execution = X!NoExecution /\ unsent = <<>>
    /\ updates = X!NoChannel /\ cancelling = "no"
    /\ view.log \notin {"open", "stopping"}

\* Where the executor is, and what the tab knows of it.
ExecutionFits ==
  Sending =>
    /\ sends > 0 /\ window # "none" /\ exchange.stream # "none" /\ execution.at # "none"
    /\ execution.at \in {"scripts", "sent", "body"} => ~execution.opened
    /\ execution.at = "stream" => execution.opened
    /\ execution.result # "none" => execution.at = "done"
    /\ execution.result = "timeout" => ~execution.opened
    /\ ~updates.open => execution.at \in {"post", "done"}
    /\ window = "awaiting" =>
         updates.queue = <<>> /\ ~updates.open /\ exchange.stream \in {"pending", "ended"}
    /\ window = "reading" => exchange.stream # "ended"
    /\ toldStop => exchange.stream \in {"stopping", "ended"}

ViewFits ==
  /\ view.log = "none" <=> view.kind # "stream"
  /\ view.kind # "stream" => view.events = <<>>
  /\ \A i \in 1 .. Len(view.events) : view.events[i] = <<sends, i>>
  /\ Sending =>
       /\ exchange.stream = "pending" => view.kind = "waiting"
       /\ exchange.stream # "pending" => view.kind = "stream"
       /\ exchange.stream = "open" => view.log = "open"
       /\ exchange.stream = "stopping" => view.log = "stopping"

\* The updates that are on their way to the tab continue what it shows.
Due == IF view.kind = "stream" THEN Len(view.events) + 1 ELSE 0
UpdatesFit ==
  /\ Len(updates.queue) <= UPDATE_QUEUE + 1
  /\ unsent # <<>> => execution.at = "stream"
  /\ ~execution.opened => updates.queue = <<>> /\ execution.read = 0
  /\ Sending /\ ~execution.opened => ~toldStop /\ view.kind = "waiting"
  /\ execution.opened =>
       /\ \A i \in 1 .. Len(updates.queue) : updates.queue[i] = <<sends, Due + i - 1>>
       /\ \A i \in 1 .. Len(unsent) : unsent[i] = <<sends, Due + Len(updates.queue) + i - 1>>
       /\ ~toldStop => Due + Len(updates.queue) + Len(unsent) = execution.read + 1

\* The request that is sent is not recorded yet; the others are, as they went out.
RecordsFit ==
  /\ \A i \in DOMAIN inHistory : inHistory[i] \in 1 .. sends /\ (Sending => inHistory[i] # sends)
  /\ \A i, j \in DOMAIN inHistory : inHistory[i] = inHistory[j] => i = j
  /\ \A i \in DOMAIN inHistory : inHistory[i] \in wentOut \ between
  /\ \A n \in wentOut \ between : (n < sends \/ ~Sending) => \E i \in DOMAIN inHistory : inHistory[i] = n

GhostsFit ==
  Sending =>
    /\ execution.at = "scripts" => sends \notin wentOut
    /\ execution.at \in {"sent", "body", "stream", "post"} => sends \in wentOut
    /\ execution.result = "response" => sends \in wentOut
    /\ cancelling = "no" => sends \notin between
    /\ cancelling = "not yet" => (sends \in wentOut => sends \in between)
    /\ cancelling = "went out" => sends \in wentOut \ between

ExchangeInv ==
  /\ ExchangeTyped /\ IdleFits /\ ExecutionFits /\ ViewFits /\ UpdatesFit /\ RecordsFit /\ GhostsFit

LEMMA ExchangeStarts == ASSUME QueueAssumed, X!Init PROVE ExchangeInv
<1> USE DEF X!Init, X!Idle, X!NoExecution, X!NoChannel, X!Shows
<1>1. <<>> \in Seq(Updates) /\ <<>> \in Seq(Nat) /\ Len(<<>>) = 0 /\ DOMAIN <<>> = {}  OBVIOUS
<1>2. ExchangeTyped
  <2>1. exchange \in [at : {"idle", "sending"},
                      stream : {"none", "pending", "open", "stopping", "ended"}]
    OBVIOUS
  <2>2. execution \in [at : Places, opened : BOOLEAN, read : Nat,
                       result : {"none", "error", "timeout", "response"}]
    BY DEF Places
  <2>3. /\ updates \in [queue : Seq(Updates), open : BOOLEAN]
        /\ view \in [kind : {"empty", "waiting", "stream", "response", "failed"},
                     events : Seq(Updates),
                     log : {"none", "open", "stopping", "stopped", "ended", "failed"}]
    BY <1>1
  <2>4. QED  BY <2>1, <2>2, <2>3, <1>1 DEF ExchangeTyped
<1>3. IdleFits /\ ExecutionFits /\ GhostsFit  BY DEF IdleFits, ExecutionFits, GhostsFit, Sending
<1>4. ViewFits /\ UpdatesFit /\ RecordsFit
  BY <1>1 DEF ViewFits, UpdatesFit, RecordsFit, Sending, QueueAssumed
<1>5. QED  BY <1>2, <1>3, <1>4 DEF ExchangeInv

-----------------------------------------------------------------------------
(***************************************************************************)
(* The executor.  While it is at a place, the tab sends.                   *)
(***************************************************************************)
LEMMA IsSending ==
  ASSUME ExchangeInv, execution.at # "none"
  PROVE  Sending
BY DEF ExchangeInv, IdleFits, X!NoExecution

LEMMA DispatchesKeeps == ASSUME QueueAssumed, ExchangeInv, X!Dispatches PROVE ExchangeInv'
<1>1. /\ ExchangeTyped /\ IdleFits /\ ExecutionFits /\ ViewFits /\ UpdatesFit /\ RecordsFit /\ GhostsFit
      /\ Sending
  BY IsSending DEF ExchangeInv, X!Dispatches, X!Goes
<1>2. /\ execution.at = "scripts" /\ execution'.at = "sent" /\ execution'.opened = execution.opened
      /\ execution'.read = execution.read /\ execution'.result = execution.result
      /\ execution' \in [at : Places, opened : BOOLEAN, read : Nat,
                         result : {"none", "error", "timeout", "response"}]
      /\ wentOut' = wentOut \union {sends}
      /\ between' = IF cancelling = "no" THEN between ELSE between \union {sends}
      /\ UNCHANGED <<unsent, updates, exchange, window, toldStop, cancelling, view, inHistory, sends>>
  BY <1>1 DEF X!Dispatches, X!Goes, X!Tab, ExchangeTyped, Places
<1>3. ExchangeTyped'
  <2>1. sends \in Nat /\ sends > 0  BY <1>1 DEF ExchangeTyped, ExecutionFits
  <2>2. sends \in 1 .. sends  BY <2>1
  <2>3. wentOut' \subseteq 1 .. sends /\ between' \subseteq wentOut'
    BY <2>2, <1>1, <1>2 DEF ExchangeTyped
  <2>4. /\ execution' \in [at : Places, opened : BOOLEAN, read : Nat,
                           result : {"none", "error", "timeout", "response"}]
        /\ UNCHANGED <<unsent, updates, exchange, window, toldStop, cancelling, view, inHistory, sends>>
    BY <1>2
  <2>5. wentOut' \in SUBSET (1 .. sends') /\ between' \in SUBSET wentOut'  BY <2>3, <2>4
  <2>6. /\ exchange' \in [at : {"idle", "sending"},
                          stream : {"none", "pending", "open", "stopping", "ended"}]
        /\ window' \in {"none", "reading", "awaiting"}
    BY <1>1, <2>4 DEF ExchangeTyped
  <2>7. /\ unsent' \in Seq(Updates) /\ updates' \in [queue : Seq(Updates), open : BOOLEAN]
        /\ toldStop' \in BOOLEAN /\ cancelling' \in {"no", "not yet", "went out"}
    BY <1>1, <2>4 DEF ExchangeTyped
  <2>8. view' \in [kind : {"empty", "waiting", "stream", "response", "failed"},
                   events : Seq(Updates),
                   log : {"none", "open", "stopping", "stopped", "ended", "failed"}]
    BY <1>1, <2>4 DEF ExchangeTyped
  <2>9. inHistory' \in Seq(Nat) /\ sends' \in Nat  BY <1>1, <2>4 DEF ExchangeTyped
  <2>10. QED  BY <2>4, <2>5, <2>6, <2>7, <2>8, <2>9 DEF ExchangeTyped
<1>4. IdleFits'  BY <1>1, <1>2 DEF IdleFits, Sending
<1>5. ExecutionFits'  BY <1>1, <1>2 DEF ExecutionFits, Sending
<1>6. ViewFits'  BY <1>1, <1>2 DEF ViewFits, Sending
<1>7. UpdatesFit'  BY <1>1, <1>2 DEF UpdatesFit, ExecutionFits, Sending, Due
<1>8. RecordsFit'
  <2>1. \A i \in DOMAIN inHistory : inHistory[i] # sends  BY <1>1 DEF RecordsFit
  <2>2. \A i \in DOMAIN inHistory' : inHistory'[i] \in wentOut' \ between'
    BY <2>1, <1>1, <1>2 DEF RecordsFit
  <2>a. sends \in Nat  BY <1>1 DEF ExchangeTyped
  <2>b. ~(sends < sends)  BY <2>a
  <2>3. \A n \in wentOut' \ between' : n < sends' => n \in wentOut \ between
    BY <2>b, <1>2
  <2>4. QED  BY <2>2, <2>3, <1>1, <1>2 DEF RecordsFit, Sending
<1>9. GhostsFit'  BY <1>1, <1>2 DEF GhostsFit, ExecutionFits, Sending, ExchangeTyped
<1>10. QED  BY <1>3, <1>4, <1>5, <1>6, <1>7, <1>8, <1>9 DEF ExchangeInv

(***************************************************************************)
(* The executor ends, and nothing it parsed waits.                         *)
(***************************************************************************)
LEMMA EndsKeeps ==
  ASSUME QueueAssumed, ExchangeInv, NEW result \in {"error", "timeout", "response"}, X!Ends(result),
         execution.at # "none", execution.at # "done", unsent = <<>>,
         result = "timeout" => ~execution.opened,
         result = "response" => sends \in wentOut,
         UNCHANGED <<unsent, X!ghosts, X!Tab>>
  PROVE  ExchangeInv'
<1>1. /\ ExchangeTyped /\ IdleFits /\ ExecutionFits /\ ViewFits /\ UpdatesFit /\ RecordsFit /\ GhostsFit
      /\ Sending
  BY IsSending DEF ExchangeInv
<1>2. /\ execution'.at = "done" /\ execution'.opened = execution.opened
      /\ execution'.read = execution.read /\ execution'.result = result
      /\ execution' \in [at : Places, opened : BOOLEAN, read : Nat,
                         result : {"none", "error", "timeout", "response"}]
      /\ updates'.queue = updates.queue /\ updates'.open = FALSE
      /\ updates' \in [queue : Seq(Updates), open : BOOLEAN]
      /\ UNCHANGED <<unsent, exchange, window, toldStop, cancelling, view, inHistory, sends, wentOut, between>>
  <2>1. /\ execution \in [at : Places, opened : BOOLEAN, read : Nat,
                          result : {"none", "error", "timeout", "response"}]
        /\ updates \in [queue : Seq(Updates), open : BOOLEAN]
    BY <1>1 DEF ExchangeTyped
  <2>2. /\ execution' = [execution EXCEPT !.at = "done", !.result = result]
        /\ updates' = [updates EXCEPT !.open = FALSE]
    BY DEF X!Ends
  <2>3. /\ execution'.at = "done" /\ execution'.opened = execution.opened
        /\ execution'.read = execution.read /\ execution'.result = result
        /\ execution' \in [at : Places, opened : BOOLEAN, read : Nat,
                           result : {"none", "error", "timeout", "response"}]
    BY <2>1, <2>2 DEF Places
  <2>4. /\ updates'.queue = updates.queue /\ updates'.open = FALSE
        /\ updates' \in [queue : Seq(Updates), open : BOOLEAN]
    BY <2>1, <2>2
  <2>5. QED  BY <2>3, <2>4 DEF X!Tab, X!ghosts
<1>3. ExchangeTyped'
  <2>1. ExchangeTyped  BY <1>1
  <2>2. /\ exchange' = exchange /\ window' = window /\ unsent' = unsent /\ toldStop' = toldStop
        /\ cancelling' = cancelling /\ view' = view /\ inHistory' = inHistory /\ sends' = sends
        /\ wentOut' = wentOut /\ between' = between
    BY <1>2
  <2>3. execution' \in [at : Places, opened : BOOLEAN, read : Nat,
                        result : {"none", "error", "timeout", "response"}]
    BY <1>2
  <2>4. updates' \in [queue : Seq(Updates), open : BOOLEAN]  BY <1>2
  <2>5. /\ exchange' \in [at : {"idle", "sending"},
                         stream : {"none", "pending", "open", "stopping", "ended"}]
        /\ window' \in {"none", "reading", "awaiting"}
        /\ toldStop' \in BOOLEAN
        /\ cancelling' \in {"no", "not yet", "went out"}
    BY <2>1, <2>2 DEF ExchangeTyped
  <2>6. /\ view' \in [kind : {"empty", "waiting", "stream", "response", "failed"}, events : Seq(Updates),
                      log : {"none", "open", "stopping", "stopped", "ended", "failed"}]
        /\ unsent' \in Seq(Updates)
        /\ inHistory' \in Seq(Nat) /\ sends' \in Nat
    BY <2>1, <2>2 DEF ExchangeTyped
  <2>7. wentOut' \in SUBSET (1 .. sends') /\ between' \in SUBSET wentOut'
    BY <2>1, <2>2 DEF ExchangeTyped
  <2>8. QED  BY <2>3, <2>4, <2>5, <2>6, <2>7 DEF ExchangeTyped
<1> USE <1>2
<1>4. IdleFits'  BY <1>1 DEF IdleFits, Sending
<1>5. ExecutionFits'  BY <1>1 DEF ExecutionFits, Sending
<1>6. ViewFits'  BY <1>1 DEF ViewFits, Sending
<1>7. UpdatesFit'
  <2>1. UpdatesFit /\ Sending /\ Due' = Due /\ unsent = <<>>  BY <1>1 DEF Due
  <2>2. Len(unsent) = 0 /\ unsent' = <<>>  BY <2>1
  <2>3. Len(updates'.queue) <= UPDATE_QUEUE + 1  BY <2>1 DEF UpdatesFit
  <2>4. ~execution'.opened => /\ updates'.queue = <<>> /\ execution'.read = 0
                             /\ ~toldStop' /\ view'.kind = "waiting"
    BY <2>1 DEF UpdatesFit
  <2>5. execution'.opened =>
          /\ \A i \in 1 .. Len(updates'.queue) : updates'.queue[i] = <<sends', Due' + i - 1>>
          /\ \A i \in 1 .. Len(unsent') : unsent'[i] = <<sends', Due' + Len(updates'.queue) + i - 1>>
          /\ ~toldStop' => Due' + Len(updates'.queue) + Len(unsent') = execution'.read + 1
    BY <2>1, <2>2 DEF UpdatesFit
  <2>6. QED  BY <2>2, <2>3, <2>4, <2>5 DEF UpdatesFit
<1>8. RecordsFit'
  <2>1. RecordsFit  BY <1>1
  <2>2. Sending' <=> Sending  BY DEF Sending
  <2>3. QED  BY <2>1, <2>2, Zenon DEF RecordsFit
<1>9. GhostsFit'  BY <1>1, <1>2 DEF GhostsFit, Sending
<1>10. QED  BY <1>3, <1>4, <1>5, <1>6, <1>7, <1>8, <1>9 DEF ExchangeInv

LEMMA FailsKeeps == ASSUME QueueAssumed, ExchangeInv, X!Fails PROVE ExchangeInv'
<1>1. /\ X!Ends("error") /\ execution.at \in {"scripts", "sent", "body", "stream"}
      /\ UNCHANGED <<unsent, X!ghosts, X!Tab>>
      /\ execution.at = "stream" => unsent = <<>>
  BY DEF X!Fails, X!IsReading
<1>2. unsent = <<>>  BY <1>1 DEF ExchangeInv, UpdatesFit
<1>3. QED  BY <1>1, <1>2, EndsKeeps

LEMMA TimesOutKeeps == ASSUME QueueAssumed, ExchangeInv, X!TimesOut PROVE ExchangeInv'
<1>1. /\ X!Ends("timeout") /\ execution.at \in {"scripts", "sent", "body"} /\ ~execution.opened
      /\ UNCHANGED <<unsent, X!ghosts, X!Tab>>
  BY DEF X!TimesOut, X!MayTimeOut
<1>2. unsent = <<>>  BY <1>1 DEF ExchangeInv, UpdatesFit
<1>3. QED  BY <1>1, <1>2, EndsKeeps

LEMMA PostScriptsKeeps == ASSUME QueueAssumed, ExchangeInv, X!PostScripts PROVE ExchangeInv'
<1>1. X!Ends("response") /\ execution.at = "post" /\ UNCHANGED <<unsent, X!ghosts, X!Tab>>
  BY DEF X!PostScripts
<1>2. unsent = <<>> /\ sends \in wentOut
  BY <1>1, IsSending DEF ExchangeInv, UpdatesFit, GhostsFit
<1>3. QED  BY <1>1, <1>2, EndsKeeps

(***************************************************************************)
(* A step of the executor that leaves the tab alone keeps what is said of  *)
(* the tab; the rest is about the executor.                                *)
(***************************************************************************)
LEMMA ExecutorStep ==
  ASSUME QueueAssumed, ExchangeInv, Sending,
         execution' \in [at : Places, opened : BOOLEAN, read : Nat,
                         result : {"none", "error", "timeout", "response"}],
         unsent' \in Seq(Updates), updates' \in [queue : Seq(Updates), open : BOOLEAN],
         UNCHANGED <<exchange, window, toldStop, cancelling, view, inHistory, sends, wentOut, between>>,
         execution.at # "scripts", execution.at \in {"sent", "body", "stream", "post"},
         execution'.at \in {"sent", "body", "stream", "post"}, execution'.result = execution.result,
         ExecutionFits', UpdatesFit'
  PROVE  ExchangeInv'
<1>1. /\ ExchangeTyped /\ IdleFits /\ ViewFits /\ RecordsFit /\ GhostsFit /\ ExecutionFits
  BY DEF ExchangeInv
<1>2. ExchangeTyped'
  <2>1. /\ exchange' \in [at : {"idle", "sending"},
                          stream : {"none", "pending", "open", "stopping", "ended"}]
        /\ window' \in {"none", "reading", "awaiting"}
    BY <1>1 DEF ExchangeTyped
  <2>2. /\ toldStop' \in BOOLEAN /\ cancelling' \in {"no", "not yet", "went out"}
        /\ inHistory' \in Seq(Nat) /\ sends' \in Nat
    BY <1>1 DEF ExchangeTyped
  <2>3. view' \in [kind : {"empty", "waiting", "stream", "response", "failed"},
                   events : Seq(Updates),
                   log : {"none", "open", "stopping", "stopped", "ended", "failed"}]
    BY <1>1 DEF ExchangeTyped
  <2>4. wentOut' \in SUBSET (1 .. sends') /\ between' \in SUBSET wentOut'  BY <1>1 DEF ExchangeTyped
  <2>5. QED  BY <2>1, <2>2, <2>3, <2>4 DEF ExchangeTyped
<1>3. IdleFits'  BY DEF IdleFits, Sending
<1>4. ViewFits'  BY <1>1 DEF ViewFits, Sending
<1>5. RecordsFit'  BY <1>1 DEF RecordsFit, Sending
<1>6. execution.result = "none"  BY <1>1 DEF ExecutionFits, ExchangeTyped
<1>7. GhostsFit'  BY <1>1, <1>6 DEF GhostsFit, Sending
<1>8. QED  BY <1>2, <1>3, <1>4, <1>5, <1>7 DEF ExchangeInv

LEMMA HeadsKeeps == ASSUME QueueAssumed, ExchangeInv, X!Heads PROVE ExchangeInv'
<1>1. /\ ExchangeTyped /\ ExecutionFits /\ UpdatesFit /\ ViewFits /\ Sending /\ execution.at = "sent"
  BY IsSending DEF ExchangeInv, X!Heads
<1>2. UNCHANGED <<updates, exchange, window, toldStop, cancelling, view, inHistory, sends, wentOut, between>>
  BY DEF X!Heads, X!Tab, X!ghosts
<1>3. /\ execution \in [at : Places, opened : BOOLEAN, read : Nat,
                        result : {"none", "error", "timeout", "response"}]
      /\ updates \in [queue : Seq(Updates), open : BOOLEAN] /\ unsent \in Seq(Updates) /\ sends \in Nat
  BY <1>1 DEF ExchangeTyped
<1>4. /\ ~execution.opened /\ unsent = <<>> /\ updates.queue = <<>> /\ execution.read = 0 /\ ~toldStop
      /\ view.kind = "waiting"
  BY <1>1 DEF UpdatesFit, ExecutionFits
<1>5. CASE X!Goes("sent", "body") /\ UNCHANGED unsent
  <2>1. /\ execution'.at = "body" /\ execution'.opened = execution.opened
        /\ execution'.read = execution.read /\ execution'.result = execution.result
        /\ execution' \in [at : Places, opened : BOOLEAN, read : Nat,
                           result : {"none", "error", "timeout", "response"}]
    BY <1>3, <1>5 DEF X!Goes, Places
  <2>2. ExecutionFits'  BY <1>1, <1>2, <2>1 DEF ExecutionFits, Sending
  <2>3. UpdatesFit'  BY <1>1, <1>2, <1>4, <1>5, <2>1 DEF UpdatesFit, Sending
  <2>4. QED  BY <1>1, <1>2, <1>3, <1>5, <2>1, <2>2, <2>3, ExecutorStep
<1>6. CASE /\ execution' = [execution EXCEPT !.at = "stream", !.opened = TRUE]
           /\ unsent' = <<<<sends, 0>>>>
  <2>1. /\ execution'.at = "stream" /\ execution'.opened
        /\ execution'.read = execution.read /\ execution'.result = execution.result
        /\ execution' \in [at : Places, opened : BOOLEAN, read : Nat,
                           result : {"none", "error", "timeout", "response"}]
    BY <1>3, <1>6 DEF Places
  <2>2. <<sends, 0>> \in Updates  BY <1>3 DEF Updates
  <2>3. unsent' \in Seq(Updates) /\ Len(unsent') = 1 /\ unsent'[1] = <<sends, 0>>  BY <1>6, <2>2
  <2>4. ExecutionFits'
    <3>1. execution.result # "timeout"  BY <1>1 DEF ExecutionFits
    <3>2. QED  BY <1>1, <1>2, <2>1, <3>1 DEF ExecutionFits, Sending
  <2>5. Due' = 0  BY <1>2, <1>4 DEF Due
  <2>6. Len(updates'.queue) = 0  BY <1>2, <1>4
  <2>7. UpdatesFit'
    <3>1. \A i \in 1 .. Len(unsent') : unsent'[i] = <<sends', Due' + Len(updates'.queue) + i - 1>>
      BY <2>3, <2>5, <2>6, <1>2
    <3>2. QED  BY <1>2, <1>4, <2>1, <2>3, <2>5, <2>6, <3>1 DEF UpdatesFit, QueueAssumed
  <2>8. QED  BY <1>1, <1>2, <1>3, <2>1, <2>3, <2>4, <2>7, ExecutorStep
<1>7. QED  BY <1>5, <1>6 DEF X!Heads

LEMMA ReadsKeeps == ASSUME QueueAssumed, ExchangeInv, NEW more \in 0 .. 2, X!Reads(more) PROVE ExchangeInv'
<1>1. /\ ExchangeTyped /\ ExecutionFits /\ UpdatesFit /\ ViewFits /\ Sending /\ execution.at = "stream"
  BY IsSending DEF ExchangeInv, X!Reads, X!IsReading
<1>2. /\ UNCHANGED <<updates, exchange, window, toldStop, cancelling, view, inHistory, sends, wentOut, between>>
      /\ execution' = [execution EXCEPT !.read = @ + more] /\ unsent = <<>> /\ ~toldStop
      /\ unsent' = [i \in 1 .. more |-> <<sends, execution.read + i>>]
  BY DEF X!Reads, X!IsReading, X!Tab, X!ghosts
<1>3. /\ execution \in [at : Places, opened : BOOLEAN, read : Nat,
                        result : {"none", "error", "timeout", "response"}]
      /\ updates \in [queue : Seq(Updates), open : BOOLEAN] /\ sends \in Nat
      /\ view.events \in Seq(Updates)
  BY <1>1 DEF ExchangeTyped
<1>4. /\ execution'.at = "stream" /\ execution'.opened = execution.opened
      /\ execution'.read = execution.read + more /\ execution'.result = execution.result
      /\ execution' \in [at : Places, opened : BOOLEAN, read : Nat,
                         result : {"none", "error", "timeout", "response"}]
  BY <1>1, <1>2, <1>3 DEF Places
<1>5. /\ unsent' \in Seq(Updates) /\ Len(unsent') = more
      /\ \A i \in 1 .. more : unsent'[i] = <<sends, execution.read + i>>
  <2>1. more \in Nat /\ \A i \in 1 .. more : <<sends, execution.read + i>> \in Updates
    BY <1>3 DEF Updates
  <2>2. PICK size \in Nat : size = more  BY <2>1
  <2>3. unsent' = [i \in 1 .. size |-> <<sends, execution.read + i>>]  BY <1>2, <2>2
  <2>4. unsent' \in Seq(Updates)  BY <2>1, <2>2, <2>3, IsASeq
  <2>5. DOMAIN unsent' = 1 .. size  BY <2>3
  <2>6. Len(unsent') = size  BY <2>4, <2>5, LenProperties
  <2>7. QED  BY <2>2, <2>3, <2>4, <2>6
<1>6. ExecutionFits'  BY <1>1, <1>2, <1>4 DEF ExecutionFits, Sending
<1>7. UpdatesFit'
  <2>1. Len(unsent) = 0  BY <1>2
  <2>2. /\ Due + Len(updates.queue) = execution.read + 1
        /\ Due \in Nat /\ Len(updates.queue) \in Nat /\ execution.read \in Nat
    <3>1. Due \in Nat /\ Len(updates.queue) \in Nat /\ execution.read \in Nat  BY <1>3 DEF Due
    <3>2. Due + Len(updates.queue) + Len(unsent) = execution.read + 1
      BY <1>1, <1>2 DEF UpdatesFit, ExecutionFits
    <3>3. QED  BY <2>1, <3>1, <3>2
  <2>3. Due' = Due /\ UNCHANGED updates /\ sends' = sends  BY <1>2 DEF Due
  <2>4. \A i \in 1 .. Len(unsent') : unsent'[i] = <<sends', Due' + Len(updates'.queue) + i - 1>>
    <3>1. TAKE i \in 1 .. Len(unsent')
    <3>2. unsent'[i] = <<sends, execution.read + i>> /\ i \in Nat  BY <1>5
    <3>3. Due + Len(updates.queue) + i - 1 = execution.read + i  BY <2>2, <3>2
    <3>4. QED  BY <2>3, <3>2, <3>3
  <2>5. Due' + Len(updates'.queue) + Len(unsent') = execution'.read + 1
    BY <1>4, <1>5, <2>2, <2>3
  <2>6. execution'.opened  BY <1>1, <1>4 DEF ExecutionFits
  <2>7. QED  BY <1>1, <1>4, <2>3, <2>4, <2>5, <2>6 DEF UpdatesFit
<1>8. QED  BY <1>1, <1>2, <1>3, <1>4, <1>5, <1>6, <1>7, ExecutorStep

LEMMA PushKeeps == ASSUME QueueAssumed, ExchangeInv, X!Push PROVE ExchangeInv'
<1>1. /\ ExchangeTyped /\ ExecutionFits /\ UpdatesFit /\ ViewFits /\ Sending /\ execution.at = "stream"
  BY IsSending DEF ExchangeInv, X!Push
<1>2. /\ UNCHANGED <<execution, exchange, window, toldStop, cancelling, view, inHistory, sends, wentOut, between>>
      /\ unsent # <<>> /\ ~toldStop /\ Len(updates.queue) <= UPDATE_QUEUE
      /\ updates' = [updates EXCEPT !.queue = Append(@, Head(unsent))]
      /\ unsent' = Tail(unsent)
  BY DEF X!Push, X!Pushes, X!HasRoom, X!Tab, X!ghosts
<1>3. /\ execution \in [at : Places, opened : BOOLEAN, read : Nat,
                        result : {"none", "error", "timeout", "response"}]
      /\ updates \in [queue : Seq(Updates), open : BOOLEAN] /\ sends \in Nat
      /\ view.events \in Seq(Updates) /\ unsent \in Seq(Updates)
  BY <1>1 DEF ExchangeTyped
<1>4. PICK queue \in Seq(Updates) : queue = updates.queue  BY <1>3
<1>5. /\ Len(unsent) > 0 /\ Head(unsent) = unsent[1] /\ Head(unsent) \in Updates
      /\ unsent' \in Seq(Updates) /\ Len(unsent') = Len(unsent) - 1
      /\ \A i \in 1 .. Len(unsent') : unsent'[i] = unsent[i + 1]
  BY <1>2, <1>3
<1>6. /\ updates'.queue = Append(queue, unsent[1]) /\ updates'.open = updates.open
      /\ updates' \in [queue : Seq(Updates), open : BOOLEAN]
  <2>0. Append(queue, Head(unsent)) \in Seq(Updates)  BY <1>4, <1>5, AppendProperties
  <2>1. PICK more \in Seq(Updates) : more = Append(queue, Head(unsent))  BY <2>0
  <2>2. updates' = [updates EXCEPT !.queue = more]  BY <1>2, <1>4, <2>1
  <2>3. updates'.queue = more /\ updates'.open = updates.open
    BY <1>3, <2>2
  <2>4. updates' \in [queue : Seq(Updates), open : BOOLEAN]  BY <1>3, <2>1, <2>2
  <2>5. QED  BY <1>5, <2>1, <2>3, <2>4
<1>7. /\ Len(updates'.queue) = Len(queue) + 1
      /\ \A i \in 1 .. Len(queue) : updates'.queue[i] = queue[i]
      /\ updates'.queue[Len(queue) + 1] = unsent[1]
  BY <1>4, <1>5, <1>6
<1>8. ExecutionFits'
  <2>1. updates.open  BY <1>1 DEF ExecutionFits
  <2>2. window # "awaiting"  BY <1>1, <2>1 DEF ExecutionFits
  <2>3. QED  BY <1>1, <1>2, <1>6, <2>1, <2>2 DEF ExecutionFits, Sending
<1>9. UpdatesFit'
  <2>1. /\ \A i \in 1 .. Len(queue) : queue[i] = <<sends, Due + i - 1>>
        /\ \A i \in 1 .. Len(unsent) : unsent[i] = <<sends, Due + Len(queue) + i - 1>>
        /\ Due + Len(queue) + Len(unsent) = execution.read + 1
        /\ execution.opened
    BY <1>1, <1>2, <1>4 DEF UpdatesFit, ExecutionFits
  <2>2. Due \in Nat /\ Len(queue) \in Nat /\ Len(unsent) \in Nat /\ execution.read \in Nat
    BY <1>3 DEF Due
  <2>3. unsent[1] = <<sends, Due + Len(queue)>>
    <3>1. 1 \in 1 .. Len(unsent)  BY <1>5, <2>2
    <3>2. Due + Len(queue) + 1 - 1 = Due + Len(queue)  BY <2>2
    <3>3. QED  BY <2>1, <3>1, <3>2
  <2>4. Due' = Due /\ sends' = sends  BY <1>2 DEF Due
  <2>5. \A i \in 1 .. Len(updates'.queue) : updates'.queue[i] = <<sends', Due' + i - 1>>
    <3>1. TAKE i \in 1 .. Len(updates'.queue)
    <3>2. CASE i <= Len(queue)
      <4>1. i \in 1 .. Len(queue)  BY <3>2, <2>2, <1>7
      <4>2. QED  BY <4>1, <1>7, <2>1, <2>4
    <3>3. CASE i = Len(queue) + 1
      <4>1. Due + i - 1 = Due + Len(queue)  BY <3>3, <2>2
      <4>2. QED  BY <3>3, <4>1, <1>7, <2>3, <2>4
    <3>4. QED  BY <3>2, <3>3, <1>7, <2>2
  <2>6. \A i \in 1 .. Len(unsent') : unsent'[i] = <<sends', Due' + Len(updates'.queue) + i - 1>>
    <3>1. TAKE i \in 1 .. Len(unsent')
    <3>2. i + 1 \in 1 .. Len(unsent) /\ unsent'[i] = unsent[i + 1]  BY <1>5, <2>2
    <3>3. Due + Len(queue) + (i + 1) - 1 = Due + (Len(queue) + 1) + i - 1  BY <2>2
    <3>4. QED  BY <3>2, <3>3, <2>1, <2>4, <1>7
  <2>7. Due' + Len(updates'.queue) + Len(unsent') = execution'.read + 1
    BY <1>2, <1>5, <1>7, <2>1, <2>2, <2>4
  <2>8. Len(updates'.queue) <= UPDATE_QUEUE + 1
    BY <1>2, <1>4, <1>7, <2>2 DEF QueueAssumed
  <2>9. execution'.at = "stream" /\ execution'.opened  BY <1>1, <1>2, <2>1
  <2>10. QED  BY <2>5, <2>6, <2>7, <2>8, <2>9 DEF UpdatesFit
<1>10. QED  BY <1>1, <1>2, <1>3, <1>5, <1>6, <1>8, <1>9, ExecutorStep

LEMMA BodyEndsKeeps == ASSUME QueueAssumed, ExchangeInv, X!BodyEnds PROVE ExchangeInv'
<1>1. /\ ExchangeTyped /\ ExecutionFits /\ UpdatesFit /\ ViewFits /\ Sending
      /\ execution.at \in {"body", "stream"}
  BY IsSending DEF ExchangeInv, X!BodyEnds, X!IsReading
<1>2. /\ UNCHANGED <<exchange, window, toldStop, cancelling, view, inHistory, sends, wentOut, between>>
      /\ execution' = [execution EXCEPT !.at = "post"] /\ unsent' = <<>>
      /\ updates' = [updates EXCEPT !.open = @ /\ execution.at = "body"]
      /\ toldStop \/ unsent = <<>>
  <2>1. execution.at = "body" => unsent = <<>>  BY <1>1 DEF UpdatesFit
  <2>2. QED  BY <2>1 DEF X!BodyEnds, X!Stops, X!IsReading, X!Tab, X!ghosts
<1>3. /\ execution \in [at : Places, opened : BOOLEAN, read : Nat,
                        result : {"none", "error", "timeout", "response"}]
      /\ updates \in [queue : Seq(Updates), open : BOOLEAN] /\ sends \in Nat
      /\ view.events \in Seq(Updates)
  BY <1>1 DEF ExchangeTyped
<1>4. /\ execution'.at = "post" /\ execution'.opened = execution.opened
      /\ execution'.read = execution.read /\ execution'.result = execution.result
      /\ execution' \in [at : Places, opened : BOOLEAN, read : Nat,
                         result : {"none", "error", "timeout", "response"}]
  BY <1>1, <1>2, <1>3 DEF Places
<1>5. /\ updates'.queue = updates.queue /\ ~updates.open => ~updates'.open
      /\ updates' \in [queue : Seq(Updates), open : BOOLEAN]
  <2>1. PICK isOpen \in BOOLEAN : isOpen = (updates.open /\ execution.at = "body")  BY Zenon
  <2>2. updates' = [updates EXCEPT !.open = isOpen]  BY <1>2, <2>1, Zenon
  <2>3. ~updates.open => ~isOpen  BY <2>1
  <2>4. updates'.queue = updates.queue /\ updates'.open = isOpen  BY <1>3, <2>2
  <2>5. updates' \in [queue : Seq(Updates), open : BOOLEAN]  BY <1>3, <2>2
  <2>6. QED  BY <2>3, <2>4, <2>5
<1>6. unsent' \in Seq(Updates) /\ Len(unsent') = 0  BY <1>2
<1>7. ExecutionFits'  BY <1>1, <1>2, <1>4, <1>5 DEF ExecutionFits, Sending
<1>8. UpdatesFit'
  <2>1. Due' = Due /\ sends' = sends /\ toldStop' = toldStop  BY <1>2 DEF Due
  <2>2. ~execution.opened => updates.queue = <<>> /\ execution.read = 0 /\ ~toldStop /\ view.kind = "waiting"
    BY <1>1 DEF UpdatesFit
  <2>3. ~toldStop => Len(unsent) = 0  BY <1>2
  <2>4. execution.opened =>
          /\ \A i \in 1 .. Len(updates.queue) : updates.queue[i] = <<sends, Due + i - 1>>
          /\ ~toldStop => Due + Len(updates.queue) + Len(unsent) = execution.read + 1
    BY <1>1 DEF UpdatesFit
  <2>5. Len(updates.queue) <= UPDATE_QUEUE + 1  BY <1>1 DEF UpdatesFit
  <2>6. \A i \in 1 .. Len(unsent') : FALSE  BY <1>6
  <2>7. QED  BY <1>2, <1>4, <1>5, <1>6, <2>1, <2>2, <2>3, <2>4, <2>5, <2>6 DEF UpdatesFit, Sending
<1>9. QED  BY <1>1, <1>2, <1>3, <1>4, <1>5, <1>6, <1>7, <1>8, ExecutorStep

-----------------------------------------------------------------------------
(***************************************************************************)
(* The tab.                                                                *)
(***************************************************************************)
LEMMA SendsKeeps == ASSUME QueueAssumed, ExchangeInv, X!Sends PROVE ExchangeInv'
<1>1. /\ ExchangeTyped /\ IdleFits /\ RecordsFit /\ ~Sending
  BY DEF ExchangeInv, X!Sends, X!Idle, Sending
<1>2. /\ exchange' = [at |-> "sending", stream |-> "pending"] /\ window' = "reading"
      /\ execution' = [at |-> "scripts", opened |-> FALSE, read |-> 0, result |-> "none"]
      /\ unsent' = <<>> /\ updates' = [queue |-> <<>>, open |-> TRUE] /\ toldStop' = FALSE
      /\ view' = [kind |-> "waiting", events |-> <<>>, log |-> "none"]
      /\ sends' = sends + 1 /\ cancelling = "no"
      /\ UNCHANGED <<cancelling, inHistory, wentOut, between>>
  BY DEF X!Sends, X!NoExecution, X!NoChannel, X!Shows, X!ghosts
<1>3. <<>> \in Seq(Updates) /\ Len(<<>>) = 0 /\ sends \in Nat
  <2>1. <<>> \in Seq(Updates) /\ Len(<<>>) = 0  OBVIOUS
  <2>2. sends \in Nat  BY <1>1 DEF ExchangeTyped
  <2>3. QED  BY <2>1, <2>2
<1>4. ExchangeTyped'
  <2>1. execution' \in [at : Places, opened : BOOLEAN, read : Nat,
                        result : {"none", "error", "timeout", "response"}]
    BY <1>2 DEF Places
  <2>2. updates' \in [queue : Seq(Updates), open : BOOLEAN]  BY <1>2, <1>3
  <2>3. view' \in [kind : {"empty", "waiting", "stream", "response", "failed"},
                   events : Seq(Updates),
                   log : {"none", "open", "stopping", "stopped", "ended", "failed"}]
    BY <1>2, <1>3
  <2>4. exchange' \in [at : {"idle", "sending"},
                       stream : {"none", "pending", "open", "stopping", "ended"}]
    BY <1>2
  <2>5. /\ wentOut' \in SUBSET (1 .. sends') /\ between' \in SUBSET wentOut'
        /\ inHistory' \in Seq(Nat) /\ sends' \in Nat /\ cancelling' \in {"no", "not yet", "went out"}
    BY <1>1, <1>2, <1>3 DEF ExchangeTyped
  <2>6. /\ window' \in {"none", "reading", "awaiting"} /\ toldStop' \in BOOLEAN
        /\ unsent' \in Seq(Updates)
    BY <1>2, <1>3
  <2>7. QED  BY <2>1, <2>2, <2>3, <2>4, <2>5, <2>6 DEF ExchangeTyped
<1>5. IdleFits' /\ ExecutionFits'  BY <1>2, <1>3 DEF IdleFits, ExecutionFits, Sending
<1>6. ViewFits' /\ UpdatesFit'  BY <1>2, <1>3 DEF ViewFits, UpdatesFit, Sending, QueueAssumed
<1>7. \A n \in 1 .. sends : n < sends' /\ n \in 1 .. sends' /\ n # sends'  BY <1>2, <1>3
<1>8. RecordsFit'
  <2>1. \A i \in DOMAIN inHistory' : inHistory'[i] \in 1 .. sends
    BY <1>1, <1>2 DEF RecordsFit
  <2>2. QED  BY <1>1, <1>2, <1>7, <2>1 DEF RecordsFit
<1>9. GhostsFit'
  <2>1. sends' \notin wentOut' /\ sends' \notin between'  BY <1>1, <1>2, <1>7 DEF ExchangeTyped
  <2>2. QED  BY <1>2, <2>1 DEF GhostsFit
<1>10. QED  BY <1>4, <1>5, <1>6, <1>8, <1>9 DEF ExchangeInv

(***************************************************************************)
(* A step of the tab that leaves the executor, what it parsed, and history *)
(* alone.                                                                  *)
(***************************************************************************)
LEMMA TabStep ==
  ASSUME QueueAssumed, ExchangeInv, Sending,
         exchange' \in [at : {"sending"}, stream : {"pending", "open", "stopping", "ended"}],
         window' \in {"reading", "awaiting"}, toldStop' \in BOOLEAN,
         updates' \in [queue : Seq(Updates), open : BOOLEAN],
         view' \in [kind : {"empty", "waiting", "stream", "response", "failed"},
                    events : Seq(Updates),
                    log : {"none", "open", "stopping", "stopped", "ended", "failed"}],
         UNCHANGED <<execution, unsent, cancelling, inHistory, sends, wentOut, between>>,
         ExecutionFits', ViewFits', UpdatesFit'
  PROVE  ExchangeInv'
<1>1. ExchangeTyped /\ RecordsFit /\ GhostsFit  BY DEF ExchangeInv
<1>2. ExchangeTyped'
  <2>1. /\ exchange' \in [at : {"idle", "sending"},
                          stream : {"none", "pending", "open", "stopping", "ended"}]
        /\ window' \in {"none", "reading", "awaiting"}
    OBVIOUS
  <2>2. /\ cancelling' \in {"no", "not yet", "went out"} /\ inHistory' \in Seq(Nat) /\ sends' \in Nat
        /\ unsent' \in Seq(Updates)
    BY <1>1 DEF ExchangeTyped
  <2>3. execution' \in [at : Places, opened : BOOLEAN, read : Nat,
                        result : {"none", "error", "timeout", "response"}]
    BY <1>1 DEF ExchangeTyped
  <2>4. wentOut' \in SUBSET (1 .. sends') /\ between' \in SUBSET wentOut'  BY <1>1 DEF ExchangeTyped
  <2>5. QED  BY <2>1, <2>2, <2>3, <2>4 DEF ExchangeTyped
<1>3. Sending'  BY DEF Sending
<1>4. IdleFits' /\ RecordsFit' /\ GhostsFit'
  BY <1>1, <1>3 DEF IdleFits, RecordsFit, GhostsFit
<1>5. QED  BY <1>2, <1>4 DEF ExchangeInv

LEMMA ReceiveKeeps ==
  ASSUME QueueAssumed, ExchangeInv, NEW n \in 1 .. Len(updates.queue), X!Receive(n)
  PROVE  ExchangeInv'
<1>1. ExchangeTyped /\ IdleFits /\ ExecutionFits /\ ViewFits /\ UpdatesFit  BY DEF ExchangeInv
<1>2. /\ window = "reading" /\ cancelling = "no"
      /\ updates' = [updates EXCEPT !.queue = SubSeq(@, n + 1, Len(@))]
      /\ UNCHANGED <<window, execution, unsent, toldStop, cancelling, inHistory, sends, wentOut, between>>
  BY DEF X!Receive, X!ghosts
<1>3. Sending  BY <1>1, <1>2 DEF IdleFits
<1>4. /\ updates \in [queue : Seq(Updates), open : BOOLEAN] /\ sends \in Nat
      /\ view \in [kind : {"empty", "waiting", "stream", "response", "failed"},
                   events : Seq(Updates),
                   log : {"none", "open", "stopping", "stopped", "ended", "failed"}]
      /\ exchange \in [at : {"idle", "sending"},
                       stream : {"none", "pending", "open", "stopping", "ended"}]
      /\ unsent \in Seq(Updates) /\ execution.read \in Nat
  BY <1>1 DEF ExchangeTyped
<1>5. PICK queue \in Seq(Updates) : queue = updates.queue  BY <1>4
<1>6. n \in 1 .. Len(queue) /\ n \in Nat /\ Len(queue) \in Nat  BY <1>5
<1>7. execution.opened
  <2>1. updates.queue # <<>>  BY <1>5, <1>6
  <2>2. QED  BY <2>1, <1>1 DEF UpdatesFit
<1>8. \A i \in 1 .. Len(queue) : queue[i] = <<sends, Due + i - 1>>
  BY <1>1, <1>5, <1>7 DEF UpdatesFit
<1>9. PICK rest \in Seq(Updates) :
        /\ rest = SubSeq(queue, n + 1, Len(queue)) /\ Len(rest) = Len(queue) - n
        /\ \A i \in 1 .. Len(rest) : i + n \in 1 .. Len(queue) /\ rest[i] = queue[i + n]
  <2>1. SubSeq(queue, n + 1, Len(queue)) \in Seq(Updates)  BY <1>6
  <2>2. Len(SubSeq(queue, n + 1, Len(queue))) = Len(queue) - n  BY <1>6
  <2>3. \A i \in 1 .. Len(queue) - n :
          i + n \in 1 .. Len(queue) /\ SubSeq(queue, n + 1, Len(queue))[i] = queue[i + n]
    BY <1>6
  <2>4. QED  BY <2>1, <2>2, <2>3
<1>10. /\ updates' = [updates EXCEPT !.queue = rest]
       /\ updates'.queue = rest /\ updates'.open = updates.open
       /\ updates' \in [queue : Seq(Updates), open : BOOLEAN]
  <2>1. updates' = [updates EXCEPT !.queue = rest]  BY <1>2, <1>5, <1>9
  <2>2. QED  BY <2>1, <1>4
<1>11. PICK batch \in Seq(Updates) :
         /\ batch = SubSeq(queue, 1, n) /\ Len(batch) = n
         /\ \A i \in 1 .. n : i \in 1 .. Len(queue) /\ batch[i] = queue[i]
  <2>1. SubSeq(queue, 1, n) \in Seq(Updates)  BY <1>6
  <2>2. Len(SubSeq(queue, 1, n)) = n  BY <1>6
  <2>3. \A i \in 1 .. n : i \in 1 .. Len(queue) /\ SubSeq(queue, 1, n)[i] = queue[i]
    BY <1>6
  <2>4. QED  BY <2>1, <2>2, <2>3
<1>12. Due \in Nat /\ (Due = 0 <=> view.kind # "stream")  BY <1>4 DEF Due
<1>13. batch[1][2] = Due
  <2>1. 1 \in 1 .. n /\ 1 \in 1 .. Len(queue)  BY <1>6
  <2>2. batch[1] = <<sends, Due + 1 - 1>>  BY <2>1, <1>8, <1>11
  <2>3. Due + 1 - 1 = Due  BY <1>12
  <2>4. QED  BY <2>2, <2>3
<1>14. PICK arrivals \in Seq(Updates) :
         /\ arrivals = IF view.kind = "stream" THEN batch ELSE Tail(batch)
         /\ Len(arrivals) = IF view.kind = "stream" THEN n ELSE n - 1
         /\ \A i \in 1 .. Len(arrivals) :
              arrivals[i] = <<sends, (IF view.kind = "stream" THEN Len(view.events) ELSE 0) + i>>
  <2>1. CASE view.kind = "stream"
    <3>1. \A i \in 1 .. n : batch[i] = <<sends, Len(view.events) + i>>
      <4>1. TAKE i \in 1 .. n
      <4>2. batch[i] = <<sends, Due + i - 1>>  BY <1>8, <1>11
      <4>3. Due + i - 1 = Len(view.events) + i  BY <2>1, <1>4, <1>6 DEF Due
      <4>4. QED  BY <4>2, <4>3
    <3>2. QED  BY <2>1, <3>1, <1>11
  <2>2. CASE view.kind # "stream"
    <3>1. Tail(batch) \in Seq(Updates) /\ Len(Tail(batch)) = n - 1
      BY <1>6, <1>11
    <3>2. \A i \in 1 .. n - 1 : Tail(batch)[i] = batch[i + 1] /\ i + 1 \in 1 .. n
      BY <1>6, <1>11
    <3>3. \A i \in 1 .. n - 1 : Tail(batch)[i] = <<sends, i>>
      <4>1. TAKE i \in 1 .. n - 1
      <4>2. Tail(batch)[i] = <<sends, Due + (i + 1) - 1>>  BY <3>2, <1>8, <1>11
      <4>3. Due + (i + 1) - 1 = i /\ 0 + i = i  BY <2>2, <1>12, <1>6
      <4>4. QED  BY <4>2, <4>3
    <3>4. \A i \in 1 .. n - 1 : 0 + i = i  BY <1>6
    <3>5. QED  BY <2>2, <3>1, <3>3, <3>4
  <2>3. QED  BY <2>1, <2>2
<1>15. view.kind # "stream" => exchange.stream = "pending" /\ view.events = <<>> /\ ~toldStop
  BY <1>1, <1>3 DEF ViewFits, ExecutionFits
<1>16. /\ exchange' = IF view.kind = "stream" THEN exchange ELSE [exchange EXCEPT !.stream = "open"]
       /\ view' = IF view.kind = "stream" THEN [view EXCEPT !.events = @ \o arrivals]
                  ELSE [kind |-> "stream", events |-> <<>> \o arrivals, log |-> "open"]
  <2>1. CASE view.kind = "stream"
    <3>1. batch[1][2] # 0  BY <2>1, <1>12, <1>13
    <3>2. QED  BY <2>1, <3>1, <1>5, <1>11, <1>14 DEF X!Receive
  <2>2. CASE view.kind # "stream"
    <3>1. batch[1][2] = 0  BY <2>2, <1>12, <1>13
    <3>2. batch = SubSeq(updates.queue, 1, n) /\ arrivals = Tail(batch) /\ exchange.stream = "pending"
      BY <2>2, <1>5, <1>11, <1>14, <1>15
    <3>3. exchange' = [exchange EXCEPT !.stream = "open"]  BY <3>1, <3>2 DEF X!Receive, X!Stream
    <3>4. view' = [kind |-> "stream", events |-> <<>> \o arrivals, log |-> "open"]
      <4> DEFINE shown == [kind |-> "stream", events |-> <<>>, log |-> "open"]
      <4>1. view' = IF shown.kind = "stream" THEN [shown EXCEPT !.events = @ \o Tail(batch)] ELSE shown
        BY <3>1, <3>2 DEF X!Receive
      <4>2. [shown EXCEPT !.events = @ \o Tail(batch)]
              = [kind |-> "stream", events |-> <<>> \o Tail(batch), log |-> "open"]
        <5>1. PICK more : more = <<>> \o Tail(batch)  OBVIOUS
        <5>2. shown.events = <<>>  OBVIOUS
        <5>3. [shown EXCEPT !.events = @ \o Tail(batch)] = [shown EXCEPT !.events = more]
          BY <5>1, <5>2
        <5>4. [shown EXCEPT !.events = more] = [kind |-> "stream", events |-> more, log |-> "open"]
          OBVIOUS
        <5>5. QED  BY <5>1, <5>3, <5>4
      <4>3. QED  BY <4>1, <4>2, <3>2
    <3>5. QED  BY <2>2, <3>3, <3>4
  <2>3. QED  BY <2>1, <2>2
<1>17. PICK shown \in Seq(Updates) :
         /\ shown = IF view.kind = "stream" THEN view.events \o arrivals ELSE arrivals
         /\ Len(shown) = (IF view.kind = "stream" THEN Len(view.events) ELSE 0) + Len(arrivals)
         /\ \A i \in 1 .. Len(shown) : shown[i] = <<sends, i>>
  <2>1. CASE view.kind = "stream"
    <3>1. PICK past \in Seq(Updates) : past = view.events  BY <1>4
    <3>2. past \o arrivals \in Seq(Updates) /\ Len(past \o arrivals) = Len(past) + Len(arrivals)
      OBVIOUS
    <3>3. \A i \in 1 .. Len(past) : past[i] = <<sends, i>>  BY <1>1, <3>1 DEF ViewFits
    <3>4. \A i \in 1 .. Len(arrivals) : arrivals[i] = <<sends, Len(past) + i>>  BY <2>1, <1>14, <3>1
    <3>5. \A i \in 1 .. Len(past \o arrivals) : (past \o arrivals)[i] = <<sends, i>>
      <4>1. TAKE i \in 1 .. Len(past \o arrivals)
      <4>2. CASE i <= Len(past)
        <5>1. i \in 1 .. Len(past) /\ (past \o arrivals)[i] = past[i]  BY <4>2, <3>2
        <5>2. QED  BY <5>1, <3>3
      <4>3. CASE i > Len(past)
        <5>1. PICK k \in 1 .. Len(arrivals) : i = Len(past) + k
          <6>1. i - Len(past) \in 1 .. Len(arrivals) /\ i = Len(past) + (i - Len(past))  BY <4>3, <3>2
          <6>2. QED  BY <6>1
        <5>2. (past \o arrivals)[i] = arrivals[k]  BY <5>1
        <5>3. QED  BY <5>1, <5>2, <3>4
      <4>4. QED  BY <4>2, <4>3, <3>2
    <3>6. QED  BY <2>1, <3>1, <3>2, <3>5
  <2>2. CASE view.kind # "stream"
    <3>1. Len(arrivals) \in Nat /\ 0 + Len(arrivals) = Len(arrivals)  OBVIOUS
    <3>2. \A i \in 1 .. Len(arrivals) : 0 + i = i  OBVIOUS
    <3>3. \A i \in 1 .. Len(arrivals) : arrivals[i] = <<sends, i>>  BY <2>2, <3>2, <1>14
    <3>4. QED  BY <2>2, <3>1, <3>3
  <2>3. QED  BY <2>1, <2>2
<1>18. /\ view' \in [kind : {"empty", "waiting", "stream", "response", "failed"},
                     events : Seq(Updates),
                     log : {"none", "open", "stopping", "stopped", "ended", "failed"}]
       /\ view'.kind = "stream" /\ view'.events = shown
       /\ view'.log = IF view.kind = "stream" THEN view.log ELSE "open"
  <2>1. <<>> \o arrivals = arrivals  BY ConcatEmptySeq
  <2>2. view' = IF view.kind = "stream" THEN [view EXCEPT !.events = shown]
                ELSE [kind |-> "stream", events |-> shown, log |-> "open"]
    BY <2>1, <1>16, <1>17
  <2>3. QED  BY <2>2, <1>4
<1>19. /\ exchange' \in [at : {"sending"}, stream : {"pending", "open", "stopping", "ended"}]
       /\ exchange'.stream = IF view.kind = "stream" THEN exchange.stream ELSE "open"
       /\ exchange'.at = "sending"
  <2>1. exchange.stream # "none" /\ exchange.at = "sending"  BY <1>1, <1>3 DEF ExecutionFits, Sending
  <2>2. QED  BY <2>1, <1>4, <1>16
<1>20. view.kind = "stream" => exchange.stream # "pending"
  BY <1>1, <1>3 DEF ViewFits
<1>21. ExecutionFits'
  BY <1>1, <1>2, <1>3, <1>10, <1>15, <1>19 DEF ExecutionFits, Sending
<1>22. ViewFits'
  BY <1>1, <1>2, <1>3, <1>17, <1>18, <1>19, <1>20 DEF ViewFits, Sending
<1>23. UpdatesFit'
  <2>1. Due' = Due + n
    <3>1. Due' = Len(shown) + 1  BY <1>18 DEF Due
    <3>2. CASE view.kind = "stream"
      <4>1. Due = Len(view.events) + 1 /\ Len(view.events) \in Nat  BY <3>2, <1>4 DEF Due
      <4>2. Len(shown) = Len(view.events) + n  BY <3>2, <1>14, <1>17
      <4>3. QED  BY <3>1, <4>1, <4>2, <1>6
    <3>3. CASE view.kind # "stream"
      <4>1. Len(shown) = 0 + (n - 1) /\ Due = 0  BY <3>3, <1>12, <1>14, <1>17
      <4>2. QED  BY <3>1, <4>1, <1>6
    <3>4. QED  BY <3>2, <3>3
  <2>2. Len(updates'.queue) = Len(queue) - n  BY <1>9, <1>10
  <2>3. Len(updates'.queue) <= UPDATE_QUEUE + 1
    BY <2>2, <1>1, <1>5, <1>6 DEF UpdatesFit, QueueAssumed
  <2>4. \A i \in 1 .. Len(updates'.queue) : updates'.queue[i] = <<sends', Due' + i - 1>>
    <3>1. TAKE i \in 1 .. Len(updates'.queue)
    <3>2. i + n \in 1 .. Len(queue) /\ updates'.queue[i] = queue[i + n]  BY <1>9, <1>10
    <3>3. Due + (i + n) - 1 = (Due + n) + i - 1  BY <1>6, <1>12
    <3>4. QED  BY <3>2, <3>3, <2>1, <1>2, <1>8
  <2>5. /\ \A i \in 1 .. Len(unsent) : unsent[i] = <<sends, Due + Len(queue) + i - 1>>
        /\ ~toldStop => Due + Len(queue) + Len(unsent) = execution.read + 1
        /\ unsent # <<>> => execution.at = "stream"
    BY <1>1, <1>5, <1>7 DEF UpdatesFit
  <2>6. Due' + Len(updates'.queue) = Due + Len(queue)  BY <2>1, <2>2, <1>6, <1>12
  <2>7. QED  BY <1>2, <1>7, <2>3, <2>4, <2>5, <2>6 DEF UpdatesFit
<1>24. window' \in {"reading", "awaiting"} /\ toldStop' \in BOOLEAN  BY <1>1, <1>2 DEF ExchangeTyped
<1>25. QED  BY <1>2, <1>3, <1>10, <1>18, <1>19, <1>21, <1>22, <1>23, <1>24, TabStep

LEMMA TypedStays ==
  ASSUME ExchangeTyped, cancelling' \in {"no", "not yet", "went out"},
         UNCHANGED <<exchange, window, execution, unsent, updates, toldStop, view, inHistory, sends,
                     wentOut, between>>
  PROVE  ExchangeTyped'
<1>1. /\ exchange' \in [at : {"idle", "sending"},
                        stream : {"none", "pending", "open", "stopping", "ended"}]
      /\ window' \in {"none", "reading", "awaiting"}
  BY DEF ExchangeTyped
<1>2. /\ toldStop' \in BOOLEAN /\ inHistory' \in Seq(Nat) /\ sends' \in Nat /\ unsent' \in Seq(Updates)
      /\ updates' \in [queue : Seq(Updates), open : BOOLEAN]
  BY DEF ExchangeTyped
<1>3. execution' \in [at : Places, opened : BOOLEAN, read : Nat,
                      result : {"none", "error", "timeout", "response"}]
  BY DEF ExchangeTyped
<1>4. view' \in [kind : {"empty", "waiting", "stream", "response", "failed"},
                 events : Seq(Updates),
                 log : {"none", "open", "stopping", "stopped", "ended", "failed"}]
  BY DEF ExchangeTyped
<1>5. wentOut' \in SUBSET (1 .. sends') /\ between' \in SUBSET wentOut'  BY DEF ExchangeTyped
<1>6. QED  BY <1>1, <1>2, <1>3, <1>4, <1>5 DEF ExchangeTyped

LEMMA UpdatesEndKeeps == ASSUME QueueAssumed, ExchangeInv, X!UpdatesEnd PROVE ExchangeInv'
<1>1. ExchangeTyped /\ IdleFits /\ ExecutionFits /\ ViewFits /\ UpdatesFit  BY DEF ExchangeInv
<1>2. /\ window = "reading" /\ window' = "awaiting" /\ updates = [queue |-> <<>>, open |-> FALSE]
      /\ exchange' = IF exchange.stream \in {"open", "stopping"}
                       THEN [exchange EXCEPT !.stream = "ended"] ELSE exchange
      /\ UNCHANGED <<execution, unsent, updates, toldStop, cancelling, view, inHistory, sends, wentOut, between>>
  BY DEF X!UpdatesEnd, X!EndsStream, X!Stream, X!NoChannel, X!background, X!ghosts
<1>3. Sending  BY <1>1, <1>2 DEF IdleFits
<1>4. /\ updates' \in [queue : Seq(Updates), open : BOOLEAN] /\ toldStop' \in BOOLEAN
      /\ view' \in [kind : {"empty", "waiting", "stream", "response", "failed"},
                    events : Seq(Updates),
                    log : {"none", "open", "stopping", "stopped", "ended", "failed"}]
      /\ exchange \in [at : {"idle", "sending"},
                       stream : {"none", "pending", "open", "stopping", "ended"}]
  BY <1>1, <1>2 DEF ExchangeTyped
<1>5. /\ exchange' \in [at : {"sending"}, stream : {"pending", "open", "stopping", "ended"}]
      /\ exchange'.stream = IF exchange.stream = "pending" THEN "pending" ELSE "ended"
  <2>1. exchange.stream \in {"pending", "open", "stopping"} /\ exchange.at = "sending"
    BY <1>1, <1>2, <1>3, <1>4 DEF ExecutionFits, Sending
  <2>2. QED  BY <2>1, <1>2, <1>4
<1>6. ExecutionFits'
  BY <1>1, <1>2, <1>3, <1>5 DEF ExecutionFits, Sending
<1>7. ViewFits'  BY <1>1, <1>2, <1>3, <1>4, <1>5 DEF ViewFits, Sending, ExecutionFits
<1>8. UpdatesFit'  BY <1>1, <1>2, <1>3 DEF UpdatesFit, Due, Sending
<1>9. QED  BY <1>2, <1>3, <1>4, <1>5, <1>6, <1>7, <1>8, TabStep

LEMMA StopKeeps == ASSUME QueueAssumed, ExchangeInv, X!Stop PROVE ExchangeInv'
<1>1. ExchangeTyped /\ IdleFits /\ ExecutionFits /\ ViewFits /\ UpdatesFit  BY DEF ExchangeInv
<1>2. /\ exchange.stream = "open" /\ exchange' = [exchange EXCEPT !.stream = "stopping"]
      /\ toldStop' = TRUE
      /\ view' = [view EXCEPT !.log = IF @ = "open" THEN "stopping" ELSE @]
      /\ UNCHANGED <<window, execution, unsent, updates, cancelling, inHistory, sends, wentOut, between>>
  BY DEF X!Stop, X!Stream, X!background, X!ghosts
<1>3. Sending /\ window = "reading"
  <2>1. Sending  BY <1>1, <1>2 DEF IdleFits, X!Idle
  <2>2. QED  BY <2>1, <1>1, <1>2 DEF ExecutionFits, ExchangeTyped
<1>4. /\ updates' \in [queue : Seq(Updates), open : BOOLEAN]
      /\ view \in [kind : {"empty", "waiting", "stream", "response", "failed"},
                   events : Seq(Updates),
                   log : {"none", "open", "stopping", "stopped", "ended", "failed"}]
      /\ exchange \in [at : {"idle", "sending"},
                       stream : {"none", "pending", "open", "stopping", "ended"}]
  BY <1>1, <1>2 DEF ExchangeTyped
<1>5. /\ exchange' \in [at : {"sending"}, stream : {"pending", "open", "stopping", "ended"}]
      /\ exchange'.stream = "stopping"
  BY <1>2, <1>3, <1>4 DEF Sending
<1>6. view.log = "open" /\ view.kind = "stream"  BY <1>1, <1>2, <1>3 DEF ViewFits
<1>7. /\ view'.kind = "stream" /\ view'.events = view.events /\ view'.log = "stopping"
      /\ view' \in [kind : {"empty", "waiting", "stream", "response", "failed"},
                    events : Seq(Updates),
                    log : {"none", "open", "stopping", "stopped", "ended", "failed"}]
  BY <1>2, <1>4, <1>6
<1>8. execution.opened
  BY <1>1, <1>3, <1>6 DEF UpdatesFit
<1>9. ExecutionFits'  BY <1>1, <1>2, <1>3, <1>5 DEF ExecutionFits, Sending
<1>10. ViewFits'  BY <1>1, <1>2, <1>3, <1>5, <1>6, <1>7 DEF ViewFits, Sending
<1>11. UpdatesFit'
  <2>1. Due' = Due  BY <1>6, <1>7 DEF Due
  <2>2. QED  BY <1>1, <1>2, <1>8, <2>1 DEF UpdatesFit
<1>12. window' \in {"reading", "awaiting"} /\ toldStop' \in BOOLEAN  BY <1>2, <1>3
<1>13. QED  BY <1>2, <1>3, <1>4, <1>5, <1>7, <1>9, <1>10, <1>11, <1>12, TabStep

LEMMA CancelKeeps == ASSUME QueueAssumed, ExchangeInv, X!Cancel PROVE ExchangeInv'
<1>1. /\ ExchangeTyped /\ IdleFits /\ ExecutionFits /\ ViewFits /\ UpdatesFit /\ RecordsFit /\ GhostsFit
  BY DEF ExchangeInv
<1>2. /\ exchange.stream \in {"pending", "ended"} /\ cancelling = "no"
      /\ cancelling' = IF sends \in wentOut THEN "went out" ELSE "not yet"
      /\ UNCHANGED <<exchange, window, execution, unsent, updates, toldStop, view, inHistory, sends,
                     wentOut, between>>
  BY DEF X!Cancel, X!background, X!ghosts
<1>3. Sending
  <2>1. X!Idle.stream = "none"  BY DEF X!Idle
  <2>2. exchange # X!Idle  BY <1>2, <2>1
  <2>3. QED  BY <1>1, <2>2 DEF IdleFits
<1>4. ExchangeTyped'
  <2>1. cancelling' \in {"no", "not yet", "went out"}  BY <1>2
  <2>2. UNCHANGED <<exchange, window, execution, unsent, updates, toldStop, view, inHistory, sends,
                    wentOut, between>>
    BY <1>2
  <2>3. QED  BY <1>1, <2>1, <2>2, TypedStays
<1>5. IdleFits'  BY <1>2, <1>3 DEF IdleFits, Sending
<1>6. ExecutionFits'  BY <1>1, <1>2 DEF ExecutionFits, Sending
<1>7. ViewFits'  BY <1>1, <1>2 DEF ViewFits, Sending
<1>8. UpdatesFit'  BY <1>1, <1>2 DEF UpdatesFit, Due, Sending
<1>9. RecordsFit'  BY <1>1, <1>2 DEF RecordsFit, Sending
<1>10. GhostsFit'  BY <1>1, <1>2, <1>3 DEF GhostsFit, Sending
<1>11. QED  BY <1>4, <1>5, <1>6, <1>7, <1>8, <1>9, <1>10 DEF ExchangeInv

(***************************************************************************)
(* A request is over: the tab is idle again, and history has the request   *)
(* if it is recorded.                                                      *)
(***************************************************************************)
LEMMA OverStep ==
  ASSUME QueueAssumed, ExchangeInv, Sending,
         exchange' = X!Idle, window' = "none", execution' = X!NoExecution, unsent' = <<>>,
         updates' = X!NoChannel, cancelling' = "no",
         UNCHANGED <<toldStop, sends, wentOut, between>>,
         NEW records \in BOOLEAN, records <=> sends \in wentOut \ between,
         inHistory' = IF records THEN Append(inHistory, sends) ELSE inHistory,
         view' \in [kind : {"empty", "waiting", "stream", "response", "failed"},
                    events : Seq(Updates),
                    log : {"none", "open", "stopping", "stopped", "ended", "failed"}],
         view'.log \notin {"open", "stopping"}, view'.log = "none" <=> view'.kind # "stream",
         view'.events = (IF view'.kind = "stream" THEN view.events ELSE <<>>)
  PROVE  ExchangeInv'
<1>1. ExchangeTyped /\ ViewFits /\ UpdatesFit /\ RecordsFit  BY DEF ExchangeInv
<1>2. sends \in Nat /\ inHistory \in Seq(Nat) /\ wentOut \subseteq 1 .. sends  BY <1>1 DEF ExchangeTyped
<1>3. ~Sending'  BY DEF X!Idle, Sending
<1>4. ExchangeTyped'
  <2>1. <<>> \in Seq(Updates)  OBVIOUS
  <2>2. exchange' \in [at : {"idle", "sending"},
                       stream : {"none", "pending", "open", "stopping", "ended"}]
    BY DEF X!Idle
  <2>3. execution' \in [at : Places, opened : BOOLEAN, read : Nat,
                        result : {"none", "error", "timeout", "response"}]
    BY DEF Places, X!NoExecution
  <2>4. unsent' \in Seq(Updates) /\ updates' \in [queue : Seq(Updates), open : BOOLEAN]
    BY <2>1 DEF X!NoChannel
  <2>5. inHistory' \in Seq(Nat)  BY <1>2
  <2>6. /\ window' \in {"none", "reading", "awaiting"} /\ toldStop' \in BOOLEAN
        /\ cancelling' \in {"no", "not yet", "went out"} /\ sends' \in Nat
        /\ wentOut' \in SUBSET (1 .. sends') /\ between' \in SUBSET wentOut'
    BY <1>1 DEF ExchangeTyped
  <2>7. QED  BY <2>2, <2>3, <2>4, <2>5, <2>6 DEF ExchangeTyped
<1>5. IdleFits'  BY <1>3 DEF IdleFits
<1>6. ExecutionFits' /\ GhostsFit'  BY <1>3 DEF ExecutionFits, GhostsFit
<1>7. ViewFits'
  <2>1. \A i \in 1 .. Len(view'.events) : view'.events[i] = <<sends', i>>
    BY <1>1 DEF ViewFits
  <2>2. QED  BY <2>1, <1>3 DEF ViewFits
<1>8. UpdatesFit'
  <2>1. Len(<<>>) = 0  OBVIOUS
  <2>2. /\ ~execution'.opened /\ execution'.read = 0 /\ updates'.queue = <<>>
    BY DEF X!NoExecution, X!NoChannel
  <2>3. QED  BY <2>1, <2>2, <1>3 DEF UpdatesFit, QueueAssumed
<1>9. RecordsFit'
  <2>1. /\ \A i \in DOMAIN inHistory : inHistory[i] \in 1 .. sends /\ inHistory[i] # sends
        /\ \A i, j \in DOMAIN inHistory : inHistory[i] = inHistory[j] => i = j
        /\ \A i \in DOMAIN inHistory : inHistory[i] \in wentOut \ between
        /\ \A n \in wentOut \ between : n < sends => \E i \in DOMAIN inHistory : inHistory[i] = n
    BY <1>1 DEF RecordsFit
  <2>2. \A n \in wentOut \ between : n < sends \/ n = sends  BY <1>2
  <2>3. CASE ~records
    <3>1. \A n \in wentOut \ between : n < sends  BY <2>2, <2>3
    <3>2. QED  BY <2>1, <2>3, <3>1, <1>3 DEF RecordsFit
  <2>4. CASE records
    <3>1. inHistory' = Append(inHistory, sends) /\ sends \in wentOut \ between /\ sends \in 1 .. sends
      BY <2>4, <1>2
    <3>2. PICK last \in Nat : last = Len(inHistory) + 1  BY <1>2
    <3>3. /\ DOMAIN inHistory' = DOMAIN inHistory \union {last} /\ last \notin DOMAIN inHistory
          /\ inHistory'[last] = sends /\ \A i \in DOMAIN inHistory : inHistory'[i] = inHistory[i]
      <4>1. DOMAIN inHistory = 1 .. Len(inHistory) /\ Len(inHistory) \in Nat  BY <1>2
      <4>2. /\ Len(inHistory') = Len(inHistory) + 1 /\ inHistory' \in Seq(Nat)
            /\ \A i \in 1 .. Len(inHistory) : inHistory'[i] = inHistory[i]
            /\ inHistory'[Len(inHistory) + 1] = sends
        BY <3>1, <1>2
      <4>3. DOMAIN inHistory' = 1 .. last  BY <4>2, <3>2
      <4>4. QED  BY <4>1, <4>2, <4>3, <3>2
    <3>4. \A i \in DOMAIN inHistory' : inHistory'[i] \in 1 .. sends /\ inHistory'[i] \in wentOut \ between
      BY <2>1, <3>1, <3>3
    <3>5. \A i, j \in DOMAIN inHistory' : inHistory'[i] = inHistory'[j] => i = j
      BY <2>1, <3>3
    <3>6. \A n \in wentOut \ between : \E i \in DOMAIN inHistory' : inHistory'[i] = n
      BY <2>1, <2>2, <3>3
    <3>7. QED  BY <3>4, <3>5, <3>6, <1>3 DEF RecordsFit
  <2>5. QED  BY <2>3, <2>4
<1>10. QED  BY <1>4, <1>5, <1>6, <1>7, <1>8, <1>9 DEF ExchangeInv

LEMMA FinishKeeps == ASSUME QueueAssumed, ExchangeInv, X!Finish PROVE ExchangeInv'
<1>1. /\ ExchangeTyped /\ IdleFits /\ ExecutionFits /\ ViewFits /\ UpdatesFit /\ RecordsFit /\ GhostsFit
  BY DEF ExchangeInv
<1>2. /\ window = "awaiting" /\ cancelling = "no" /\ execution.at = "done"
      /\ exchange' = X!Idle /\ window' = "none" /\ execution' = X!NoExecution
      /\ inHistory' = IF X!Records THEN Append(inHistory, sends) ELSE inHistory
      /\ view' = X!Finished(view)
      /\ UNCHANGED <<unsent, updates, toldStop, cancelling, sends, wentOut, between>>
  BY DEF X!Finish, X!ghosts
<1>3. Sending  BY <1>1, <1>2 DEF IdleFits
<1>4. unsent = <<>> /\ updates = X!NoChannel
  <2>1. unsent = <<>>  BY <1>1, <1>2 DEF UpdatesFit
  <2>2. updates.queue = <<>> /\ updates.open = FALSE  BY <1>1, <1>2, <1>3 DEF ExecutionFits, ExchangeTyped
  <2>3. updates = [queue |-> updates.queue, open |-> updates.open]  BY <1>1 DEF ExchangeTyped
  <2>4. QED  BY <2>1, <2>2, <2>3 DEF X!NoChannel
<1>5. PICK records \in BOOLEAN : records <=> X!Records  BY Zenon
<1>6. X!Records <=> sends \in wentOut \ between
  BY <1>1, <1>2, <1>3 DEF X!Records, GhostsFit
<1>7. view \in [kind : {"empty", "waiting", "stream", "response", "failed"},
                events : Seq(Updates),
                log : {"none", "open", "stopping", "stopped", "ended", "failed"}]
  BY <1>1 DEF ExchangeTyped
<1>8. /\ view' \in [kind : {"empty", "waiting", "stream", "response", "failed"},
                    events : Seq(Updates),
                    log : {"none", "open", "stopping", "stopped", "ended", "failed"}]
      /\ view'.log \notin {"open", "stopping"}
      /\ view'.log = "none" <=> view'.kind # "stream"
      /\ view'.events = (IF view'.kind = "stream" THEN view.events ELSE <<>>)
  <2>1. CASE view.kind = "stream"
    <3>1. PICK log \in {"stopped", "ended", "failed"} : view' = [view EXCEPT !.log = log]
      BY <1>2, <2>1 DEF X!Finished
    <3>2. QED  BY <3>1, <2>1, <1>7
  <2>2. CASE view.kind # "stream"
    <3>1. PICK kind \in {"response", "failed"} : view' = [kind |-> kind, events |-> <<>>, log |-> "none"]
      BY <1>2, <2>2 DEF X!Finished, X!Shows
    <3>2. <<>> \in Seq(Updates)  OBVIOUS
    <3>3. QED  BY <3>1, <3>2
  <2>3. QED  BY <2>1, <2>2
<1>9. records <=> sends \in wentOut \ between  BY <1>5, <1>6
<1>10. inHistory' = IF records THEN Append(inHistory, sends) ELSE inHistory  BY <1>2, <1>5, Zenon
<1>11. unsent' = <<>> /\ updates' = X!NoChannel /\ cancelling' = "no"  BY <1>2, <1>4
<1>12. QED  BY <1>2, <1>3, <1>8, <1>9, <1>10, <1>11, OverStep

LEMMA CancelEndsKeeps == ASSUME QueueAssumed, ExchangeInv, X!CancelEnds PROVE ExchangeInv'
<1>1. /\ ExchangeTyped /\ IdleFits /\ ExecutionFits /\ ViewFits /\ UpdatesFit /\ RecordsFit /\ GhostsFit
  BY DEF ExchangeInv
<1>2. /\ cancelling # "no" /\ cancelling' = "no" /\ exchange' = X!Idle
      /\ window' = "none" /\ execution' = X!NoExecution /\ unsent' = <<>> /\ updates' = X!NoChannel
      /\ inHistory' = IF cancelling = "went out" THEN Append(inHistory, sends) ELSE inHistory
      /\ view' = X!Cancelled(view)
      /\ UNCHANGED <<toldStop, sends, wentOut, between>>
  BY DEF X!CancelEnds, X!DropsTasks, X!ghosts
<1>3. Sending  BY <1>1, <1>2 DEF IdleFits
<1>4. PICK records \in BOOLEAN : records <=> cancelling = "went out"  BY Zenon
<1>5. cancelling = "went out" <=> sends \in wentOut \ between
  BY <1>1, <1>2, <1>3 DEF GhostsFit, ExchangeTyped
<1>6. view \in [kind : {"empty", "waiting", "stream", "response", "failed"},
                events : Seq(Updates),
                log : {"none", "open", "stopping", "stopped", "ended", "failed"}]
  BY <1>1 DEF ExchangeTyped
<1>7. /\ view' \in [kind : {"empty", "waiting", "stream", "response", "failed"},
                    events : Seq(Updates),
                    log : {"none", "open", "stopping", "stopped", "ended", "failed"}]
      /\ view'.log \notin {"open", "stopping"}
      /\ view'.log = "none" <=> view'.kind # "stream"
      /\ view'.events = (IF view'.kind = "stream" THEN view.events ELSE <<>>)
  <2>1. CASE view.kind = "stream"
    <3>1. view.log # "none"  BY <1>1, <2>1 DEF ViewFits
    <3>2. PICK log \in {"stopped", "ended", "failed"} : view' = [view EXCEPT !.log = log]
      BY <1>2, <1>6, <2>1, <3>1 DEF X!Cancelled
    <3>3. QED  BY <3>2, <2>1, <1>6
  <2>2. CASE view.kind = "response"
    <3>1. view' = view /\ view.events = <<>> /\ view.log = "none"
      BY <1>1, <1>2, <2>2 DEF X!Cancelled, ViewFits
    <3>2. QED  BY <3>1, <2>2, <1>6
  <2>3. CASE view.kind \notin {"stream", "response"}
    <3>1. view' = [kind |-> "empty", events |-> <<>>, log |-> "none"]
      BY <1>2, <2>3 DEF X!Cancelled, X!Shows
    <3>2. <<>> \in Seq(Updates)  OBVIOUS
    <3>3. QED  BY <3>1, <3>2
  <2>4. QED  BY <2>1, <2>2, <2>3
<1>8. records <=> sends \in wentOut \ between  BY <1>4, <1>5
<1>9. inHistory' = IF records THEN Append(inHistory, sends) ELSE inHistory  BY <1>2, <1>4, Zenon
<1>10. QED  BY <1>2, <1>3, <1>7, <1>8, <1>9, OverStep

-----------------------------------------------------------------------------
LEMMA ExchangeStepKeeps == ASSUME QueueAssumed, ExchangeInv, [X!Next]_(X!vars) PROVE ExchangeInv'
<1>1. CASE X!Executor
  BY <1>1, DispatchesKeeps, FailsKeeps, TimesOutKeeps, HeadsKeeps, ReadsKeeps, PushKeeps,
     BodyEndsKeeps, PostScriptsKeeps
  DEF X!Executor
<1>2. CASE X!Window
  BY <1>2, ReceiveKeeps, UpdatesEndKeeps, FinishKeeps, CancelEndsKeeps DEF X!Window
<1>3. CASE X!Sends  BY <1>3, SendsKeeps
<1>4. CASE X!Stop  BY <1>4, StopKeeps
<1>5. CASE X!Cancel  BY <1>5, CancelKeeps
<1>6. CASE UNCHANGED X!vars
  <2>1. UNCHANGED <<exchange, window, execution, unsent, updates, toldStop, cancelling, view, inHistory,
                    sends, wentOut, between>>
    BY <1>6 DEF X!vars
  <2>2. ExchangeTyped'
    <3>1. cancelling' \in {"no", "not yet", "went out"}  BY <2>1 DEF ExchangeInv, ExchangeTyped
    <3>2. QED  BY <2>1, <3>1, TypedStays DEF ExchangeInv
  <2>3. IdleFits' /\ ExecutionFits' /\ ViewFits'
    BY <2>1 DEF ExchangeInv, IdleFits, ExecutionFits, ViewFits, Sending
  <2>4. UpdatesFit'  BY <2>1 DEF ExchangeInv, UpdatesFit, Due, Sending
  <2>5. RecordsFit' /\ GhostsFit'  BY <2>1 DEF ExchangeInv, RecordsFit, GhostsFit, Sending
  <2>6. QED  BY <2>2, <2>3, <2>4, <2>5 DEF ExchangeInv
<1>7. QED  BY <1>1, <1>2, <1>3, <1>4, <1>5, <1>6 DEF X!Next

LEMMA ExchangeInductive == ASSUME QueueAssumed PROVE X!Spec => []ExchangeInv
<1>1. X!Init => ExchangeInv  BY ExchangeStarts
<1>2. ExchangeInv /\ [X!Next]_(X!vars) => ExchangeInv'  BY ExchangeStepKeeps
<1>3. QED  BY <1>1, <1>2, PTL DEF X!Spec

-----------------------------------------------------------------------------
LEMMA ExchangeIsTyped == ASSUME ExchangeInv PROVE X!TypeOK
<1>1. ExchangeTyped /\ IdleFits /\ ExecutionFits /\ ViewFits /\ UpdatesFit  BY DEF ExchangeInv
<1>2. exchange.at \in {"idle", "sending"} /\ ((exchange.at = "idle") = (window = "none"))
  <2>1. exchange.at \in {"idle", "sending"}  BY <1>1 DEF ExchangeTyped
  <2>2. (exchange.at = "idle") <=> (window = "none")
    BY <1>1, <2>1 DEF IdleFits, ExecutionFits, Sending
  <2>3. QED  BY <2>1, <2>2
<1>3. ((view.log = "none") = (view.kind # "stream"))
  <2>1. view.log = "none" <=> view.kind # "stream"  BY <1>1 DEF ViewFits
  <2>2. QED  BY <2>1
<1>4. /\ exchange.stream \in {"none", "pending", "open", "stopping", "ended"}
      /\ view.kind \in {"empty", "waiting", "stream", "response", "failed"}
      /\ execution.at \in {"none", "scripts", "sent", "body", "stream", "post", "done"}
  BY <1>1 DEF ExchangeTyped, Places
<1>5. Len(updates.queue) <= UPDATE_QUEUE + 1  BY <1>1 DEF UpdatesFit
<1>6. QED  BY <1>2, <1>3, <1>4, <1>5 DEF X!TypeOK

(***************************************************************************)
(* What the tab promises.                                                  *)
(***************************************************************************)
\* The tab, its window and its stream have their kinds, and the queue is never
\* longer than its buffer and the slot of its only sender.
THEOREM ExchangeTypeCorrect == ASSUME QueueAssumed PROVE X!Spec => []X!TypeOK
<1>1. ExchangeInv => X!TypeOK  BY ExchangeIsTyped
<1>2. QED  BY <1>1, ExchangeInductive, PTL

LEMMA ArrivalsShown == ASSUME ExchangeInv PROVE X!LogHoldsWhatArrived
<1>1. ExchangeTyped /\ IdleFits /\ ExecutionFits /\ ViewFits /\ UpdatesFit  BY DEF ExchangeInv
<1>2. PICK arrivals \in Seq(Updates) : arrivals = view.events  BY <1>1 DEF ExchangeTyped
<1>3. view.events = [i \in 1 .. Len(view.events) |-> <<sends, i>>]
  <2>1. \A i \in 1 .. Len(arrivals) : arrivals[i] = <<sends, i>>  BY <1>1, <1>2 DEF ViewFits
  <2>2. arrivals = [i \in 1 .. Len(arrivals) |-> arrivals[i]]  OBVIOUS
  <2>3. QED  BY <2>1, <2>2, <1>2
<1>4. ASSUME execution.at = "done", ~toldStop, window = "awaiting"
      PROVE  Len(view.events) = execution.read
  <2>1. Sending  BY <1>1, <1>4 DEF IdleFits
  <2>2. unsent = <<>> /\ updates.queue = <<>>
    BY <1>1, <1>4, <2>1 DEF UpdatesFit, ExecutionFits
  <2>3. Len(arrivals) \in Nat /\ execution.read \in Nat
    <3>1. execution.read \in Nat  BY <1>1 DEF ExchangeTyped
    <3>2. QED  BY <3>1, <1>2
  <2>4. CASE execution.opened
    <3>1. Due + Len(updates.queue) + Len(unsent) = execution.read + 1
      BY <1>1, <1>4, <2>4 DEF UpdatesFit
    <3>2. Due = execution.read + 1
      <4>1. Len(updates.queue) = 0 /\ Len(unsent) = 0  BY <2>2
      <4>2. Due \in Nat  BY <1>2, <2>3 DEF Due
      <4>3. QED  BY <3>1, <4>1, <4>2, <2>3
    <3>3. QED  BY <3>2, <1>2, <2>3 DEF Due
  <2>5. CASE ~execution.opened
    <3>1. execution.read = 0 /\ view.kind = "waiting"  BY <1>1, <2>1, <2>5 DEF UpdatesFit
    <3>2. view.events = <<>>  BY <1>1, <3>1 DEF ViewFits
    <3>3. QED  BY <3>1, <3>2
  <2>6. QED  BY <2>4, <2>5
<1>5. QED  BY <1>3, <1>4 DEF X!LogHoldsWhatArrived

\* What the log of a stream shows are the events of the last request that was
\* sent, in their order, without gap and none twice, however they are batched.
THEOREM ShownAsArrived == ASSUME QueueAssumed PROVE X!Spec => []X!LogHoldsWhatArrived
<1>1. ExchangeInv => X!LogHoldsWhatArrived  BY ArrivalsShown
<1>2. QED  BY <1>1, ExchangeInductive, PTL

LEMMA SameCardinality == \A Q : X!Cardinality(Q) = Cardinality(Q)
BY DEF X!Cardinality, Cardinality

LEMMA RecordsOnce == ASSUME ExchangeInv PROVE X!HistoryHasWhatWentOut
<1>1. ExchangeTyped /\ IdleFits /\ RecordsFit  BY DEF ExchangeInv
<1>2. /\ \A i, j \in DOMAIN inHistory : inHistory[i] = inHistory[j] => i = j
      /\ \A i \in DOMAIN inHistory : inHistory[i] \in wentOut \ between
      /\ \A n \in wentOut \ between : (n < sends \/ ~Sending) => \E i \in DOMAIN inHistory : inHistory[i] = n
  BY <1>1 DEF RecordsFit
<1>3. ASSUME NEW n \in 1 .. sends, n < sends \/ exchange = X!Idle, n \notin between
      PROVE  X!Cardinality({i \in DOMAIN inHistory : inHistory[i] = n}) = IF n \in wentOut THEN 1 ELSE 0
  <2>1. exchange = X!Idle => ~Sending  BY DEF Sending, X!Idle
  <2>2. CASE n \in wentOut
    <3>1. PICK i \in DOMAIN inHistory : inHistory[i] = n  BY <1>2, <1>3, <2>1, <2>2
    <3>2. {j \in DOMAIN inHistory : inHistory[j] = n} = {i}  BY <1>2, <3>1
    <3>3. QED  BY <3>2, <2>2, SameCardinality, FS_Singleton
  <2>3. CASE n \notin wentOut
    <3>1. {j \in DOMAIN inHistory : inHistory[j] = n} = {}  BY <1>2, <2>3
    <3>2. QED  BY <3>1, <2>3, SameCardinality, FS_EmptySet
  <2>4. QED  BY <2>2, <2>3
<1>4. ASSUME NEW n \in between PROVE n \notin X!ToSet(inHistory)
  BY <1>2, <1>4 DEF X!ToSet
<1>5. QED  BY <1>3, <1>4 DEF X!HistoryHasWhatWentOut

\* History records each request that went out once, and no other, whichever way
\* it ends; one that goes out after cancel() looked is left out.
THEOREM RecordedOnce == ASSUME QueueAssumed PROVE X!Spec => []X!HistoryHasWhatWentOut
<1>1. ExchangeInv => X!HistoryHasWhatWentOut  BY RecordsOnce
<1>2. QED  BY <1>1, ExchangeInductive, PTL

LEMMA LogsClose == ASSUME ExchangeInv PROVE X!StreamLogsEnd
<1>1. ExchangeTyped /\ IdleFits /\ ExecutionFits /\ ViewFits /\ UpdatesFit  BY DEF ExchangeInv
<1>2. exchange = X!Idle => view.log \notin {"open", "stopping"}
  BY <1>1 DEF IdleFits, Sending, X!Idle
<1>3. ASSUME execution.result = "timeout" PROVE view.kind # "stream" /\ updates.queue = <<>>
  <2>1. Sending  BY <1>1, <1>3 DEF IdleFits, X!NoExecution
  <2>2. ~execution.opened  BY <1>1, <1>3, <2>1 DEF ExecutionFits
  <2>3. QED  BY <1>1, <2>1, <2>2 DEF UpdatesFit
<1>4. QED  BY <1>2, <1>3 DEF X!StreamLogsEnd

\* Once nothing is sent, the log of a stream says how it ended; and the timeout
\* of a request never ends a stream.
THEOREM LogsAreClosed == ASSUME QueueAssumed PROVE X!Spec => []X!StreamLogsEnd
<1>1. ExchangeInv => X!StreamLogsEnd  BY LogsClose
<1>2. QED  BY <1>1, ExchangeInductive, PTL

-----------------------------------------------------------------------------
(***************************************************************************)
(* ScriptedSend: any script, any limits of what it does.                   *)
(***************************************************************************)

NetworkAssumed == REQUEST_LIMIT \in Nat /\ CONCURRENT_REQUESTS \in Nat

SentReports == [script : S!AllScripts, error : {"none", "error", "limit", "after"}]
ScriptStates ==
  [main : {"none", "pending", "ok", "error"}, jobs : Nat, sent : 0 .. REQUEST_LIMIT,
   pending : 0 .. CONCURRENT_REQUESTS, rejected : Nat, tests : Nat,
   skipped : BOOLEAN, error : {"none", "error"}]

ScriptedTyped ==
  /\ future \in [at : {"pre", "resolving", "sending", "post", "done"},
                 pre : S!Written(S!Pre), post : S!Written(S!Post)]
  /\ thread \in [phase : {"none", "pre", "post", "resolve"},
                 at : {"none", "next", "running", "loop", "waiting", "returned", "applying", "resolving"}]
  /\ scripts \in Seq(S!AllScripts) /\ reports \in Seq(SentReports) /\ Len(reports) <= 4
  /\ script \in ScriptStates
  /\ late \in BOOLEAN /\ cancelled \in BOOLEAN
  /\ changed \subseteq S!AllScripts /\ locals \subseteq S!AllScripts /\ after \subseteq S!AllScripts
  /\ output \in [result : {"none", "response", "failed", "skipped", "timeout", "dropped"},
                 reports : Seq(SentReports)]

(***************************************************************************)
(* The closure on the pool, also when nobody awaits it: it works off the   *)
(* scripts of its phase.                                                   *)
(***************************************************************************)
Busy == thread.at \in {"running", "loop", "waiting", "returned", "applying"}
ThreadFits ==
  /\ thread.phase = "none" => thread = S!NoThread
  /\ thread.phase \in {"pre", "post"} => Busy \/ thread.at = "next"
  /\ thread.phase = "resolve" => thread.at = "resolving"
  /\ Busy => scripts # <<>>
  /\ thread.at = "waiting" => script.pending > 0
  /\ Busy /\ script.skipped => thread.phase = "pre"
  /\ thread.phase # "none" => S!Ended \/ future.at = IF thread.phase = "resolve" THEN "resolving" ELSE thread.phase

\* All scripts before the request are reported, without error.
PreIsTold ==
  /\ Len(future.pre) <= Len(reports)
  /\ \A i \in 1 .. Len(future.pre) : reports[i].error = "none"
NoneAfter(list) == \A i \in 1 .. Len(list) : list[i].error # "after"

(***************************************************************************)
(* What is reported, and what is left to run.                              *)
(***************************************************************************)
PreFits ==
  future.at = "pre" \/ thread.phase = "pre" =>
    /\ S!Names(reports) \o scripts = future.pre
    /\ \A i \in 1 .. Len(reports) : reports[i].error = "none"
    /\ changed = S!Taken(reports) /\ locals = {}
    /\ thread = S!NoThread => reports = <<>>
ResolvingFits ==
  future.at = "resolving" \/ thread.phase = "resolve" =>
    /\ S!Names(reports) = future.pre
    /\ \A i \in 1 .. Len(reports) : reports[i].error = "none"
    /\ changed = S!Taken(reports) /\ locals = {}
SendingFits ==
  future.at = "sending" =>
    /\ S!Names(reports) = future.pre
    /\ \A i \in 1 .. Len(reports) : reports[i].error = "none"
    /\ changed = S!Taken(reports) /\ locals \subseteq changed
PostFits ==
  future.at = "post" \/ thread.phase = "post" =>
    /\ S!Names(reports) \o scripts = future.pre \o future.post
    /\ PreIsTold /\ NoneAfter(reports)
    /\ changed = S!Taken(reports) /\ locals \subseteq changed

(***************************************************************************)
(* What the future returned, and what a cancelled request still changes.   *)
(***************************************************************************)
OutputFits ==
  /\ S!Ended <=> output.result # "none"
  /\ locals \subseteq changed
  /\ output.result \in {"response", "failed", "skipped"} =>
       thread = S!NoThread /\ changed = S!Told(output.reports, {"none", "after"})
  /\ output.result = "response" =>
       /\ S!Names(output.reports) = future.pre \o future.post
       /\ \A i \in 1 .. Len(future.pre) : output.reports[i].error = "none"
CancelFits ==
  /\ S!Ended /\ thread # S!NoThread => cancelled
  /\ ~cancelled \/ thread.at = "applying" => after = {}
  /\ S!CancelledScriptsStop

ScriptedInv ==
  ScriptedTyped /\ ThreadFits /\ PreFits /\ ResolvingFits /\ SendingFits /\ PostFits /\ OutputFits /\ CancelFits

-----------------------------------------------------------------------------
(***************************************************************************)
(* The scripts of a request, and the reports of those that ran.            *)
(***************************************************************************)
LEMMA FewScripts ==
  ASSUME NEW s, s \in S!Written(S!Pre) \union S!Written(S!Post)
  PROVE  s \in Seq(S!AllScripts) /\ Len(s) \in Nat /\ Len(s) <= 2
<1>1. /\ <<"collection", "pre">> \in S!AllScripts /\ <<"request", "pre">> \in S!AllScripts
      /\ <<"collection", "post">> \in S!AllScripts /\ <<"request", "post">> \in S!AllScripts
  BY DEF S!AllScripts
<1>2. \A a, b \in S!AllScripts :
        /\ <<a>> \in Seq(S!AllScripts) /\ Len(<<a>>) = 1
        /\ <<a, b>> \in Seq(S!AllScripts) /\ Len(<<a, b>>) = 2
  OBVIOUS
<1>3. <<>> \in Seq(S!AllScripts) /\ Len(<<>>) = 0  OBVIOUS
<1>4. S!Written(S!Pre) = {<<>>, <<<<"collection", "pre">>>>, <<<<"request", "pre">>>>, S!Pre}
  BY DEF S!Written, S!Pre
<1>5. S!Written(S!Post) = {<<>>, <<<<"collection", "post">>>>, <<<<"request", "post">>>>, S!Post}
  BY DEF S!Written, S!Post
<1>6. S!Pre \in Seq(S!AllScripts) /\ Len(S!Pre) = 2 /\ S!Post \in Seq(S!AllScripts) /\ Len(S!Post) = 2
  BY <1>1, <1>2 DEF S!Pre, S!Post
<1>7. CASE s = <<>>  BY <1>3, <1>7
<1>8. CASE s = S!Pre \/ s = S!Post
  <2>1. 2 \in Nat /\ 2 <= 2  OBVIOUS
  <2>2. QED  BY <1>6, <1>8, <2>1, Zenon
<1>9. ASSUME NEW a \in S!AllScripts, s = <<a>>
      PROVE  s \in Seq(S!AllScripts) /\ Len(s) \in Nat /\ Len(s) <= 2
  BY <1>2, <1>9
<1>10. QED  BY <1>1, <1>4, <1>5, <1>7, <1>8, <1>9

LEMMA NamesOfList ==
  ASSUME NEW list \in Seq(SentReports)
  PROVE  /\ S!Names(list) \in Seq(S!AllScripts) /\ Len(S!Names(list)) = Len(list) /\ Len(list) \in Nat
         /\ \A i \in 1 .. Len(list) : S!Names(list)[i] = list[i].script
<1>1. DOMAIN list = 1 .. Len(list) /\ Len(list) \in Nat  BY LenProperties
<1>2. \A i \in 1 .. Len(list) : list[i].script \in S!AllScripts
  <2>1. \A i \in 1 .. Len(list) : list[i] \in SentReports  BY ElementOfSeq
  <2>2. \A r \in SentReports : r.script \in S!AllScripts  BY DEF SentReports
  <2>3. QED  BY <2>1, <2>2
<1>3. S!Names(list) = [i \in 1 .. Len(list) |-> list[i].script]  BY <1>1 DEF S!Names
<1>4. QED  BY <1>1, <1>2, <1>3

LEMMA ReportedNext ==
  ASSUME NEW list \in Seq(SentReports), NEW r \in SentReports
  PROVE  /\ Append(list, r) \in Seq(SentReports) /\ Len(Append(list, r)) = Len(list) + 1
         /\ \A i \in 1 .. Len(list) : Append(list, r)[i] = list[i]
         /\ Append(list, r)[Len(list) + 1] = r
         /\ \A i \in 1 .. Len(list) + 1 : i \in 1 .. Len(list) \/ i = Len(list) + 1
         /\ S!Names(Append(list, r)) = Append(S!Names(list), r.script)
         /\ \A errors : S!Told(Append(list, r), errors) =
              S!Told(list, errors) \union (IF r.error \in errors THEN {r.script} ELSE {})
<1> DEFINE more == Append(list, r)
<1>1. /\ more \in Seq(SentReports) /\ Len(list) \in Nat /\ Len(more) = Len(list) + 1
      /\ \A i \in 1 .. Len(list) : more[i] = list[i]
      /\ more[Len(list) + 1] = r
      /\ \A i \in 1 .. Len(list) + 1 : i \in 1 .. Len(list) \/ i = Len(list) + 1
      /\ 1 .. Len(list) \subseteq 1 .. Len(list) + 1 /\ Len(list) + 1 \in 1 .. Len(list) + 1
  BY AppendProperties, LenProperties
<1> HIDE DEF more
<1>2. DOMAIN more = 1 .. Len(list) + 1 /\ DOMAIN list = 1 .. Len(list)  BY <1>1, LenProperties
<1>3. S!Names(more) = Append(S!Names(list), r.script)
  <2>1. r.script \in S!AllScripts  BY DEF SentReports
  <2>2. /\ Append(S!Names(list), r.script) \in Seq(S!AllScripts)
        /\ Len(Append(S!Names(list), r.script)) = Len(list) + 1
        /\ \A i \in 1 .. Len(list) : Append(S!Names(list), r.script)[i] = list[i].script
        /\ Append(S!Names(list), r.script)[Len(list) + 1] = r.script
    BY <2>1, NamesOfList, AppendProperties
  <2>3. /\ S!Names(more) \in Seq(S!AllScripts) /\ Len(S!Names(more)) = Len(list) + 1
        /\ \A i \in 1 .. Len(list) : S!Names(more)[i] = list[i].script
        /\ S!Names(more)[Len(list) + 1] = r.script
    BY <1>1, NamesOfList
  <2>4. \A i \in 1 .. Len(list) + 1 : S!Names(more)[i] = Append(S!Names(list), r.script)[i]
    BY <1>1, <2>2, <2>3
  <2>5. QED  BY <2>2, <2>3, <2>4, SeqEqual
<1>4. ASSUME NEW errors
      PROVE  S!Told(more, errors) =
               S!Told(list, errors) \union (IF r.error \in errors THEN {r.script} ELSE {})
  BY <1>1, <1>2 DEF S!Told
<1>5. QED  BY <1>1, <1>3, <1>4 DEF more

\* The next script is reported, and the others are left.
LEMMA OneLess ==
  ASSUME NEW list \in Seq(SentReports), NEW rest \in Seq(S!AllScripts), rest # <<>>,
         NEW error \in {"none", "error", "limit", "after"}, NEW r, r = [script |-> Head(rest), error |-> error]
  PROVE  /\ r \in SentReports /\ Head(rest) \in S!AllScripts /\ Tail(rest) \in Seq(S!AllScripts)
         /\ S!Names(Append(list, r)) \o Tail(rest) = S!Names(list) \o rest
         /\ Len(S!Names(list) \o rest) > Len(list)
<1>1. Head(rest) \in S!AllScripts /\ Tail(rest) \in Seq(S!AllScripts)  BY HeadTailProperties
<1>2. r \in SentReports /\ r.script = Head(rest)  BY <1>1 DEF SentReports
<1>3. <<Head(rest)>> \in Seq(S!AllScripts) /\ S!Names(list) \in Seq(S!AllScripts)  BY <1>1, NamesOfList
<1>4. rest = <<Head(rest)>> \o Tail(rest)
  <2>1. Len(rest) \in Nat /\ Len(rest) > 0  BY LenProperties, EmptySeq
  <2>2. SubSeq(rest, 1, Len(rest)) = <<rest[1]>> \o SubSeq(rest, 1 + 1, Len(rest))
    <3>1. 1 \in 1 .. Len(rest) /\ Len(rest) \in 1 .. Len(rest)  BY <2>1
    <3>2. QED  BY <3>1, SubSeqRecursiveFirst
  <2>3. Head(rest) = rest[1] /\ Tail(rest) = SubSeq(rest, 2, Len(rest))
    BY HeadTailProperties, TailIsSubSeq
  <2>4. SubSeq(rest, 1, Len(rest)) = rest  BY SubSeqFull
  <2>5. 1 + 1 = 2  OBVIOUS
  <2>6. QED  BY <2>2, <2>3, <2>4, <2>5
<1>5. S!Names(Append(list, r)) = S!Names(list) \o <<Head(rest)>>
  <2>1. S!Names(Append(list, r)) = Append(S!Names(list), Head(rest))  BY <1>2, ReportedNext
  <2>2. QED  BY <1>1, <1>3, <2>1, AppendIsConcat
<1>6. (S!Names(list) \o <<Head(rest)>>) \o Tail(rest) = S!Names(list) \o (<<Head(rest)>> \o Tail(rest))
  BY <1>1, <1>3, ConcatAssociative
<1>7. Len(S!Names(list) \o rest) > Len(list)
  <2>1. Len(rest) \in Nat /\ Len(rest) > 0  BY LenProperties, EmptySeq
  <2>2. Len(S!Names(list) \o rest) = Len(S!Names(list)) + Len(rest)  BY <1>3, ConcatProperties
  <2>3. Len(S!Names(list)) = Len(list) /\ Len(list) \in Nat  BY NamesOfList
  <2>4. QED  BY <2>1, <2>2, <2>3
<1>8. QED  BY <1>1, <1>2, <1>4, <1>5, <1>6, <1>7

-----------------------------------------------------------------------------
(***************************************************************************)
(* The first states.                                                       *)
(***************************************************************************)
LEMMA NothingReported ==
  /\ S!Names(<<>>) = <<>> /\ <<>> \in Seq(SentReports) /\ Len(<<>>) = 0
  /\ \A errors : S!Told(<<>>, errors) = {}
  /\ \A i \in 1 .. Len(<<>>) : FALSE
<1>1. <<>> \in Seq(SentReports) /\ <<>> \in Seq(S!AllScripts) /\ Len(<<>>) = 0 /\ DOMAIN <<>> = {}
  OBVIOUS
<1>2. S!Names(<<>>) = <<>>
  <2>1. S!Names(<<>>) \in Seq(S!AllScripts) /\ Len(S!Names(<<>>)) = 0  BY <1>1, NamesOfList
  <2>2. QED  BY <2>1, EmptySeq
<1>3. \A errors : S!Told(<<>>, errors) = {}  BY <1>1 DEF S!Told
<1>4. QED  BY <1>1, <1>2, <1>3

LEMMA ScriptedStarts == NetworkAssumed /\ S!Init => ScriptedInv
<1>1. SUFFICES ASSUME NetworkAssumed, S!Init PROVE ScriptedInv  OBVIOUS
<1>2. /\ future.at = "pre" /\ future.pre \in S!Written(S!Pre) /\ future.post \in S!Written(S!Post)
      /\ scripts = future.pre /\ thread = S!NoThread /\ script = S!NoScript /\ late = FALSE
      /\ cancelled = FALSE /\ changed = {} /\ locals = {} /\ reports = <<>> /\ output = S!Unanswered
      /\ after = {}
      /\ future \in [at : {"pre"}, pre : S!Written(S!Pre), post : S!Written(S!Post)]
  BY <1>1 DEF S!Init
<1>3. scripts \in Seq(S!AllScripts)  BY <1>2, FewScripts
<1>4. ScriptedTyped
  <2>1. future \in [at : {"pre", "resolving", "sending", "post", "done"}, pre : S!Written(S!Pre), post : S!Written(S!Post)]
    BY <1>2
  <2>2. script \in ScriptStates  BY <1>1, <1>2 DEF NetworkAssumed, ScriptStates, S!NoScript
  <2>3. thread \in [phase : {"none", "pre", "post", "resolve"},
                    at : {"none", "next", "running", "loop", "waiting", "returned", "applying", "resolving"}]
    BY <1>2 DEF S!NoThread
  <2>4. output \in [result : {"none", "response", "failed", "skipped", "timeout", "dropped"},
                    reports : Seq(SentReports)]
    BY <1>2 DEF S!Unanswered
  <2>5. reports \in Seq(SentReports) /\ Len(reports) <= 4  BY <1>2
  <2>6. QED  BY <1>2, <1>3, <2>1, <2>2, <2>3, <2>4, <2>5 DEF ScriptedTyped
<1>5. ThreadFits  BY <1>2 DEF ThreadFits, S!NoThread, Busy
<1>6. PreFits
  <2>1. S!Names(reports) \o scripts = future.pre  BY <1>2, <1>3, NothingReported, ConcatEmptySeq
  <2>2. QED  BY <1>2, <2>1, NothingReported DEF PreFits, S!Taken
<1>7. ResolvingFits /\ SendingFits /\ PostFits
  BY <1>2 DEF ResolvingFits, SendingFits, PostFits, S!NoThread
<1>8. OutputFits /\ CancelFits
  BY <1>2 DEF OutputFits, CancelFits, S!Ended, S!Unanswered, S!CancelledScriptsStop, S!NoThread
<1>9. QED  BY <1>4, <1>5, <1>6, <1>7, <1>8 DEF ScriptedInv

-----------------------------------------------------------------------------
(***************************************************************************)
(* The engine.                                                             *)
(***************************************************************************)
LEMMA EngineKeeps ==
  ASSUME ScriptedInv, UNCHANGED <<scripts, S!send>>, late' \in BOOLEAN, script' \in ScriptStates,
         NEW to \in {"running", "loop", "waiting", "returned", "applying"}, thread' = [thread EXCEPT !.at = to],
         Busy \/ (thread.at = "next" /\ scripts # <<>>),
         to = "waiting" => script'.pending > 0, to = "applying" => ~cancelled,
         script'.skipped => thread.phase = "pre"
  PROVE  ScriptedInv'
<1>1. UNCHANGED <<future, scripts, cancelled, changed, locals, reports, output, after>>
  BY DEF S!send
<1>2. /\ thread \in [phase : {"none", "pre", "post", "resolve"},
                     at : {"none", "next", "running", "loop", "waiting", "returned", "applying", "resolving"}]
      /\ thread.phase = "none" => thread.at = "none"
      /\ thread.phase = "resolve" => thread.at = "resolving"
      /\ scripts # <<>>
  BY DEF ScriptedInv, ScriptedTyped, ThreadFits, S!NoThread, Busy
<1>3. /\ thread' \in [phase : {"none", "pre", "post", "resolve"},
                      at : {"none", "next", "running", "loop", "waiting", "returned", "applying", "resolving"}]
      /\ thread'.at = to /\ thread'.phase = thread.phase /\ thread.phase \in {"pre", "post"}
      /\ thread # S!NoThread /\ thread' # S!NoThread
  BY <1>2 DEF S!NoThread, Busy
<1>4. ScriptedTyped'  BY <1>1, <1>3 DEF ScriptedInv, ScriptedTyped
<1>5. ThreadFits'  BY <1>1, <1>2, <1>3 DEF ScriptedInv, ThreadFits, Busy, S!Ended
<1>6. PreFits' /\ ResolvingFits' /\ SendingFits' /\ PostFits'
  BY <1>1, <1>3 DEF ScriptedInv, PreFits, ResolvingFits, SendingFits, PostFits, PreIsTold, NoneAfter
<1>7. OutputFits' /\ CancelFits'
  BY <1>1, <1>3 DEF ScriptedInv, OutputFits, CancelFits, S!Ended, S!CancelledScriptsStop
<1>8. QED  BY <1>4, <1>5, <1>6, <1>7 DEF ScriptedInv

LEMMA SkipsBefore ==
  ASSUME script \in ScriptStates, NEW t \in S!Steps(script), t.skipped, ~script.skipped
  PROVE  thread.phase = "pre"
<1>1. \A n : [script EXCEPT !.jobs = n].skipped = script.skipped
      /\ [script EXCEPT !.rejected = n].skipped = script.skipped
      /\ [script EXCEPT !.tests = n].skipped = script.skipped
      /\ [script EXCEPT !.main = n].skipped = script.skipped
  BY DEF ScriptStates
<1>2. S!Sends(script).skipped = script.skipped  BY DEF S!Sends, ScriptStates
<1>3. QED  BY <1>1, <1>2 DEF S!Steps

LEMMA StepsFit ==
  ASSUME NetworkAssumed, script \in ScriptStates, NEW t \in S!Steps(script)
  PROVE  t \in ScriptStates
<1>1. /\ script.main \in {"none", "pending", "ok", "error"} /\ script.jobs \in Nat
      /\ script.sent \in 0 .. REQUEST_LIMIT /\ script.pending \in 0 .. CONCURRENT_REQUESTS
      /\ script.rejected \in Nat /\ script.tests \in Nat
      /\ REQUEST_LIMIT \in Nat /\ CONCURRENT_REQUESTS \in Nat
  BY DEF NetworkAssumed, ScriptStates
<1>2. CASE t = [script EXCEPT !.jobs = @ + 1]  BY <1>1, <1>2 DEF ScriptStates
<1>3. CASE t = [script EXCEPT !.rejected = @ + 1]  BY <1>1, <1>3 DEF ScriptStates
<1>4. CASE t = [script EXCEPT !.tests = @ + 1]  BY <1>1, <1>4 DEF ScriptStates
<1>5. ASSUME NEW m \in {"ok", "error"}, t = [script EXCEPT !.main = m] PROVE t \in ScriptStates
  BY <1>1, <1>5 DEF ScriptStates
<1>6. CASE script.rejected > 0 /\ t = [script EXCEPT !.rejected = @ - 1]
  <2>1. script.rejected - 1 \in Nat  BY <1>1, <1>6
  <2>2. QED  BY <1>1, <1>6, <2>1 DEF ScriptStates
<1>7. CASE script.tests > 0 /\ t = [script EXCEPT !.tests = @ - 1]
  <2>1. script.tests - 1 \in Nat  BY <1>1, <1>7
  <2>2. QED  BY <1>1, <1>7, <2>1 DEF ScriptStates
<1>8. CASE S!MaySend(script) /\ t = S!Sends(script)
  <2>1. script.sent + 1 \in 0 .. REQUEST_LIMIT /\ script.pending + 1 \in 0 .. CONCURRENT_REQUESTS
    BY <1>1, <1>8 DEF S!MaySend
  <2>2. t = [script EXCEPT !.sent = @ + 1, !.pending = @ + 1]  BY <1>8 DEF S!Sends
  <2>3. QED  BY <1>1, <2>1, <2>2 DEF ScriptStates
<1>9. CASE t = [script EXCEPT !.skipped = TRUE]  BY <1>1, <1>9 DEF ScriptStates
<1>10. \/ t \in {[script EXCEPT !.jobs = @ + 1], [script EXCEPT !.rejected = @ + 1],
                 [script EXCEPT !.tests = @ + 1]}
       \/ \E m \in {"ok", "error"} : t = [script EXCEPT !.main = m]
       \/ script.rejected > 0 /\ t = [script EXCEPT !.rejected = @ - 1]
       \/ script.tests > 0 /\ t = [script EXCEPT !.tests = @ - 1]
       \/ S!MaySend(script) /\ t = S!Sends(script)
       \/ t = [script EXCEPT !.skipped = TRUE]
  BY <1>1 DEF S!Steps
<1>11. QED  BY <1>2, <1>3, <1>4, <1>5, <1>6, <1>7, <1>8, <1>9, <1>10

LEMMA RunningKeeps ==
  ASSUME NetworkAssumed, ScriptedInv,
         S!Runs \/ S!Interrupts \/ S!TimePasses \/ S!Loop \/ S!Answers \/ S!Wakes \/ S!NextScript
  PROVE  ScriptedInv'
<1>1. /\ script \in ScriptStates /\ late \in BOOLEAN
      /\ thread \in [phase : {"none", "pre", "post", "resolve"},
                     at : {"none", "next", "running", "loop", "waiting", "returned", "applying", "resolving"}]
      /\ thread.at = "waiting" => script.pending > 0
      /\ Busy /\ script.skipped => thread.phase = "pre"
  BY DEF ScriptedInv, ScriptedTyped, ThreadFits
<1>2. /\ script.main \in {"none", "pending", "ok", "error"} /\ script.jobs \in Nat
      /\ script.sent \in 0 .. REQUEST_LIMIT /\ script.pending \in 0 .. CONCURRENT_REQUESTS
      /\ script.rejected \in Nat /\ script.tests \in Nat
      /\ REQUEST_LIMIT \in Nat /\ CONCURRENT_REQUESTS \in Nat
      /\ script.skipped \in BOOLEAN
  BY <1>1 DEF NetworkAssumed, ScriptStates
<1>3. thread = [thread EXCEPT !.at = thread.at]  BY <1>1
<1>4. CASE S!Runs
  <2>1. UNCHANGED <<scripts, S!send>> /\ late' = late /\ thread.at = "running"  BY <1>4 DEF S!Runs
  <2>2. CASE script' \in S!Steps(script) /\ UNCHANGED thread
    <3>1. script' \in ScriptStates  BY <1>1, <2>2, StepsFit
    <3>2. thread' = [thread EXCEPT !.at = "running"]  BY <1>3, <2>1, <2>2
    <3>3. script'.skipped => thread.phase = "pre"  BY <1>1, <2>1, <2>2, SkipsBefore DEF Busy
    <3>4. QED  BY <1>1, <2>1, <3>1, <3>2, <3>3, EngineKeeps DEF Busy
  <2>3. CASE S!To("loop") /\ UNCHANGED script
    BY <1>1, <2>1, <2>3, EngineKeeps DEF Busy, S!To
  <2>4. QED  BY <1>4, <2>2, <2>3 DEF S!Runs
<1>5. CASE S!Interrupts
  BY <1>1, <1>5, EngineKeeps DEF S!Interrupts, Busy, S!To
<1>6. CASE S!TimePasses
  <2>1. /\ thread' = [thread EXCEPT !.at = thread.at] /\ thread.at \in {"running", "loop", "waiting"}
        /\ late' = TRUE /\ script' = script /\ UNCHANGED <<scripts, S!send>>
    BY <1>3, <1>6 DEF S!TimePasses
  <2>2. QED  BY <1>1, <2>1, EngineKeeps DEF Busy
<1>7. CASE S!Loop
  <2>1. UNCHANGED <<scripts, S!send>> /\ late' = late /\ thread.at = "loop"  BY <1>7 DEF S!Loop
  <2>2. ASSUME NEW error \in {"none", "error"}, S!Returns(error) PROVE ScriptedInv'
    <3>1. script' = [S!NoScript EXCEPT !.skipped = script.skipped, !.error = error]  BY <2>2 DEF S!Returns
    <3>2. script' \in ScriptStates /\ script'.skipped = script.skipped
      <4>1. PICK b \in BOOLEAN : script.skipped = b  BY <1>2
      <4>2. script' = [main |-> "none", jobs |-> 0, sent |-> 0, pending |-> 0, rejected |-> 0,
                       tests |-> 0, skipped |-> b, error |-> error]
        BY <3>1, <4>1 DEF S!NoScript
      <4>3. 0 \in Nat /\ 0 \in 0 .. REQUEST_LIMIT /\ 0 \in 0 .. CONCURRENT_REQUESTS  BY <1>2
      <4>4. QED  BY <4>1, <4>2, <4>3, Zenon DEF ScriptStates
    <3>3. script'.skipped => thread.phase = "pre"  BY <1>1, <2>1, <3>2 DEF Busy
    <3>4. QED  BY <1>1, <2>1, <2>2, <3>2, <3>3, EngineKeeps DEF S!Returns, S!To, Busy
  <2>3. CASE script.jobs > 0 /\ script' = [script EXCEPT !.jobs = @ - 1] /\ S!To("running")
    <3>1. script.jobs - 1 \in Nat  BY <1>2, <2>3
    <3>2. script' \in ScriptStates /\ script'.skipped = script.skipped
      BY <1>1, <2>3, <3>1 DEF ScriptStates
    <3>3. QED  BY <1>1, <2>1, <2>3, <3>2, EngineKeeps DEF Busy, S!To
  <2>4. CASE script.pending # 0 /\ S!To("waiting") /\ UNCHANGED script
    <3>1. script'.pending > 0  BY <1>2, <2>4
    <3>2. QED  BY <1>1, <2>1, <2>4, <3>1, EngineKeeps DEF Busy, S!To
  <2>5. S!Exported \in {"none", "error"}  BY DEF S!Exported
  <2>6. QED  BY <1>7, <2>2, <2>3, <2>4, <2>5 DEF S!Loop
<1>8. CASE S!Answers
  <2>1. script' = [script EXCEPT !.pending = @ - 1, !.jobs = @ + 1] /\ script.pending > 0
    BY <1>1, <1>8 DEF S!Answers
  <2>2. script.pending - 1 \in 0 .. CONCURRENT_REQUESTS /\ script.jobs + 1 \in Nat  BY <1>2, <2>1
  <2>3. script' \in ScriptStates /\ script'.skipped = script.skipped
    BY <1>1, <2>1, <2>2 DEF ScriptStates
  <2>4. QED  BY <1>1, <1>8, <2>3, EngineKeeps DEF S!Answers, Busy, S!To
<1>9. CASE S!Wakes
  BY <1>1, <1>9, EngineKeeps DEF S!Wakes, Busy, S!To
<1>10. CASE S!NextScript
  <2>1. script' \in ScriptStates /\ ~script'.skipped
    <3>1. script' = [main |-> "pending", jobs |-> 0, sent |-> 0, pending |-> 0, rejected |-> 0,
                     tests |-> 0, skipped |-> FALSE, error |-> "none"]
      BY <1>10 DEF S!NextScript, S!Evaluated, S!NoScript
    <3>2. 0 \in Nat /\ 0 \in 0 .. REQUEST_LIMIT /\ 0 \in 0 .. CONCURRENT_REQUESTS  BY <1>2
    <3>3. QED  BY <3>1, <3>2 DEF ScriptStates
  <2>2. QED  BY <1>1, <1>10, <2>1, EngineKeeps DEF S!NextScript, S!To
<1>11. QED  BY <1>4, <1>5, <1>6, <1>7, <1>8, <1>9, <1>10

-----------------------------------------------------------------------------
(***************************************************************************)
(* The closures.                                                           *)
(***************************************************************************)
ThreadStates ==
  [phase : {"none", "pre", "post", "resolve"},
   at : {"none", "next", "running", "loop", "waiting", "returned", "applying", "resolving"}]
FutureStates ==
  [at : {"pre", "resolving", "sending", "post", "done"}, pre : S!Written(S!Pre), post : S!Written(S!Post)]
AnswerStates ==
  [result : {"none", "response", "failed", "skipped", "timeout", "dropped"}, reports : Seq(SentReports)]

LEMMA TypesOfAll ==
  ASSUME ScriptedInv
  PROVE  /\ future \in FutureStates /\ thread \in ThreadStates /\ output \in AnswerStates
         /\ scripts \in Seq(S!AllScripts) /\ reports \in Seq(SentReports) /\ Len(reports) <= 4
         /\ Len(reports) \in Nat
         /\ script \in ScriptStates /\ late \in BOOLEAN /\ cancelled \in BOOLEAN
         /\ changed \subseteq S!AllScripts /\ locals \subseteq S!AllScripts /\ after \subseteq S!AllScripts
         /\ future.pre \in Seq(S!AllScripts) /\ Len(future.pre) \in Nat /\ Len(future.pre) <= 2
         /\ future.post \in Seq(S!AllScripts) /\ Len(future.post) \in Nat /\ Len(future.post) <= 2
<1>1. /\ future \in FutureStates /\ thread \in ThreadStates /\ output \in AnswerStates
      /\ scripts \in Seq(S!AllScripts) /\ reports \in Seq(SentReports) /\ Len(reports) <= 4
      /\ script \in ScriptStates /\ late \in BOOLEAN /\ cancelled \in BOOLEAN
      /\ changed \subseteq S!AllScripts /\ locals \subseteq S!AllScripts /\ after \subseteq S!AllScripts
  BY DEF ScriptedInv, ScriptedTyped, FutureStates, ThreadStates, AnswerStates
<1>2. future.pre \in S!Written(S!Pre) \union S!Written(S!Post) /\ future.post \in S!Written(S!Pre) \union S!Written(S!Post)
  BY <1>1 DEF FutureStates
<1>3. Len(reports) \in Nat  BY <1>1, LenProperties
<1>4. QED  BY <1>1, <1>2, <1>3, FewScripts

LEMMA TypesGoOn ==
  ASSUME future' \in FutureStates, thread' \in ThreadStates, output' \in AnswerStates,
         scripts' \in Seq(S!AllScripts), reports' \in Seq(SentReports), Len(reports') <= 4,
         script' \in ScriptStates, late' \in BOOLEAN, cancelled' \in BOOLEAN,
         changed' \subseteq S!AllScripts, locals' \subseteq S!AllScripts, after' \subseteq S!AllScripts
  PROVE  ScriptedTyped'
BY DEF ScriptedTyped, FutureStates, ThreadStates, AnswerStates

\* What ends the future, or comes too late to.
LEMMA EndsFits ==
  ASSUME ScriptedInv, NEW result \in {"response", "failed", "skipped", "timeout", "dropped"},
         NEW told \in Seq(SentReports), S!Ends(result, told)
  PROVE  /\ future' \in FutureStates /\ output' \in AnswerStates
         /\ future'.at = "done" /\ future'.pre = future.pre /\ future'.post = future.post
         /\ S!Ended => output' = output
         /\ ~S!Ended => output'.result = result /\ output'.reports = told
         /\ S!Ended /\ thread # S!NoThread => output.result \in {"timeout", "dropped"}
<1>1. future \in FutureStates /\ output \in AnswerStates  BY TypesOfAll
<1>2. CASE S!Ended
  <2>1. future' = future /\ output' = output /\ future.at = "done"  BY <1>2 DEF S!Ends, S!Ended
  <2>2. output.result \in {"response", "failed", "skipped", "timeout", "dropped"}
    BY <1>1, <1>2 DEF ScriptedInv, OutputFits, AnswerStates
  <2>3. thread # S!NoThread => output.result \in {"timeout", "dropped"}
    BY <2>2 DEF ScriptedInv, OutputFits
  <2>4. QED  BY <1>1, <1>2, <2>1, <2>3
<1>3. CASE ~S!Ended
  <2>1. future' = [future EXCEPT !.at = "done"] /\ output' = [result |-> result, reports |-> told]
    BY <1>3 DEF S!Ends
  <2>2. future' \in FutureStates /\ future'.at = "done" /\ future'.pre = future.pre /\ future'.post = future.post
    BY <1>1, <2>1 DEF FutureStates
  <2>3. output' \in AnswerStates /\ output'.result = result /\ output'.reports = told
    BY <2>1 DEF AnswerStates
  <2>4. QED  BY <1>3, <2>2, <2>3
<1>4. QED  BY <1>2, <1>3

LEMMA TakesKeeps ==
  ASSUME ScriptedInv, S!TakesPhase \/ S!TakesResolve
  PROVE  ScriptedInv'
<1>1. \E at \in {"pre", "post", "resolving"} :
        /\ future.at = at /\ thread = S!NoThread
        /\ thread' = [phase |-> IF at = "resolving" THEN "resolve" ELSE at,
                      at |-> IF at = "resolving" THEN "resolving" ELSE "next"]
        /\ UNCHANGED <<scripts, script, late, S!send>>
  BY DEF S!TakesPhase, S!TakesResolve, S!Takes
<1>2. PICK at \in {"pre", "post", "resolving"} :
        /\ future.at = at /\ thread = S!NoThread
        /\ thread' = [phase |-> IF at = "resolving" THEN "resolve" ELSE at,
                      at |-> IF at = "resolving" THEN "resolving" ELSE "next"]
        /\ UNCHANGED <<scripts, script, late, S!send>>
  BY <1>1
<1>3. UNCHANGED <<future, scripts, script, late, cancelled, changed, locals, reports, output, after>>
  BY <1>2 DEF S!send
<1>4. thread' \in ThreadStates /\ thread' # S!NoThread /\ thread.phase = "none" /\ thread.at = "none"
  BY <1>2 DEF ThreadStates, S!NoThread
<1>5. ScriptedTyped'  BY <1>3, <1>4, TypesOfAll, TypesGoOn
<1>6. ThreadFits'  BY <1>2, <1>3 DEF ThreadFits, Busy, S!NoThread, S!Ended
<1>7. PreFits' /\ ResolvingFits' /\ SendingFits' /\ PostFits'
  BY <1>2, <1>3, <1>4 DEF ScriptedInv, PreFits, ResolvingFits, SendingFits, PostFits, PreIsTold, NoneAfter
<1>8. ~S!Ended /\ output.result = "none"  BY <1>2 DEF ScriptedInv, OutputFits, S!Ended
<1>9. OutputFits' /\ CancelFits'
  BY <1>2, <1>3, <1>8 DEF ScriptedInv, OutputFits, CancelFits, S!Ended, S!CancelledScriptsStop
<1>10. QED  BY <1>5, <1>6, <1>7, <1>9 DEF ScriptedInv

(***************************************************************************)
(* A script that ran is reported, whatever comes of it.                    *)
(***************************************************************************)
LEMMA RanFits ==
  ASSUME ScriptedInv, Busy, NEW error \in {"none", "error", "limit", "after"},
         reports' = Append(reports, S!Report(error))
  PROVE  /\ reports' \in Seq(SentReports) /\ Len(reports') = Len(reports) + 1 /\ Len(reports') <= 4
         /\ \A i \in 1 .. Len(reports) : reports'[i] = reports[i]
         /\ reports'[Len(reports) + 1].error = error
         /\ \A i \in 1 .. Len(reports) + 1 : i \in 1 .. Len(reports) \/ i = Len(reports) + 1
         /\ Head(scripts) \in S!AllScripts /\ Tail(scripts) \in Seq(S!AllScripts)
         /\ S!Names(reports') \o Tail(scripts) = S!Names(reports) \o scripts
         /\ \A errors : S!Told(reports', errors) =
              S!Told(reports, errors) \union (IF error \in errors THEN {Head(scripts)} ELSE {})
         /\ thread # S!NoThread /\ thread.phase \in {"pre", "post"}
<1>1. thread.phase \in {"pre", "post"} /\ thread # S!NoThread /\ scripts # <<>>
  BY TypesOfAll DEF ScriptedInv, ThreadFits, Busy, S!NoThread, ThreadStates
<1>2. S!Report(error) = [script |-> Head(scripts), error |-> error]  BY DEF S!Report
<1> DEFINE r == S!Report(error)
<1>3. r.error = error /\ r.script = Head(scripts)  BY <1>2
<1>4. /\ r \in SentReports /\ Head(scripts) \in S!AllScripts /\ Tail(scripts) \in Seq(S!AllScripts)
      /\ S!Names(Append(reports, r)) \o Tail(scripts) = S!Names(reports) \o scripts
      /\ Len(S!Names(reports) \o scripts) > Len(reports)
  BY <1>1, <1>2, TypesOfAll, OneLess
<1> HIDE DEF r
<1>5. /\ reports' \in Seq(SentReports) /\ Len(reports') = Len(reports) + 1
      /\ \A i \in 1 .. Len(reports) : reports'[i] = reports[i]
      /\ reports'[Len(reports) + 1] = r
      /\ \A i \in 1 .. Len(reports) + 1 : i \in 1 .. Len(reports) \/ i = Len(reports) + 1
      /\ \A errors : S!Told(reports', errors) =
           S!Told(reports, errors) \union (IF r.error \in errors THEN {r.script} ELSE {})
  <2>1. reports' = Append(reports, r)  BY DEF r
  <2>2. QED  BY <1>4, <2>1, TypesOfAll, ReportedNext
<1>6. Len(reports') <= 4
  <2>1. /\ future.pre \in Seq(S!AllScripts) /\ Len(future.pre) \in Nat /\ Len(future.pre) <= 2
        /\ future.post \in Seq(S!AllScripts) /\ Len(future.post) \in Nat /\ Len(future.post) <= 2
        /\ Len(reports) \in Nat
    BY TypesOfAll
  <2>2. Len(future.pre \o future.post) = Len(future.pre) + Len(future.post)  BY <2>1, ConcatProperties
  <2>3. \/ Len(future.pre) > Len(reports)
        \/ Len(future.pre \o future.post) > Len(reports)
    BY <1>1, <1>4 DEF ScriptedInv, PreFits, PostFits
  <2>4. Len(reports') = Len(reports) + 1  BY <1>5
  <2>5. \A a, b, n \in Nat :
          a <= 2 /\ b <= 2 /\ (a > n \/ a + b > n) => n + 1 <= 4
    OBVIOUS
  <2>6. Len(future.pre) > Len(reports) \/ Len(future.pre) + Len(future.post) > Len(reports)
    BY <2>2, <2>3
  <2>7. Len(future.pre) \in Nat /\ Len(future.post) \in Nat /\ Len(reports) \in Nat
        /\ Len(future.pre) <= 2 /\ Len(future.post) <= 2
    BY TypesOfAll
  <2>8. Len(reports) + 1 <= 4  BY <2>5, <2>6, <2>7, Zenon
  <2>9. QED  BY <2>4, <2>8
<1>7. reports' = Append(reports, r)  BY DEF r
<1>8. QED  BY <1>1, <1>3, <1>4, <1>5, <1>6, <1>7

\* Whether it still changed the session of a cancelled request.
Changes == after' = after \/ (after = {} /\ S!Ended /\ after' = {Head(scripts)})

LEMMA ReportsKeep ==
  ASSUME ScriptedInv, Busy, NEW error \in {"none", "error", "limit"}, S!Reports(error),
         thread.phase = "pre" => error = "none",
         UNCHANGED <<future, output, script, late, cancelled, locals>>, Changes,
         changed' = changed \union (IF error = "none" THEN {Head(scripts)} ELSE {})
  PROVE  ScriptedInv'
<1>1. /\ reports' = Append(reports, S!Report(error)) /\ scripts' = Tail(scripts)
      /\ thread' = [thread EXCEPT !.at = "next"]
  BY DEF S!Reports, S!To
<1>2. /\ reports' \in Seq(SentReports) /\ Len(reports') = Len(reports) + 1 /\ Len(reports') <= 4
      /\ \A i \in 1 .. Len(reports) : reports'[i] = reports[i]
      /\ reports'[Len(reports) + 1].error = error
      /\ \A i \in 1 .. Len(reports) + 1 : i \in 1 .. Len(reports) \/ i = Len(reports) + 1
      /\ Head(scripts) \in S!AllScripts /\ Tail(scripts) \in Seq(S!AllScripts)
      /\ S!Names(reports') \o Tail(scripts) = S!Names(reports) \o scripts
      /\ \A errors : S!Told(reports', errors) =
           S!Told(reports, errors) \union (IF error \in errors THEN {Head(scripts)} ELSE {})
      /\ thread # S!NoThread /\ thread.phase \in {"pre", "post"}
  BY <1>1, RanFits
<1>3. /\ thread' \in ThreadStates /\ thread'.at = "next" /\ thread'.phase = thread.phase
      /\ thread' # S!NoThread /\ Len(reports) \in Nat
  BY <1>1, <1>2, TypesOfAll DEF ThreadStates, S!NoThread
<1>4. after' \subseteq S!AllScripts  BY <1>2, TypesOfAll DEF Changes
<1>5. ScriptedTyped'
  BY <1>1, <1>2, <1>3, <1>4, TypesOfAll, TypesGoOn
<1>6. S!Ended \/ future.at = thread.phase  BY <1>2 DEF ScriptedInv, ThreadFits
<1>7. ThreadFits'  BY <1>2, <1>3, <1>6 DEF ThreadFits, Busy, S!NoThread, S!Ended
<1>8. S!Taken(reports') = S!Taken(reports) \union (IF error = "none" THEN {Head(scripts)} ELSE {})
  BY <1>2 DEF S!Taken
<1>9. ASSUME thread.phase = "pre" PROVE PreFits'
  <2>1. /\ S!Names(reports) \o scripts = future.pre
        /\ \A i \in 1 .. Len(reports) : reports[i].error = "none"
        /\ changed = S!Taken(reports) /\ locals = {}
    BY <1>9 DEF ScriptedInv, PreFits
  <2>2. S!Names(reports') \o scripts' = future.pre /\ changed' = S!Taken(reports')
    BY <1>1, <1>2, <1>8, <2>1
  <2>3. \A i \in 1 .. Len(reports') : reports'[i].error = "none"  BY <1>2, <1>9, <2>1
  <2>4. QED  BY <1>3, <2>1, <2>2, <2>3 DEF PreFits, S!Taken, S!Names, S!Told
<1>10. ASSUME thread.phase = "post" PROVE PostFits'
  <2>1. /\ S!Names(reports) \o scripts = future.pre \o future.post
        /\ Len(future.pre) <= Len(reports) /\ \A i \in 1 .. Len(future.pre) : reports[i].error = "none"
        /\ \A i \in 1 .. Len(reports) : reports[i].error # "after"
        /\ changed = S!Taken(reports) /\ locals \subseteq changed
    BY <1>10 DEF ScriptedInv, PostFits, PreIsTold, NoneAfter
  <2>2. S!Names(reports') \o scripts' = future.pre \o future.post /\ changed' = S!Taken(reports')
    BY <1>1, <1>2, <1>8, <2>1
  <2>3. \A i \in 1 .. Len(reports') : reports'[i].error # "after"  BY <1>2, <2>1
  <2>4. Len(future.pre) <= Len(reports') /\ \A i \in 1 .. Len(future.pre) : reports'[i].error = "none"
    <3>1. Len(future.pre) \in Nat  BY TypesOfAll
    <3>2. 1 .. Len(future.pre) \subseteq 1 .. Len(reports)  BY <1>3, <2>1, <3>1
    <3>3. QED  BY <1>2, <1>3, <2>1, <3>1, <3>2
  <2>5. locals' \subseteq changed'  BY <2>1
  <2>6. QED  BY <2>2, <2>3, <2>4, <2>5 DEF PostFits, S!Taken, S!Names, S!Told, PreIsTold, NoneAfter
<1>11. PreFits' /\ ResolvingFits' /\ SendingFits' /\ PostFits'
  BY <1>2, <1>3, <1>6, <1>9, <1>10 DEF PreFits, ResolvingFits, SendingFits, PostFits, S!Ended
<1>12. OutputFits'
  BY <1>2 DEF ScriptedInv, OutputFits, S!Ended
<1>13. CancelFits'
  BY <1>2, <1>3 DEF ScriptedInv, CancelFits, S!Ended, S!CancelledScriptsStop, Changes
<1>14. QED  BY <1>5, <1>7, <1>11, <1>12, <1>13 DEF ScriptedInv

LEMMA StoppedKeep ==
  ASSUME ScriptedInv, Busy, thread.phase = "pre",
         NEW error \in {"none", "error", "limit", "after"}, NEW result \in {"failed", "skipped"},
         S!Stops(error, result), UNCHANGED <<scripts, script, late, cancelled>>, Changes,
         changed' = changed \union (IF error \in {"none", "after"} THEN {Head(scripts)} ELSE {}),
         locals' \subseteq changed'
  PROVE  ScriptedInv'
<1>1. reports' = Append(reports, S!Report(error)) /\ S!Ends(result, reports') /\ thread' = S!NoThread
  BY DEF S!Stops
<1>2. /\ reports' \in Seq(SentReports) /\ Len(reports') <= 4
      /\ Head(scripts) \in S!AllScripts
      /\ \A errors : S!Told(reports', errors) =
           S!Told(reports, errors) \union (IF error \in errors THEN {Head(scripts)} ELSE {})
      /\ thread # S!NoThread
  BY <1>1, RanFits
<1>3. /\ future' \in FutureStates /\ output' \in AnswerStates /\ future'.at = "done"
      /\ S!Ended => output' = output /\ output.result \in {"timeout", "dropped"}
      /\ ~S!Ended => output'.result = result /\ output'.reports = reports'
  BY <1>1, <1>2, EndsFits
<1>4. /\ \A i \in 1 .. Len(reports) : reports[i].error = "none"
      /\ changed = S!Taken(reports)
  BY DEF ScriptedInv, PreFits
<1>5. changed' = S!Told(reports', {"none", "after"})
  <2>1. DOMAIN reports = 1 .. Len(reports)  BY TypesOfAll, LenProperties
  <2>2. S!Told(reports, {"none", "after"}) = S!Taken(reports)  BY <1>4, <2>1 DEF S!Told, S!Taken
  <2>3. QED  BY <1>2, <1>4, <2>2
<1>6. ScriptedTyped'
  <2>1. thread' \in ThreadStates  BY <1>1 DEF S!NoThread, ThreadStates
  <2>2. changed' \subseteq S!AllScripts /\ after' \subseteq S!AllScripts  BY <1>2, TypesOfAll DEF Changes
  <2>3. QED  BY <1>2, <1>3, <2>1, <2>2, TypesOfAll, TypesGoOn
<1>7. ThreadFits'  BY <1>1 DEF ThreadFits, Busy, S!NoThread
<1>8. PreFits' /\ ResolvingFits' /\ SendingFits' /\ PostFits'
  BY <1>1, <1>3 DEF PreFits, ResolvingFits, SendingFits, PostFits, S!NoThread
<1>9. OutputFits'
  <2>1. output'.result # "none" /\ output'.result # "response"  BY <1>3
  <2>2. output'.result \in {"failed", "skipped"} => changed' = S!Told(output'.reports, {"none", "after"})
    BY <1>3, <1>5
  <2>3. QED  BY <1>1, <1>3, <2>1, <2>2 DEF OutputFits, S!Ended, S!Told
<1>10. CancelFits'
  BY <1>1, <1>2 DEF ScriptedInv, CancelFits, S!Ended, S!CancelledScriptsStop, Changes, S!NoThread
<1>11. QED  BY <1>6, <1>7, <1>8, <1>9, <1>10 DEF ScriptedInv

LEMMA FailsKeep ==
  ASSUME ScriptedInv, Busy, NEW error \in {"error", "limit"}, S!Fails(error),
         UNCHANGED <<script, late, cancelled, changed, locals, after>>
  PROVE  ScriptedInv'
<1>1. locals \subseteq changed  BY DEF ScriptedInv, OutputFits
<1>2. CASE thread.phase = "pre"
  <2>1. S!Stops(error, "failed") /\ UNCHANGED scripts  BY <1>2 DEF S!Fails
  <2>2. QED  BY <1>1, <1>2, <2>1, StoppedKeep DEF Changes
<1>3. CASE thread.phase # "pre"
  <2>1. S!Reports(error) /\ UNCHANGED <<future, output>>  BY <1>3 DEF S!Fails
  <2>2. QED  BY <1>3, <2>1, ReportsKeep DEF Changes
<1>4. QED  BY <1>2, <1>3

LEMMA ReturnsKeep ==
  ASSUME ScriptedInv, S!Checks \/ S!Refused \/ S!Applies
  PROVE  ScriptedInv'
<1>1. Busy  BY DEF S!Checks, S!Refused, S!Applies, Busy
<1>2. CASE S!Checks
  <2>1. thread.at = "returned" /\ UNCHANGED <<script, late, cancelled, changed, locals, after>>
    BY <1>2 DEF S!Checks
  <2>2. CASE S!Fails("error")  BY <1>1, <2>1, <2>2, FailsKeep
  <2>3. CASE ~cancelled /\ S!To("applying") /\ UNCHANGED <<future, output, reports, scripts>>
    <3>1. script \in ScriptStates /\ late \in BOOLEAN  BY TypesOfAll
    <3>2. script.skipped => thread.phase = "pre"  BY <1>1 DEF ScriptedInv, ThreadFits
    <3>3. QED  BY <1>1, <2>1, <2>3, <3>1, <3>2, EngineKeeps DEF S!To, S!send
  <2>4. QED  BY <1>2, <2>2, <2>3 DEF S!Checks
<1>3. CASE S!Refused
  BY <1>1, <1>3, FailsKeep DEF S!Refused
<1>4. CASE S!Applies
  <2>1. /\ thread.at = "applying" /\ UNCHANGED <<script, late, cancelled>>
        /\ changed' = changed \union {Head(scripts)}
        /\ after' = IF S!Ended THEN after \union {Head(scripts)} ELSE after
    BY <1>4 DEF S!Applies
  <2>2. Changes  BY <2>1 DEF ScriptedInv, CancelFits, Changes
  <2>3. locals \subseteq changed /\ (script.skipped => thread.phase = "pre")
    BY <1>1 DEF ScriptedInv, OutputFits, ThreadFits
  <2>4. CASE script.skipped
    <3>1. /\ locals' = S!Taken(reports) \union {Head(scripts)}
          /\ S!Stops("none", "skipped") /\ UNCHANGED scripts
      BY <1>4, <2>4 DEF S!Applies
    <3>2. changed = S!Taken(reports)  BY <2>3, <2>4 DEF ScriptedInv, PreFits
    <3>3. QED  BY <1>1, <2>1, <2>2, <2>3, <2>4, <3>1, <3>2, StoppedKeep
  <2>5. CASE S!Reports("none") /\ UNCHANGED <<future, output, locals>>
    BY <1>1, <2>1, <2>2, <2>5, ReportsKeep
  <2>6. CASE thread.phase = "pre" /\ S!Stops("after", "failed") /\ UNCHANGED <<scripts, locals>>
    BY <1>1, <2>1, <2>2, <2>3, <2>6, StoppedKeep
  <2>7. QED  BY <1>4, <2>4, <2>5, <2>6 DEF S!Applies
<1>5. QED  BY <1>2, <1>3, <1>4

-----------------------------------------------------------------------------
(***************************************************************************)
(* The ends of the phases.                                                 *)
(***************************************************************************)
\* Reports without error tell of the same scripts, whatever else is counted.
LEMMA AllTaken ==
  ASSUME NEW list \in Seq(SentReports), NoneAfter(list)
  PROVE  S!Told(list, {"none", "after"}) = S!Taken(list)
<1>1. DOMAIN list = 1 .. Len(list)  BY LenProperties
<1>2. QED  BY <1>1 DEF S!Told, S!Taken, NoneAfter

\* What ends the future while no closure runs.
LEMMA EndsKeep ==
  ASSUME ScriptedInv, NEW result \in {"response", "failed"}, S!Ends(result, reports'),
         UNCHANGED <<script, late, cancelled, changed, after>>, thread' = S!NoThread,
         scripts' \in Seq(S!AllScripts), locals' \subseteq changed,
         reports' \in Seq(SentReports), Len(reports') <= 4,
         ~S!Ended => changed = S!Told(reports', {"none", "after"}),
         ~S!Ended /\ result = "response" =>
           /\ S!Names(reports') = future.pre \o future.post
           /\ \A i \in 1 .. Len(future.pre) : reports'[i].error = "none",
         S!Ended => thread # S!NoThread
  PROVE  ScriptedInv'
<1>1. /\ future' \in FutureStates /\ output' \in AnswerStates
      /\ future'.at = "done" /\ future'.pre = future.pre /\ future'.post = future.post
      /\ S!Ended => output' = output
      /\ ~S!Ended => output'.result = result /\ output'.reports = reports'
      /\ S!Ended => output.result \in {"timeout", "dropped"}
  BY EndsFits
<1>2. ScriptedTyped'
  <2>1. thread' \in ThreadStates  BY DEF S!NoThread, ThreadStates
  <2>2. locals' \subseteq S!AllScripts  BY TypesOfAll
  <2>3. QED  BY <1>1, <2>1, <2>2, TypesOfAll, TypesGoOn
<1>3. ThreadFits'  BY DEF ThreadFits, Busy, S!NoThread
<1>4. PreFits' /\ ResolvingFits' /\ SendingFits' /\ PostFits'
  BY <1>1 DEF PreFits, ResolvingFits, SendingFits, PostFits, S!NoThread
<1>5. OutputFits'
  <2>1. CASE S!Ended
    BY <1>1, <2>1 DEF OutputFits, S!Ended
  <2>2. CASE ~S!Ended
    <3>1. output'.result = result /\ output'.reports = reports'  BY <1>1, <2>2
    <3>2. changed' = S!Told(output'.reports, {"none", "after"})  BY <2>2, <3>1
    <3>3. output'.result = "response" =>
            /\ S!Names(output'.reports) = future'.pre \o future'.post
            /\ \A i \in 1 .. Len(future'.pre) : output'.reports[i].error = "none"
      BY <1>1, <2>2, <3>1
    <3>4. QED  BY <1>1, <3>1, <3>2, <3>3 DEF OutputFits, S!Ended, S!Told, S!Names
  <2>3. QED  BY <2>1, <2>2
<1>6. CancelFits'
  BY DEF ScriptedInv, CancelFits, S!CancelledScriptsStop, S!NoThread
<1>7. QED  BY <1>2, <1>3, <1>4, <1>5, <1>6 DEF ScriptedInv
\* A variable that cannot be filled in fails a script whose changes were taken.
LEMMA LastFails ==
  ASSUME NEW list \in Seq(SentReports), list # <<>>, \A i \in 1 .. Len(list) : list[i].error = "none",
         NEW more, more = [list EXCEPT ![Len(list)].error = "after"]
  PROVE  more \in Seq(SentReports) /\ Len(more) = Len(list) /\ S!Told(more, {"none", "after"}) = S!Taken(list)
<1>1. DOMAIN list = 1 .. Len(list) /\ Len(list) \in Nat /\ Len(list) \in 1 .. Len(list)
  <2>1. Len(list) \in Nat /\ Len(list) # 0 /\ DOMAIN list = 1 .. Len(list)  BY LenProperties, EmptySeq
  <2>2. QED  BY <2>1
<1>2. \A i \in 1 .. Len(list) : list[i] \in SentReports  BY ElementOfSeq
<1>3. [list[Len(list)] EXCEPT !.error = "after"] \in SentReports
      /\ [list[Len(list)] EXCEPT !.error = "after"].script = list[Len(list)].script
      /\ [list[Len(list)] EXCEPT !.error = "after"].error = "after"
  BY <1>1, <1>2 DEF SentReports
<1>4. more = [i \in 1 .. Len(list) |->
                IF i = Len(list) THEN [list[Len(list)] EXCEPT !.error = "after"] ELSE list[i]]
  BY <1>1
<1>5. more \in Seq(SentReports) /\ Len(more) = Len(list)
  <2>1. more \in [1 .. Len(list) -> SentReports]  BY <1>2, <1>3, <1>4
  <2>2. QED  BY <1>1, <2>1, LenProperties
<1>6. DOMAIN more = 1 .. Len(list) /\ \A i \in 1 .. Len(list) :
        more[i].script = list[i].script /\ more[i].error \in {"none", "after"}
  BY <1>3, <1>4
<1>7. S!Told(more, {"none", "after"}) = S!Taken(list)
  BY <1>1, <1>6 DEF S!Told, S!Taken
<1>8. QED  BY <1>5, <1>7

\* A closure that ended well: the future goes on, when it is still there.
LEMMA GoesOnKeeps ==
  ASSUME ScriptedInv, S!EndsPre \/ S!Resolves
  PROVE  ScriptedInv'
<1> DEFINE at == IF thread.phase = "pre" THEN "resolving" ELSE "sending"
<1>1. /\ thread' = S!NoThread /\ UNCHANGED <<scripts, script, late, cancelled, changed, reports, output, after>>
      /\ future' = IF S!Ended THEN future ELSE [future EXCEPT !.at = at]
      /\ thread # S!NoThread /\ thread.phase \in {"pre", "resolve"}
      /\ S!Ended \/ future.at = IF thread.phase = "resolve" THEN "resolving" ELSE "pre"
  BY DEF S!EndsPre, S!Resolves, S!OnThread, S!ghosts, S!NoThread, ScriptedInv, ThreadFits
<1>2. /\ S!Names(reports) = future.pre
      /\ \A i \in 1 .. Len(reports) : reports[i].error = "none"
      /\ changed = S!Taken(reports) /\ locals' \subseteq changed
      /\ thread.phase = "pre" => locals' = {}
  <2>1. CASE S!EndsPre
    <3>1. thread.phase = "pre" /\ scripts = <<>> /\ locals' = locals  BY <2>1 DEF S!EndsPre, S!OnThread
    <3>2. /\ S!Names(reports) \o scripts = future.pre
          /\ \A i \in 1 .. Len(reports) : reports[i].error = "none"
          /\ changed = S!Taken(reports) /\ locals = {}
      BY <3>1 DEF ScriptedInv, PreFits
    <3>3. S!Names(reports) \o <<>> = S!Names(reports)  BY TypesOfAll, NamesOfList, ConcatEmptySeq
    <3>4. QED  BY <3>1, <3>2, <3>3
  <2>2. CASE S!Resolves
    <3>1. thread.phase = "resolve" /\ locals' = S!Taken(reports)  BY <2>2 DEF S!Resolves, S!OnThread
    <3>2. QED  BY <3>1 DEF ScriptedInv, ResolvingFits
  <2>3. QED  BY <2>1, <2>2
<1>3. /\ future' \in FutureStates /\ future'.pre = future.pre /\ future'.post = future.post
      /\ future'.at = IF S!Ended THEN "done" ELSE at
  BY <1>1, TypesOfAll DEF FutureStates, S!Ended
<1>4. ScriptedTyped'
  <2>1. thread' \in ThreadStates  BY <1>1 DEF S!NoThread, ThreadStates
  <2>2. locals' \subseteq S!AllScripts  BY <1>2, TypesOfAll
  <2>3. QED  BY <1>1, <1>3, <2>1, <2>2, TypesOfAll, TypesGoOn
<1>5. ThreadFits'  BY <1>1 DEF ThreadFits, Busy, S!NoThread
<1>6. UNCHANGED <<S!Names(reports), S!Taken(reports)>>  BY <1>1 DEF S!Names, S!Taken, S!Told
<1>7. PreFits' /\ ResolvingFits' /\ SendingFits' /\ PostFits'
  <2>1. /\ S!Names(reports)' = future'.pre /\ \A i \in 1 .. Len(reports') : reports'[i].error = "none"
        /\ changed' = S!Taken(reports)' /\ locals' \subseteq changed'
        /\ thread.phase = "pre" => locals' = {}
    BY <1>1, <1>2, <1>3, <1>6
  <2>2. thread'.phase = "none"  BY <1>1 DEF S!NoThread
  <2>3. future'.at \in {"done", at} /\ (thread.phase # "pre" => future'.at # "resolving")  BY <1>3
  <2>4. QED  BY <2>1, <2>2, <2>3 DEF PreFits, ResolvingFits, SendingFits, PostFits
<1>8. OutputFits'
  <2>1. S!Ended' <=> S!Ended  BY <1>3 DEF S!Ended
  <2>2. S!Ended => output.result \notin {"response", "failed", "skipped"}
    BY <1>1 DEF ScriptedInv, OutputFits
  <2>3. ~S!Ended => output.result = "none"  BY DEF ScriptedInv, OutputFits
  <2>4. S!Ended <=> output.result # "none"  BY DEF ScriptedInv, OutputFits
  <2>5. QED  BY <1>1, <1>2, <2>1, <2>2, <2>3, <2>4 DEF OutputFits
<1>9. CancelFits'
  BY <1>1 DEF ScriptedInv, CancelFits, S!CancelledScriptsStop, S!NoThread
<1>10. QED  BY <1>4, <1>5, <1>7, <1>8, <1>9 DEF ScriptedInv
LEMMA EndsPostKeeps == ScriptedInv /\ S!EndsPost => ScriptedInv'
<1>1. SUFFICES ASSUME ScriptedInv, S!EndsPost PROVE ScriptedInv'  OBVIOUS
<1>2. /\ thread.phase = "post" /\ thread # S!NoThread /\ scripts = <<>> /\ thread' = S!NoThread
      /\ locals' = S!Taken(reports) /\ S!Ends("response", reports')
      /\ UNCHANGED <<scripts, script, late, cancelled, changed, reports, after>>
  BY <1>1 DEF S!EndsPost, S!OnThread, S!NoThread
<1>3. /\ S!Names(reports) \o scripts = future.pre \o future.post
      /\ Len(future.pre) <= Len(reports)
      /\ \A i \in 1 .. Len(future.pre) : reports[i].error = "none"
      /\ NoneAfter(reports) /\ changed = S!Taken(reports)
  BY <1>1, <1>2 DEF ScriptedInv, PostFits, PreIsTold
<1>4. reports \in Seq(SentReports) /\ Len(reports) <= 4 /\ scripts \in Seq(S!AllScripts)
  BY <1>1, TypesOfAll
<1>5. S!Names(reports) = future.pre \o future.post
  <2>1. S!Names(reports) \o <<>> = S!Names(reports)  BY <1>4, NamesOfList, ConcatEmptySeq
  <2>2. QED  BY <1>2, <1>3, <2>1
<1>6. changed = S!Told(reports, {"none", "after"})  BY <1>3, <1>4, AllTaken
<1>7. S!Names(reports') = S!Names(reports) /\ S!Told(reports', {"none", "after"}) = S!Told(reports, {"none", "after"})
  BY <1>2 DEF S!Names, S!Told
<1>8. QED  BY <1>1, <1>2, <1>3, <1>4, <1>5, <1>6, <1>7, EndsKeep

LEMMA FailsEarlyKeeps == ScriptedInv /\ (S!Unreadable \/ S!CannotResolve \/ S!CannotSend) => ScriptedInv'
<1>1. SUFFICES ASSUME ScriptedInv, S!Unreadable \/ S!CannotResolve \/ S!CannotSend PROVE ScriptedInv'
  OBVIOUS
<1>2. /\ reports \in Seq(SentReports) /\ Len(reports) <= 4 /\ scripts \in Seq(S!AllScripts)
      /\ Len(reports) \in Nat /\ locals \subseteq changed
      /\ thread.phase = "none" => thread = S!NoThread
  BY <1>1, TypesOfAll DEF ScriptedInv, OutputFits, ThreadFits
<1>3. CASE S!Unreadable
  <2>1. /\ future.at = "pre" /\ thread = S!NoThread
        /\ reports' = <<[script |-> S!Pre[1], error |-> "error"]>> /\ S!Ends("failed", reports')
        /\ UNCHANGED <<thread, scripts, script, late, cancelled, changed, locals, after>>
    BY <1>3 DEF S!Unreadable
  <2>2. reports = <<>> /\ changed = S!Taken(reports)  BY <1>1, <2>1 DEF ScriptedInv, PreFits
  <2>3. [script |-> S!Pre[1], error |-> "error"] \in SentReports
    BY DEF SentReports, S!Pre, S!AllScripts
  <2>4. /\ reports' \in Seq(SentReports) /\ Len(reports') = 1 /\ reports'[1].error = "error"
    BY <2>1, <2>3
  <2>5. changed = {}  BY <2>2, NothingReported DEF S!Taken
  <2>6. S!Told(reports', {"none", "after"}) = {}
    <3>1. DOMAIN reports' = {1}  BY <2>4, LenProperties
    <3>2. QED  BY <2>4, <3>1 DEF S!Told
  <2>7. ~S!Ended /\ Len(reports') <= 4  BY <2>1, <2>4 DEF S!Ended
  <2>8. QED  BY <1>1, <1>2, <2>1, <2>4, <2>5, <2>6, <2>7, EndsKeep
<1>4. CASE S!CannotResolve
  <2>1. /\ thread.phase = "resolve" /\ thread # S!NoThread /\ thread' = S!NoThread
        /\ reports' = IF reports = <<>> THEN reports
                      ELSE [reports EXCEPT ![Len(reports)].error = "after"]
        /\ S!Ends("failed", reports')
        /\ UNCHANGED <<scripts, script, late, cancelled, changed, locals, after>>
    BY <1>4 DEF S!CannotResolve, S!OnThread, S!NoThread
  <2>2. /\ \A i \in 1 .. Len(reports) : reports[i].error = "none"
        /\ changed = S!Taken(reports)
    BY <1>1, <2>1 DEF ScriptedInv, ResolvingFits
  <2>3. CASE reports = <<>>
    <3>1. reports' = <<>>  BY <2>1, <2>3
    <3>2. changed = {} /\ S!Told(reports', {"none", "after"}) = {} /\ reports' \in Seq(SentReports)
          /\ Len(reports') <= 4
      BY <2>2, <2>3, <3>1, NothingReported DEF S!Taken
    <3>3. QED  BY <1>1, <1>2, <2>1, <3>2, EndsKeep
  <2>4. CASE reports # <<>>
    <3>1. reports' = [reports EXCEPT ![Len(reports)].error = "after"]  BY <2>1, <2>4
    <3>2. reports' \in Seq(SentReports) /\ Len(reports') = Len(reports)
          /\ S!Told(reports', {"none", "after"}) = S!Taken(reports)
      BY <1>2, <2>2, <2>4, <3>1, LastFails
    <3>3. QED  BY <1>1, <1>2, <2>1, <2>2, <3>2, EndsKeep
  <2>5. QED  BY <2>3, <2>4
<1>5. CASE S!CannotSend
  <2>1. /\ future.at = "sending" /\ S!Ends("failed", reports')
        /\ UNCHANGED <<thread, scripts, script, late, cancelled, changed, locals, reports, after>>
    BY <1>5 DEF S!CannotSend
  <2>2. /\ \A i \in 1 .. Len(reports) : reports[i].error = "none"
        /\ changed = S!Taken(reports)
    BY <1>1, <2>1 DEF ScriptedInv, SendingFits
  <2>3. thread' = S!NoThread /\ ~S!Ended  BY <1>1, <1>2, <2>1, TypesOfAll DEF ScriptedInv, ThreadFits, S!Ended, ThreadStates
  <2>4. changed = S!Told(reports', {"none", "after"})
    <3>1. NoneAfter(reports)  BY <2>2 DEF NoneAfter
    <3>2. S!Told(reports, {"none", "after"}) = S!Taken(reports)  BY <1>2, <3>1, AllTaken
    <3>3. QED  BY <2>1, <2>2, <3>2 DEF S!Told
  <2>5. QED  BY <1>1, <1>2, <2>1, <2>3, <2>4, EndsKeep
<1>6. QED  BY <1>1, <1>3, <1>4, <1>5

LEMMA RespondsKeeps == ScriptedInv /\ S!Responds => ScriptedInv'
<1>1. SUFFICES ASSUME ScriptedInv, S!Responds PROVE ScriptedInv'  OBVIOUS
<1>2. /\ future.at = "sending" /\ scripts' = future.post
      /\ UNCHANGED <<thread, script, late, cancelled, changed, locals, reports, after>>
  BY <1>1 DEF S!Responds
<1>3. /\ reports \in Seq(SentReports) /\ Len(reports) <= 4 /\ scripts' \in Seq(S!AllScripts)
      /\ future.pre \in Seq(S!AllScripts) /\ Len(future.pre) \in Nat
      /\ future \in FutureStates
  BY <1>1, <1>2, TypesOfAll
<1>4. /\ S!Names(reports) = future.pre
      /\ \A i \in 1 .. Len(reports) : reports[i].error = "none"
      /\ changed = S!Taken(reports) /\ locals \subseteq changed
  BY <1>1, <1>2 DEF ScriptedInv, SendingFits
<1>5. thread = S!NoThread /\ ~S!Ended
  BY <1>1, <1>2, TypesOfAll DEF ScriptedInv, ThreadFits, S!Ended, ThreadStates
<1>6. Len(future.pre) = Len(reports)  BY <1>3, <1>4, NamesOfList
<1>7. NoneAfter(reports) /\ S!Told(reports, {"none", "after"}) = S!Taken(reports)
  <2>1. NoneAfter(reports)  BY <1>4 DEF NoneAfter
  <2>2. QED  BY <1>3, <2>1, AllTaken
<1>8. UNCHANGED <<S!Names(reports), S!Taken(reports), S!Told(reports, {"none", "after"}), NoneAfter(reports)>>
  BY <1>2 DEF S!Names, S!Taken, S!Told, NoneAfter
<1>9. CASE future.post = <<>>
  <2>1. S!Ends("response", reports')  BY <1>1, <1>2, <1>9 DEF S!Responds
  <2>2. S!Names(reports') = future.pre \o future.post
    BY <1>3, <1>4, <1>8, <1>9, ConcatEmptySeq
  <2>3. \A i \in 1 .. Len(future.pre) : reports'[i].error = "none"  BY <1>2, <1>4, <1>6
  <2>4. changed = S!Told(reports', {"none", "after"})  BY <1>4, <1>7, <1>8
  <2>5. QED  BY <1>1, <1>2, <1>3, <1>5, <2>1, <2>2, <2>3, <2>4, <1>4, EndsKeep
<1>10. CASE future.post # <<>>
  <2>1. future' = [future EXCEPT !.at = "post"] /\ UNCHANGED output  BY <1>1, <1>10 DEF S!Responds
  <2>2. future' \in FutureStates /\ future'.at = "post" /\ future'.pre = future.pre
        /\ future'.post = future.post
    BY <1>3, <2>1 DEF FutureStates
  <2>3. ScriptedTyped'  BY <1>1, <1>2, <1>3, <2>1, <2>2, TypesOfAll, TypesGoOn
  <2>4. ThreadFits'  BY <1>2, <1>5 DEF ThreadFits, Busy, S!NoThread
  <2>5. PostFits'
    <3>1. S!Names(reports') \o scripts' = future'.pre \o future'.post
      BY <1>2, <1>4, <1>8, <2>2
    <3>2. Len(future'.pre) <= Len(reports') /\ \A i \in 1 .. Len(future'.pre) : reports'[i].error = "none"
      BY <1>2, <1>3, <1>4, <1>6, <2>2
    <3>3. NoneAfter(reports') /\ changed' = S!Taken(reports') /\ locals' \subseteq changed'
      BY <1>2, <1>4, <1>7, <1>8
    <3>4. QED  BY <3>1, <3>2, <3>3 DEF PostFits, PreIsTold, S!Names, S!Taken, S!Told, NoneAfter
  <2>6. PreFits' /\ ResolvingFits' /\ SendingFits'
    BY <1>2, <1>5, <2>2 DEF PreFits, ResolvingFits, SendingFits, S!NoThread
  <2>7. OutputFits'
    <3>1. output.result = "none"  BY <1>1, <1>5 DEF ScriptedInv, OutputFits
    <3>2. QED  BY <1>2, <1>4, <2>1, <2>2, <3>1 DEF OutputFits, S!Ended
  <2>8. CancelFits'
    BY <1>1, <1>2, <1>5 DEF ScriptedInv, CancelFits, S!CancelledScriptsStop
  <2>9. QED  BY <2>3, <2>4, <2>5, <2>6, <2>7, <2>8 DEF ScriptedInv
<1>11. QED  BY <1>9, <1>10

LEMMA LeavesKeeps == ScriptedInv /\ (S!TimesOut \/ S!Dropped) => ScriptedInv'
<1>1. SUFFICES ASSUME ScriptedInv, S!TimesOut \/ S!Dropped PROVE ScriptedInv'  OBVIOUS
<1>2. \E result \in {"timeout", "dropped"} : \E told \in {reports, <<>>} : S!Leaves(result, told)
  BY <1>1 DEF S!TimesOut, S!Dropped, S!Kept
<1>3. PICK result \in {"timeout", "dropped"}, told \in {reports, <<>>} : S!Leaves(result, told)
  BY <1>2
<1>4. /\ ~S!Ended /\ S!Ends(result, told) /\ cancelled' = TRUE
      /\ UNCHANGED <<thread, scripts, script, late, changed, locals, reports, after>>
  BY <1>3 DEF S!Leaves
<1>5. told \in Seq(SentReports)  BY <1>1, <1>3, TypesOfAll, NothingReported
<1>6. /\ future' \in FutureStates /\ output' \in AnswerStates
      /\ future'.at = "done" /\ future'.pre = future.pre /\ future'.post = future.post
      /\ output'.result = result
  BY <1>1, <1>4, <1>5, EndsFits
<1>7. ScriptedTyped'  BY <1>1, <1>4, <1>6, TypesOfAll, TypesGoOn
<1>8. ThreadFits'  BY <1>1, <1>4, <1>6 DEF ScriptedInv, ThreadFits, Busy, S!Ended
<1>9. PreFits' /\ ResolvingFits' /\ SendingFits' /\ PostFits'
  BY <1>1, <1>4, <1>6 DEF ScriptedInv, PreFits, ResolvingFits, SendingFits, PostFits, PreIsTold, NoneAfter, S!Taken, S!Told, S!Names
<1>10. OutputFits'
  BY <1>1, <1>4, <1>6 DEF ScriptedInv, OutputFits, S!Ended
<1>11. CancelFits'
  BY <1>1, <1>4 DEF ScriptedInv, CancelFits, S!CancelledScriptsStop
<1>12. QED  BY <1>7, <1>8, <1>9, <1>10, <1>11 DEF ScriptedInv
-----------------------------------------------------------------------------
LEMMA ScriptedStepKeeps == ASSUME NetworkAssumed, ScriptedInv, [S!Next]_(S!vars) PROVE ScriptedInv'
<1>1. CASE S!Runs \/ S!Interrupts \/ S!TimePasses \/ S!Loop \/ S!Answers \/ S!Wakes \/ S!NextScript
  BY <1>1, RunningKeeps
<1>2. CASE S!TakesPhase \/ S!TakesResolve  BY <1>2, TakesKeeps
<1>3. CASE S!Checks \/ S!Refused \/ S!Applies  BY <1>3, ReturnsKeep
<1>4. CASE S!EndsPre \/ S!Resolves  BY <1>4, GoesOnKeeps
<1>5. CASE S!EndsPost  BY <1>5, EndsPostKeeps
<1>6. CASE S!Unreadable \/ S!CannotResolve \/ S!CannotSend  BY <1>6, FailsEarlyKeeps
<1>7. CASE S!Responds  BY <1>7, RespondsKeeps
<1>8. CASE S!TimesOut \/ S!Dropped  BY <1>8, LeavesKeeps
<1>9. CASE UNCHANGED S!vars
  <2>1. UNCHANGED <<future, thread, scripts, script, late, cancelled, changed, locals, reports, output, after>>
    BY <1>9 DEF S!vars
  <2>2. ScriptedTyped'  BY <2>1, TypesOfAll, TypesGoOn
  <2>3. ThreadFits'  BY <2>1 DEF ScriptedInv, ThreadFits, Busy, S!Ended
  <2>4. PreFits' /\ ResolvingFits' /\ SendingFits' /\ PostFits'
    BY <2>1 DEF ScriptedInv, PreFits, ResolvingFits, SendingFits, PostFits, PreIsTold, NoneAfter
  <2>5. OutputFits' /\ CancelFits'
    BY <2>1 DEF ScriptedInv, OutputFits, CancelFits, S!Ended, S!CancelledScriptsStop
  <2>6. QED  BY <2>2, <2>3, <2>4, <2>5 DEF ScriptedInv
<1>10. QED  BY <1>1, <1>2, <1>3, <1>4, <1>5, <1>6, <1>7, <1>8, <1>9 DEF S!Next, S!Thread

LEMMA ScriptedInductive == ASSUME NetworkAssumed PROVE S!Spec => []ScriptedInv
<1>1. S!Init => ScriptedInv  BY ScriptedStarts
<1>2. ScriptedInv /\ [S!Next]_(S!vars) => ScriptedInv'  BY ScriptedStepKeeps
<1>3. QED  BY <1>1, <1>2, PTL DEF S!Spec

LEMMA ScriptedIsTyped == ASSUME ScriptedInv PROVE S!TypeOK
<1>1. /\ future \in FutureStates /\ thread \in ThreadStates /\ script \in ScriptStates
      /\ late \in BOOLEAN /\ cancelled \in BOOLEAN
      /\ changed \subseteq S!AllScripts /\ locals \subseteq S!AllScripts
      /\ scripts \in Seq(S!AllScripts) /\ Len(reports) <= 4
  BY TypesOfAll
<1>2. Len(S!Pre) + Len(S!Post) = 4
  <2>1. Len(S!Pre) = 2 /\ Len(S!Post) = 2  BY DEF S!Pre, S!Post
  <2>2. QED  BY <2>1
<1>3. QED  BY <1>1, <1>2 DEF S!TypeOK, FutureStates, ThreadStates, ScriptStates

(***************************************************************************)
(* executor.rs:93: the position of the future, the closure and the runtime *)
(* of its script fit each other, and a script never has more requests      *)
(* under way, nor sends more, than network.rs allows.                      *)
(***************************************************************************)
THEOREM ScriptedTypeCorrect == ASSUME NetworkAssumed PROVE S!Spec => []S!TypeOK
<1>1. ScriptedInv => S!TypeOK  BY ScriptedIsTyped
<1>2. QED  BY <1>1, ScriptedInductive, PTL

LEMMA ScriptedTells == ScriptedInv => S!ScriptsAreTold /\ S!CancelledScriptsStop
BY DEF ScriptedInv, OutputFits, CancelFits, S!ScriptsAreTold

(***************************************************************************)
(* runtime.rs:325 and runtime.rs:18: who gets a response gets a report of  *)
(* every script, in their order; an answer tells of every change the       *)
(* session took; the variables of a run are those of scripts whose changes *)
(* were taken; and a request that is gone changes the session once at most.*)
(***************************************************************************)
THEOREM ScriptsAlwaysTold ==
  ASSUME NetworkAssumed PROVE S!Spec => [](S!ScriptsAreTold /\ S!CancelledScriptsStop)
<1>1. ScriptedInv => S!ScriptsAreTold /\ S!CancelledScriptsStop  BY ScriptedTells
<1>2. QED  BY <1>1, ScriptedInductive, PTL
=============================================================================
