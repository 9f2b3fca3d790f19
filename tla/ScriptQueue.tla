---------------------------- MODULE ScriptQueue ----------------------------
(***************************************************************************)
(* The queue of script queries: crates/script_intelligence/src/worker.rs.  *)
(* Editors ask for completions; one worker thread answers with a compiler  *)
(* that it loads when it is needed and unloads when idle.  An editor whose *)
(* query finds the queue full waits on an event_listener::Event, which     *)
(* notifies the listeners in their order and passes a notification on when *)
(* a notified listener is dropped.                                         *)
(***************************************************************************)
EXTENDS Naturals, Sequences, FiniteSets, SequencesExt

CONSTANTS Editors, NoEditor,  \* NoEditor, no editor: the query of one that gave up
          QueueLimit,         \* at least one
          MaxAsks             \* bound: queries asked

VARIABLES
  editor,     \* where the query of each editor is
  pending,    \* the queries in the queue, by their editor
  listeners,  \* the editors that wait for capacity or may come to
  notified,   \*   those that were notified
  worker,     \* what the worker does
  current,    \*   and the query it took
  loaded,     \* whether it has a compiler
  running,    \* RUNNING, what the editors are told of that
  used,       \* whether memory of compilers is to be released
  asks        \* how many queries were asked

vars == <<editor, pending, listeners, notified, worker, current, loaded, running, used, asks>>

-----------------------------------------------------------------------------
Init ==
  /\ editor = [e \in Editors |-> "idle"]
  /\ pending = <<>>
  /\ listeners = <<>> /\ notified = {}
  /\ worker = "waiting" /\ current = NoEditor
  /\ loaded = FALSE /\ running = FALSE /\ used = FALSE
  /\ asks = 0

\* Event::notify(n): at least n listeners are notified, the oldest first.
Notified(n, queue, already) ==
  already \union {queue[i] : i \in {i \in DOMAIN queue : i <= n}}

\* A listener is dropped: its notification goes to the next one.
Dropped(e) ==
  /\ listeners' = RemoveFirst(listeners, e)
  /\ notified' = IF e \in notified
                   THEN Notified(1, RemoveFirst(listeners, e), notified \ {e})
                   ELSE notified

Moves(e, to) == editor' = [editor EXCEPT ![e] = to]

-----------------------------------------------------------------------------
(***************************************************************************)
(* An editor: query() and Queue::push.                                     *)
(***************************************************************************)
Ask(e) ==
  /\ editor[e] = "idle" /\ asks < MaxAsks
  /\ asks' = asks + 1
  /\ Moves(e, "starting")
  /\ UNCHANGED <<pending, listeners, notified, worker, current, loaded, running, used>>

\* It listens before it looks at the queue.
Listen(e) ==
  /\ editor[e] = "starting"
  /\ Moves(e, "listening")
  /\ listeners' = Append(listeners, e)
  /\ UNCHANGED <<pending, notified, worker, current, loaded, running, used, asks>>

\* Without the queries that were given up.
Live(queue) ==
  LET Until[n \in 0 .. Len(queue)] ==
        IF n = 0 THEN <<>>
        ELSE IF queue[n] = NoEditor THEN Until[n - 1] ELSE Append(Until[n - 1], queue[n])
  IN  Until[Len(queue)]

HasRoomForOneMore(queue) == Len(queue) <= QueueLimit           \* mutant
HasRoom(queue) == Len(queue) < QueueLimit

LeftUntold(queue) == 0                                         \* mutant
Left(queue) == QueueLimit - Len(queue)

Push(e) ==
  /\ editor[e] = "listening"
  /\ HasRoom(Live(pending))
  /\ pending' = Append(Live(pending), e)
  /\ notified' = Notified(Left(pending'), listeners, notified)
  /\ Moves(e, "pushed")
  /\ UNCHANGED <<listeners, worker, current, loaded, running, used, asks>>

\* The listener is dropped after the queue is unlocked; the answer can be there.
Pushed(e) ==
  /\ editor[e] \in {"pushed", "answered"}
  /\ Dropped(e)
  /\ Moves(e, IF editor[e] = "pushed" THEN "asked" ELSE "idle")
  /\ UNCHANGED <<pending, worker, current, loaded, running, used, asks>>

FindsFull(e) ==
  /\ editor[e] = "listening"
  /\ ~HasRoom(Live(pending))
  /\ pending' = Live(pending)
  /\ Moves(e, "waiting")
  /\ UNCHANGED <<listeners, notified, worker, current, loaded, running, used, asks>>

\* A notified editor takes its notification and tries again.
TriesAgain(e) ==
  /\ editor[e] = "waiting" /\ e \in notified
  /\ listeners' = RemoveFirst(listeners, e)
  /\ notified' = notified \ {e}
  /\ Moves(e, "starting")
  /\ UNCHANGED <<pending, worker, current, loaded, running, used, asks>>

\* The text changed, or the editor closed: the query is dropped where it waits.
GivesUp(e) ==
  /\ editor[e] \in {"waiting", "asked"}
  /\ Moves(e, "idle")
  /\ IF editor[e] = "waiting"
       THEN Dropped(e) /\ UNCHANGED <<pending, current>>
       ELSE /\ pending' = [i \in DOMAIN pending |->
                             IF pending[i] = e THEN NoEditor ELSE pending[i]]
            /\ current' = IF current = e THEN NoEditor ELSE current
            /\ UNCHANGED <<listeners, notified>>
  /\ UNCHANGED <<worker, loaded, running, used, asks>>

-----------------------------------------------------------------------------
(***************************************************************************)
(* The worker thread: Queue::next and the loop in worker().                *)
(***************************************************************************)
PopQuietly ==                                                  \* mutant
  /\ worker = "waiting" /\ pending # <<>>
  /\ worker' = "popped"
  /\ current' = pending[1] /\ pending' = Tail(pending)
  /\ UNCHANGED <<editor, listeners, notified, loaded, running, used, asks>>

Pop ==
  /\ worker = "waiting" /\ pending # <<>>
  /\ worker' = "popped"
  /\ current' = pending[1] /\ pending' = Tail(pending)
  /\ notified' = Notified(1, listeners, notified)
  /\ UNCHANGED <<editor, listeners, loaded, running, used, asks>>

\* It waits for a query only so long when there is memory to release.
WakesWhenLoaded == loaded                                      \* mutant
WakesWhenIdle == used

Unload ==
  /\ worker = "waiting" /\ pending = <<>> /\ WakesWhenIdle
  /\ loaded' = FALSE /\ running' = FALSE /\ used' = FALSE
  /\ UNCHANGED <<editor, pending, listeners, notified, worker, current, asks>>

\* The editor gave up while its query was in the queue.
Skip ==
  /\ worker = "popped" /\ current = NoEditor
  /\ worker' = "waiting"
  /\ UNCHANGED <<editor, pending, listeners, notified, current, loaded, running, used, asks>>

Start ==
  /\ worker = "popped" /\ current # NoEditor
  /\ worker' = "querying"
  /\ used' = TRUE /\ running' = TRUE
  /\ UNCHANGED <<editor, pending, listeners, notified, current, loaded, asks>>

\* An error, in loading too, drops the compiler; a cancelled query keeps it.
Answer ==
  /\ worker = "querying"
  /\ worker' = "waiting" /\ current' = NoEditor
  /\ loaded' \in BOOLEAN
  /\ editor' = [e \in Editors |->
                  IF e # current THEN editor[e]
                  ELSE IF editor[e] = "pushed" THEN "answered" ELSE "idle"]
  /\ UNCHANGED <<pending, listeners, notified, running, used, asks>>

-----------------------------------------------------------------------------
Continue(e) == Listen(e) \/ Push(e) \/ Pushed(e) \/ FindsFull(e) \/ TriesAgain(e)
Work == Pop \/ Unload \/ Skip \/ Start \/ Answer

Next == (\E e \in Editors : Ask(e) \/ Continue(e) \/ GivesUp(e)) \/ Work

\* Editors that can continue are polled, and the worker thread runs.
Spec ==
  /\ Init /\ [][Next]_vars
  /\ \A e \in Editors : WF_vars(Continue(e))
  /\ WF_vars(Work)

-----------------------------------------------------------------------------
Asked(e) == editor[e] # "idle"
Used == used

TypeOK ==
  /\ editor \in [Editors -> {"idle", "starting", "listening", "waiting", "pushed",
                           "answered", "asked"}]
  /\ pending \in Seq(Editors \union {NoEditor}) /\ Len(pending) <= QueueLimit
  /\ worker \in {"waiting", "popped", "querying"}
  /\ current \in Editors \union {NoEditor}
  /\ ToSet(listeners) =
       {e \in Editors : editor[e] \in {"listening", "waiting", "pushed", "answered"}}
  /\ notified \subseteq ToSet(listeners)
  /\ loaded => running /\ used

(***************************************************************************)
(* worker.rs:61 "so a concurrent pop cannot strand this request between    *)
(* the check and awaiting notification": while an editor waits and the     *)
(* queue has room, another that was notified, or that is about to look at  *)
(* the queue, will tell it.                                                *)
(***************************************************************************)
RoomIsPassedOn ==
  (Len(pending) < QueueLimit /\ \E e \in Editors : editor[e] = "waiting") =>
    notified # {} \/ \E e \in Editors : editor[e] \in {"starting", "listening"}

(***************************************************************************)
(* worker.rs:81 "Apply async backpressure rather than losing their final   *)
(* queries": once the editors stop asking, every query is answered or      *)
(* given up, however full the queue was.                                   *)
(***************************************************************************)
EveryQueryEnds == \A e \in Editors : Asked(e) ~> ~Asked(e)

(***************************************************************************)
(* worker.rs:149 "track memory to release separately": the memory of a     *)
(* compiler, one that an error dropped too, is released once the worker is *)
(* idle.                                                                   *)
(***************************************************************************)
MemoryIsReleased == Used ~> ~Used
=============================================================================
