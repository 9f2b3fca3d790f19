----------------------------- MODULE WebSocket -----------------------------
(***************************************************************************)
(* A WebSocket tab and its connections: Connection of                      *)
(* crates/tab_ui/src/websocket_draft/draft.rs and Connection::run of       *)
(* crates/request/src/websocket.rs.  The connection's task has a reader    *)
(* and a writer, which report to the tab through a bounded queue of        *)
(* events.  The reader also waits while the queue holds too many bytes,    *)
(* and the tab wakes it.                                                   *)
(***************************************************************************)
EXTENDS Naturals, Sequences, SequencesExt

CONSTANTS EVENT_QUEUE, QUEUED_BYTES,
          Sizes,           \* of received messages
          MaxConnections,  \* bound: connections opened
          MaxMessages      \* bound: messages of each connection, in each direction

VARIABLES
  draft,     \* the draft's Connection; "gone" when its tab closed
  tab,       \* what its task does with the queue, and the bytes it took
  history,   \* what history was told
  opened,    \* how many connections were opened; those below are of the last
  held,      \* whether the draft holds the connection; dropping it closes
  messages,  \* the messages to send, and how many there have been
  task,      \* where the background task is, and what it ends with
  reader,    \* where its reader is, and the bytes it has
  writer,    \* where its writer is, and what it reports
  events,    \* the queue, who waits for room, and whether the tab still reads it
  backlog,   \* Backlog::bytes
  waker,     \* Backlog::reader
  received   \* how many messages arrived

vars == <<draft, tab, history, opened, held, messages, task, reader, writer, events,
          backlog, waker, received>>

NoReader == [at |-> "none", bytes |-> 0]
Reading == [at |-> "reading", bytes |-> 0]
NoWriter == [at |-> "none", reports |-> "none"]
Waiting == [at |-> "waiting", reports |-> "none"]
Event(kind, bytes) == [kind |-> kind, bytes |-> bytes]
Free == [at |-> "free", bytes |-> 0]

Init ==
  /\ draft = "disconnected" /\ tab = Free /\ history = <<>> /\ opened = 0
  /\ held = FALSE /\ messages = [queued |-> 0, all |-> 0]
  /\ task = [at |-> "none", result |-> "none"] /\ reader = NoReader /\ writer = NoWriter
  /\ events = [queue |-> <<>>, parked |-> <<>>, read |-> FALSE]
  /\ backlog = 0 /\ waker = "none" /\ received = 0

tabVars == <<draft, tab, history, opened, held>>
queueVars == <<events, backlog, waker>>

-----------------------------------------------------------------------------
(***************************************************************************)
(* The events of the background task.                                      *)
(***************************************************************************)
NeverParks == FALSE                                             \* mutant
Parks == Len(events.queue) >= EVENT_QUEUE

\* A send adds its event at once, and then waits if the queue was full: each
\* sender has a slot of its own.  An event that is read lets the first one
\* that waits go on.  Without a receiver a send fails.
Emits(sender, kind, bytes) ==
  events' = IF ~events.read THEN events
            ELSE [events EXCEPT !.queue = Append(@, Event(kind, bytes)),
                                !.parked = IF Parks THEN Append(@, sender) ELSE @]
Sends(sender) == ~Contains(events.parked, sender)

IsOpen == task.at \in {"open", "closing", "acknowledging"}

\* select() drops the reader and the writer, with what they still hold.
Finishes(result) ==
  /\ task' = [at |-> "last", result |-> result]
  /\ reader' = NoReader /\ writer' = NoWriter

-----------------------------------------------------------------------------
(***************************************************************************)
(* The handshake, and the task's end.                                      *)
(***************************************************************************)
Handshakes ==
  /\ task.at = "handshake"
  /\ \/ task' = [task EXCEPT !.at = "greeting"] /\ UNCHANGED <<reader, writer>>
     \/ Finishes("failed")
  /\ UNCHANGED <<tabVars, messages, queueVars, received>>

StopsHandshake ==
  /\ task.at = "handshake" /\ ~held
  /\ task' = [task EXCEPT !.at = "over"]
  /\ UNCHANGED <<tabVars, messages, reader, writer, queueVars, received>>

Greets ==
  /\ task.at = "greeting"
  /\ Emits("task", "connected", 0)
  /\ IF events.read
       THEN task' = [task EXCEPT !.at = "open"] /\ reader' = Reading /\ writer' = Waiting
       ELSE task' = [task EXCEPT !.at = "over"] /\ UNCHANGED <<reader, writer>>
  /\ UNCHANGED <<tabVars, messages, backlog, waker, received>>

Farewell ==
  /\ task.at = "last"
  /\ Emits("task", task.result, 0)
  /\ task' = [task EXCEPT !.at = "over"]
  /\ UNCHANGED <<tabVars, messages, reader, writer, backlog, waker, received>>

-----------------------------------------------------------------------------
(***************************************************************************)
(* The reader.                                                             *)
(***************************************************************************)
IsReading == reader.at = "reading" /\ Sends("reader")

Receives(bytes) ==
  /\ IsReading /\ received < MaxMessages
  /\ reader' = [at |-> "registering", bytes |-> bytes]
  /\ received' = received + 1
  /\ UNCHANGED <<tabVars, messages, task, writer, queueVars>>

\* The server closes, or drops the connection, which is no error any more
\* once the close frame was sent.
StreamEnds ==
  /\ IsReading
  /\ Finishes("closed") \/ (task.at # "acknowledging" /\ Finishes("failed"))
  /\ UNCHANGED <<tabVars, messages, queueVars, received>>

\* poll_fn() registers its waker, then looks at the bytes.
Registers ==
  /\ reader.at = "registering"
  /\ waker' = "set"
  /\ reader' = [reader EXCEPT !.at = "looking"]
  /\ UNCHANGED <<tabVars, messages, task, writer, events, backlog, received>>

Looks ==
  /\ reader.at = "looking"
  /\ IF backlog < QUEUED_BYTES
       THEN reader' = [reader EXCEPT !.at = "pushing"] /\ backlog' = backlog + reader.bytes
       ELSE reader' = [reader EXCEPT !.at = "parked"] /\ UNCHANGED backlog
  /\ UNCHANGED <<tabVars, messages, task, writer, events, waker, received>>

Woken ==
  /\ reader.at = "parked" /\ waker = "woken"
  /\ reader' = [reader EXCEPT !.at = "registering"]
  /\ UNCHANGED <<tabVars, messages, task, writer, queueVars, received>>

Pushes ==
  /\ reader.at = "pushing"
  /\ Emits("reader", "received", reader.bytes)
  /\ IF events.read
       THEN reader' = Reading /\ UNCHANGED <<task, writer>>
       ELSE Finishes("closed")
  /\ UNCHANGED <<tabVars, messages, backlog, waker, received>>

-----------------------------------------------------------------------------
(***************************************************************************)
(* The writer.                                                             *)
(***************************************************************************)
IsWaiting == task.at = "open" /\ writer.at = "waiting" /\ Sends("writer")

\* A message whose variables do not resolve is not sent.
Takes ==
  /\ IsWaiting /\ messages.queued > 0
  /\ messages' = [messages EXCEPT !.queued = @ - 1]
  /\ writer' \in {[at |-> "sending", reports |-> "sent"], [at |-> "reporting", reports |-> "notSent"]}
  /\ UNCHANGED <<tabVars, task, reader, queueVars, received>>

\* The peer may never read.
SendEnds ==
  /\ writer.at = "sending"
  /\ \/ writer' = [writer EXCEPT !.at = "reporting"] /\ UNCHANGED <<task, reader>>
     \/ Finishes("failed")
  /\ UNCHANGED <<tabVars, messages, queueVars, received>>

\* mutant: a send is always waited for
AbandonsNot == FALSE
Abandons == writer.at = "sending" /\ ~held

AbandonsSend ==
  /\ Abandons
  /\ Finishes("closed")
  /\ UNCHANGED <<tabVars, messages, queueVars, received>>

Reports ==
  /\ writer.at = "reporting"
  /\ Emits("writer", writer.reports, 0)
  /\ writer' = Waiting
  /\ UNCHANGED <<tabVars, messages, task, reader, backlog, waker, received>>

StartsClosing ==
  /\ IsWaiting /\ ~held
  /\ task' = [task EXCEPT !.at = "closing"]
  /\ writer' = [writer EXCEPT !.at = "closing"]
  /\ UNCHANGED <<tabVars, messages, reader, queueVars, received>>

CloseFrameSent ==
  /\ task.at = "closing"
  /\ \/ task' = [task EXCEPT !.at = "acknowledging"] /\ writer' = NoWriter /\ UNCHANGED reader
     \/ Finishes("failed")
  /\ UNCHANGED <<tabVars, messages, queueVars, received>>

\* CLOSE_TIMEOUT, for the close frame and then for its acknowledgement
CloseTimesOut ==
  /\ task.at \in {"closing", "acknowledging"}
  /\ Finishes("closed")
  /\ UNCHANGED <<tabVars, messages, queueVars, received>>

-----------------------------------------------------------------------------
(***************************************************************************)
(* The tab.                                                                *)
(***************************************************************************)
\* The task of an earlier connection has ended or reaches the tab no more.
Connect ==
  /\ draft = "disconnected" /\ tab = Free /\ opened < MaxConnections
  /\ draft' = "connecting" /\ opened' = opened + 1 /\ held' = TRUE
  /\ messages' = [queued |-> 0, all |-> 0]
  /\ task' = [at |-> "handshake", result |-> "none"] /\ reader' = NoReader /\ writer' = NoWriter
  /\ events' = [queue |-> <<>>, parked |-> <<>>, read |-> TRUE]
  /\ backlog' = 0 /\ waker' = "none" /\ received' = 0
  /\ UNCHANGED <<tab, history>>

Wakes == waker' = IF waker = "set" THEN "woken" ELSE waker

\* WebSocketEvents is dropped.
StopsReading ==
  /\ events' = [queue |-> <<>>, parked |-> <<>>, read |-> FALSE]
  /\ backlog' = 0 /\ Wakes

Sent == Append(history, <<"sent", opened>>)
Ended == Append(history, <<"ended", opened>>)

Disconnects ==
  \/ draft = "connecting" /\ draft' = "disconnected" /\ StopsReading
  \/ draft = "connected" /\ draft' = "closing" /\ UNCHANGED queueVars

Disconnect ==
  /\ draft \in {"connecting", "connected"} /\ tab = Free
  /\ Disconnects
  /\ held' = FALSE
  /\ UNCHANGED <<tab, history, opened, messages, task, reader, writer, received>>

SendMessage ==
  /\ draft = "connected" /\ tab = Free /\ messages.all < MaxMessages
  /\ messages' = [queued |-> messages.queued + 1, all |-> messages.all + 1]
  /\ UNCHANGED <<tabVars, task, reader, writer, queueVars, received>>

CloseTab ==
  /\ draft # "gone" /\ tab = Free
  /\ draft' = "gone" /\ held' = FALSE
  /\ history' = IF draft \in {"connected", "closing"} THEN Ended ELSE history
  /\ StopsReading
  /\ UNCHANGED <<tab, opened, messages, task, reader, writer, received>>

\* end(): the draft drops the connection with its events.
End ==
  /\ draft' = "disconnected" /\ held' = FALSE
  /\ history' = IF draft \in {"connected", "closing"} THEN Ended ELSE history
  /\ StopsReading
  /\ UNCHANGED tab

\* The bytes of a received message are taken off while it is handled.
Read ==
  /\ events.read /\ events.queue # <<>> /\ tab = Free
  /\ LET event == Head(events.queue) IN
     \/ event.kind \in {"closed", "failed"} /\ End
     \/ /\ event.kind \notin {"closed", "failed"}
        /\ events' = [events EXCEPT !.queue = Tail(@), !.parked = IF @ = <<>> THEN @ ELSE Tail(@)]
        /\ IF event.kind = "connected" /\ draft = "connecting"
             THEN draft' = "connected" /\ history' = Sent
             ELSE UNCHANGED <<draft, history>>
        /\ tab' = IF event.kind = "received" THEN [at |-> "taking", bytes |-> event.bytes] ELSE Free
        /\ UNCHANGED <<held, backlog, waker>>
  /\ UNCHANGED <<opened, messages, task, reader, writer, received>>

\* mutant: the reader is woken before the bytes are taken off
TakesOffLate ==
  \/ tab.at = "taking" /\ tab' = [tab EXCEPT !.at = "waking"] /\ Wakes /\ UNCHANGED backlog
  \/ tab.at = "waking" /\ tab' = Free /\ backlog' = backlog - tab.bytes /\ UNCHANGED waker
TakesOff ==
  \/ /\ tab.at = "taking" /\ tab' = [tab EXCEPT !.at = "waking"]
     /\ backlog' = backlog - tab.bytes /\ UNCHANGED waker
  \/ tab.at = "waking" /\ tab' = Free /\ Wakes /\ UNCHANGED backlog

TakeOff ==
  /\ TakesOff
  /\ UNCHANGED <<draft, history, opened, held, messages, task, reader, writer, events, received>>

-----------------------------------------------------------------------------
Server == Handshakes \/ (\E bytes \in Sizes : Receives(bytes)) \/ StreamEnds \/ SendEnds \/ CloseFrameSent
User == Connect \/ Disconnect \/ SendMessage \/ CloseTab
Reader == Registers \/ Looks \/ Woken \/ Pushes
Writer ==
  \/ StopsHandshake \/ Greets \/ Takes \/ AbandonsSend \/ Reports \/ StartsClosing
  \/ CloseTimesOut \/ Farewell
Reads == Read \/ TakeOff

Next == Server \/ User \/ Reader \/ Writer \/ Reads

\* The server and the user may stop; the app and its timers go on.
Spec ==
  /\ Init /\ [][Next]_vars
  /\ WF_vars(Reader) /\ WF_vars(Writer) /\ WF_vars(Reads)

-----------------------------------------------------------------------------
TypeOK ==
  /\ draft \in {"disconnected", "connecting", "connected", "closing", "gone"}
  /\ held <=> draft \in {"connecting", "connected"}
  /\ tab.at \in {"free", "taking", "waking"}
  /\ task.at \in {"none", "handshake", "greeting", "open", "closing", "acknowledging", "last", "over"}
  /\ reader.at \in {"none", "reading", "registering", "looking", "parked", "pushing"}
  /\ (reader.at # "none") <=> IsOpen
  /\ writer.at \in {"none", "waiting", "sending", "reporting", "closing"}
  /\ Len(events.queue) <= EVENT_QUEUE + 3
  /\ waker \in {"none", "set", "woken"}

(***************************************************************************)
(* draft.rs:579 "History keeps how, once it had connected": history is     *)
(* told of a connection once, then once of its end, however the two sides  *)
(* end it; a tab that is disconnected or closed leaves none open there.    *)
(***************************************************************************)
HistoryPairsUp ==
  /\ \A i, j \in DOMAIN history : history[i] = history[j] => i = j
  /\ \A i \in DOMAIN history :
       history[i][1] = "ended" => i > 1 /\ history[i - 1] = <<"sent", history[i][2]>>
  /\ (draft \in {"disconnected", "connecting", "gone"} /\ history # <<>>) =>
       Last(history)[1] = "ended"

(***************************************************************************)
(* websocket.rs:225: the bytes that the reader waits for are those of the  *)
(* messages in the queue, whatever reader and tab do at the same time; a   *)
(* single message may exceed the limit.                                    *)
(***************************************************************************)
BytesOf(queue) ==
  LET Sum[n \in 0 .. Len(queue)] == IF n = 0 THEN 0 ELSE Sum[n - 1] + queue[n].bytes
  IN  Sum[Len(queue)]

QueuedBytes ==
  BytesOf(events.queue)
  + (IF reader.at = "pushing" THEN reader.bytes ELSE 0)
  + (IF tab.at = "taking" THEN tab.bytes ELSE 0)

BacklogIsExact ==
  (events.read /\ IsOpen) =>
    /\ backlog = QueuedBytes
    /\ \A size \in Sizes : (\A other \in Sizes : other <= size) => backlog < QUEUED_BYTES + size

(***************************************************************************)
(* websocket.rs:381: a reader that waits for the queue to drain is woken.  *)
(***************************************************************************)
Parked == reader.at = "parked"
ReadingGoesOn == Parked ~> ~Parked

(***************************************************************************)
(* websocket.rs:43 and 411: a tab that is closing becomes disconnected     *)
(* although the server reads nothing and acknowledges nothing.             *)
(***************************************************************************)
Closing == draft = "closing"
ClosingEnds == Closing ~> ~Closing
=============================================================================
