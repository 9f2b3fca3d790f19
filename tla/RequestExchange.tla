-------------------------- MODULE RequestExchange --------------------------
(***************************************************************************)
(* A request tab that sends: Exchange of crates/tab_ui/src/request_draft/  *)
(* execution.rs, the response it shows, and the executor of crates/request *)
(* with its event streams.  The executor runs in the background and sends  *)
(* updates through a bounded channel; a task of the window takes them in   *)
(* batches.  Update <<n, i>> is event i of request n, and <<n, 0>> its head.*)
(***************************************************************************)
EXTENDS Naturals, Sequences, FiniteSets, SequencesExt

CONSTANTS UPDATE_QUEUE,
          MaxSends,   \* bound: requests sent
          MaxEvents   \* bound: events of each

VARIABLES
  exchange,    \* Exchange: "idle" or "sending", with its Stream
  window,      \* its task: "none", "reading" updates or "awaiting" the end
  execution,   \* the executor's future: the request, where it is, what it read
  unsent,      \* the updates it parsed and did not send
  updates,     \* the channel, and whether its sender is there
  stop,        \* StopEventStream: whether it was told to stop
  cancelling,  \* cancel(): whether it found that the request went out
  view,        \* ResponseView
  history,     \* the requests that were recorded
  sends,       \* how many were sent
  wentOut,     \* ghost: those that went out
  between      \* ghost: those that did so while they were being cancelled

vars == <<exchange, window, execution, unsent, updates, stop, cancelling, view, history,
          sends, wentOut, between>>

Idle == [at |-> "idle", stream |-> "none"]
NoExecution == [at |-> "none", opened |-> FALSE, read |-> 0, result |-> "none"]
NoChannel == [queue |-> <<>>, open |-> FALSE]
Shows(kind) == [kind |-> kind, events |-> <<>>, log |-> "none"]

Init ==
  /\ exchange = Idle /\ window = "none"
  /\ execution = NoExecution /\ unsent = <<>> /\ updates = NoChannel /\ stop = FALSE
  /\ cancelling = "no"
  /\ view = Shows("empty")
  /\ history = <<>> /\ sends = 0 /\ wentOut = {} /\ between = {}

background == <<execution, unsent, updates>>
ghosts == <<wentOut, between>>

-----------------------------------------------------------------------------
(***************************************************************************)
(* The executor.                                                           *)
(***************************************************************************)
Goes(from, to) == execution.at = from /\ execution' = [execution EXCEPT !.at = to]
Tab == <<exchange, window, stop, cancelling, view, history, sends>>

\* A send adds its update at once, and then waits until the queue is no longer
\* than its buffer: the only sender has a slot beyond it.
HasRoom == Len(updates.queue) <= UPDATE_QUEUE
IsReading == execution.at = "stream" /\ unsent = <<>> /\ HasRoom

\* The future ends, and with it the updates.
Ends(result) ==
  /\ execution' = [execution EXCEPT !.at = "done", !.result = result]
  /\ updates' = [updates EXCEPT !.open = FALSE]

\* Pre-request scripts ran, and the variables and the body are there.
Dispatches ==
  /\ Goes("scripts", "sent")
  /\ wentOut' = wentOut \union {sends}
  /\ between' = IF cancelling = "no" THEN between ELSE between \union {sends}
  /\ UNCHANGED <<unsent, updates, Tab>>

Fails ==
  /\ execution.at \in {"scripts", "sent", "body"} \/ IsReading
  /\ Ends("error")
  /\ UNCHANGED <<unsent, ghosts, Tab>>

\* mutant: the timeout covers an open stream too
MayTimeOutLate == execution.at \in {"scripts", "sent", "body", "stream"}
MayTimeOut == execution.at \in {"scripts", "sent", "body"} /\ ~execution.opened

TimesOut ==
  /\ MayTimeOut
  /\ Ends("timeout")
  /\ UNCHANGED <<unsent, ghosts, Tab>>

Heads ==
  /\ execution.at = "sent"
  /\ \/ Goes("sent", "body") /\ UNCHANGED unsent
     \/ /\ execution' = [execution EXCEPT !.at = "stream", !.opened = TRUE]
        /\ unsent' = <<<<sends, 0>>>>
  /\ UNCHANGED <<updates, ghosts, Tab>>

\* Several events may complete at once.
Reads(more) ==
  /\ IsReading /\ ~stop
  /\ execution.read + more <= MaxEvents
  /\ execution' = [execution EXCEPT !.read = @ + more]
  /\ unsent' = [i \in 1 .. more |-> <<sends, execution.read + i>>]
  /\ UNCHANGED <<updates, ghosts, Tab>>

\* mutant: a full queue drops an update
PushesOrDrops ==
  updates' = IF HasRoom THEN [updates EXCEPT !.queue = Append(@, Head(unsent))] ELSE updates
Pushes ==
  /\ HasRoom
  /\ updates' = [updates EXCEPT !.queue = Append(@, Head(unsent))]

Push ==
  /\ execution.at = "stream" /\ unsent # <<>> /\ ~stop
  /\ Pushes
  /\ unsent' = Tail(unsent)
  /\ UNCHANGED <<execution, ghosts, Tab>>

\* mutant: a stop is only looked at between two reads
StopsBetween == stop /\ IsReading
Stops == stop

\* The body ends, or the stream was stopped, also while an update waits.
BodyEnds ==
  /\ execution.at = "body" \/ IsReading \/ (execution.at = "stream" /\ Stops)
  /\ execution' = [execution EXCEPT !.at = "post"]
  /\ unsent' = <<>>
  /\ updates' = [updates EXCEPT !.open = @ /\ execution.at = "body"]
  /\ UNCHANGED <<ghosts, Tab>>

PostScripts ==
  /\ execution.at = "post"
  /\ Ends("response")
  /\ UNCHANGED <<unsent, ghosts, Tab>>

-----------------------------------------------------------------------------
(***************************************************************************)
(* The tab.                                                                *)
(***************************************************************************)
Sends ==
  /\ exchange = Idle /\ cancelling = "no" /\ sends < MaxSends
  /\ exchange' = [at |-> "sending", stream |-> "pending"]
  /\ window' = "reading"
  /\ execution' = [NoExecution EXCEPT !.at = "scripts"]
  /\ unsent' = <<>> /\ updates' = [NoChannel EXCEPT !.open = TRUE] /\ stop' = FALSE
  /\ view' = Shows("waiting")
  /\ sends' = sends + 1
  /\ UNCHANGED <<cancelling, history, ghosts>>

Stream(to) == exchange' = [exchange EXCEPT !.stream = to]

\* receive(): a batch of updates.
Receive(n) ==
  LET batch  == SubSeq(updates.queue, 1, n)
      opens  == batch[1][2] = 0
      events == IF opens THEN Tail(batch) ELSE batch
      shown  == IF opens THEN [kind |-> "stream", events |-> <<>>, log |-> "open"] ELSE view
  IN
  /\ window = "reading" /\ cancelling = "no"
  /\ updates' = [updates EXCEPT !.queue = SubSeq(@, n + 1, Len(@))]
  /\ IF opens /\ exchange.stream = "pending" THEN Stream("open") ELSE UNCHANGED exchange
  /\ view' = IF shown.kind = "stream" THEN [shown EXCEPT !.events = @ \o events] ELSE shown
  /\ UNCHANGED <<window, execution, unsent, stop, cancelling, history, sends, ghosts>>

EndsStream == IF exchange.stream \in {"open", "stopping"} THEN Stream("ended") ELSE UNCHANGED exchange

UpdatesEnd ==
  /\ window = "reading" /\ cancelling = "no" /\ updates = NoChannel
  /\ EndsStream
  /\ window' = "awaiting"
  /\ UNCHANGED <<background, stop, cancelling, view, history, sends, ghosts>>

\* mutant: only responses are recorded
RecordsResponses == execution.result = "response"
\* A request that failed before it went out is left out.
Records == execution.result = "response" \/ sends \in wentOut

\* ResponseView::finish
Finished(shown) ==
  IF execution.result = "response"
    THEN IF shown.kind = "stream"
           THEN [shown EXCEPT !.log = IF @ = "stopping" THEN "stopped" ELSE "ended"]
           ELSE Shows("response")
    ELSE IF shown.kind = "stream" THEN [shown EXCEPT !.log = "failed"] ELSE Shows("failed")

Finish ==
  /\ window = "awaiting" /\ cancelling = "no" /\ execution.at = "done"
  /\ exchange' = Idle /\ window' = "none" /\ execution' = NoExecution
  /\ history' = IF Records THEN Append(history, sends) ELSE history
  /\ view' = Finished(view)
  /\ UNCHANGED <<unsent, updates, stop, cancelling, sends, ghosts>>

\* stop(); the button cancels when no stream is open.
Stop ==
  /\ exchange.stream = "open" /\ cancelling = "no"
  /\ Stream("stopping")
  /\ stop' = TRUE
  /\ view' = [view EXCEPT !.log = IF @ = "open" THEN "stopping" ELSE @]
  /\ UNCHANGED <<window, background, cancelling, history, sends, ghosts>>

\* cancel(): the request may go out after this looked whether it did.
Cancel ==
  /\ exchange.stream \in {"pending", "ended"} /\ cancelling = "no"
  /\ cancelling' = IF sends \in wentOut THEN "went out" ELSE "not yet"
  /\ UNCHANGED <<exchange, window, background, stop, view, history, sends, ghosts>>

Cancelled(shown) ==
  CASE shown.kind = "stream"   -> [shown EXCEPT !.log = IF @ \in {"open", "stopping"} THEN "failed" ELSE @]
    [] shown.kind = "response" -> shown
    [] OTHER                   -> Shows("empty")

\* mutant: the tasks go on
KeepsTasks == UNCHANGED <<window, background>>
DropsTasks == window' = "none" /\ execution' = NoExecution /\ unsent' = <<>> /\ updates' = NoChannel

CancelEnds ==
  /\ cancelling # "no"
  /\ cancelling' = "no"
  /\ exchange' = Idle
  /\ DropsTasks
  /\ history' = IF cancelling = "went out" THEN Append(history, sends) ELSE history
  /\ view' = Cancelled(view)
  /\ UNCHANGED <<stop, sends, ghosts>>

Executor == Dispatches \/ Fails \/ TimesOut \/ Heads \/ (\E n \in 0 .. 2 : Reads(n)) \/ Push \/ BodyEnds \/ PostScripts

Window == (\E n \in 1 .. Len(updates.queue) : Receive(n)) \/ UpdatesEnd \/ Finish \/ CancelEnds

Next == Executor \/ Window \/ Sends \/ Stop \/ Cancel

\* A server may take as long as it likes, unless the stream is stopped.
StoppedExecutor == Push \/ (Stops /\ BodyEnds) \/ PostScripts

Spec == Init /\ [][Next]_vars /\ WF_vars(Window) /\ WF_vars(StoppedExecutor)

-----------------------------------------------------------------------------
TypeOK ==
  /\ exchange.at \in {"idle", "sending"} /\ (exchange.at = "idle") = (window = "none")
  /\ exchange.stream \in {"none", "pending", "open", "stopping", "ended"}
  /\ Len(updates.queue) <= UPDATE_QUEUE + 1
  /\ view.kind \in {"empty", "waiting", "stream", "response", "failed"}
  /\ (view.log = "none") = (view.kind # "stream")
  /\ execution.at \in {"none", "scripts", "sent", "body", "stream", "post", "done"}

(***************************************************************************)
(* response_view/view.rs:175: what the log of a stream shows are the       *)
(* events of the last request that was sent, in their order, without gap   *)
(* and none twice, however they are batched; and all that were read when   *)
(* the server ends the stream.                                             *)
(***************************************************************************)
LogHoldsWhatArrived ==
  /\ view.events = [i \in 1 .. Len(view.events) |-> <<sends, i>>]
  /\ execution.at = "done" /\ ~stop /\ window = "awaiting" => Len(view.events) = execution.read

(***************************************************************************)
(* execution.rs:445: history records each request that went out once, and  *)
(* no other, whichever way it ends.  One that goes out after cancel()      *)
(* looked and before it drops the task is left out.                        *)
(***************************************************************************)
HistoryHasWhatWentOut ==
  /\ \A n \in 1 .. sends : (n < sends \/ exchange = Idle) /\ n \notin between =>
       Cardinality({i \in DOMAIN history : history[i] = n}) = IF n \in wentOut THEN 1 ELSE 0
  /\ \A n \in between : n \notin ToSet(history)

(***************************************************************************)
(* response_view/events.rs:151: once nothing is sent, the log of a stream  *)
(* says how it ended; the request timeout never ends it.                   *)
(***************************************************************************)
StreamLogsEnd ==
  /\ exchange = Idle => view.log \notin {"open", "stopping"}
  /\ execution.result = "timeout" => view.kind # "stream" /\ updates.queue = <<>>

Stopping == exchange.stream = "stopping"

(***************************************************************************)
(* event_stream.rs:141: a stream that is stopped ends, although the server *)
(* goes on and although the queue is full.                                 *)
(***************************************************************************)
StoppedStreamsEnd == Stopping ~> ~Stopping
=============================================================================
