------------------------------ MODULE GrpcCall ------------------------------
(***************************************************************************)
(* A gRPC call from when it starts: the task that runs it, the scripts     *)
(* that see its events before they are passed on, and the tab that takes   *)
(* them in batches (crates/request/src/grpc, crates/request/src/scripts/   *)
(* grpc.rs, crates/tab_ui/src/grpc_draft/invocation.rs).  The channels     *)
(* between them have no bound.  Event <<"received", i>> is message i of    *)
(* the server, <<"message", i>> the report of the script that saw it.      *)
(***************************************************************************)
EXTENDS Naturals, Sequences

CONSTANTS MaxReceived, MaxSent    \* bounds: messages in each direction

VARIABLES
  kind,       \* MethodKind: "unary", or "stream" when the client streams
  scripts,    \* which of its scripts follow its events
  executor,   \* the task of the call, and the messages it received
  raw,        \* its events, when scripts follow them
  forwarder,  \* CallScripts::forward, and the message its script sees
  output,     \* the events for the tab
  messages,   \* GrpcCall::messages: whether more can be sent
  sent,       \* how many were
  call,       \* whether the tab holds the call
  log         \* GrpcResponse::entries and scripts, as they arrived

vars == <<kind, scripts, executor, raw, forwarder, output, messages, sent, call, log>>

Follows == scripts # {}
Event(name) == <<name, 0>>
Streams == kind = "stream"

\* open(): the report of a Before invoke script is first; a method that does
\* not stream its requests has sent its message.
Init ==
  /\ kind \in {"unary", "stream"} /\ scripts \in SUBSET {"message", "after"}
  /\ executor = [at |-> "connecting", received |-> 0]
  /\ forwarder = [at |-> IF scripts = {} THEN "none" ELSE "idle", message |-> 0]
  /\ \E report \in {<<>>, <<Event("before")>>} :
       LET first == IF kind = "stream" THEN <<>> ELSE <<<<"sent", 1>>>> IN
       /\ raw = IF scripts = {} THEN <<>> ELSE first
       /\ output = report \o IF scripts = {} THEN first ELSE <<>>
  /\ messages = IF kind = "stream" THEN "open" ELSE "ended"
  /\ sent = IF kind = "stream" THEN 0 ELSE 1
  /\ call = "open" /\ log = <<>>

Emits(event) ==
  IF Follows THEN raw' = Append(raw, event) /\ UNCHANGED output
             ELSE output' = Append(output, event) /\ UNCHANGED raw

-----------------------------------------------------------------------------
(***************************************************************************)
(* call::run(), and the task around it.                                    *)
(***************************************************************************)
Rest == <<kind, scripts, forwarder, messages, sent, call, log>>

Responds ==
  /\ executor.at = "connecting"
  /\ executor' = [executor EXCEPT !.at = "reading"]
  /\ Emits(Event("metadata"))
  /\ UNCHANGED Rest

Receives ==
  /\ executor.at = "reading" /\ executor.received < MaxReceived
  /\ executor' = [executor EXCEPT !.received = @ + 1]
  /\ Emits(<<"received", executor.received + 1>>)
  /\ UNCHANGED Rest

\* With a status, or without: the server cannot be reached, or a unary call
\* took too long.
Ends(outcome) ==
  /\ executor.at \in {"connecting", "reading"}
  /\ executor' = [executor EXCEPT !.at = "done"]
  /\ Emits(Event(outcome))
  /\ UNCHANGED Rest

-----------------------------------------------------------------------------
(***************************************************************************)
(* forward()                                                               *)
(***************************************************************************)
Passes(events) == output' = output \o events
Goes(to, i) == forwarder' = [at |-> to, message |-> i]

Takes ==
  LET event == Head(raw) IN
  /\ forwarder.at = "idle" /\ raw # <<>>
  /\ raw' = Tail(raw)
  /\ \/ /\ event[1] = "finished" /\ "after" \in scripts
        /\ Goes("after", 0) /\ UNCHANGED output
     \/ /\ event[1] = "finished" /\ "after" \notin scripts
        /\ Goes("ended", 0) /\ Passes(<<event>>)
     \/ /\ event[1] = "received" /\ "message" \in scripts
        /\ Goes("message", event[2]) /\ Passes(<<event>>)
     \/ /\ event[1] # "finished" /\ (event[1] # "received" \/ "message" \notin scripts)
        /\ UNCHANGED forwarder /\ Passes(<<event>>)
  /\ UNCHANGED <<kind, scripts, executor, messages, sent, call, log>>

\* A report with nothing to show, or beyond what a call may show, is left out.
OnMessage ==
  /\ forwarder.at = "message"
  /\ Goes("idle", 0)
  /\ Passes(<<<<"message", forwarder.message>>>>) \/ UNCHANGED output
  /\ UNCHANGED <<kind, scripts, executor, raw, messages, sent, call, log>>

\* mutant: the status is passed on first
StatusFirst == Passes(<<Event("finished"), Event("after")>>)
\* mutant: the status is not passed on
NoStatus == Passes(<<Event("after")>>)
ReportThenStatus == Passes(<<Event("after"), Event("finished")>>)

AfterResponse ==
  /\ forwarder.at = "after"
  /\ Goes("ended", 0)
  /\ ReportThenStatus
  /\ UNCHANGED <<kind, scripts, executor, raw, messages, sent, call, log>>

-----------------------------------------------------------------------------
(***************************************************************************)
(* The tab.  A send hands the message over before it queues its event.     *)
(***************************************************************************)
IsFree == call = "open" /\ messages # "sending"

\* GrpcCall is dropped, which aborts its tasks.
Drops ==
  /\ executor' = [executor EXCEPT !.at = "aborted"]
  /\ forwarder' = [at |-> "none", message |-> 0]
  /\ raw' = <<>> /\ output' = <<>>

\* mutant: only the first event of a batch is shown
ShowsFirst(batch) == log' = Append(log, Head(batch))
ShowsBatch(batch) == log' = log \o batch

Receive(n) ==
  LET batch == SubSeq(output, 1, n) IN
  /\ IsFree
  /\ ShowsBatch(batch)
  /\ IF \E i \in 1 .. n : batch[i][1] \in {"finished", "failed"}
       THEN call' = "ended" /\ Drops
       ELSE /\ output' = SubSeq(output, n + 1, Len(output))
            /\ UNCHANGED <<executor, forwarder, raw, call>>
  /\ UNCHANGED <<kind, scripts, messages, sent>>

\* A call that ended takes no more messages.
SendMessage ==
  /\ IsFree /\ Streams /\ messages = "open" /\ sent < MaxSent
  /\ executor.at # "done"
  /\ messages' = "sending"
  /\ sent' = sent + 1
  /\ UNCHANGED <<kind, scripts, executor, raw, forwarder, output, call, log>>

LogsSent ==
  /\ messages = "sending"
  /\ messages' = "open"
  /\ Emits(<<"sent", sent>>)
  /\ UNCHANGED <<kind, scripts, executor, forwarder, sent, call, log>>

EndStream ==
  /\ IsFree /\ messages = "open"
  /\ messages' = "ended"
  /\ UNCHANGED <<kind, scripts, executor, raw, forwarder, output, sent, call, log>>

\* cancel(), also when the tab closes.
Cancel ==
  /\ IsFree
  /\ call' = "cancelled" /\ Drops
  /\ log' = Append(log, Event("cancelled"))
  /\ UNCHANGED <<kind, scripts, messages, sent>>

\* Scripts end: they have a time limit.
Pipeline == Takes \/ OnMessage \/ AfterResponse \/ (\E n \in 1 .. Len(output) : Receive(n)) \/ LogsSent

Next ==
  \/ Responds \/ Receives \/ (\E outcome \in {"finished", "failed"} : Ends(outcome))
  \/ Pipeline
  \/ SendMessage \/ EndStream \/ Cancel

Spec == Init /\ [][Next]_vars /\ WF_vars(Pipeline)

-----------------------------------------------------------------------------
TypeOK ==
  /\ executor.at \in {"connecting", "reading", "done", "aborted"} /\ executor.received \in Nat
  /\ forwarder.at \in {"none", "idle", "message", "after", "ended"}
  /\ messages \in {"open", "sending", "ended"}
  /\ call \in {"open", "ended", "cancelled"}
  /\ call = "open" \/ (executor.at = "aborted" /\ raw = <<>> /\ output = <<>>)

\* What the tab shows and will show.
Shown == log \o output

(***************************************************************************)
(* call.rs:45: the report of Before invoke comes first, that of each On    *)
(* message right after its message, and that of After response right       *)
(* before the status, or before the user's cancelling; once a call ended,  *)
(* only messages follow that were sent before it did.                      *)
(***************************************************************************)
ScriptsAreInPlace ==
  \A i \in 1 .. Len(Shown) :
    /\ Shown[i][1] = "before" => i = 1
    /\ Shown[i][1] = "message" => i > 1 /\ Shown[i - 1] = <<"received", Shown[i][2]>>
    /\ Shown[i][1] = "after" =>
         i < Len(Shown) /\ Shown[i + 1] \in {Event("finished"), Event("cancelled")}
    /\ Shown[i][1] = "finished" /\ "after" \in scripts => i > 1 /\ Shown[i - 1] = Event("after")
    /\ Shown[i][1] \in {"finished", "failed"} =>
         \A j \in i + 1 .. Len(Shown) : Shown[j][1] = "sent"

(***************************************************************************)
(* call.rs:28: a call shows each message it received once and in order,    *)
(* without gap, however the events were batched and whatever scripts ran;  *)
(* and all of them when the server ended it.                               *)
(***************************************************************************)
ReceivedAreShown ==
  LET places == {i \in 1 .. Len(Shown) : Shown[i][1] = "received"}
      numbers == {Shown[i][2] : i \in places}
  IN  /\ \A i, j \in places : i < j => Shown[i][2] < Shown[j][2]
      /\ \A n \in numbers : 1 .. n \subseteq numbers
      /\ numbers \subseteq 1 .. executor.received
      /\ call = "ended" => numbers = 1 .. executor.received

(***************************************************************************)
(* invocation.rs:317: once the server ended a call, the tab shows it       *)
(* ended, after the scripts that follow it ran.                            *)
(***************************************************************************)
Answered == executor.at = "done"
AnsweredCallsEnd == Answered ~> ~Answered
=============================================================================
