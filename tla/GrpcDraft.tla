----------------------------- MODULE GrpcDraft -----------------------------
(***************************************************************************)
(* The tab of a gRPC request: its service definition, which reflection or  *)
(* a .proto file describes, and the call it invokes, up to its end         *)
(* (crates/tab_ui/src/grpc_draft and the client of crates/request).  Loads *)
(* and scripts run in the background and report to the window; replacing   *)
(* or dropping one stops it.  GrpcCall follows the events of an open call. *)
(***************************************************************************)
EXTENDS Naturals, Sequences

CONSTANTS
  Urls, Paths,         \* what the user types; "" is nothing
  Values,              \* values of the variables the URL and metadata use
  Absolute, Relative,  \* two paths of one file: a save stores the second
  NoTarget,
  MaxEdits,            \* bound: edits of the request and its variables
  MaxInvokes           \* bound: how often Invoke is used

VARIABLES
  request,     \* GrpcRequest: where its definition is from, URL and path
  scripted,    \* whether it has a Before invoke script
  value,       \* what its variables resolve to
  definition,  \* DefinitionState
  call,        \* Call
  start,       \* the task of Call::Starting
  response,    \* CallState
  history,     \* RequestSent and RequestEnded, in order
  edits, invokes

vars == <<request, scripted, value, definition, call, start, response, history, edits, invokes>>

Source(r) == IF r.reflects THEN <<"url", r.url>> ELSE <<"path", r.path>>
HasSource(r) == Source(r)[2] # ""

\* reflected_target()
Target(r, v) == IF r.reflects THEN <<r.url, v>> ELSE NoTarget

\* What describes the services of a request.
Services(r, v) == IF r.reflects THEN Target(r, v)
                  ELSE <<"file", IF r.path = Relative THEN Absolute ELSE r.path>>

NoSource == <<"", "">>
NoServices == <<"none", "none">>
NoDefinition == [at |-> "idle", source |-> NoSource, target |-> NoTarget, of |-> NoServices]
Debouncing == [NoDefinition EXCEPT !.at = "debouncing"]
Loading(r, v) == [at |-> "loading", source |-> Source(r), target |-> Target(r, v), of |-> Services(r, v)]

NoStart == [at |-> "none", request |-> [reflects |-> TRUE, url |-> "", path |-> ""], source |-> NoSource,
            loaded |-> NoDefinition, sends |-> NoServices, with |-> NoServices]

Init ==
  /\ request \in [reflects : BOOLEAN, url : {""} \union Urls, path : {""} \union Paths]
  /\ request.reflects => request.path = ""
  /\ scripted \in BOOLEAN
  /\ value \in Values
  /\ definition = NoDefinition /\ call = "idle" /\ start = NoStart
  /\ response = "idle"
  /\ history = <<>> /\ edits = 0 /\ invokes = 0

-----------------------------------------------------------------------------
(***************************************************************************)
(* The service definition.                                                 *)
(***************************************************************************)
IsFor(d, r) == HasSource(r) /\ d.source = Source(r)

\* mutant: an Invoke that waits for the definition stays
KeepsPendingInvoke(r) == UNCHANGED <<call, response>>
\* mutant: it is dropped and the response goes on to say that it waits
LeavesWaiting(r) ==
  call' = (IF call = "awaiting" /\ ~HasSource(r) THEN "idle" ELSE call) /\ UNCHANGED response
DropsPendingInvoke(r) ==
  IF call = "awaiting" /\ ~HasSource(r)
    THEN call' = "idle" /\ response' = "idle"
    ELSE UNCHANGED <<call, response>>

\* load_definition(), of a request whose state of loading is d
Load(r, d, force) ==
  definition' = IF ~HasSource(r) THEN NoDefinition
                ELSE IF ~force /\ IsFor(d, r) THEN d ELSE Loading(r, value)

LoadDefinition(r, force) == Load(r, definition, force) /\ DropsPendingInvoke(r)

ScheduleReflection(r) ==
  IF ~r.reflects \/ IsFor(definition, r)
    THEN UNCHANGED <<definition, call, response>>
    ELSE /\ definition' = IF HasSource(r) THEN Debouncing ELSE NoDefinition
         /\ DropsPendingInvoke(r)

IsCurrent(d) == d.at = "loaded" /\ IsFor(d, request)

-----------------------------------------------------------------------------
(***************************************************************************)
(* What the user does with the request, while the tab is open.             *)
(***************************************************************************)
Edits ==
  /\ call # "closed" /\ edits < MaxEdits
  /\ edits' = edits + 1
  /\ UNCHANGED <<start, history, invokes>>

\* So do the metadata, the authorization and the certificate settings.
TypesUrl(u) ==
  LET r == [request EXCEPT !.url = u] IN
  /\ Edits
  /\ request' = r
  /\ ScheduleReflection(r)
  /\ UNCHANGED <<scripted, value>>

TypesPath(p) ==
  /\ Edits /\ ~request.reflects
  /\ request' = [request EXCEPT !.path = p]
  /\ UNCHANGED <<scripted, value, definition, call, response>>

\* The user may have changed to reflection while the files were shown.
ChoosesFile(p) ==
  LET r == IF request.reflects THEN request ELSE [request EXCEPT !.path = p] IN
  /\ Edits
  /\ request' = r
  /\ LoadDefinition(r, TRUE)
  /\ UNCHANGED <<scripted, value>>

Uses(reflects) ==
  LET r == [request EXCEPT !.reflects = reflects, !.path = ""] IN
  /\ Edits /\ request.reflects # reflects
  /\ request' = r
  /\ LoadDefinition(r, FALSE)
  /\ UNCHANGED <<scripted, value>>

\* set_definition(): a save stores the path relative to the collection.
SetDefinition ==
  LET r == [request EXCEPT !.path = Relative] IN
  /\ Edits /\ ~request.reflects /\ request.path = Absolute
  /\ request' = r
  /\ definition' = IF IsCurrent(definition) THEN [definition EXCEPT !.source = Source(r)] ELSE definition
  /\ UNCHANGED <<scripted, value, call, response>>

SetsVariable(v) ==
  /\ Edits /\ v # value
  /\ value' = v
  /\ UNCHANGED <<request, scripted, definition, call, response>>

EditsScript ==
  /\ Edits
  /\ scripted' = ~scripted
  /\ UNCHANGED <<request, value, definition, call, response>>

\* prepare(): the tab is shown.
Prepare ==
  /\ call # "closed" /\ definition.at = "idle" /\ HasSource(request)
  /\ LoadDefinition(request, FALSE)
  /\ UNCHANGED <<request, scripted, value, start, history, edits, invokes>>

-----------------------------------------------------------------------------
(***************************************************************************)
(* The call.                                                               *)
(***************************************************************************)
\* mutant: variables that changed since the load are not looked at
IgnoresVariables(d) == FALSE
TargetChanged(d) == d.at \in {"loading", "loaded"} /\ d.target # Target(request, value)

Awaits(d) ==
  /\ ~IsCurrent(d) \/ TargetChanged(d)
  /\ call' = "awaiting"
  /\ response' = "waiting"
  /\ Load(request, d, TargetChanged(d) \/ d.at = "failed")
  /\ UNCHANGED start

InvokesDirectly(d) ==
  /\ IsCurrent(d) /\ ~TargetChanged(d)
  /\ call' = "starting"
  /\ start' = [NoStart EXCEPT !.at = "opening", !.request = request,
                              !.sends = Services(request, value), !.with = d.of]
  /\ definition' = d
  /\ UNCHANGED response

InvokeScripted(d) ==
  /\ call' = "starting"
  /\ start' = [NoStart EXCEPT !.at = "script", !.request = request, !.source = Source(request),
                              !.loaded = IF IsCurrent(d) THEN d ELSE NoDefinition]
  /\ response' = "waiting"
  /\ definition' = d

\* invoke(), when the definition is d and no call is there.
Invokes(d) ==
  \/ /\ request.url = "" /\ ~scripted                  \* points at the URL
     /\ call' = "idle" /\ definition' = d
     /\ UNCHANGED <<start, response>>
  \/ /\ request.url # "" \/ scripted
     /\ \/ /\ ~HasSource(request)
           /\ call' = "idle" /\ definition' = d
           /\ response' = "failed"
           /\ UNCHANGED start
        \/ HasSource(request) /\ scripted /\ InvokeScripted(d)
        \/ HasSource(request) /\ ~scripted /\ (Awaits(d) \/ InvokesDirectly(d))

Invoke ==
  /\ call = "idle" /\ invokes < MaxInvokes
  /\ invokes' = invokes + 1
  /\ Invokes(definition)
  /\ UNCHANGED <<request, scripted, value, history, edits>>

Window == <<request, scripted, value, history, edits, invokes>>

\* mutant: the timer does not load
ForgetsToLoad(r) == definition' = NoDefinition
LoadsAfterTyping(r) == Load(r, NoDefinition, FALSE)

DebounceEnds ==
  /\ definition.at = "debouncing" /\ call # "closed"
  /\ LoadsAfterTyping(request)
  /\ DropsPendingInvoke(request)
  /\ UNCHANGED <<start, Window>>

LoadEnds(result) ==
  LET d == IF result = "loaded" THEN [definition EXCEPT !.at = "loaded"]
           ELSE [definition EXCEPT !.at = "failed", !.target = NoTarget, !.of = NoServices] IN
  /\ definition.at = "loading" /\ call # "closed"
  /\ IF call = "awaiting" /\ result = "loaded" THEN Invokes(d)
     ELSE /\ definition' = d
          /\ IF call = "awaiting"
               THEN call' = "idle" /\ response' = "failed"
               ELSE UNCHANGED <<call, response>>
          /\ UNCHANGED start
  /\ UNCHANGED Window

-----------------------------------------------------------------------------
(***************************************************************************)
(* The task of a starting call.                                            *)
(***************************************************************************)
\* mutant: the call goes on to be starting, with no task
StaysStarting ==
  /\ UNCHANGED call /\ start' = NoStart
  /\ response' = "failed"
  /\ UNCHANGED <<definition, Window>>
DoesNotStart ==
  /\ call' = "idle" /\ start' = NoStart
  /\ response' = "failed"
  /\ UNCHANGED <<definition, Window>>

\* mutant: the definition of another server is used
FitsAny(target) == start.loaded.at = "loaded"
Fits(target) == start.loaded.at = "loaded" /\ start.loaded.target = target

\* The script leaves the call with this URL and these variables.
ScriptEnds(u, v) ==
  LET r == [start.request EXCEPT !.url = u]
      sent == [start EXCEPT !.request = r, !.sends = Services(r, v)] IN
  /\ start.at = "script"
  /\ \/ /\ Fits(Target(r, v))
        /\ start' = [sent EXCEPT !.at = "opening", !.with = start.loaded.of]
        /\ UNCHANGED response
     \/ /\ ~Fits(Target(r, v))
        /\ start' = [sent EXCEPT !.at = "loading", !.loaded = Loading(r, v)]
        /\ response' = "waiting"
  /\ UNCHANGED <<definition, call, Window>>

\* mutant: it is kept although the settings changed since
KeepsAnyDefinition == definition' = [start.loaded EXCEPT !.at = "loaded", !.source = start.source]
KeepDefinition ==
  definition' = IF HasSource(request) /\ start.source = Source(request)
                  THEN [start.loaded EXCEPT !.at = "loaded", !.source = start.source]
                  ELSE definition

StartLoads ==
  /\ start.at = "loading"
  /\ KeepDefinition
  /\ start' = [start EXCEPT !.at = "opening", !.with = start.loaded.of]
  /\ UNCHANGED <<call, response, Window>>

\* So do a script that fails and one that skips the call.
StartFails == start.at # "none" /\ DoesNotStart

\* follow(): the call is kept by history from here on.
Follow ==
  /\ start.at = "opening"
  /\ call' = "open"
  /\ start' = NoStart
  /\ response' = "running"
  /\ history' = Append(history, "sent")
  /\ UNCHANGED <<request, scripted, value, definition, edits, invokes>>

-----------------------------------------------------------------------------
\* mutant: cancelling does not tell history
ForgetsStopped == UNCHANGED history
Stopped == history' = IF call = "open" THEN Append(history, "cancelled") ELSE history

\* end(), from receive()
End(outcome) ==
  /\ call = "open"
  /\ call' = "idle" /\ start' = NoStart
  /\ response' = outcome
  /\ history' = Append(history, outcome)
  /\ UNCHANGED <<request, scripted, value, definition, edits, invokes>>

Cancel ==
  /\ call \in {"awaiting", "starting", "open"}
  /\ Stopped
  /\ call' = "idle" /\ start' = NoStart
  /\ response' = IF call = "open" THEN "cancelled" ELSE "idle"
  /\ UNCHANGED <<request, scripted, value, definition, edits, invokes>>

\* The tab closes, and drops its tasks.
Close ==
  /\ call # "closed"
  /\ Stopped
  /\ call' = "closed" /\ start' = NoStart /\ definition' = NoDefinition
  /\ UNCHANGED <<request, scripted, value, response, edits, invokes>>

Tasks == DebounceEnds \/ (\E result \in {"loaded", "failed"} : LoadEnds(result))

Starting ==
  \/ StartLoads \/ StartFails \/ Follow
  \/ \E u \in Urls \union {start.request.url}, v \in Values : ScriptEnds(u, v)

User ==
  \/ \E u \in {""} \union Urls : TypesUrl(u)
  \/ \E p \in {""} \union Paths : TypesPath(p)
  \/ \E p \in Paths : ChoosesFile(p)
  \/ \E reflects \in BOOLEAN : Uses(reflects)
  \/ SetDefinition \/ EditsScript \/ Prepare \/ Invoke \/ Cancel \/ Close
  \/ \E v \in Values : SetsVariable(v)

Next == Tasks \/ Starting \/ User \/ \E outcome \in {"finished", "failed"} : End(outcome)

\* Timers fire, and a load ends: reflection gives up after its timeout.
Spec == Init /\ [][Next]_vars /\ WF_vars(Tasks)

-----------------------------------------------------------------------------
TypeOK ==
  /\ request \in [reflects : BOOLEAN, url : {""} \union Urls, path : {""} \union Paths]
  /\ value \in Values
  /\ definition.at \in {"idle", "debouncing", "loading", "loaded", "failed"}
  /\ call \in {"idle", "awaiting", "starting", "open", "closed"}
  /\ start.at \in {"none", "script", "loading", "opening"}
  /\ (start.at = "none") = (call # "starting")

(***************************************************************************)
(* invocation.rs:26: an Invoke that waits for the service definition has   *)
(* one that loads, or will once typing pauses, whatever is edited in the   *)
(* meantime.                                                               *)
(***************************************************************************)
AwaitingIsServed == call = "awaiting" => definition.at \in {"debouncing", "loading"}

(***************************************************************************)
(* invocation.rs:123 and :182: a call starts with the services of the very *)
(* server or file it is for, although its URL, its variables, its script   *)
(* and its file change while the definition loads or the script runs.      *)
(***************************************************************************)
CallsFitTheirDefinition == start.at = "opening" => start.with = start.sends

(***************************************************************************)
(* definition.rs:95: a definition that reflection loads, loaded or could   *)
(* not load is that of the request's current settings; what a script's     *)
(* call loaded replaces none of newer ones.                                *)
(***************************************************************************)
ReflectionIsCurrent ==
  request.reflects /\ definition.at \in {"loading", "loaded", "failed"} =>
    definition.source = Source(request)

(***************************************************************************)
(* request_sent.rs:8: history is told of each call that started, and how   *)
(* it ended once it does, also when it is cancelled or its tab closes.     *)
(***************************************************************************)
HistoryPairsUp ==
  /\ \A i \in 1 .. Len(history) : (history[i] = "sent") = (i % 2 = 1)
  /\ (Len(history) % 2 = 1) = (call = "open")

(***************************************************************************)
(* grpc_response/view.rs:31: the response says that a call is prepared or  *)
(* runs only while one is.  The exception: the URL of a request with a     *)
(* .proto file is cleared while its Invoke waits.                          *)
(***************************************************************************)
KeepsResponse ==
  call # "idle" /\ call' = "idle" /\ response' \in {"waiting", "running"} =>
    ~request.reflects /\ request.url = ""
ResponseFollows == [][KeepsResponse]_vars

Awaiting == call = "awaiting"

(***************************************************************************)
(* definition.rs:179: an Invoke that waits goes on, fails or is dropped.   *)
(***************************************************************************)
PendingInvokesEnd == Awaiting ~> ~Awaiting
=============================================================================
