---------------------------- MODULE MCExchanges ----------------------------
(***************************************************************************)
(* What runs in the background for an open tab, in one run: a gRPC         *)
(* request, the sessions of environments, the agent, the collection        *)
(* runner, the exchange of an HTTP request, the scripts of one and a       *)
(* WebSocket.  These share no state, so a behavior is one of a single part *)
(* and the variables of the others keep the value they begin with.         *)
(***************************************************************************)
EXTENDS GrpcDraft

CONSTANTS
  EnvTasks, EnvPaths, PathOf, EnvUpdates, Nobody, Hidden, MaxEntries, MaxBytes, MaxCalls,
  MaxPrompts, MaxTroubles,                              \* of the agent, and MaxChoices
  MaxChoices, MaxRequests, MaxIterations, MaxPauses, MaxRuns,
  UPDATE_QUEUE, MaxSends, MaxEvents,                    \* of the exchange
  REQUEST_LIMIT, CONCURRENT_REQUESTS, MaxJobs, MaxPromises,
  EVENT_QUEUE, QUEUED_BYTES, Sizes, MaxConnections, MaxMessages

VARIABLE part

\* Of the environment.
VARIABLES values, revision, lock, scopes, inCall, step, next, changes, copy, scopesSeen, calls
\* Of the agent.
VARIABLES asksFirst, panel, commands, unanswered, pending, waiting, stops, agentEvents, agent,
          briefings, earlier, stopped, agentCounts
\* Of the runner.
VARIABLES open, preparing, run, runTask, executing, appJar, session, sent, counts
\* Of the exchange.
VARIABLES exchange, window, execution, unsent, updates, toldStop, cancelling, view, inHistory,
          sends, wentOut, between
\* Of the scripts.
VARIABLES future, thread, scripts, script, late, cancelled, changed, locals, reports, output, after
\* Of the WebSocket.
VARIABLES draft, tab, connections, opened, held, messages, task, reader, writer, events, backlog,
          waker, received

E == INSTANCE EnvironmentSession WITH
       Tasks <- EnvTasks, Paths <- EnvPaths, Updates <- EnvUpdates, session <- scopes,
       call <- inCall, shown <- scopesSeen
A == INSTANCE AgentThread WITH MaxSends <- MaxPrompts, events <- agentEvents, counts <- agentCounts
R == INSTANCE CollectionRunner WITH task <- runTask
X == INSTANCE RequestExchange WITH history <- inHistory, stop <- toldStop
S == INSTANCE ScriptedSend WITH session <- changed
W == INSTANCE WebSocket WITH history <- connections

environmentVars == <<values, revision, lock, scopes, inCall, step, next, changes, copy, scopesSeen, calls>>
agentVars == <<asksFirst, panel, commands, unanswered, pending, waiting, stops, agentEvents, agent,
               briefings, earlier, stopped, agentCounts>>
runnerVars == <<open, preparing, run, runTask, executing, appJar, session, sent, counts>>
exchangeVars == <<exchange, window, execution, unsent, updates, toldStop, cancelling, view, inHistory,
                  sends, wentOut, between>>
scriptsVars == <<future, thread, scripts, script, late, cancelled, changed, locals, reports, output, after>>
socketVars == <<draft, tab, connections, opened, held, messages, task, reader, writer, events,
                backlog, waker, received>>
exchangesVars ==
  <<part, vars, environmentVars, agentVars, runnerVars, exchangeVars, scriptsVars, socketVars>>

\* Of the run: two tasks of a collection, and one of another.
RunTasks == {"t1", "t2", "t3"}
RunPaths == [t \in RunTasks |-> IF t = "t3" THEN "q" ELSE "p"]
Assigns(names, v) == [name \in names |-> v]
RunUpdates == {<<Assigns({"a"}, 1), Assigns({"a"}, 1), Assigns({"a", "b"}, 1)>>,
               <<Assigns({"a"}, Hidden), Assigns({"c"}, 2), Assigns({"a", "b"}, Hidden)>>}

\* The variables of a part that a behavior is not of.
NoRequest ==
  Init /\ ~request.reflects /\ Source(request)[2] = "" /\ request.url = "" /\ ~scripted /\ value = 1
NoEnvironment ==
  /\ values = 0 /\ revision = 0 /\ lock = 0 /\ scopes = 0 /\ inCall = 0 /\ step = 0 /\ next = 0
  /\ changes = 0 /\ copy = 0 /\ scopesSeen = 0 /\ calls = 0
NoThread ==
  /\ asksFirst = 0 /\ panel = 0 /\ commands = 0 /\ unanswered = 0 /\ pending = 0
  /\ waiting = 0 /\ stops = 0
  /\ agentEvents = 0 /\ agent = 0 /\ briefings = 0 /\ earlier = 0 /\ stopped = 0 /\ agentCounts = 0
NoRunner ==
  /\ open = 0 /\ preparing = 0 /\ run = 0 /\ runTask = 0 /\ executing = 0 /\ appJar = 0
  /\ session = 0 /\ sent = 0 /\ counts = 0
NoExchange ==
  /\ exchange = 0 /\ window = 0 /\ execution = 0 /\ unsent = 0 /\ updates = 0 /\ toldStop = 0
  /\ cancelling = 0 /\ view = 0 /\ inHistory = 0 /\ sends = 0 /\ wentOut = 0 /\ between = 0
NoScripts ==
  /\ future = 0 /\ thread = 0 /\ scripts = 0 /\ script = 0 /\ late = 0 /\ cancelled = 0
  /\ changed = 0 /\ locals = 0 /\ reports = 0 /\ output = 0 /\ after = 0
NoSocket ==
  /\ draft = 0 /\ tab = 0 /\ connections = 0 /\ opened = 0 /\ held = 0 /\ messages = 0 /\ task = 0
  /\ reader = 0 /\ writer = 0 /\ events = 0 /\ backlog = 0 /\ waker = 0 /\ received = 0

Parts == {"grpc", "environment", "agent", "runner", "exchange", "scripts", "websocket"}
ExchangesInit ==
  /\ part \in Parts
  /\ IF part = "grpc" THEN Init ELSE NoRequest
  /\ IF part = "environment" THEN E!Init ELSE NoEnvironment
  /\ IF part = "agent" THEN A!Init ELSE NoThread
  /\ IF part = "runner" THEN R!Init ELSE NoRunner
  /\ IF part = "exchange" THEN X!Init ELSE NoExchange
  /\ IF part = "scripts" THEN S!Init ELSE NoScripts
  /\ IF part = "websocket" THEN W!Init ELSE NoSocket

OthersStay ==
  /\ UNCHANGED part
  /\ part # "grpc" => UNCHANGED vars
  /\ part # "environment" => UNCHANGED environmentVars
  /\ part # "agent" => UNCHANGED agentVars
  /\ part # "runner" => UNCHANGED runnerVars
  /\ part # "exchange" => UNCHANGED exchangeVars
  /\ part # "scripts" => UNCHANGED scriptsVars
  /\ part # "websocket" => UNCHANGED socketVars
Goes(name, action) == part = name /\ action /\ OthersStay

ExchangesNext ==
  \/ Goes("grpc", Next)
  \/ Goes("environment", E!Next)
  \/ Goes("agent", A!Next)
  \/ Goes("runner", R!Next)
  \/ Goes("exchange", X!Next)
  \/ Goes("scripts", S!Next)
  \/ Goes("websocket", W!Next)

GrpcFair == WF_vars(part = "grpc" /\ Tasks)
EnvironmentFair == WF_environmentVars(part = "environment" /\ \E t \in EnvTasks : E!Step(t))
AgentFair ==
  /\ WF_agentVars(part = "agent" /\ A!Panel)
  /\ WF_agentVars(part = "agent" /\ A!Client)
  /\ WF_agentVars(part = "agent" /\ A!PromptTask)
  /\ WF_agentVars(part = "agent" /\ A!Starts)
  /\ WF_agentVars(part = "agent" /\ A!Changes)
  /\ WF_agentVars(part = "agent" /\ A!Cancels)
RunnerFair ==
  /\ WF_runnerVars(part = "runner" /\ R!Begins)
  /\ WF_runnerVars(part = "runner" /\ R!Send)
  /\ WF_runnerVars(part = "runner" /\ R!Executes)
  /\ WF_runnerVars(part = "runner" /\ R!Records)
ExchangeFair ==
  /\ WF_exchangeVars(part = "exchange" /\ X!Window)
  /\ WF_exchangeVars(part = "exchange" /\ X!StoppedExecutor)
ScriptsFair ==
  /\ WF_scriptsVars(part = "scripts" /\ S!Thread)
  /\ WF_scriptsVars(part = "scripts" /\ S!TimePasses)
WebSocketFair ==
  /\ WF_socketVars(part = "websocket" /\ W!Reader)
  /\ WF_socketVars(part = "websocket" /\ W!Writer)
  /\ WF_socketVars(part = "websocket" /\ W!Reads)

ExchangesSpec ==
  /\ ExchangesInit /\ [][ExchangesNext]_exchangesVars
  /\ GrpcFair /\ EnvironmentFair /\ AgentFair /\ RunnerFair /\ ExchangeFair /\ ScriptsFair
  /\ WebSocketFair

-----------------------------------------------------------------------------
(***************************************************************************)
(* EnvironmentSession, session.rs:157: what the requests of every          *)
(* collection see is as if an update, a snapshot and a fork were one step  *)
(* each: the session implements VariableStore.                             *)
(***************************************************************************)
IsEnvironment == part = "environment"
UpdatesAreAtomic ==
  /\ IsEnvironment => E!Promised!Init
  /\ [][IsEnvironment => E!Promised!Next]_(E!Promised!vars)

(***************************************************************************)
(* AgentThread, connection.rs:257: a prompt runs in the options chosen     *)
(* before it; and of the prompts that reach an agent the first one briefs  *)
(* it and no other does, also when one was dropped on its way.             *)
(***************************************************************************)
PromptsArePrepared ==
  /\ [](part = "agent" => A!TypeOK /\ A!FirstPromptBriefs)
  /\ [][part = "agent" => A!PromptWaited]_agentVars

(***************************************************************************)
(* CollectionRunner, runner.rs:785 and :944: however it is paused, resumed *)
(* and stopped, a run sends one request at a time and each once, and keeps *)
(* their results; one that was neither stopped nor led elsewhere by a      *)
(* script sends every request of every iteration.  However it ends, the    *)
(* app gets the cookies and variables of the run if they are to be kept,   *)
(* and none of them otherwise.                                             *)
(***************************************************************************)
RunIsExact ==
  part = "runner" =>
    /\ R!TypeOK /\ R!EachGoesOutOnce /\ R!CompleteRunsSendAll
    /\ R!CookiesReachTheApp /\ R!VariablesStayApart

(***************************************************************************)
(* RequestExchange, execution.rs:323: the log of a stream shows its events *)
(* in their order, without gap, all that were read when the server ends    *)
(* it, and how it ended, which the request timeout never does; history     *)
(* records each request that went out once, and no other.  GrpcDraft,      *)
(* invocation.rs:392, and WebSocket, draft.rs:490: history is told of each *)
(* call and connection that began once, then once of its end, however it   *)
(* ends.                                                                   *)
(***************************************************************************)
ExchangesAreRecorded ==
  /\ part = "exchange" =>
       X!TypeOK /\ X!LogHoldsWhatArrived /\ X!StreamLogsEnd /\ X!HistoryHasWhatWentOut
  /\ part = "grpc" => HistoryPairsUp
  /\ part = "websocket" => W!HistoryPairsUp

(***************************************************************************)
(* WebSocket, websocket.rs:384: the bytes that the reader waits for are    *)
(* those of the messages in the queue, whatever reader and tab do at the   *)
(* same time.  EnvironmentSession, session.rs:161: no updates and          *)
(* deletions of tasks that overlap pass the limits of a scope.             *)
(***************************************************************************)
LimitsHold ==
  /\ part = "websocket" => W!TypeOK /\ W!BacklogIsExact
  /\ part = "environment" => E!TypeOK /\ E!LimitsHold

(***************************************************************************)
(* ScriptedSend, runtime.rs:325: who gets a response gets a report of      *)
(* every script, those before the request without error; any answer but a  *)
(* timeout tells of every change that the session took; and of the scripts *)
(* of a cancelled request at most one still changes the session.           *)
(***************************************************************************)
ScriptsAreTold ==
  part = "scripts" => S!TypeOK /\ S!ScriptsAreTold /\ S!CancelledScriptsStop

InCall(t) == part = "environment" /\ E!InCall(t)
ReaderParked == part = "websocket" /\ W!Parked
\* The part of a behavior is always the same, so these are six promises.
UnderWay ==
  \/ part = "grpc" /\ Awaiting
  \/ part = "agent" /\ A!StoppedTurn
  \/ part = "runner" /\ R!Running
  \/ part = "exchange" /\ X!Stopping
  \/ part = "scripts" /\ S!Running
  \/ part = "websocket" /\ W!Closing
(***************************************************************************)
(* Whatever is under way ends.  An Invoke that waits for its definition    *)
(* goes on, fails or is dropped, and the response says so; sessions that   *)
(* share their globals never wait on each other; a stopped turn of the     *)
(* agent ends, but for the stop that StopEndsTheTurn excepts, and its      *)
(* options settle; a run that was paused and resumed goes on; a stopped    *)
(* stream ends though its server goes on and its queue is full; a script   *)
(* that never returns, or waits for an answer that never comes, is ended;  *)
(* a reader that waits for the queue is woken; and a closing socket        *)
(* becomes disconnected though its server reads nothing.                   *)
(***************************************************************************)
ExchangesEnd ==
  /\ UnderWay ~> ~UnderWay
  /\ \A t \in EnvTasks : InCall(t) ~> ~InCall(t)
  /\ ReaderParked ~> ~ReaderParked
  /\ <>[](part = "agent" => A!Settled)
  /\ [][part = "grpc" => KeepsResponse]_vars
=============================================================================
