---------------------------- MODULE AgentThread -----------------------------
(***************************************************************************)
(* A thread with a coding agent: the panel of                              *)
(* crates/agent_panel/src/panel.rs and the connection of                   *)
(* crates/agent/src/connection.rs, with any agent that keeps to the Agent  *)
(* Client Protocol.  The panel's commands and the connection's events each *)
(* wait in a channel.  Of the agent's options, the mode says whether it    *)
(* asks before it runs tools, and the effort stands for those it may leave *)
(* to itself ("default").  A message is only whether it briefs the agent.  *)
(***************************************************************************)
EXTENDS Naturals, Sequences, FiniteSets, FiniteSetsExt, SequencesExt

CONSTANTS MaxSends,    \* bound: messages sent
          MaxChoices,  \* bound: modes picked by the user or the agent
          MaxTroubles  \* bound: failures, rejections and new threads

VARIABLES
  asksFirst,   \* the settings: Ask before running tools
  panel,       \* AgentPanel, without its thread
  commands,    \* Connection.commands
  unanswered,  \* the option changes on their way to the agent and back
  pending,     \* pending_options is Some: an option was set on this connection
  waiting,     \* the task of a prompt, which waits for the changes before it
  stops,       \*   and whether the turn was stopped since, if it compares
  events,      \* the events on their way to the panel
  agent,       \* the process: its turn and its options
  briefings,   \* ghost: whether each prompt that reached the agent briefs it
  earlier,     \* ghost: the unanswered changes made before the prompt under way
  stopped,     \* ghost: the user stopped the message under way, not too early
  counts

vars == <<asksFirst, panel, commands, unanswered, pending, waiting, stops, events, agent,
          briefings, earlier, stopped, counts>>

Modes == {"asking", "bypass"}
NoPrompt == [at |-> "none", briefs |-> FALSE, needs |-> {}, compares |-> FALSE]
NoAgent == [turn |-> "none", mode |-> "none", effort |-> "none"]

NewThreadPanel ==
  [session |-> "none", failed |-> FALSE, running |-> FALSE, queued |-> FALSE,
   briefed |-> FALSE, onItsWay |-> FALSE, question |-> FALSE, auto |-> FALSE, makingExact |-> FALSE,
   shown |-> [mode |-> "none", effort |-> "none"], confirmed |-> [mode |-> "none", effort |-> "none"]]

\* start(), which reads the agent's variables first.
Started(to) == [to EXCEPT !.session = "starting", !.failed = FALSE]

Init ==
  /\ asksFirst \in BOOLEAN
  /\ panel = Started(NewThreadPanel)
  /\ commands = <<>> /\ unanswered = {} /\ pending = FALSE /\ waiting = NoPrompt /\ stops = 0
  /\ events = <<>> /\ agent = NoAgent
  /\ briefings = <<>> /\ earlier = {} /\ stopped = FALSE
  /\ counts = [sends |-> 0, choices |-> 0, troubles |-> 0]

Connection == <<commands, unanswered, pending, waiting, stops, events, agent>>
May(what, max) == counts[what] < max /\ counts' = [counts EXCEPT ![what] = @ + 1]

\* The process ends with its connection, and what is on its way is dropped.
Disconnected ==
  /\ commands' = <<>> /\ unanswered' = {} /\ pending' = FALSE /\ waiting' = NoPrompt /\ stops' = 0
  /\ events' = <<>> /\ agent' = NoAgent

-----------------------------------------------------------------------------
(***************************************************************************)
(* The panel.                                                              *)
(***************************************************************************)
SetOption(option, value) == [do |-> "set", option |-> option, value |-> value]
Prompt(briefs) == [do |-> "prompt", briefs |-> briefs]

\* prompt() of a panel whose session is ready.
Prompted(to) == [to EXCEPT !.onItsWay = ~to.briefed, !.briefed = TRUE]

\* set_option(): shown at once.
Chose(to, option, value) ==
  [to EXCEPT !.shown[option] = value,
             !.auto = IF option = "mode" THEN ~asksFirst /\ value = "bypass" ELSE @]

\* mutant: the options asked for are forgotten
AsksForExactAgain(to) == to.shown.effort = "default"
AsksForExact(to) == to.shown.effort = "default" /\ ~to.makingExact

\* make_exact()
Exact(to) ==
  IF AsksForExact(to)
    THEN [panel |-> Chose([to EXCEPT !.makingExact = TRUE], "effort", "exact"),
          sends |-> <<SetOption("effort", "exact")>>]
    ELSE [panel |-> [to EXCEPT !.makingExact = @ /\ to.shown.effort = "default"], sends |-> <<>>]

ReadsVariables ==
  /\ panel.session = "starting"
  /\ \/ panel' = [panel EXCEPT !.session = "connecting", !.auto = ~asksFirst] /\ UNCHANGED counts
     \* The program is gone: the message stays queued until it is stopped.
     \/ panel' = [panel EXCEPT !.session = "none"] /\ May("troubles", MaxTroubles)
     \/ /\ panel' = [panel EXCEPT !.session = "none", !.failed = TRUE, !.queued = FALSE, !.running = FALSE]
        /\ May("troubles", MaxTroubles)
  /\ UNCHANGED <<asksFirst, Connection, briefings, earlier, stopped>>

Send ==
  /\ ~panel.running /\ ~panel.failed /\ May("sends", MaxSends)
  /\ stopped' = FALSE
  /\ CASE panel.session = "ready" ->
            /\ panel' = Prompted([panel EXCEPT !.running = TRUE])
            /\ commands' = Append(commands, Prompt(~panel.briefed))
       [] panel.session = "none" ->
            panel' = Started([panel EXCEPT !.running = TRUE, !.queued = TRUE]) /\ UNCHANGED commands
       [] OTHER -> panel' = [panel EXCEPT !.running = TRUE, !.queued = TRUE] /\ UNCHANGED commands
  /\ UNCHANGED <<asksFirst, unanswered, pending, waiting, stops, events, agent, briefings, earlier>>

\* decide(): the answer goes to the agent.
Answered == agent' = IF panel.question /\ agent.turn = "asking" THEN [agent EXCEPT !.turn = "working"] ELSE agent

\* The button is there while a message is under way.
Stop ==
  /\ panel.running
  /\ ~stopped   \* bound: once more would only repeat the notification
  /\ stopped' = TRUE
  /\ IF panel.session = "ready"
       THEN /\ commands' = Append(commands, [do |-> "cancel"])
            /\ panel' = [panel EXCEPT !.question = FALSE]
       ELSE /\ panel' = [panel EXCEPT !.question = FALSE, !.queued = FALSE,
                                      !.running = IF panel.queued THEN FALSE ELSE @]
            /\ UNCHANGED commands
  /\ Answered
  /\ UNCHANGED <<asksFirst, unanswered, pending, waiting, stops, events, briefings, earlier, counts>>

Decide ==
  /\ panel.question
  /\ panel' = [panel EXCEPT !.question = FALSE]
  /\ Answered
  /\ UNCHANGED <<asksFirst, commands, unanswered, pending, waiting, stops, events, briefings, earlier, stopped, counts>>

PickMode(mode) ==
  /\ panel.session = "ready" /\ mode # panel.shown.mode /\ May("choices", MaxChoices)
  /\ panel' = Chose(panel, "mode", mode)
  /\ commands' = Append(commands, SetOption("mode", mode))
  /\ UNCHANGED <<asksFirst, unanswered, pending, waiting, stops, events, agent, briefings, earlier, stopped>>

NewThread ==
  /\ May("troubles", MaxTroubles)
  /\ panel' = Started(NewThreadPanel)
  /\ Disconnected
  /\ briefings' = <<>> /\ earlier' = {} /\ stopped' = FALSE
  /\ UNCHANGED asksFirst

-----------------------------------------------------------------------------
(***************************************************************************)
(* The events the panel handles.                                           *)
(***************************************************************************)
Next1 == Head(events)
Took(on) == events # <<>> /\ Next1.on = on /\ events' = Tail(events)
Sends(more) == commands' = commands \o more

\* The mode that runs tools without asking, or one that asks, as the
\* settings say; then exact options; then the message that waited.
HandleStarted ==
  /\ Took("started")
  /\ LET ready == [panel EXCEPT !.session = "ready", !.shown = Next1.options, !.confirmed = Next1.options]
         mode  == IF asksFirst THEN "asking" ELSE "bypass"
         sets  == IF asksFirst /\ ready.shown.mode = mode THEN <<>> ELSE <<SetOption("mode", mode)>>
         exact == Exact(IF sets = <<>> THEN ready ELSE Chose(ready, "mode", mode))
     IN  /\ panel' = IF panel.queued THEN Prompted([exact.panel EXCEPT !.queued = FALSE]) ELSE exact.panel
         /\ Sends(sets \o exact.sends
                    \o (IF panel.queued THEN <<Prompt(~panel.briefed)>> ELSE <<>>))
  /\ UNCHANGED <<asksFirst, unanswered, pending, waiting, stops, agent, briefings, earlier, stopped, counts>>

\* The answer to a change, and options the agent changed by itself.
HandleOptions ==
  /\ Took("options")
  /\ LET exact == Exact([panel EXCEPT !.shown = Next1.options, !.confirmed = Next1.options])
     IN  panel' = exact.panel /\ Sends(exact.sends)
  /\ UNCHANGED <<asksFirst, unanswered, pending, waiting, stops, agent, briefings, earlier, stopped, counts>>

HandleRejected ==
  /\ Took("rejected")
  /\ panel' = [panel EXCEPT !.shown = panel.confirmed]
  /\ UNCHANGED <<asksFirst, commands, unanswered, pending, waiting, stops, agent, briefings, earlier, stopped, counts>>

HandlePermission ==
  /\ Took("permission")
  /\ panel' = [panel EXCEPT !.question = ~panel.auto]
  /\ agent' = IF panel.auto /\ agent.turn = "asking" THEN [agent EXCEPT !.turn = "working"] ELSE agent
  /\ UNCHANGED <<asksFirst, commands, unanswered, pending, waiting, stops, briefings, earlier, stopped, counts>>

\* mutant: a question stays when its turn ends
TurnOverAsking(to) == [to EXCEPT !.running = FALSE, !.onItsWay = FALSE]
TurnOver(to) == [to EXCEPT !.running = FALSE, !.onItsWay = FALSE, !.question = FALSE]

HandleTurnEnded ==
  /\ Took("ended")
  /\ panel' = TurnOver(panel)
  /\ UNCHANGED <<asksFirst, commands, unanswered, pending, waiting, stops, agent, briefings, earlier, stopped, counts>>

\* mutant: a dropped briefing is not sent again
BriefedAnyway == panel.briefed
BriefedStill == panel.briefed /\ ~panel.onItsWay

\* The next message briefs the agent instead.
HandleDropped ==
  /\ Took("dropped")
  /\ panel' = TurnOver([panel EXCEPT !.briefed = BriefedStill])
  /\ UNCHANGED <<asksFirst, commands, unanswered, pending, waiting, stops, agent, briefings, earlier, stopped, counts>>

HandleFailed ==
  /\ events # <<>> /\ Next1.on = "failed"
  /\ panel' = [panel EXCEPT !.session = "none", !.running = FALSE, !.queued = FALSE, !.question = FALSE,
                            !.failed = TRUE]
  /\ Disconnected
  /\ UNCHANGED <<asksFirst, briefings, earlier, stopped, counts>>

-----------------------------------------------------------------------------
(***************************************************************************)
(* The connection.  What it sends reaches the agent in its order; a        *)
(* message on its way is one the agent reads late.                         *)
(***************************************************************************)
Emits(event) == events' = Append(events, event)

Reaches(briefs) ==
  /\ agent' = [agent EXCEPT !.turn = "working"]
  /\ briefings' = Append(briefings, briefs)

\* mutant: a prompt waits for the latest change only
NeedsLatest == IF unanswered = {} THEN {} ELSE {Max({change.n : change \in unanswered})}
Needs == {change.n : change \in unanswered}

\* The task is spawned, and the next command may come before it runs.
HandlePrompt ==
  /\ commands # <<>> /\ Head(commands).do = "prompt" /\ commands' = Tail(commands)
  /\ waiting' = [at |-> "waiting", briefs |-> Head(commands).briefs, needs |-> Needs, compares |-> pending]
  /\ stops' = 0
  /\ earlier' = {change.n : change \in unanswered}
  /\ UNCHANGED <<asksFirst, panel, unanswered, pending, events, agent, briefings, stopped, counts>>

\* mutant: a stop is forgotten
StopsUncounted == UNCHANGED stops
StopsCounted == stops' = 1

\* CancelNotification: the agent ends its turn and withdraws its question.
\* One that overtakes a prompt whose task does not compare ends nothing.
HandleCancel ==
  /\ commands # <<>> /\ Head(commands).do = "cancel" /\ commands' = Tail(commands)
  /\ StopsCounted
  /\ agent' = IF agent.turn = "none" THEN agent ELSE [agent EXCEPT !.turn = "ending"]
  /\ stopped' = (stopped /\ ~(waiting.at = "waiting" /\ ~waiting.compares))
  /\ UNCHANGED <<asksFirst, panel, unanswered, pending, waiting, events, briefings, earlier, counts>>

Number == Min((1 .. Cardinality(unanswered) + 1) \ {change.n : change \in unanswered})

HandleSetOption ==
  /\ commands # <<>> /\ Head(commands).do = "set" /\ commands' = Tail(commands)
  /\ unanswered' = unanswered \union
       {[n |-> Number, option |-> Head(commands).option, value |-> Head(commands).value]}
  /\ pending' = TRUE
  /\ UNCHANGED <<asksFirst, panel, waiting, stops, events, agent, briefings, earlier, stopped, counts>>

\* It compares only if it waited; what it then sends is on its way at once.
PromptGoesOn ==
  /\ waiting.at = "waiting" /\ waiting.needs = {}
  /\ waiting' = NoPrompt
  /\ IF waiting.compares /\ stops # 0 THEN Emits([on |-> "dropped"]) /\ UNCHANGED <<agent, briefings>>
     ELSE Reaches(waiting.briefs) /\ UNCHANGED events
  /\ UNCHANGED <<asksFirst, panel, commands, unanswered, pending, stops, earlier, stopped, counts>>

-----------------------------------------------------------------------------
(***************************************************************************)
(* The agent.  It answers option changes in any order, works as long as it *)
(* likes, and ends a turn that is cancelled.                               *)
(***************************************************************************)
Options == [mode |-> agent.mode, effort |-> agent.effort]

Starts ==
  /\ panel.session = "connecting" /\ agent = NoAgent /\ events = <<>>
  /\ \/ \E mode \in Modes, effort \in {"default", "exact"} :
          /\ agent' = [turn |-> "none", mode |-> mode, effort |-> effort]
          /\ Emits([on |-> "started", options |-> [mode |-> mode, effort |-> effort]])
          /\ UNCHANGED counts
     \/ May("troubles", MaxTroubles) /\ Emits([on |-> "failed"]) /\ UNCHANGED agent
  /\ UNCHANGED <<asksFirst, panel, commands, unanswered, pending, waiting, stops, briefings, earlier, stopped>>

\* It may keep its default effort.
Takes(change) ==
  /\ \/ agent' = [agent EXCEPT ![change.option] = change.value]
     \/ change.option = "effort" /\ UNCHANGED agent
  /\ Emits([on |-> "options", options |-> [mode |-> agent'.mode, effort |-> agent'.effort]])
  /\ UNCHANGED counts

Rejects == May("troubles", MaxTroubles) /\ Emits([on |-> "rejected"]) /\ UNCHANGED agent

AnswersChange(change) ==
  /\ Takes(change) \/ Rejects
  /\ unanswered' = unanswered \ {change}
  /\ waiting' = [waiting EXCEPT !.needs = @ \ {change.n}]
  /\ earlier' = earlier \ {change.n}
  /\ UNCHANGED <<asksFirst, panel, commands, pending, stops, briefings, stopped>>

ChangesMode(mode) ==
  /\ agent.turn = "working" /\ mode # agent.mode /\ May("choices", MaxChoices)
  /\ agent' = [agent EXCEPT !.mode = mode]
  /\ Emits([on |-> "options", options |-> [Options EXCEPT !.mode = mode]])
  /\ UNCHANGED <<asksFirst, panel, commands, unanswered, pending, waiting, stops, briefings, earlier, stopped>>

Asks ==
  /\ agent.turn = "working" /\ agent.mode = "asking"
  /\ ~panel.question /\ ~\E n \in DOMAIN events : events[n].on = "permission"
  /\ agent' = [agent EXCEPT !.turn = "asking"]
  /\ Emits([on |-> "permission"])
  /\ UNCHANGED <<asksFirst, panel, commands, unanswered, pending, waiting, stops, briefings, earlier, stopped, counts>>

EndsTurn ==
  /\ agent.turn \in {"working", "ending"}
  /\ agent' = [agent EXCEPT !.turn = "none"]
  /\ Emits([on |-> "ended"])
  /\ UNCHANGED <<asksFirst, panel, commands, unanswered, pending, waiting, stops, briefings, earlier, stopped, counts>>

Dies ==
  /\ agent # NoAgent /\ May("troubles", MaxTroubles)
  /\ agent' = NoAgent
  /\ commands' = <<>> /\ unanswered' = {} /\ pending' = FALSE /\ waiting' = NoPrompt
  /\ Emits([on |-> "failed"])
  /\ UNCHANGED <<asksFirst, panel, stops, briefings, earlier, stopped>>

-----------------------------------------------------------------------------
Panel == ReadsVariables \/ HandleStarted \/ HandleOptions \/ HandleRejected \/ HandlePermission
           \/ HandleTurnEnded \/ HandleDropped \/ HandleFailed
\* They end with the process.
Client == agent # NoAgent /\ (HandlePrompt \/ HandleCancel \/ HandleSetOption)
PromptTask == agent # NoAgent /\ PromptGoesOn
Changes == \E change \in unanswered : AnswersChange(change)
Cancels == agent.turn = "ending" /\ EndsTurn

Next ==
  \/ Panel \/ Client \/ PromptTask \/ Starts \/ Changes \/ EndsTurn \/ Asks \/ Dies
  \/ Send \/ Stop \/ Decide \/ NewThread
  \/ \E mode \in Modes : PickMode(mode) \/ ChangesMode(mode)

Fairness ==
  /\ WF_vars(Panel) /\ WF_vars(Client) /\ WF_vars(PromptTask)
  /\ WF_vars(Starts) /\ WF_vars(Changes) /\ WF_vars(Cancels)

Spec == Init /\ [][Next]_vars /\ Fairness

-----------------------------------------------------------------------------
TypeOK ==
  /\ panel.session \in {"none", "starting", "connecting", "ready"}
  /\ panel.queued => panel.running
  /\ panel.question => panel.running /\ panel.session = "ready"
  /\ panel.shown.mode \in Modes \union {"none"} /\ panel.shown.effort \in {"none", "default", "exact"}
  /\ agent.turn \in {"none", "working", "asking", "ending"}
  /\ agent.turn # "none" \/ waiting # NoPrompt => panel.running

(***************************************************************************)
(* panel.rs:60: of the prompts that reach an agent the first one briefs it *)
(* and no other does, also when one was dropped on its way.                *)
(***************************************************************************)
FirstPromptBriefs == \A n \in DOMAIN briefings : briefings[n] = (n = 1)

(***************************************************************************)
(* connection.rs:249: a prompt runs in the options chosen before it: none  *)
(* of those changes is unanswered when it reaches the agent.               *)
(***************************************************************************)
PromptWaited == Len(briefings') > Len(briefings) => earlier' = {}
PromptsWaitForOptions == [][PromptWaited]_vars

(***************************************************************************)
(* panel.rs:779: a message that was stopped ends: before the agent started,*)
(* while it waits for an option, at a question or in a turn that would     *)
(* never end by itself.  The exception is a stop that is handled before    *)
(* the task of its prompt has run (connection.rs:258 and 277), on a        *)
(* connection where no option was ever set (259): it ends nothing, and the *)
(* user has to stop once more.                                             *)
(***************************************************************************)
StoppedTurn == panel.running /\ stopped
StopEndsTheTurn == StoppedTurn ~> ~StoppedTurn

(***************************************************************************)
(* panel.rs:566: the panel asks for an exact option once, although the     *)
(* agent may keep its default: the changes of options come to an end.      *)
(***************************************************************************)
Settled == commands = <<>> /\ unanswered = {}
OptionsSettle == <>[]Settled

(***************************************************************************)
(* panel.rs:856: the panel allows tools by itself only while the agent is  *)
(* in a mode that does not ask either, as far as the panel shows.          *)
(***************************************************************************)
AllowsOnlyInBypass == panel.session = "ready" /\ panel.auto => panel.shown.mode = "bypass"
=============================================================================
