-------------------------- MODULE CollectionRunner --------------------------
(***************************************************************************)
(* The Collection Runner: crates/tab_ui/src/collection_runner.  A run      *)
(* sends requests one after another, each in the background; the user      *)
(* pauses, resumes and stops it or closes its tab between any two steps.   *)
(* A dropped task of the background ends at its next await, so a request   *)
(* that was cancelled may still do what it was doing.  Request number k    *)
(* of a run sets cookie <<run, k>> and a variable of that name.            *)
(***************************************************************************)
EXTENDS Naturals, Sequences, SequencesExt

CONSTANTS MaxRequests, MaxIterations,
          MaxChoices,   \* bound: requests that scripts choose
          MaxPauses, MaxRuns

VARIABLES
  open,       \* whether the tab is
  preparing,  \* whether the saved requests are being read
  run,        \* Run: its status, cursor, results, options and context
  task,       \* Run.task: "none", "waiting" to send or "sending"
  executing,  \* what happens in the background: requests, and where each is
  appJar,     \* the app's cookies
  session,    \* the variables of the app's session
  sent,       \* ghost: how many requests of the run went out
  counts      \* how much happened

vars == <<open, preparing, run, task, executing, appJar, session, sent, counts>>

Over == <<0, 0>>
NoRun == [status |-> "none", requests |-> 0, iterations |-> 0, next |-> Over, sending |-> FALSE,
          clock |-> FALSE, results |-> <<>>, stopOnError |-> FALSE, keepVariables |-> FALSE,
          saveCookies |-> FALSE, jar |-> "app", cookies |-> {}, kept |-> FALSE]

IsActive == run.status \in {"running", "paused"}
Number == counts.runs

Init ==
  /\ open = TRUE /\ preparing = FALSE
  /\ run = NoRun /\ task = "none" /\ executing = {}
  /\ appJar = {} /\ session = {}
  /\ sent = 0
  /\ counts = [choices |-> 0, pauses |-> 0, runs |-> 0]

-----------------------------------------------------------------------------
(***************************************************************************)
(* Which request comes next; a position is <<iteration, index>>, from 1.   *)
(***************************************************************************)
\* What the scripts chose: nothing, a request, or 0 to end the iteration,
\* which a request that is not in the run does too.
Chosen == {{}} \union {{i} : i \in 0 .. run.requests}

Index(choice, index) ==
  IF choice # {} THEN CHOOSE i \in choice : TRUE
  ELSE IF index < run.requests THEN index + 1 ELSE 0

\* mutant: one iteration too many
IsLastAfter(at) == at[1] > run.iterations
IsLast(at) == at[1] = run.iterations

\* mutant: an iteration starts where the last one ended
NextHere(at) == <<at[1] + 1, at[2]>>
NextStart(at) == <<at[1] + 1, 1>>

Advanced(choice) ==
  LET index == Index(choice, run.next[2]) IN
  IF index # 0 THEN <<run.next[1], index>>
  ELSE IF IsLast(run.next) THEN Over ELSE NextStart(run.next)

-----------------------------------------------------------------------------
\* The app's jar, a copy of it, or an empty one that it takes over at the end.
Jars == {[jar |-> "none", cookies |-> {}, kept |-> FALSE, saveCookies |-> FALSE],
         [jar |-> "fresh", cookies |-> {}, kept |-> TRUE, saveCookies |-> TRUE],
         [jar |-> "fresh", cookies |-> {}, kept |-> FALSE, saveCookies |-> FALSE],
         [jar |-> "app", cookies |-> {}, kept |-> FALSE, saveCookies |-> TRUE],
         [jar |-> "copy", cookies |-> appJar, kept |-> FALSE, saveCookies |-> FALSE]}

\* finish(): the task ends, and the app's jar takes the run's cookies.
Dropped == executing' = {[e EXCEPT !.dropped = TRUE] : e \in {e \in executing : e.at = "going"}}
TakesCookies == appJar' = IF run.kept THEN appJar \union run.cookies ELSE appJar

\* mutant: a stopped run keeps its cookies to itself
FinishesAlone(to, status) ==
  /\ run' = [to EXCEPT !.status = status, !.sending = FALSE, !.clock = FALSE, !.kept = FALSE]
  /\ IF status = "complete" THEN TakesCookies ELSE UNCHANGED appJar
Finishes(to, status) ==
  /\ run' = [to EXCEPT !.status = status, !.sending = FALSE, !.clock = FALSE, !.kept = FALSE]
  /\ TakesCookies

\* mutant: a request under way is sent again
ResumesAnyway == task' = "waiting"
\* A request sent before pausing finishes in the task that sent it.
ResumesTask == task' = IF run.sending THEN task ELSE "waiting"

Start ==
  /\ open /\ ~preparing /\ ~IsActive /\ Number < MaxRuns
  /\ preparing' = TRUE
  /\ UNCHANGED <<open, run, task, executing, appJar, session, sent, counts>>

\* The requests that are still saved; without one the run does not start.
Begin(requests) ==
  /\ open /\ preparing
  /\ preparing' = FALSE
  /\ IF requests = 0 THEN UNCHANGED <<run, task, sent, counts>>
     ELSE /\ \E jar \in Jars, iterations \in 1 .. MaxIterations, stop \in BOOLEAN, keep \in BOOLEAN :
               run' = [status |-> "running", requests |-> requests, iterations |-> iterations,
                       next |-> <<1, 1>>, sending |-> FALSE, clock |-> TRUE, results |-> <<>>,
                       stopOnError |-> stop, keepVariables |-> keep, saveCookies |-> jar.saveCookies,
                       jar |-> jar.jar, cookies |-> jar.cookies, kept |-> jar.kept]
          /\ task' = "waiting"
          /\ sent' = 0
          /\ counts' = [counts EXCEPT !.runs = @ + 1]
  /\ UNCHANGED <<open, executing, appJar, session>>

\* mutant: the request under way is cancelled
PausesTask == task' = "none" /\ Dropped
PausesRun == UNCHANGED <<task, executing>>

Pause ==
  /\ open /\ run.status = "running" /\ counts.pauses < MaxPauses
  /\ run' = [run EXCEPT !.status = "paused", !.clock = FALSE]
  /\ PausesRun
  /\ counts' = [counts EXCEPT !.pauses = @ + 1]
  /\ UNCHANGED <<open, preparing, appJar, session, sent>>

Resume ==
  /\ open /\ run.status = "paused"
  /\ run' = [run EXCEPT !.status = "running", !.clock = TRUE]
  /\ ResumesTask
  /\ UNCHANGED <<open, preparing, executing, appJar, session, sent, counts>>

Stop ==
  /\ open /\ IsActive
  /\ Finishes(run, "stopped")
  /\ task' = "none" /\ Dropped
  /\ UNCHANGED <<open, preparing, session, sent, counts>>

\* The tab is closed; a run that ends with its tab still saves its cookies.
Close ==
  /\ open
  /\ open' = FALSE /\ preparing' = FALSE
  /\ run' = [run EXCEPT !.kept = FALSE] /\ TakesCookies
  /\ task' = "none" /\ Dropped
  /\ UNCHANGED <<session, sent, counts>>

-----------------------------------------------------------------------------
(***************************************************************************)
(* The run's task.                                                         *)
(***************************************************************************)
MaySend == run.status = "running" /\ run.next # Over

\* The delay passed.  Pausing during it keeps the request from going out.
Send ==
  /\ task = "waiting"
  /\ IF MaySend
       THEN /\ run' = [run EXCEPT !.sending = TRUE]
            /\ task' = "sending"
            /\ sent' = sent + 1
            /\ executing' = executing \union
                 {[name |-> <<Number, sent + 1>>, at |-> "going", dropped |-> FALSE,
                   jar |-> run.jar, keeps |-> run.keepVariables]}
       ELSE task' = "none" /\ UNCHANGED <<run, sent, executing>>
  /\ UNCHANGED <<open, preparing, appJar, session, counts>>

\* mutant: a copy of the session is one in name
SetsForAll(e) == session' = session \union {e.name}
\* Without Keep variable values, the run changes a copy of the session.
SetsVariables(e) == session' = IF e.keeps THEN session \union {e.name} ELSE session

\* A request does its work, to the jar it was sent with.
Execute(e) ==
  /\ e \in executing /\ e.at = "going"
  /\ SetsVariables(e)
  /\ appJar' = IF e.jar = "app" THEN appJar \union {e.name} ELSE appJar
  /\ run' = IF e.jar \in {"fresh", "copy"} /\ e.name[1] = Number
              THEN [run EXCEPT !.cookies = @ \union {e.name}] ELSE run
  /\ executing' = (executing \ {e}) \union (IF e.dropped THEN {} ELSE {[e EXCEPT !.at = "answered"]})
  /\ UNCHANGED <<open, preparing, task, sent, counts>>

Cancelled(e) ==
  /\ e \in executing /\ e.dropped
  /\ executing' = executing \ {e}
  /\ UNCHANGED <<open, preparing, run, task, appJar, session, sent, counts>>

Record(e, choice, error) ==
  LET ends     == error /\ run.stopOnError
      recorded == [run EXCEPT !.sending = FALSE, !.results = Append(@, run.next),
                              !.next = IF ends THEN Over ELSE Advanced(choice)]
  IN
  /\ task = "sending" /\ e \in executing /\ e.at = "answered"
  /\ choice # {} => counts.choices < MaxChoices
  /\ counts' = [counts EXCEPT !.choices = IF choice = {} THEN @ ELSE @ + 1]
  /\ executing' = executing \ {e}
  /\ IF recorded.next = Over
       THEN Finishes(recorded, "complete") /\ task' = "none"
       ELSE /\ run' = recorded
            /\ task' = IF run.status = "running" THEN "waiting" ELSE "none"
            /\ UNCHANGED appJar
  /\ UNCHANGED <<open, preparing, session, sent>>

Records == \E e \in executing, choice \in Chosen, error \in BOOLEAN : Record(e, choice, error)
Executes == \E e \in executing : Execute(e)

Begins == \E requests \in 0 .. MaxRequests : Begin(requests)

Next ==
  \/ Start \/ Begins \/ Pause \/ Resume \/ Stop \/ Close
  \/ Send \/ Records \/ Executes \/ (\E e \in executing : Cancelled(e))

Fairness == WF_vars(Begins) /\ WF_vars(Send) /\ WF_vars(Executes) /\ WF_vars(Records)

Spec == Init /\ [][Next]_vars /\ Fairness

-----------------------------------------------------------------------------
IsOver == run.status \in {"stopped", "complete"} \/ (~open /\ run.status # "none")

TypeOK ==
  /\ run.status \in {"none", "running", "paused", "stopped", "complete"}
  /\ run.next \in {Over} \union ((1 .. run.iterations) \X (1 .. run.requests))
  /\ run.clock = (run.status = "running")
  /\ task \in {"none", "waiting", "sending"}
  /\ open /\ task = "sending" => run.sending
  /\ IsActive => run.next # Over

(***************************************************************************)
(* runner.rs:783: however it is paused, resumed and stopped, a run sends   *)
(* one request at a time and each once, and keeps the result of each but   *)
(* the one that was cancelled.                                             *)
(***************************************************************************)
EachGoesOutOnce ==
  /\ IF open /\ IsActive THEN sent = Len(run.results) + (IF run.sending THEN 1 ELSE 0)
     ELSE sent \in {Len(run.results), Len(run.results) + 1}
  /\ \A e, f \in executing : ~e.dropped /\ ~f.dropped => e = f

(***************************************************************************)
(* runner.rs:158: a run that was neither stopped nor led elsewhere by a    *)
(* script sends every request of every iteration.                          *)
(***************************************************************************)
CompleteRunsSendAll ==
  run.status = "complete" /\ counts.choices = 0 /\ ~run.stopOnError =>
    Len(run.results) = run.requests * run.iterations

(***************************************************************************)
(* runner.rs:54: however a run ends, the app's jar has the cookies of the  *)
(* requests that are in its results if they are to be kept, and none of    *)
(* the run's cookies otherwise, not even of a request that was cancelled.  *)
(***************************************************************************)
CookiesReachTheApp ==
  /\ run.saveCookies /\ IsOver => \A k \in DOMAIN run.results : <<Number, k>> \in appJar
  /\ ~run.saveCookies => \A cookie \in appJar : cookie[1] # Number

(***************************************************************************)
(* runner.rs:681: the app's session has the variables of the run's         *)
(* requests if they are to be kept, and none of them otherwise.            *)
(***************************************************************************)
VariablesStayApart ==
  IF run.keepVariables THEN \A k \in DOMAIN run.results : <<Number, k>> \in session
  ELSE \A variable \in session : variable[1] # Number

Running == open /\ run.status = "running"

(***************************************************************************)
(* runner.rs:799: a run that was paused and resumed goes on: unless it is  *)
(* paused again it ends, whichever task was under way.                     *)
(***************************************************************************)
RunGoesOn == Running ~> ~Running
=============================================================================
