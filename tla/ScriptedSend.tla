---------------------------- MODULE ScriptedSend ----------------------------
(***************************************************************************)
(* One request with its scripts: RequestExecutor::run of crates/request/   *)
(* src/executor.rs, the two phases of scripts/runtime.rs, and the engine   *)
(* of scripts/engine.rs that runs a script on a thread of the blocking     *)
(* pool, with the requests it may send (scripts/network.rs).  The future   *)
(* may time out or be dropped at any time; a script that runs then goes on *)
(* until it looks at the flag.  A script is named by its owner and phase.  *)
(* What a script computes is open: it runs in steps of its own choosing.   *)
(***************************************************************************)
EXTENDS Naturals, Sequences

CONSTANTS REQUEST_LIMIT, CONCURRENT_REQUESTS,
          MaxJobs,    \* bound: promise jobs that wait
          MaxPromises \* bound: rejections and tests a script leaves open

VARIABLES
  future,     \* RequestExecutor::run(): where it is, the scripts of its request
  thread,     \* the closure on the blocking pool: its phase, what it does
  scripts,    \* the scripts of the phase that did not run, the first one running
  script,     \* the runtime of the running script
  late,       \* whether its time, active or elapsed, is over
  cancelled,  \* Cancellation
  session,    \* the scripts whose changes the environment session holds
  locals,     \* those whose pm.variables the next request of a run gets
  reports,    \* what each script that ended reports
  output,     \* ghost: what the future returned in the end
  after       \* ghost: the scripts whose changes came after the future ended

vars == <<future, thread, scripts, script, late, cancelled, session, locals, reports, output, after>>

Pre == <<<<"collection", "pre">>, <<"request", "pre">>>>
Post == <<<<"collection", "post">>, <<"request", "post">>>>
AllScripts == {"collection", "request"} \X {"pre", "post"}

NoThread == [phase |-> "none", at |-> "none"]
NoScript == [main |-> "none", jobs |-> 0, sent |-> 0, pending |-> 0, rejected |-> 0, tests |-> 0,
             skipped |-> FALSE, error |-> "none"]
\* The source is called at once; it runs up to its first await.
Evaluated == [NoScript EXCEPT !.main = "pending"]
Report(error) == [script |-> Head(scripts), error |-> error]

\* The scripts that are not empty, of the collection and of the request.
Written(phase) == {<<>>, <<phase[1]>>, <<phase[2]>>, phase}

Unanswered == [result |-> "none", reports |-> <<>>]

Init ==
  /\ future \in [at : {"pre"}, pre : Written(Pre), post : Written(Post)]
  /\ scripts = future.pre
  /\ thread = NoThread /\ script = NoScript /\ late = FALSE
  /\ cancelled = FALSE
  /\ session = {} /\ locals = {} /\ reports = <<>> /\ output = Unanswered /\ after = {}

send == <<future, cancelled, session, locals, reports, output, after>>
ghosts == <<output, after>>
OnThread(phase, at) == thread = [phase |-> phase, at |-> at]
To(at) == thread' = [thread EXCEPT !.at = at]

-----------------------------------------------------------------------------
(***************************************************************************)
(* engine.rs: a script runs its jobs and returns to the loop of run(),     *)
(* which decides between them.                                             *)
(***************************************************************************)
Interrupted == cancelled \/ late

\* JavaScript: one visible thing at a time.  Each ends in a job that goes on,
\* or back in the loop.
Sends(s) == [s EXCEPT !.sent = @ + 1, !.pending = @ + 1]
MaySend(s) == s.sent < REQUEST_LIMIT /\ s.pending < CONCURRENT_REQUESTS
Steps(s) ==
  {t \in {[s EXCEPT !.jobs = @ + 1],
          [s EXCEPT !.rejected = @ + 1], [s EXCEPT !.tests = @ + 1]} :
     t.jobs <= MaxJobs /\ t.rejected <= MaxPromises /\ t.tests <= MaxPromises}
  \union {[s EXCEPT !.main = m] : m \in IF s.main = "pending" THEN {"ok", "error"} ELSE {}}
  \union {[s EXCEPT !.rejected = @ - 1] : n \in {1} \intersect 1 .. s.rejected}
  \union {[s EXCEPT !.tests = @ - 1] : n \in {1} \intersect 1 .. s.tests}
  \union {Sends(s) : n \in IF MaySend(s) THEN {1} ELSE {}}
  \union {[s EXCEPT !.skipped = TRUE] : p \in {"pre"} \intersect {thread.phase}}

Runs ==
  /\ thread.at = "running"
  /\ \/ script' \in Steps(script) /\ UNCHANGED thread
     \/ To("loop") /\ UNCHANGED script
  /\ UNCHANGED <<scripts, late, send>>

\* The interrupt handler, which ends JavaScript that would go on for ever.
Interrupts ==
  /\ thread.at = "running" /\ Interrupted
  /\ To("loop")
  /\ UNCHANGED <<scripts, script, late, send>>

TimePasses ==
  /\ thread.at \in {"running", "loop", "waiting"}
  /\ late' = TRUE
  /\ UNCHANGED <<thread, scripts, script, send>>

\* run() returns after Network::clear(), with its output or an error.
Returns(error) ==
  /\ script' = [NoScript EXCEPT !.skipped = script.skipped, !.error = error]
  /\ To("returned")

\* export(); a test that was not awaited can still be open.
Exported == IF script.tests > 0 /\ ~script.skipped THEN "error" ELSE "none"

Loop ==
  /\ thread.at = "loop"
  /\ IF Interrupted THEN Returns("error")
     ELSE IF script.skipped THEN Returns(Exported)
     ELSE IF script.jobs > 0 THEN script' = [script EXCEPT !.jobs = @ - 1] /\ To("running")
     ELSE IF script.main = "error" THEN Returns("error")
     ELSE IF script.pending = 0
       THEN Returns(IF script.main = "pending" \/ script.rejected > 0 THEN "error" ELSE Exported)
     ELSE To("waiting") /\ UNCHANGED script
  /\ UNCHANGED <<scripts, late, send>>

\* An answer, or a failure, resolves the promise of pm.sendRequest.
Answers ==
  /\ thread.at = "waiting"
  /\ script' = [script EXCEPT !.pending = @ - 1, !.jobs = @ + 1]
  /\ To("loop")
  /\ UNCHANGED <<scripts, late, send>>

\* 10 milliseconds, so that the loop looks at the limits.
Wakes ==
  /\ thread.at = "waiting"
  /\ To("loop")
  /\ UNCHANGED <<scripts, script, late, send>>
-----------------------------------------------------------------------------
(***************************************************************************)
(* runtime.rs: the closure of a phase, which takes what each script left,  *)
(* and the future that awaits it.                                          *)
(***************************************************************************)
Ended == future.at = "done"
\* What ends first counts: the result of a closure that nobody awaits is lost.
Ends(result, told) ==
  /\ future' = IF Ended THEN future ELSE [future EXCEPT !.at = "done"]
  /\ output' = IF Ended THEN output ELSE [result |-> result, reports |-> told]
Names(list) == [i \in DOMAIN list |-> list[i].script]
Told(list, errors) == {list[i].script : i \in {j \in DOMAIN list : list[j].error \in errors}}
\* The scripts whose variables the next ones see.
Taken(list) == Told(list, {"none"})

Takes(at, phase, first) ==
  /\ future.at = at /\ thread = NoThread
  /\ thread' = [phase |-> phase, at |-> first]
  /\ UNCHANGED <<scripts, script, late, send>>
TakesPhase == Takes("pre", "pre", "next") \/ Takes("post", "post", "next")

\* The collection's scripts cannot be read.
Unreadable ==
  /\ future.at = "pre" /\ thread = NoThread
  /\ reports' = <<[script |-> Pre[1], error |-> "error"]>>
  /\ Ends("failed", reports')
  /\ UNCHANGED <<thread, scripts, script, late, cancelled, session, locals, after>>

NextScript ==
  /\ thread.at = "next" /\ scripts # <<>>
  /\ script' = Evaluated /\ late' = FALSE
  /\ To("running")
  /\ UNCHANGED <<scripts, send>>

\* A script that stopped the send.
Stops(error, result) ==
  /\ reports' = Append(reports, Report(error))
  /\ Ends(result, reports')
  /\ thread' = NoThread
Reports(error) ==
  /\ reports' = Append(reports, Report(error))
  /\ scripts' = Tail(scripts)
  /\ To("next")

\* mutant: a collection script that failed ends its phase
FailsPhase(error) ==
  IF thread.phase = "pre" \/ Head(scripts) = <<"collection", "post">>
    THEN Stops(error, IF thread.phase = "pre" THEN "failed" ELSE "response") /\ UNCHANGED scripts
    ELSE Reports(error) /\ UNCHANGED <<future, output>>
\* Before the request a script that failed stops it; after the response the
\* next one runs.
Fails(error) ==
  IF thread.phase = "pre"
    THEN Stops(error, "failed") /\ UNCHANGED scripts
    ELSE Reports(error) /\ UNCHANGED <<future, output>>

Checks ==
  /\ thread.at = "returned"
  /\ IF cancelled \/ script.error # "none"
       THEN Fails("error")
       ELSE To("applying") /\ UNCHANGED <<future, output, reports, scripts>>
  /\ UNCHANGED <<script, late, cancelled, session, locals, after>>

\* Its changes pass the limits of the session, or none of them is made.
Refused ==
  /\ thread.at = "applying"
  /\ Fails("limit")
  /\ UNCHANGED <<script, late, cancelled, session, locals, after>>

Applies ==
  /\ thread.at = "applying"
  /\ session' = session \union {Head(scripts)}
  /\ after' = IF Ended THEN after \union {Head(scripts)} ELSE after
  /\ IF script.skipped
       THEN /\ locals' = Taken(reports) \union {Head(scripts)}
            /\ Stops("none", "skipped") /\ UNCHANGED scripts
       ELSE /\ \/ Reports("none") /\ UNCHANGED <<future, output>>
               \* It attached a file.
               \/ thread.phase = "pre" /\ Stops("after", "failed") /\ UNCHANGED scripts
            /\ UNCHANGED locals
  /\ UNCHANGED <<script, late, cancelled>>

EndsPre ==
  /\ OnThread("pre", "next") /\ scripts = <<>>
  /\ future' = IF Ended THEN future ELSE [future EXCEPT !.at = "resolving"]
  /\ thread' = NoThread
  /\ UNCHANGED <<scripts, script, late, cancelled, session, locals, reports, ghosts>>

EndsPost ==
  /\ OnThread("post", "next") /\ scripts = <<>>
  /\ locals' = Taken(reports)
  /\ Ends("response", reports)
  /\ thread' = NoThread
  /\ UNCHANGED <<scripts, script, late, cancelled, session, reports, after>>

\* resolve(), also on the pool, which does not look at the flag.
TakesResolve == Takes("resolving", "resolve", "resolving")

Resolves ==
  /\ OnThread("resolve", "resolving")
  /\ locals' = Taken(reports)
  /\ future' = IF Ended THEN future ELSE [future EXCEPT !.at = "sending"]
  /\ thread' = NoThread
  /\ UNCHANGED <<scripts, script, late, cancelled, session, reports, ghosts>>

\* A variable that cannot be filled in fails the last script that ran.
CannotResolve ==
  /\ OnThread("resolve", "resolving")
  /\ reports' = IF reports = <<>> THEN reports ELSE [reports EXCEPT ![Len(reports)].error = "after"]
  /\ Ends("failed", reports')
  /\ thread' = NoThread
  /\ UNCHANGED <<scripts, script, late, cancelled, session, locals, after>>

-----------------------------------------------------------------------------
(***************************************************************************)
(* executor.rs.                                                            *)
(***************************************************************************)
\* The body cannot be read, or the request not be sent.
CannotSend ==
  /\ future.at = "sending"
  /\ Ends("failed", reports)
  /\ UNCHANGED <<thread, scripts, script, late, cancelled, session, locals, reports, after>>

Responds ==
  /\ future.at = "sending"
  /\ scripts' = future.post
  /\ IF future.post = <<>>
       THEN Ends("response", reports)
       ELSE future' = [future EXCEPT !.at = "post"] /\ UNCHANGED output
  /\ UNCHANGED <<thread, script, late, cancelled, session, locals, reports, after>>

\* The future is gone, and with it Cancellation.
Leaves(result, told) ==
  /\ ~Ended
  /\ Ends(result, told)
  /\ cancelled' = TRUE
  /\ UNCHANGED <<thread, scripts, script, late, session, locals, reports, after>>

\* The reports are the future's once the variables were filled in.
Kept == IF future.at = "sending" THEN reports ELSE <<>>
TimesOut == future.at # "post" /\ Leaves("timeout", Kept)
Dropped == Leaves("dropped", <<>>)

\* A thread of the pool.
Thread ==
  \/ Interrupts \/ Loop \/ Wakes
  \/ TakesPhase \/ NextScript \/ Checks \/ Refused \/ Applies \/ EndsPre \/ EndsPost
  \/ TakesResolve \/ Resolves \/ CannotResolve
Next ==
  \/ Runs \/ Answers \/ TimePasses \/ Thread
  \/ Unreadable \/ CannotSend \/ Responds \/ TimesOut \/ Dropped

\* The pool runs its closures and time passes; a script may go on for ever and
\* its requests stay without answer.
Fairness == WF_vars(Thread) /\ WF_vars(TimePasses)
Spec == Init /\ [][Next]_vars /\ Fairness

-----------------------------------------------------------------------------
TypeOK ==
  /\ future.at \in {"pre", "resolving", "sending", "post", "done"}
  /\ future.pre \in Written(Pre) /\ future.post \in Written(Post)
  /\ thread.phase \in {"none", "pre", "post", "resolve"}
  /\ thread.at \in {"none", "next", "running", "loop", "waiting", "returned", "applying", "resolving"}
  /\ script.main \in {"none", "pending", "ok", "error"}
  /\ script.sent \in 0 .. REQUEST_LIMIT /\ script.pending \in 0 .. CONCURRENT_REQUESTS
  /\ late \in BOOLEAN /\ cancelled \in BOOLEAN
  /\ session \subseteq AllScripts /\ locals \subseteq AllScripts
  /\ scripts \in Seq(AllScripts) /\ Len(reports) <= Len(Pre) + Len(Post)

(***************************************************************************)
(* runtime.rs:325 and executor.rs:161: who gets a response gets a report   *)
(* of every script, in their order, those before the request without       *)
(* error; an answer other than a timeout tells of every change the session *)
(* took; and what pm.variables the next request of a run gets are those of *)
(* scripts whose changes were taken.                                       *)
(***************************************************************************)
ScriptsAreTold ==
  /\ output.result = "response" =>
       /\ Names(output.reports) = future.pre \o future.post
       /\ \A i \in 1 .. Len(future.pre) : output.reports[i].error = "none"
  /\ output.result \in {"response", "failed", "skipped"} =>
       session = Told(output.reports, {"none", "after"})
  /\ locals \subseteq session

(***************************************************************************)
(* runtime.rs:18: a script that runs while its request is cancelled or     *)
(* times out is interrupted; at most the one that was done already changes *)
(* the session, and none after it runs.                                    *)
(***************************************************************************)
CancelledScriptsStop == \A s, t \in after : s = t

\* engine.rs:240: a script that never ends, or waits for ever, is ended.
Running == thread.at \in {"running", "loop", "waiting"}
=============================================================================
