---------------------------- MODULE FlowRuntime ----------------------------
(***************************************************************************)
(* One run of a flow: crates/flow/src/runtime.rs.  The run is one task, so *)
(* an action is one turn of its main loop.  What a block computes is left  *)
(* open: a value is the shape the scheduler looks at (a list's items, a    *)
(* count, or an atom) together with `from`, the loop items it was computed *)
(* from.  `from` is a ghost: it follows the data, while the code follows   *)
(* the frames, and the properties compare the two.                         *)
(***************************************************************************)
EXTENDS FlowGraph

CONSTANTS Flows,        \* the flows a run may be started with
          MaxBlockRuns  \* MAX_BLOCK_RUNS, 100,000 in the code

ASSUME MaxBlockRunsAssumption == MaxBlockRuns \in Nat \ {0}

VARIABLES
  flow, graph,  \* what runs, and its tables
  stack,        \* work: the last is next
  deferred,     \* deliveries that start another pass through a cycle, a queue
  pending,      \* loops waiting for the work under way, a queue
  inputs,       \* for each block, the latest packet of each input
  variables,    \* the packets stored by name
  buffers,      \* what each Collect gathered in each loop run
  nextLoop,     \* the number of the next loop run
  summary,      \* [blockRuns, failures, outputs]
  phase,        \* "running", "done", or "stopped" at the limit
  last,         \* ghost: the last block that ran, its frames and its values' items
  seen          \* ghost: for each block, what it received and what it ran with

vars == <<flow, graph, stack, deferred, pending, inputs, variables, buffers,
          nextLoop, summary, phase, last, seen>>

-----------------------------------------------------------------------------
Atom == [is |-> "atom"]
List(items) == [is |-> "list", items |-> items]
Count(n) == [is |-> "count", n |-> n]

Value(shape, from) == [shape |-> shape, from |-> from]
Nothing == Value(Atom, {})      \* Value::Null

Kind(b) == flow.blocks[b].kind
FromAll(ins) == UNION {ins[name].from : name \in DOMAIN ins}
Data(ins) == IF "data" \in DOMAIN ins THEN ins["data"] ELSE Nothing
Object(ins) == Value(Atom, FromAll(ins))

Least(a, b) == IF a < b THEN a ELSE b

Sources == {"Start", "HttpRequest", "Evaluate", "If", "Condition", "Literal",
            "Date", "Record", "List", "Template"}

\* The outputs a block may send on, one of them in one run; Literal stands
\* for the String, Number, Boolean, Null and Now blocks.
Routes(b) ==
  CASE Kind(b) \in {"Start", "Delay", "Display"} -> {"data"}
    [] Kind(b) = "HttpRequest" -> {"success", "fail"}
    [] Kind(b) = "If" -> {"then", "else"}
    [] Kind(b) = "Condition" -> flow.blocks[b].conditions \union {"default"}
    [] Kind(b) = "Validate" -> {"pass", "fail"}
    [] Kind(b) \in {"Evaluate", "Template"} -> {"result"}
    [] Kind(b) \in {"Literal", "Date", "Select", "GetVariable"} -> {"value"}
    [] Kind(b) = "Record" -> {"record"}
    [] Kind(b) = "List" -> {"list"}
    [] OTHER -> {}

\* Evaluate and Select may find nothing to send; Log has nothing to send.
MaySendNothing == {"Evaluate", "Select", "Log"}

\* Bad expressions, schemas, dates and templates, and unknown requests; an
\* inline value that is not JSON is text, and never fails.
MayFail == {"HttpRequest", "Evaluate", "If", "Condition", "Validate", "Date",
            "Template"}

\* What a block may compute from its inputs.
Results(b, ins) ==
  CASE Kind(b) \in {"Start", "Literal", "Date"} -> {Value(flow.blocks[b].shape, {})}
    [] Kind(b) \in {"Delay", "Display"} -> {Data(ins)}
    [] Kind(b) = "If" -> {IF "data" \in DOMAIN ins THEN ins["data"] ELSE Object(ins)}
    [] Kind(b) = "Condition" -> {Object(ins)}
    [] Kind(b) = "Validate" -> {Data(ins)}
    [] Kind(b) = "GetVariable" -> {IF "value" \in DOMAIN ins THEN ins["value"]
                                                             ELSE Nothing}
    [] OTHER -> {Value(flow.blocks[b].shape, FromAll(ins))}

\* What a block may send: at most one value, on one of its outputs.
Sends(b, ins) ==
  {<<[output |-> o, value |-> v]>> : o \in Routes(b), v \in Results(b, ins)}
    \union (IF Kind(b) \in MaySendNothing THEN {<<>>} ELSE {})

-----------------------------------------------------------------------------
(***************************************************************************)
(* Frames: the loop iterations and cycle passes a value was sent in.       *)
(***************************************************************************)
LoopFrame(run, index) == [cycle |-> FALSE, id |-> run, index |-> index]
CycleFrame(c) == [cycle |-> TRUE, id |-> c, index |-> 0]
SameFrame(f, g) == f.cycle = g.cycle /\ f.id = g.id
Clash(f, g) == SameFrame(f, g) /\ f.index # g.index

\* A block in a cycle marks the pass its data belongs to, from the first.
FramesFrom(b, frames) ==
  IF graph.cycle[b] # NoCycle
       /\ ~\E f \in Range(frames) : SameFrame(f, CycleFrame(graph.cycle[b]))
  THEN Append(frames, CycleFrame(graph.cycle[b]))
  ELSE frames

NextPass(frames, c) ==
  [i \in DOMAIN frames |-> IF SameFrame(frames[i], CycleFrame(c))
                           THEN [frames[i] EXCEPT !.index = @ + 1]
                           ELSE frames[i]]

\* Mutants: an inner loop waits for the whole outer one; and a loop is never
\* ready once the work ran out.
LoopOverDone(frames) == stack # <<>> => Last(stack).kind = "end"
BusyDone(frames) ==
  /\ stack # <<>>
  /\ \/ Last(stack).kind = "end"
     \/ \E f \in Range(frames), g \in Range(Last(stack).frames) :
          ~f.cycle /\ Clash(f, g)

\* The work of the loop iterations in `frames` is done: the next work ends a
\* loop or belongs to another iteration of one of them.
IterationDone(frames) ==
  stack # <<>> =>
    \/ Last(stack).kind = "end"
    \/ \E f \in Range(frames), g \in Range(Last(stack).frames) :
         ~f.cycle /\ Clash(f, g)

-----------------------------------------------------------------------------
(***************************************************************************)
(* Work and how it is queued.                                              *)
(***************************************************************************)
Deliver(t, value, frames) ==
  [kind |-> "deliver", block |-> t.block, input |-> t.input, value |-> value,
   frames |-> frames]
Fire(b, ins, frames) ==
  [kind |-> "fire", block |-> b, ins |-> ins, frames |-> frames]
LoopEnd(run, collects, frames) ==
  [kind |-> "end", loop |-> run, collects |-> collects, frames |-> frames]

NoInputs == [name \in {} |-> Nothing]

DeliveriesAtOnce(b, output, value, frames) ==                  \* mutant
  LET to == SelectSeq(graph.targets[b], LAMBDA t : t.output = output)
  IN  [i \in DOMAIN to |->
         [work |-> Deliver(to[i], value,
                           IF graph.cycle[b] # NoCycle /\ to[i].back
                           THEN NextPass(frames, graph.cycle[b]) ELSE frames),
          back |-> FALSE]]

\* The deliveries of one value from one output, and which lead back.
Deliveries(b, output, value, frames) ==
  LET to == SelectSeq(graph.targets[b], LAMBDA t : t.output = output)
  IN  [i \in DOMAIN to |->
         [work |-> Deliver(to[i], value,
                           IF graph.cycle[b] # NoCycle /\ to[i].back
                           THEN NextPass(frames, graph.cycle[b]) ELSE frames),
          back |-> to[i].back]]

SendDeliveries(b, outs, frames) ==
  FlattenSeq([i \in DOMAIN outs |->
                Deliveries(b, outs[i].output, outs[i].value, FramesFrom(b, frames))])

Works(deliveries) == [i \in DOMAIN deliveries |-> deliveries[i].work]
Now(deliveries) == Works(SelectSeq(deliveries, LAMBDA d : ~d.back))
Back(deliveries) == Works(SelectSeq(deliveries, LAMBDA d : d.back))

\* Handle deliveries in order; the next pass of a cycle waits.
Queue(deliveries, rest, waiting) ==
  /\ stack' = rest \o Reverse(Now(deliveries))
  /\ deferred' = waiting \o Back(deliveries)

Finish(runs, failed) ==
  summary' = [summary EXCEPT !.blockRuns = @ + runs,
                             !.failures = @ + (IF failed THEN 1 ELSE 0)]

-----------------------------------------------------------------------------
Init ==
  /\ flow \in Flows
  /\ graph = GraphOf(flow)
  /\ LET blocks == [b \in 1..Len(flow.blocks) |-> b]
         source(b) == Kind(b) \in Sources /\ graph.connected[b] = <<>>
         sorted == SelectSeq(blocks, LAMBDA b : source(b) /\ Kind(b) = "Start")
                     \o SelectSeq(blocks, LAMBDA b : source(b) /\ Kind(b) # "Start")
     IN  stack = Reverse([i \in DOMAIN sorted |-> Fire(sorted[i], NoInputs, <<>>)])
  /\ deferred = <<>>
  /\ pending = <<>>
  /\ inputs = [b \in DOMAIN flow.blocks |-> NoInputs]
  /\ variables = NoInputs
  /\ buffers = [key \in {} |-> <<>>]
  /\ nextLoop = 0
  /\ summary = [blockRuns |-> 0, failures |-> 0, outputs |-> NoInputs]
  /\ phase = "running"
  /\ last = [block |-> 0, frames |-> <<>>, from |-> {}]
  /\ seen = [b \in DOMAIN flow.blocks |-> [got |-> {}, ran |-> {}]]

-----------------------------------------------------------------------------
(***************************************************************************)
(* The main loop.  A loop that can start comes first; then the passes that *)
(* waited join the work, and the last work is handled.                     *)
(***************************************************************************)
LoopAtOnce == pending # <<>>                                   \* mutant
LoopReady == pending # <<>> /\ IterationDone(Head(pending).frames)
PassReady == deferred # <<>> /\ IterationDone(Head(deferred).frames)

OverLimit == summary.blockRuns > MaxBlockRuns                  \* mutant
AtLimit == summary.blockRuns >= MaxBlockRuns

Taken == IF PassReady THEN stack \o Reverse(deferred) ELSE stack
Waiting == IF PassReady THEN <<>> ELSE deferred

BeginLoop ==
  /\ phase = "running"
  /\ LoopReady
  /\ LET loop == Head(pending)
         end == LoopEnd(nextLoop, graph.collects[loop.block], loop.frames)
         item(i) == Value(loop.items[i].shape,
                          loop.items[i].from \union
                            {[loop |-> nextLoop, block |-> loop.block, index |-> i - 1]})
         frames(i) == Append(FramesFrom(loop.block, loop.frames),
                             LoopFrame(nextLoop, i - 1))
         deliveries == FlattenSeq([i \in DOMAIN loop.items |->
                         Deliveries(loop.block, loop.output, item(i), frames(i))])
     IN  Queue(deliveries, Append(stack, end), deferred)
  /\ pending' = Tail(pending)
  /\ nextLoop' = nextLoop + 1
  /\ UNCHANGED <<flow, graph, inputs, variables, buffers, summary, phase, last, seen>>

NoWorkLeft ==
  /\ phase = "running"
  /\ ~LoopReady
  /\ Taken = <<>>
  /\ phase' = "done"
  /\ UNCHANGED <<flow, graph, stack, deferred, pending, inputs, variables,
                 buffers, nextLoop, summary, last, seen>>

\* The limit is looked at once a piece of work is taken, and drops it.
StopAtLimit ==
  /\ phase = "running"
  /\ ~LoopReady
  /\ Taken # <<>>
  /\ AtLimit
  /\ phase' = "stopped"
  /\ stack' = Front(Taken)
  /\ deferred' = Waiting
  /\ UNCHANGED <<flow, graph, pending, inputs, variables, buffers, nextLoop,
                 summary, last, seen>>

Handles(work) ==
  /\ phase = "running"
  /\ ~LoopReady
  /\ Taken # <<>>
  /\ ~AtLimit
  /\ work = Last(Taken)

\* A piece of work is handled without a block running.
Handled(work) ==
  /\ last' = [block |-> work.block, frames |-> work.frames, from |-> {}]
  /\ UNCHANGED seen

Ran(b, ins, frames) ==
  /\ last' = [block |-> b, frames |-> frames, from |-> FromAll(ins)]
  /\ seen' = [seen EXCEPT ![b].ran = @ \union {FromAll(ins)},
                          ![b].got = @ \union {<<name, ins[name].from>> :
                                                 name \in DOMAIN ins}]

-----------------------------------------------------------------------------
(***************************************************************************)
(* execute(): a block runs with its inputs.                                *)
(***************************************************************************)
SendResult(b, ins, frames) ==
  /\ \E outs \in Sends(b, ins) :
       Queue(SendDeliveries(b, outs, frames), Front(Taken), Waiting)
  /\ Finish(1, FALSE)
  /\ UNCHANGED <<pending, variables>>

Fail ==
  /\ stack' = Front(Taken)
  /\ deferred' = Waiting
  /\ Finish(1, TRUE)
  /\ UNCHANGED <<pending, variables>>

LoopItems(b, ins) ==
  IF Kind(b) = "Repeat"
  THEN LET count == ins["count"].shape
       IN  [i \in 1..Least(count.n, MaxBlockRuns) |->
              Value(Count(i - 1), ins["count"].from)]
  ELSE LET list == ins["list"].shape
       IN  [i \in DOMAIN list.items |-> Value(list.items[i], ins["list"].from)]

LoopInput(b, ins) ==
  /\ Kind(b) = "Repeat" => "count" \in DOMAIN ins /\ ins["count"].shape.is = "count"
  /\ Kind(b) = "For" => "list" \in DOMAIN ins /\ ins["list"].shape.is = "list"

StartLoop(b, ins, frames) ==
  /\ pending' = Append(pending,
       [block |-> b, output |-> IF Kind(b) = "Repeat" THEN "index" ELSE "item",
        items |-> LoopItems(b, ins), frames |-> frames])
  /\ stack' = Front(Taken)
  /\ deferred' = Waiting
  /\ Finish(1, FALSE)
  /\ UNCHANGED variables

\* Every Get Variable block of the name runs with the value just stored.
StoreVariable(b, ins, frames) ==
  LET name == flow.blocks[b].name
      value == IF "value" \in DOMAIN ins THEN ins["value"] ELSE Nothing
      readers == SelectSeq([c \in 1..Len(flow.blocks) |-> c],
                   LAMBDA c : Kind(c) = "GetVariable" /\ flow.blocks[c].name = name)
  IN  /\ variables' = [n \in DOMAIN variables \union {name} |->
                         IF n = name THEN value ELSE variables[n]]
      /\ stack' = Front(Taken) \o
                    Reverse([i \in DOMAIN readers |->
                       Fire(readers[i], [n \in {"value"} |-> value], frames)])
      /\ deferred' = Waiting
      /\ Finish(1, FALSE)
      /\ UNCHANGED pending

Execute(b, ins, frames) ==
  /\ \/ SendResult(b, ins, frames)
     \/ Kind(b) \in MayFail /\ Fail
     \/ Kind(b) \in LoopKinds /\ LoopInput(b, ins) /\ StartLoop(b, ins, frames)
     \/ Kind(b) \in LoopKinds /\ ~LoopInput(b, ins) /\ Fail
     \/ Kind(b) = "SetVariable" /\ flow.blocks[b].name # "" /\ StoreVariable(b, ins, frames)
     \/ Kind(b) = "SetVariable" /\ flow.blocks[b].name = "" /\ Fail
  /\ Ran(b, ins, frames)
  /\ UNCHANGED <<flow, graph, buffers, nextLoop, phase>>

-----------------------------------------------------------------------------
(***************************************************************************)
(* deliver(), by the kind of the block, and the other two kinds of work.   *)
(***************************************************************************)
DeliverNotePeeked(work) ==                                     \* mutant: not popped
  /\ work.kind = "deliver" /\ Kind(work.block) = "Note"
  /\ stack' = Taken
  /\ deferred' = Waiting
  /\ Handled(work)
  /\ UNCHANGED <<flow, graph, pending, inputs, variables, buffers, nextLoop,
                 summary, phase>>

DeliverNote(work) ==
  /\ work.kind = "deliver" /\ Kind(work.block) = "Note"
  /\ stack' = Front(Taken)
  /\ deferred' = Waiting
  /\ Handled(work)
  /\ UNCHANGED <<flow, graph, pending, inputs, variables, buffers, nextLoop,
                 summary, phase>>

\* Either input sends on by itself.
DeliverOr(work) ==
  LET outs == <<[output |-> "data", value |-> work.value]>>
  IN  /\ work.kind = "deliver" /\ Kind(work.block) = "Or"
      /\ Queue(SendDeliveries(work.block, outs, work.frames), Front(Taken), Waiting)
      /\ Finish(1, FALSE)
      /\ Ran(work.block, [n \in {work.input} |-> work.value], work.frames)
      /\ UNCHANGED <<flow, graph, pending, inputs, variables, buffers, nextLoop, phase>>

DeliverOutput(work) ==
  /\ work.kind = "deliver" /\ Kind(work.block) = "Output"
  /\ summary' = [summary EXCEPT
                   !.blockRuns = @ + 1,
                   !.outputs = [n \in DOMAIN @ \union {work.input} |->
                                  IF n = work.input THEN work.value ELSE @[n]]]
  /\ stack' = Front(Taken)
  /\ deferred' = Waiting
  /\ Ran(work.block, [n \in {work.input} |-> work.value], work.frames)
  /\ UNCHANGED <<flow, graph, pending, inputs, variables, buffers, nextLoop, phase>>

Gathered(b, run) ==
  IF <<b, run>> \in DOMAIN buffers THEN buffers[<<b, run>>] ELSE <<>>

\* The list of what was gathered, without the items of the loop that ended.
Collected(items, run) ==
  Value(List([i \in DOMAIN items |-> items[i].value.shape]),
        {t \in UNION {items[i].value.from : i \in DOMAIN items} : t.loop # run})

CollectOuts(list) == <<[output |-> "list", value |-> list],
                       [output |-> "finish", value |-> Value(Atom, list.from)]>>

\* The innermost loop's list waits for its end; outside loops it is sent.
DeliverCollect(work) ==
  LET loops == SelectSeq(work.frames, LAMBDA f : ~f.cycle)
      single == Value(List(<<work.value.shape>>), work.value.from)
  IN  /\ work.kind = "deliver" /\ Kind(work.block) = "Collect"
      /\ IF loops # <<>>
         THEN LET key == <<work.block, Last(loops).id>>
                  item == [index |-> Last(loops).index, value |-> work.value]
              IN  /\ buffers' = [k \in DOMAIN buffers \union {key} |->
                       IF k = key THEN Append(Gathered(key[1], key[2]), item)
                                  ELSE buffers[k]]
                  /\ stack' = Front(Taken)
                  /\ deferred' = Waiting
                  /\ UNCHANGED summary
         ELSE /\ Queue(SendDeliveries(work.block, CollectOuts(single), work.frames),
                       Front(Taken), Waiting)
              /\ Finish(1, FALSE)
              /\ UNCHANGED buffers
      /\ Handled(work)
      /\ UNCHANGED <<flow, graph, pending, inputs, variables, nextLoop, phase>>

\* The frames of several packets together, each frame once, in their order.
Merged(packets) ==
  FoldLeft(LAMBDA kept, f : IF \E g \in Range(kept) : SameFrame(f, g)
                            THEN kept ELSE Append(kept, f),
           <<>>, FlattenSeq([i \in DOMAIN packets |-> packets[i].frames]))

NeverStale(packets) == FALSE                                   \* mutant
Stale(packets) ==
  \E p, q \in Range(packets) :
    \E f \in Range(p.frames), g \in Range(q.frames) : Clash(f, g)

\* A block runs once every connected input holds a value, unless two of them
\* are of different iterations of one loop or passes of one cycle.
DeliverInput(work) ==
  LET b == work.block
      packet == [value |-> work.value, frames |-> work.frames]
      own == [n \in DOMAIN inputs[b] \union {work.input} |->
                IF n = work.input THEN packet ELSE inputs[b][n]]
      connected == graph.connected[b]
      complete == Range(connected) \subseteq DOMAIN own
      packets == [i \in DOMAIN connected |-> own[connected[i]]]
  IN  /\ work.kind = "deliver"
      /\ Kind(b) \notin {"Note", "Or", "Output", "Collect"}
      /\ inputs' = [inputs EXCEPT ![b] = own]
      /\ IF complete /\ ~Stale(packets)
         THEN Execute(b, [n \in Range(connected) |-> own[n].value], Merged(packets))
         ELSE /\ stack' = Front(Taken)
              /\ deferred' = Waiting
              /\ last' = [block |-> b, frames |-> work.frames, from |-> {}]
              /\ seen' = [seen EXCEPT ![b].got = @ \union {<<work.input, work.value.from>>}]
              /\ UNCHANGED <<flow, graph, pending, variables, buffers, nextLoop,
                             summary, phase>>

FireBlock(work) ==
  /\ work.kind = "fire"
  /\ Execute(work.block, work.ins, work.frames)
  /\ UNCHANGED inputs

ByIndex(a, b) == a.index < b.index

\* Collect blocks the loop does not close at, but whose buffer it filled.
NoOtherGatherers(work) == {}                                   \* mutant
OtherGatherers(work) ==
  {k[1] : k \in {x \in DOMAIN buffers : x[2] = work.loop}} \ Range(work.collects)

\* The Collect blocks of the loop, and any other that gathered it, send.
EndLoop(work) ==
  LET own == work.collects
      list(b) == Collected(SortSeq(Gathered(b, work.loop), ByIndex), work.loop)
      sent(order) == [i \in DOMAIN order |->
                        SendDeliveries(order[i], CollectOuts(list(order[i])), work.frames)]
  IN  /\ work.kind = "end"
      /\ \E extra \in SetToSeqs(OtherGatherers(work)) :
           LET collects == own \o extra
               queues == sent(Reverse(collects))
           IN  /\ stack' = FoldLeft(LAMBDA s, ds : s \o Reverse(Now(ds)),
                                    Front(Taken), queues)
               /\ deferred' = FoldLeft(LAMBDA s, ds : s \o Back(ds), Waiting, queues)
               /\ Finish(Len(collects), FALSE)
               /\ buffers' = [k \in (DOMAIN buffers) \ (Range(collects) \X {work.loop})
                                |-> buffers[k]]
      /\ UNCHANGED <<flow, graph, pending, inputs, variables, nextLoop, phase,
                     last, seen>>

Next ==
  \/ BeginLoop
  \/ NoWorkLeft
  \/ StopAtLimit
  \/ \E work \in Range(Taken) :
       /\ Handles(work)
       /\ \/ DeliverNote(work)
          \/ DeliverOr(work)
          \/ DeliverOutput(work)
          \/ DeliverCollect(work)
          \/ DeliverInput(work)
          \/ FireBlock(work)
          \/ EndLoop(work)

\* The run's future is polled until it is finished.
Spec == Init /\ [][Next]_vars /\ WF_vars(Next)

-----------------------------------------------------------------------------
WorkKinds == {"deliver", "fire", "end"}

TypeOK ==
  /\ \A i \in DOMAIN stack : stack[i].kind \in WorkKinds
  /\ \A i \in DOMAIN deferred : deferred[i].kind = "deliver"
  /\ \A i \in DOMAIN pending : pending[i].block \in DOMAIN flow.blocks
  /\ DOMAIN inputs = DOMAIN flow.blocks
  /\ DOMAIN buffers \subseteq (DOMAIN flow.blocks) \X (0..(nextLoop - 1))
  /\ nextLoop \in Nat
  /\ summary.blockRuns \in Nat /\ summary.failures \in 0..summary.blockRuns
  /\ phase \in {"running", "done", "stopped"}

\* Everything that is still to be handled.
Outstanding == Range(stack) \union Range(deferred) \union Range(pending)

LoopsOf(frames) == {f \in Range(frames) : ~f.cycle}
PassesOf(frames) == {f \in Range(frames) : f.cycle}

(***************************************************************************)
(* docs/flows.md "A block only combines values of the same loop iteration",*)
(* seen from the data: whatever path values took (branches, variables,     *)
(* OR, constants), those a block runs with never come from two iterations  *)
(* of one loop run.                                                        *)
(***************************************************************************)
IterationsNeverMix ==
  \A t, u \in last.from : t.loop = u.loop => t.index = u.index

(***************************************************************************)
(* docs/flows.md "one at a time. Each item travels as far as it can before *)
(* the next starts": once work of an iteration is handled, no work of an   *)
(* earlier iteration of that loop run is left on the stack, deferred to a  *)
(* next pass, or waiting as an inner loop.                                 *)
(***************************************************************************)
ItemsTakeTurns ==
  \A f \in LoopsOf(last.frames) : \A w \in Outstanding :
    \A g \in LoopsOf(w.frames) : SameFrame(f, g) => g.index >= f.index

(***************************************************************************)
(* runtime.rs:594 "A cycle's next pass waits until the work of its current *)
(* pass is done": once work of a pass is handled, no work of an earlier    *)
(* pass in the same iterations is left on the stack.                       *)
(***************************************************************************)
PassesTakeTurns ==
  \A f \in PassesOf(last.frames) : \A w \in Range(stack) :
    \A g \in PassesOf(w.frames) :
      (SameFrame(f, g) /\ LoopsOf(w.frames) = LoopsOf(last.frames))
        => g.index >= f.index

(***************************************************************************)
(* A loop run has ended once its LoopEnd is handled.  Nothing that belongs *)
(* to it comes later: a value that reached a Collect of an ended loop      *)
(* would be lost without a word, and so would what was gathered for it.    *)
(***************************************************************************)
Open == {w.loop : w \in {x \in Range(stack) : x.kind = "end"}}
Ended == (0..(nextLoop - 1)) \ Open

EndedLoopsAreQuiet ==
  phase # "stopped" =>
    /\ \A w \in Outstanding : \A f \in LoopsOf(w.frames) : f.id \notin Ended
    /\ \A key \in DOMAIN buffers : key[2] \notin Ended

(***************************************************************************)
(* docs/flows.md "A value from outside the loop, such as a token, combines *)
(* with every iteration": when a run is done, a block that received a value*)
(* of an iteration, and on its other inputs values from that iteration or  *)
(* from outside of it, ran with that value.                                *)
(***************************************************************************)
Combinable(b) == Kind(b) \notin {"Note", "Or", "Output", "Collect"}
LoopsIn(from) == {t.loop : t \in from}

\* `other` is of the iterations of `got` in each of its loops the input is in.
Partner(b, got, other) ==
  LET taken == UNION {LoopsIn(x[2]) : x \in {y \in seen[b].got : y[1] = other[1]}}
  IN  /\ other[2] \subseteq got[2]
      /\ taken \cap LoopsIn(got[2]) \subseteq LoopsIn(other[2])

EveryIterationCombines ==
  phase = "done" =>
    \A b \in DOMAIN flow.blocks : Combinable(b) =>
      \A got \in seen[b].got :
        (\A name \in Range(graph.connected[b]) :
           \E other \in seen[b].got : other[1] = name /\ Partner(b, got, other))
          => \E ran \in seen[b].ran : got[2] \subseteq ran

(***************************************************************************)
(* A run that was not stopped leaves nothing behind: every loop ended and  *)
(* every gathered value was sent.                                          *)
(***************************************************************************)
NothingLeftBehind ==
  phase = "done" => Open = {} /\ Outstanding = {} /\ DOMAIN buffers = {}

(***************************************************************************)
(* The limit bounds the run: only a loop's Collect blocks, which send      *)
(* together, can pass it.                                                  *)
(***************************************************************************)
CollectBlocks == {b \in DOMAIN flow.blocks : Kind(b) = "Collect"}
LimitHolds ==
  summary.blockRuns < MaxBlockRuns + Cardinality(CollectBlocks) \/
  (CollectBlocks = {} /\ summary.blockRuns <= MaxBlockRuns)

(***************************************************************************)
(* docs/flows.md "A run stops after 100,000 block runs, which ends a loop  *)
(* that never does": every run ends.                                       *)
(***************************************************************************)
RunEnds == <>(phase # "running")
=============================================================================
