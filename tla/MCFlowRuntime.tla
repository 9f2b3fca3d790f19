--------------------------- MODULE MCFlowRuntime ---------------------------
(***************************************************************************)
(* Small flows, each with one of the arrangements that make the scheduler  *)
(* of FlowRuntime hard.                                                    *)
(***************************************************************************)
EXTENDS FlowRuntime

B(kind) == [kind |-> kind, shape |-> Atom, name |-> "v", conditions |-> {}]
Holding(kind, shape) == [B(kind) EXCEPT !.shape = shape]
Wire(from, output, to, input) ==
  [from |-> from, output |-> output, to |-> to, input |-> input]
FlowOf(blocks, connections) == [blocks |-> blocks, connections |-> connections]

TwoItems == List(<<Atom, Atom>>)
Nested == List(<<List(<<Atom, Atom>>), List(<<Atom>>)>>)

\* A branch inside a loop that only some items take, with a constant from
\* outside the loop and a comment.
BranchInLoop == FlowOf(
  <<Holding("Start", TwoItems), B("For"), B("If"), B("Record"), B("Collect"),
    B("Output"), B("Literal"), B("Note")>>,
  <<Wire(1, "data", 2, "list"), Wire(2, "item", 3, "data"), Wire(3, "then", 4, "a"),
    Wire(2, "item", 4, "b"), Wire(7, "value", 4, "c"), Wire(4, "record", 5, "item"),
    Wire(5, "list", 6, "result"), Wire(5, "finish", 8, "text"),
    Wire(9, "data", 6, "gone")>>)

\* A loop in a loop, whose items combine with the item of the outer loop.
LoopInLoop == FlowOf(
  <<Holding("Start", Nested), B("For"), B("For"), B("Record"), B("Collect"),
    B("Collect"), B("Output")>>,
  <<Wire(1, "data", 2, "list"), Wire(2, "item", 3, "list"), Wire(2, "item", 4, "outer"),
    Wire(3, "item", 4, "inner"), Wire(4, "record", 5, "item"), Wire(5, "list", 6, "item"),
    Wire(6, "list", 7, "result")>>)

\* The same without a Collect for the inner loop: the outer one gathers it.
UncollectedInnerLoop == FlowOf(
  <<Holding("Start", Nested), B("For"), B("For"), B("Collect"), B("Output")>>,
  <<Wire(1, "data", 2, "list"), Wire(2, "item", 3, "list"), Wire(3, "item", 4, "item"),
    Wire(2, "item", 4, "item"), Wire(4, "list", 5, "result")>>)

\* Pages: OR -> request -> next page or none, and a record of each page.
Paging == FlowOf(
  <<B("Start"), B("Or"), B("HttpRequest"), B("Evaluate"), B("Record"), B("Output")>>,
  <<Wire(1, "data", 2, "first"), Wire(2, "data", 3, "send"), Wire(3, "success", 4, "value1"),
    Wire(4, "result", 2, "second"), Wire(3, "success", 5, "page"), Wire(4, "result", 5, "next"),
    Wire(5, "record", 6, "result")>>)

\* A loop over what each page holds.
LoopInCycle == FlowOf(
  <<B("Start"), B("Or"), Holding("HttpRequest", TwoItems), B("For"), B("Log"),
    B("Collect"), B("Select")>>,
  <<Wire(1, "data", 2, "first"), Wire(2, "data", 3, "send"), Wire(3, "success", 4, "list"),
    Wire(4, "item", 5, "data"), Wire(4, "item", 6, "item"), Wire(6, "list", 7, "data"),
    Wire(7, "value", 2, "second")>>)

\* Pages fetched for each item of a loop.
CycleInLoop == FlowOf(
  <<Holding("Start", TwoItems), B("For"), B("Or"), B("Condition"), B("Collect"), B("Output")>>,
  <<Wire(1, "data", 2, "list"), Wire(2, "item", 3, "first"), Wire(3, "data", 4, "value1"),
    Wire(4, "default", 3, "second"), Wire(4, "condition1", 5, "item"),
    Wire(5, "list", 6, "result")>>)

\* An item reaches a block directly and through a variable.
ThroughVariable == FlowOf(
  <<Holding("Start", TwoItems), B("For"), B("SetVariable"), B("GetVariable"),
    B("Record"), B("Validate"), B("Delay"), B("Template"), B("Collect")>>,
  <<Wire(1, "data", 2, "list"), Wire(2, "item", 3, "value"), Wire(4, "value", 5, "a"),
    Wire(2, "item", 5, "b"), Wire(5, "record", 6, "data"), Wire(6, "pass", 7, "data"),
    Wire(7, "data", 8, "value1"), Wire(8, "result", 9, "item"), Wire(6, "fail", 9, "item")>>)

\* The items reach the Collect only through a variable: the loop has none.
CollectsVariable == FlowOf(
  <<Holding("Start", TwoItems), B("For"), B("SetVariable"), B("GetVariable"),
    B("Collect"), B("Output")>>,
  <<Wire(1, "data", 2, "list"), Wire(2, "item", 3, "value"), Wire(4, "value", 5, "item"),
    Wire(5, "list", 6, "result")>>)

\* Two loops over the same list, one of them counted, neither in the other.
TwoLoops == FlowOf(
  <<Holding("Start", TwoItems), B("For"), Holding("Literal", Count(2)), B("Repeat"),
    B("Collect"), B("Collect"), B("List"), B("Date"), B("Display"), B("Output")>>,
  <<Wire(1, "data", 2, "list"), Wire(3, "value", 4, "count"), Wire(8, "value", 4, "start"),
    Wire(2, "item", 5, "item"), Wire(4, "index", 6, "item"), Wire(5, "list", 7, "item1"),
    Wire(6, "list", 7, "item2"), Wire(7, "list", 9, "data"), Wire(9, "data", 10, "result")>>)

\* A loop that never ends, and blocks that are not set up: no list, no name.
Endless == FlowOf(
  <<B("Start"), B("Or"), B("Display"), B("For"), [B("SetVariable") EXCEPT !.name = ""]>>,
  <<Wire(1, "data", 2, "first"), Wire(2, "data", 3, "data"), Wire(3, "data", 2, "second"),
    Wire(2, "data", 4, "list"), Wire(2, "data", 5, "value")>>)

\* A loop beside LoopInLoop: it waits from outside all loops, ahead of the
\* inner loop, which then cannot start before its outer loop's next item.
LoopBesideLoops == FlowOf(
  LoopInLoop.blocks \o <<B("For"), B("Log")>>,
  LoopInLoop.connections \o <<Wire(1, "data", 8, "list"), Wire(8, "item", 9, "data")>>)

Arrangements == {BranchInLoop, LoopInLoop, UncollectedInnerLoop, Paging, LoopInCycle,
                 CycleInLoop, ThroughVariable, CollectsVariable, TwoLoops,
                 Endless}

MCFlowsBeside == {LoopBesideLoops}

-----------------------------------------------------------------------------
(***************************************************************************)
(* Every way to connect two For blocks, a Record and a Collect, each input *)
(* to at most one output as the editor allows, that keeps what is inside a *)
(* loop apart from what follows its Collect.                               *)
(***************************************************************************)
WiredBlocks == <<Holding("Start", Nested), B("For"), B("For"), B("Record"), B("Collect")>>

Into(to, input, choices) ==
  {IF c[2] = "" THEN <<>> ELSE <<Wire(c[1], c[2], to, input)>> : c \in choices}

None == <<0, "">>
RecordFrom == {None, <<1, "data">>, <<2, "item">>, <<3, "item">>, <<5, "list">>}

Wirings ==
  {<<Wire(1, "data", 2, "list")>> \o l \o a \o b \o c :
     l \in Into(3, "list", {None, <<1, "data">>, <<2, "item">>, <<5, "list">>}),
     a \in Into(4, "a", RecordFrom), b \in Into(4, "b", RecordFrom),
     c \in Into(5, "item", {<<2, "item">>, <<3, "item">>, <<4, "record">>})}

\* The blocks data from `from` reaches without passing one of `through`.
Downstream(succ, from, through) ==
  LET wave[n \in 0..Len(succ)] ==
        IF n = 0 THEN Range(succ[from])
        ELSE LET near == wave[n - 1]
             IN  near \union UNION {Range(succ[b]) : b \in near \ through}
  IN  wave[Len(succ)]

Bracketed(f) ==
  LET succ == SuccessorTable(f)
      g == GraphOf(f)
  IN  \A loop \in {2, 3} : LET ends == Range(g.collects[loop]) IN
        \A end \in ends :
          (Downstream(succ, loop, ends) \ ends) \cap Downstream(succ, end, {loop}) = {}

\* A list that another loop's Collect sends comes after the loop's items.
LateList(f) ==
  LET into == {c \in Range(f.connections) : c.to = 4}
  IN  (\E c \in into : c.output = "item") /\ (\E c \in into : c.output = "list")

WiredFlows ==
  {f \in {FlowOf(WiredBlocks, w) : w \in Wirings} : Bracketed(f) /\ ~LateList(f)}

\* One of those: the second loop's list combines with the first's last item.
MCFlowsLate ==
  {FlowOf(WiredBlocks,
     <<Wire(1, "data", 2, "list"), Wire(1, "data", 3, "list"), Wire(2, "item", 4, "a"),
       Wire(5, "list", 4, "b"), Wire(3, "item", 5, "item")>>)}

\* Every way to connect a cycle through OR with a loop in it or around it.
CycleBlocks == <<Holding("Start", TwoItems), B("Or"), Holding("Select", TwoItems), B("For"),
                 B("Record"), B("Collect")>>

CycleWirings ==
  {<<Wire(2, "data", 3, "data")>> \o o \o l \o r \o a \o b \o c :
     o \in Into(2, "first", {<<1, "data">>, <<4, "item">>}),
     r \in Into(2, "second", {<<3, "value">>, <<4, "item">>, <<5, "record">>, <<6, "list">>}),
     l \in Into(4, "list", {<<1, "data">>, <<3, "value">>}),
     a \in Into(5, "a", {<<1, "data">>, <<2, "data">>, <<3, "value">>, <<4, "item">>}),
     b \in Into(5, "b", {None, <<3, "value">>, <<4, "item">>}),
     c \in Into(6, "item", {<<3, "value">>, <<4, "item">>, <<5, "record">>})}

\* A pass that starts a loop: the next pass starts ahead of the loop's end.
AroundALoop(f) == Wire(3, "value", 4, "list") \in Range(f.connections)

BracketedCycle(f) ==
  LET succ == SuccessorTable(f)
      ends == Range(GraphOf(f).collects[4])
  IN  \A end \in ends :
        (Downstream(succ, 4, ends) \ ends) \cap Downstream(succ, end, {4}) = {}

CycleFlows ==
  {f \in {FlowOf(CycleBlocks, w) : w \in CycleWirings} :
     BracketedCycle(f) /\ ~AroundALoop(f)}

MCFlows == Arrangements \union WiredFlows \union CycleFlows

MCFlowsAround ==
  {FlowOf(CycleBlocks,
     <<Wire(2, "data", 3, "data"), Wire(1, "data", 2, "first"), Wire(3, "value", 2, "second"),
       Wire(3, "value", 4, "list"), Wire(4, "item", 6, "item")>>)}
=============================================================================
