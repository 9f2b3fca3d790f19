----------------------------- MODULE FlowGraph -----------------------------
(***************************************************************************)
(* How the blocks of a flow connect, worked out once before a run: the     *)
(* three graph algorithms of crates/flow/src/graph.rs and the tables that  *)
(* crates/flow/src/runtime.rs reads.  Blocks are numbered 1..N in the      *)
(* order of the flow.  A graph is its successor table: for each block the  *)
(* sequence of blocks its connections lead to, in the order of the flow's  *)
(* connections, each named once.                                           *)
(*                                                                         *)
(* The three algorithms are loops over an explicit work stack.  Each is    *)
(* given here by the record of its local variables and a Step operator for *)
(* one turn of its loop, so FlowGraphSteps can check every turn and        *)
(* FlowRuntime can run a whole loop (Iterate).                             *)
(***************************************************************************)
EXTENDS Naturals, Sequences, FiniteSets, SequencesExt

Unvisited == 0      \* usize::MAX in `order`; orders start at 1 here
NoCycle == 0        \* None in `cycle`; components start at 1 here

LoopKinds == {"For", "Repeat"}

\* A path entry: a block and the position of its next successor.
At(block) == [block |-> block, next |-> 1]
Advance(path) == [path EXCEPT ![Len(path)].next = @ + 1]
AtEnd(succ, top) == top.next > Len(succ[top.block])

Iterate(Step(_), start, turns) ==
  LET after[n \in 0..turns] == IF n = 0 THEN start ELSE Step(after[n - 1])
  IN  after[turns]

-----------------------------------------------------------------------------
(***************************************************************************)
(* cycles(): Tarjan's algorithm without recursion.                         *)
(***************************************************************************)
TarjanStart(succ) ==
  [order |-> [b \in DOMAIN succ |-> Unvisited],
   low   |-> [b \in DOMAIN succ |-> 0],
   stack |-> <<>>,      \* on_stack[b] is b \in Range(stack)
   path  |-> <<>>,
   cycle |-> [b \in DOMAIN succ |-> NoCycle],
   nextOrder |-> 1,
   components |-> 0]

TarjanVisit(t, path, block) ==
  [t EXCEPT !.order[block] = t.nextOrder, !.low[block] = t.nextOrder,
            !.nextOrder = @ + 1, !.stack = Append(@, block),
            !.path = Append(path, At(block))]

TarjanUnvisited(t) == {b \in DOMAIN t.order : t.order[b] = Unvisited}
TarjanDone(t) == t.path = <<>> /\ TarjanUnvisited(t) = {}

\* Follow the next successor of the block on top of the path.
TarjanFollow(succ, t) ==
  LET block == Last(t.path).block
      successor == succ[block][Last(t.path).next]
      path == Advance(t.path)
  IN  IF t.order[successor] = Unvisited
      THEN TarjanVisit(t, path, successor)
      ELSE IF successor \in Range(t.stack)
      THEN [t EXCEPT !.path = path,
                     !.low[block] = IF t.order[successor] < @
                                    THEN t.order[successor] ELSE @]
      ELSE [t EXCEPT !.path = path]

\* The stack's suffix from `block` on is one strongly connected component.
TarjanClose(succ, t, block) ==
  LET at == CHOOSE i \in DOMAIN t.stack : t.stack[i] = block
      members == {t.stack[i] : i \in at..Len(t.stack)}
      looped == Cardinality(members) > 1 \/ block \in Range(succ[block])
  IN  [t EXCEPT !.stack = SubSeq(@, 1, at - 1),
                !.components = IF looped THEN @ + 1 ELSE @,
                !.cycle = [b \in DOMAIN @ |->
                             IF looped /\ b \in members THEN t.components + 1
                                                        ELSE @[b]]]

TarjanPopForgetting(t) == [t EXCEPT !.path = Front(@)]         \* mutant: no low

\* Back to the parent, which may reach as low as its child.
TarjanPop(t) ==
  LET block == Last(t.path).block
      path == Front(t.path)
  IN  IF path = <<>> THEN [t EXCEPT !.path = path]
      ELSE [t EXCEPT !.path = path,
                     !.low[Last(path).block] =
                        IF t.low[block] < @ THEN t.low[block] ELSE @]

\* Every successor of the block is followed: leave it.
TarjanLeave(succ, t) ==
  LET block == Last(t.path).block
      left == TarjanPop(t)
  IN  IF left.low[block] = left.order[block]
      THEN TarjanClose(succ, left, block) ELSE left

TarjanStep(succ, t) ==
  IF TarjanDone(t) THEN t
  ELSE IF t.path = <<>>
  THEN TarjanVisit(t, <<>>, CHOOSE b \in TarjanUnvisited(t) :
                              \A c \in TarjanUnvisited(t) : b <= c)
  ELSE IF AtEnd(succ, Last(t.path)) THEN TarjanLeave(succ, t)
                                    ELSE TarjanFollow(succ, t)

-----------------------------------------------------------------------------
(***************************************************************************)
(* back_edges(): a depth-first exploration from where data enters.         *)
(***************************************************************************)
Entered(succ) == UNION {Range(succ[b]) : b \in DOMAIN succ}

RootsInOrder(succ) == [b \in 1..Len(succ) |-> b]     \* mutant: no entries first

\* Blocks nothing connects into come first, then the rest.
Roots(succ) ==
  LET blocks == [b \in 1..Len(succ) |-> b]
  IN  SelectSeq(blocks, LAMBDA b : b \notin Entered(succ))
        \o SelectSeq(blocks, LAMBDA b : b \in Entered(succ))

ExploreStart(succ) ==
  [state |-> [b \in DOMAIN succ |-> "unvisited"],
   roots |-> Roots(succ), path |-> <<>>, back |-> {}]

ExploreDone(e) == e.path = <<>> /\ e.roots = <<>>

ExploreEnter(e, path, block) ==
  [e EXCEPT !.state[block] = "exploring", !.path = Append(path, At(block))]

LeadsToVisited(e, block) == e.state[block] # "unvisited"    \* mutant

\* The block's data is still being followed.
LeadsBack(e, block) == e.state[block] = "exploring"

ExploreStep(succ, e) ==
  IF ExploreDone(e) THEN e
  ELSE IF e.path = <<>>
  THEN LET root == Head(e.roots)
           rest == [e EXCEPT !.roots = Tail(@)]
       IN  IF e.state[root] = "unvisited"
           THEN ExploreEnter(rest, <<>>, root) ELSE rest
  ELSE LET block == Last(e.path).block
       IN  IF AtEnd(succ, Last(e.path))
           THEN [e EXCEPT !.state[block] = "done", !.path = Front(@)]
           ELSE LET successor == succ[block][Last(e.path).next]
                    path == Advance(e.path)
                IN  CASE e.state[successor] = "unvisited" ->
                           ExploreEnter(e, path, successor)
                      [] LeadsBack(e, successor) ->
                           [e EXCEPT !.path = path,
                                     !.back = @ \union {<<block, successor>>}]
                      [] OTHER -> [e EXCEPT !.path = path]

-----------------------------------------------------------------------------
(***************************************************************************)
(* loop_collects(): the Collect blocks that close the loop of a For or     *)
(* Repeat block, pairing loops and Collect blocks like brackets.           *)
(***************************************************************************)
PairStart(succ, start) ==
  [collects |-> <<>>, visited |-> {},
   pending |-> [i \in DOMAIN succ[start] |->
                  [block |-> succ[start][i], depth |-> 0]]]

PairDone(p) == p.pending = <<>>

Closes(kind, item) == kind[item.block] = "Collect" /\ item.depth = 0

FlatDepth(kind, item) ==                                       \* mutant
  IF kind[item.block] \in LoopKinds THEN item.depth + 1 ELSE item.depth

DepthAfter(kind, item) ==
  CASE kind[item.block] \in LoopKinds -> item.depth + 1
    [] kind[item.block] = "Collect" /\ item.depth > 0 -> item.depth - 1
    [] OTHER -> item.depth

PassesAgain(kind, start, p, item) == item.block = start        \* mutant

\* Loops nest no deeper than there are loops.
Passes(kind, start, p, item) ==
  \/ item.block = start
  \/ item.depth > Cardinality({b \in DOMAIN kind : kind[b] \in LoopKinds})
  \/ item \in p.visited

PairStep(succ, kind, start, p) ==
  IF PairDone(p) THEN p
  ELSE
  LET item == Last(p.pending)
      rest == Front(p.pending)
      onward == [i \in DOMAIN succ[item.block] |->
                   [block |-> succ[item.block][i], depth |-> DepthAfter(kind, item)]]
  IN  IF Passes(kind, start, p, item)
      THEN [p EXCEPT !.pending = rest]
      ELSE [p EXCEPT
              !.visited = @ \union {item},
              !.collects = IF Closes(kind, item) /\ item.block \notin Range(@)
                           THEN Append(@, item.block) ELSE @,
              !.pending = IF Closes(kind, item) THEN rest ELSE rest \o onward]

-----------------------------------------------------------------------------
(***************************************************************************)
(* Graph::new: the tables of a whole flow.  A flow is a record of blocks,  *)
(* each with its kind, and connections [from, output, to, input].          *)
(***************************************************************************)
Known(flow) ==
  SelectSeq(flow.connections,
            LAMBDA c : c.from \in DOMAIN flow.blocks /\ c.to \in DOMAIN flow.blocks)

\* A sequence without its later duplicates.
Once(s) == FoldLeft(LAMBDA kept, x : IF x \in Range(kept) THEN kept
                                     ELSE Append(kept, x), <<>>, s)

SuccessorTable(flow) ==
  [b \in DOMAIN flow.blocks |->
     Once([i \in DOMAIN SelectSeq(Known(flow), LAMBDA c : c.from = b) |->
             SelectSeq(Known(flow), LAMBDA c : c.from = b)[i].to])]

ConnectedInputs(flow) ==
  [b \in DOMAIN flow.blocks |->
     Once([i \in DOMAIN SelectSeq(Known(flow), LAMBDA c : c.to = b) |->
             SelectSeq(Known(flow), LAMBDA c : c.to = b)[i].input])]

\* No loop of the three makes more turns: each block is entered and left
\* once, each connection followed once, in loop_collects once per depth.
EdgeCount(succ) == Len(FlattenSeq(succ))
Turns(succ) == 2 * Len(succ) + EdgeCount(succ)
PairTurns(succ, kind) ==
  EdgeCount(succ) * (2 + Cardinality({b \in DOMAIN kind : kind[b] \in LoopKinds}))

GraphOf(flow) ==
  LET succ == SuccessorTable(flow)
      kind == [b \in DOMAIN flow.blocks |-> flow.blocks[b].kind]
      tarjan == Iterate(LAMBDA t : TarjanStep(succ, t), TarjanStart(succ),
                        Turns(succ))
      explored == Iterate(LAMBDA e : ExploreStep(succ, e), ExploreStart(succ),
                          Turns(succ))
  IN  [targets |->
         [b \in DOMAIN flow.blocks |->
            LET own == SelectSeq(Known(flow), LAMBDA c : c.from = b)
            IN  [i \in DOMAIN own |->
                   [output |-> own[i].output, block |-> own[i].to,
                    input |-> own[i].input,
                    back |-> <<b, own[i].to>> \in explored.back]]],
       connected |-> ConnectedInputs(flow),
       cycle |-> tarjan.cycle,
       collects |->
         [b \in DOMAIN flow.blocks |->
            IF kind[b] \in LoopKinds
            THEN Iterate(LAMBDA p : PairStep(succ, kind, b, p),
                         PairStart(succ, b), PairTurns(succ, kind)).collects
            ELSE <<>>]]
=============================================================================
