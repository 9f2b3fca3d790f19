-------------------------- MODULE FlowGraphSteps --------------------------
(***************************************************************************)
(* The three graph algorithms of FlowGraph, one turn of their loops at a   *)
(* time, over every small graph, against what their comments say of the    *)
(* result.                                                                 *)
(***************************************************************************)
EXTENDS FlowGraph

CONSTANTS Cases     \* the [algorithm, succ, kind, start] records to run

VARIABLES case,     \* the call under way
          run       \* the local variables of its loop

vars == <<case, run>>

Init ==
  /\ case \in Cases
  /\ run = CASE case.algorithm = "cycles"     -> TarjanStart(case.succ)
             [] case.algorithm = "back_edges" -> ExploreStart(case.succ)
             [] case.algorithm = "collects"   -> PairStart(case.succ, case.start)

Cycles ==
  /\ case.algorithm = "cycles"
  /\ ~TarjanDone(run)
  /\ run' = TarjanStep(case.succ, run)
  /\ UNCHANGED case

BackEdges ==
  /\ case.algorithm = "back_edges"
  /\ ~ExploreDone(run)
  /\ run' = ExploreStep(case.succ, run)
  /\ UNCHANGED case

LoopCollects ==
  /\ case.algorithm = "collects"
  /\ ~PairDone(run)
  /\ run' = PairStep(case.succ, case.kind, case.start, run)
  /\ UNCHANGED case

Next == Cycles \/ BackEdges \/ LoopCollects

Spec == Init /\ [][Next]_vars /\ WF_vars(Next)

-----------------------------------------------------------------------------
Finished ==
  CASE case.algorithm = "cycles"     -> TarjanDone(run)
    [] case.algorithm = "back_edges" -> ExploreDone(run)
    [] case.algorithm = "collects"   -> PairDone(run)

Edges(succ) == {<<b, c>> \in (DOMAIN succ) \X (DOMAIN succ) : c \in Range(succ[b])}

\* The blocks one or more edges of the set lead to from `block`.
Reached(edges, nodes, block) ==
  LET wave[n \in 0..Cardinality(nodes)] ==
        IF n = 0 THEN {e[2] : e \in {x \in edges : x[1] = block}}
        ELSE LET near == wave[n - 1]
             IN  near \union {e[2] : e \in {x \in edges : x[1] \in near}}
  IN  wave[Cardinality(nodes)]

Together(succ, b, c) ==
  /\ c \in Reached(Edges(succ), DOMAIN succ, b)
  /\ b \in Reached(Edges(succ), DOMAIN succ, c)

(***************************************************************************)
(* graph.rs:130 "blocks of one strongly connected component share it": two *)
(* blocks get the same cycle frame exactly when data can travel from each  *)
(* to the other, and a block outside every cycle gets none.  Passes of two *)
(* different cycles would otherwise be taken for passes of one.            *)
(***************************************************************************)
CyclesAreComponents ==
  (case.algorithm = "cycles" /\ Finished) =>
    \A b, c \in DOMAIN case.succ :
      (run.cycle[b] # NoCycle /\ run.cycle[b] = run.cycle[c])
        <=> Together(case.succ, b, c)

(***************************************************************************)
(* graph.rs:203 "Each cycle has at least one": without the back edges no   *)
(* data goes around, so every pass is deferred somewhere; and a connection *)
(* that is no part of a cycle is never deferred (runtime.rs:579 would send *)
(* it without counting a pass).                                            *)
(***************************************************************************)
BackEdgesBreakCycles ==
  (case.algorithm = "back_edges" /\ Finished) =>
    /\ \A b \in DOMAIN case.succ :
         b \notin Reached(Edges(case.succ) \ run.back, DOMAIN case.succ, b)
    /\ \A e \in run.back : Together(case.succ, e[1], e[2])

(***************************************************************************)
(* graph.rs:210 "a cycle's connection back to where data enters it is the  *)
(* one found": in a cycle that data enters at one block only, every        *)
(* connection back to that block counts a pass.                            *)
(***************************************************************************)
EntryStartsThePass ==
  (case.algorithm = "back_edges" /\ Finished) =>
    LET succ == case.succ
        edges == Edges(succ)
        component(b) == {c \in DOMAIN succ : Together(succ, b, c)}
        entries(b) == {e \in edges : e[2] \in component(b) /\ e[1] \notin component(b)}
        fromOutside(b) == \E root \in DOMAIN succ :
                            /\ root \notin Entered(succ)
                            /\ b \in Reached(edges, DOMAIN succ, root)
    IN  \A b \in DOMAIN succ :
          (component(b) # {} /\ fromOutside(b) /\ {e[2] : e \in entries(b)} = {b})
            => {e \in edges : e[2] = b /\ e[1] \in component(b)} \subseteq run.back

\* The walks from `start` that visit no block twice.
SimpleWalks(succ, start) ==
  LET grow[n \in 1..Len(succ)] ==
        IF n = 1 THEN {<<start>>}
        ELSE LET shorter == grow[n - 1]
             IN  shorter \union
                 UNION {{Append(w, c) : c \in Range(succ[Last(w)]) \ Range(w)} :
                          w \in shorter}
  IN  grow[Len(succ)]

\* How many loops are open after the walk, its first block's own included.
OpenLoops(kind, w) ==
  Cardinality({i \in DOMAIN w : kind[w[i]] \in LoopKinds})
    - Cardinality({i \in DOMAIN w : kind[w[i]] = "Collect"})

\* The walk ends with the Collect that closes the loop of its first block.
ClosesLast(kind, w) ==
  /\ OpenLoops(kind, w) = 0
  /\ \A i \in 1..(Len(w) - 1) : OpenLoops(kind, SubSeq(w, 1, i)) > 0

(***************************************************************************)
(* graph.rs:92: like brackets.  On every walk without repetition the       *)
(* Collect that closes the loop is found, past the Collects of the loops   *)
(* nested in it; and in a flow without cycles nothing else is.             *)
(***************************************************************************)
CollectsPairLikeBrackets ==
  (case.algorithm = "collects" /\ Finished) =>
    LET closing == {Last(w) : w \in {x \in SimpleWalks(case.succ, case.start) :
                                        ClosesLast(case.kind, x)}}
        acyclic == \A b \in DOMAIN case.succ : ~Together(case.succ, b, b)
    IN  /\ closing \subseteq Range(run.collects)
        /\ acyclic => Range(run.collects) = closing

\* Every call returns: no flow a user draws hangs the run before it starts.
Returns == <>Finished
=============================================================================
