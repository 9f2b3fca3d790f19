---------------------------- MODULE MCFlowParts ----------------------------
(***************************************************************************)
(* A flow in one run: the graph algorithms its run starts with, the run    *)
(* itself, and the editor that shows it.  They share no state: the run has *)
(* its flow and graph from the start, and the editor a copy and the events.*)
(* So a behavior is one of a single part and the variables of the others   *)
(* keep their first values.  The run has its own variables; the others     *)
(* share v1 to v15.                                                        *)
(***************************************************************************)
EXTENDS MCFlowRuntime

CONSTANTS NoBlock, NoRun      \* model values

VARIABLES part, v1, v2, v3, v4, v5, v6, v7, v8, v9, v10, v11, v12, v13, v14, v15

slots == <<v1, v2, v3, v4, v5, v6, v7, v8, v9, v10, v11, v12, v13, v14, v15>>
flowsVars == <<vars, part, slots>>

-----------------------------------------------------------------------------
(***************************************************************************)
(* Every graph of three blocks, with every order of their connections, for *)
(* cycles() and back_edges(); every graph of four blocks whose first, a    *)
(* For, branches to at most two blocks and whose others lead to at most    *)
(* one, with every kind of block, for loop_collects().                     *)
(***************************************************************************)
Orders(n, most) == {s \in UNION {[1..k -> 1..n] : k \in 0..most} :
                      \A i, j \in DOMAIN s : s[i] = s[j] => i = j}

GraphCases ==
  [algorithm : {"cycles", "back_edges"}, succ : [1..3 -> Orders(3, 3)],
   kind : {[b \in 1..3 |-> "Display"]}, start : {1}]
  \union
  [algorithm : {"collects"},
   succ : {s \in [1..4 -> Orders(4, 2)] : \A b \in 2..4 : Len(s[b]) <= 1},
   kind : {k \in [1..4 -> {"For", "Collect", "Display"}] : k[1] = "For"},
   start : {1}]

E == INSTANCE FlowEditor WITH
       UNDO_LIMIT <- 2, LOG_LIMIT <- 2, RUN_DATA_LIMIT <- 2, Ids <- {1, 2}, Sizes <- {1, 2},
       MaxEdits <- 3, MaxEvents <- 3,
       flow <- v1, undo <- v2, redo <- v3, last <- v4, run <- v5, started <- v6, open <- v7,
       events <- v8, statuses <- v9, log <- v10, dropped <- v11, retained <- v12, edits <- v13,
       joins <- v14, reissued <- v15
G == INSTANCE FlowGraphSteps WITH Cases <- GraphCases, case <- v1, run <- v2

Free3 ==
  /\ v3 = 0 /\ v4 = 0 /\ v5 = 0 /\ v6 = 0 /\ v7 = 0 /\ v8 = 0 /\ v9 = 0 /\ v10 = 0
  /\ v11 = 0 /\ v12 = 0 /\ v13 = 0 /\ v14 = 0 /\ v15 = 0

FlowsInit ==
  /\ Init
  /\ \/ part = "run" /\ v1 = 0 /\ v2 = 0 /\ Free3
     \/ /\ flow = BranchInLoop
        /\ \/ part = "graph" /\ G!Init /\ Free3
           \/ part = "editor" /\ E!Init

Goes(name, action) == part = name /\ action /\ UNCHANGED <<vars, part>>
Kept3 == UNCHANGED <<v3, v4, v5, v6, v7, v8, v9, v10, v11, v12, v13, v14, v15>>

FlowsNext ==
  \/ part = "run" /\ Next /\ UNCHANGED <<part, slots>>
  \/ Goes("graph", G!Next /\ Kept3)
  \/ Goes("editor", E!Next)

FlowsSpec ==
  /\ FlowsInit /\ [][FlowsNext]_flowsVars
  /\ WF_flowsVars(part = "run" /\ Next /\ UNCHANGED <<part, slots>>)
  /\ WF_flowsVars(Goes("graph", G!Next /\ Kept3))

-----------------------------------------------------------------------------
(***************************************************************************)
(* FlowRuntime, runtime.rs:126 and :133: a loop handles its next item only *)
(* when the last one travelled as far as it can, and the next pass through *)
(* a cycle waits for the work of this one.                                 *)
(***************************************************************************)
TurnsAreTaken == ItemsTakeTurns /\ PassesTakeTurns

(***************************************************************************)
(* FlowRuntime, runtime.rs:817: a loop that ended runs no more, its values *)
(* reach every Collect that gathers it, and each iteration of an inner     *)
(* loop combines with the values of its outer one.                         *)
(***************************************************************************)
LoopsFinish == TypeOK /\ EndedLoopsAreQuiet /\ EveryIterationCombines /\ NothingLeftBehind

(***************************************************************************)
(* FlowGraphSteps, graph.rs:94: the tables that a run starts from are      *)
(* right for every graph.  Two blocks get the same cycle exactly when data *)
(* travels from each to the other; without the back edges none goes around *)
(* and only connections of a cycle are back edges; a pass starts where the *)
(* data enters; loops and Collect blocks pair like brackets.               *)
(***************************************************************************)
TablesAreRight ==
  part = "graph" =>
    /\ G!CyclesAreComponents /\ G!BackEdgesBreakCycles
    /\ G!EntryStartsThePass /\ G!CollectsPairLikeBrackets

(***************************************************************************)
(* FlowEditor, run_log.rs:161 and history.rs:39: a log entry shows the     *)
(* data of the run it tells of or none, although blocks are deleted and    *)
(* take the IDs of others; the log keeps the latest entries, and the data  *)
(* they hold is counted and within its limit.  Every change can be undone, *)
(* on its own or with the typing it joins, and an undo can be redone.      *)
(***************************************************************************)
EditorKeepsTrack ==
  /\ [](part = "editor" => E!TypeOK /\ E!EntriesShowTheirRun /\ E!LogIsBounded)
  /\ [][part = "editor" => E!KeepsUndoable]_flowsVars

(***************************************************************************)
(* FlowRuntime, runtime.rs:143: every run ends, within its limit           *)
(* (docs/flows.md: "A run stops after 100,000 block runs, which ends a     *)
(* loop that never does"); and so do the algorithms before it.             *)
(***************************************************************************)
EveryRunEnds ==
  /\ []LimitHolds
  /\ <>(part = "run" => phase # "running")
  /\ <>(part = "graph" => G!Finished)
=============================================================================
