----------------------------- MODULE FlowEditor -----------------------------
(***************************************************************************)
(* The editor of a flow: edits with undo and redo, and a run of the flow   *)
(* as it was when it started, whose events arrive in batches while the     *)
(* user goes on editing (crates/tab_ui/src/flow_editor: history.rs, run.rs,*)
(* editor.rs, run_log.rs).  A block has the ID it shows and its own        *)
(* number: a new block may take the ID of a deleted one.                   *)
(***************************************************************************)
EXTENDS Integers, Sequences, FiniteSets, FiniteSetsExt, SequencesExt, Functions

CONSTANTS
  UNDO_LIMIT, LOG_LIMIT, RUN_DATA_LIMIT,
  Ids,        \* the IDs b1, b2, ...
  Sizes,      \* about how many bytes a run's data takes
  NoBlock, NoRun,
  MaxEdits,   \* bound: edits, undos and redos
  MaxEvents   \* bound: runs of blocks

VARIABLES
  flow,       \* Flow: the block of each ID, and the text of a setting
  undo, redo, \* History: the flows to go back to
  last,       \* History::last: the key of the last edit, or ""
  reissued,   \* ghost: the IDs that new blocks took during the run
  run,        \* the task of a run, with the flow it runs, or NoRun
  started,    \* how many runs of blocks started: they are numbered
  open,       \* the block whose run has started, if any, with its number
  events,     \* the channel of the run
  statuses,   \* RunState::blocks
  log,        \* RunState::log
  dropped, retained,
  edits,      \* how many edits, undos and redos there were
  joins       \* ghost: the setting that the last change typed into, or ""

vars == <<flow, undo, redo, last, run, started, open, events, statuses, log, dropped, retained,
          edits, joins, reissued>>

editing == <<flow, undo, redo, last, edits, joins>>
results == <<statuses, log, dropped, retained>>
running == <<run, started, open, events, reissued>>

NoStatus == [running |-> FALSE, runs |-> 0, latest |-> 0, size |-> 0, of |-> NoBlock]
InFlow(f) == {id \in Ids : f.blocks[id] # NoBlock}

\* flow::Flow::next_block_id()
NextId == IF InFlow(flow) = {} THEN 1 ELSE Max(InFlow(flow)) + 1

Init ==
  /\ flow = [blocks |-> [id \in Ids |-> IF id = 1 THEN [number |-> 1, logs |-> FALSE]
                                        ELSE IF id = 2 THEN [number |-> 2, logs |-> TRUE] ELSE NoBlock],
             text |-> 0]
  /\ undo = <<>> /\ redo = <<>> /\ last = ""
  /\ run = NoRun /\ started = 0 /\ open = {} /\ events = <<>> /\ reissued = {}
  /\ statuses = [id \in Ids |-> NoStatus]
  /\ log = <<>> /\ dropped = 0 /\ retained = 0
  /\ edits = 0 /\ joins = ""

-----------------------------------------------------------------------------
(***************************************************************************)
(* Editing.                                                                *)
(***************************************************************************)
Changes ==
  /\ edits < MaxEdits
  /\ edits' = edits + 1

\* mutant: the oldest flow stays, beyond the limit
KeepsAll(flows) == flows
Newest(flows) == IF Len(flows) > UNDO_LIMIT THEN Tail(flows) ELSE flows

\* History::record()
Record(key) ==
  IF key # "" /\ key = last
    THEN UNCHANGED <<undo, redo, last>>
    ELSE /\ last' = key
         /\ redo' = <<>>
         /\ undo' = Newest(Append(undo, flow))

Types ==
  /\ Changes
  /\ Record("text")
  /\ flow' = [flow EXCEPT !.text = @ + 1]
  /\ joins' = "text"
  /\ UNCHANGED <<running, results>>

\* mutant: the runs of a deleted block with the same ID stay
KeepsRuns(id) == UNCHANGED statuses
ForgetRuns(id) == statuses' = [statuses EXCEPT ![id] = NoStatus]

\* Adding or pasting a block selects it, which seals the edit.
AddBlock(logs) ==
  /\ Changes
  /\ NextId \in Ids
  /\ Record("")
  /\ flow' = [flow EXCEPT !.blocks[NextId] = [number |-> Cardinality(Ids) + edits, logs |-> logs]]
  /\ ForgetRuns(NextId)
  /\ reissued' = IF run = NoRun THEN reissued ELSE reissued \union {NextId}
  /\ joins' = ""
  /\ UNCHANGED <<run, started, open, events, log, dropped, retained>>

DeleteBlock(id) ==
  /\ Changes
  /\ id \in InFlow(flow)
  /\ Record("")
  /\ flow' = [flow EXCEPT !.blocks[id] = NoBlock]
  /\ joins' = ""
  /\ UNCHANGED <<running, results>>

\* Selecting a block, or letting go of one that was moved.
Seal ==
  /\ last # ""
  /\ last' = "" /\ joins' = ""
  /\ UNCHANGED <<flow, undo, redo, edits, running, results>>

EndsEdit == last' = ""

Undo ==
  /\ Changes
  /\ undo # <<>>
  /\ flow' = Last(undo) /\ undo' = Front(undo)
  /\ redo' = Append(redo, flow)
  /\ EndsEdit
  /\ joins' = ""
  /\ UNCHANGED <<running, results>>

Redo ==
  /\ Changes
  /\ redo # <<>>
  /\ flow' = Last(redo) /\ redo' = Front(redo)
  /\ undo' = Append(undo, flow)
  /\ EndsEdit
  /\ joins' = ""
  /\ UNCHANGED <<running, results>>

-----------------------------------------------------------------------------
(***************************************************************************)
(* The run in the background.  Blocks run one after another, and more than *)
(* once in a loop; a Log block takes no time, so its start is not told.    *)
(***************************************************************************)
Starts(id) ==
  LET block == run.blocks[id] IN
  /\ run # NoRun /\ started < MaxEvents
  /\ block # NoBlock /\ open = {}
  /\ started' = started + 1
  /\ open' = {[id |-> id, run |-> started + 1, logged |-> FALSE]}
  /\ events' = IF block.logs THEN events
               ELSE Append(events, [kind |-> "started", id |-> id, of |-> block, run |-> started + 1, size |-> 0])
  /\ UNCHANGED <<run, reissued, editing, results>>

Logs(o) ==
  /\ run.blocks[o.id].logs /\ ~o.logged
  /\ open' = {[o EXCEPT !.logged = TRUE]}
  /\ events' = Append(events, [kind |-> "log", id |-> o.id, of |-> run.blocks[o.id], run |-> o.run, size |-> 0])
  /\ UNCHANGED <<run, started, reissued, editing, results>>

Finishes(o, size) ==
  /\ run.blocks[o.id].logs => o.logged
  /\ open' = {}
  /\ events' = Append(events, [kind |-> "finished", id |-> o.id, of |-> run.blocks[o.id], run |-> o.run,
                               size |-> size])
  /\ UNCHANGED <<run, started, reissued, editing, results>>

-----------------------------------------------------------------------------
(***************************************************************************)
(* The run in the editor.  A Log block's run fills the entry it wrote.     *)
(***************************************************************************)
Entry(event, kind, index, data) ==
  [id |-> event.id, kind |-> kind, index |-> index, data |-> data, run |-> event.run,
   size |-> IF data = "kept" THEN event.size ELSE 0, holds |-> IF data = "none" THEN 0 ELSE event.run]

SizesOf(entries) == FoldSeq(LAMBDA entry, sum : entry.size + sum, 0, entries)
Released(entry) == IF entry.data = "kept" THEN [entry EXCEPT !.data = "released", !.size = 0] ELSE entry

\* mutant: an entry whose data goes is still counted
KeepsCount(entries, kept) == [log |-> entries, retained |-> kept]
\* release_runs(): the first entries let go until the rest fits.
ReleaseRuns(entries, kept) ==
  LET gone == CHOOSE n \in 0 .. Len(entries) :
                /\ n = Len(entries) \/ kept - SizesOf(SubSeq(entries, 1, n)) <= RUN_DATA_LIMIT
                /\ \A m \in 0 .. n - 1 : kept - SizesOf(SubSeq(entries, 1, m)) > RUN_DATA_LIMIT
  IN [log |-> [i \in DOMAIN entries |-> IF i <= gone THEN Released(entries[i]) ELSE entries[i]],
      retained |-> kept - SizesOf(SubSeq(entries, 1, gone))]

\* log_run(): the oldest entry goes when there are too many.
LogRun(r, entry) ==
  LET all == Append(r.log, entry)
      kept == r.retained + entry.size
      over == Len(all) > LOG_LIMIT
      fits == ReleaseRuns(IF over THEN Tail(all) ELSE all, IF over THEN kept - Head(all).size ELSE kept)
  IN [r EXCEPT !.log = fits.log, !.retained = fits.retained, !.dropped = @ + IF over THEN 1 ELSE 0]

\* The newest entry of a Log block's run with this index, if it holds none.
FillsEntry(r, event, index) ==
  LET written == {i \in DOMAIN r.log : r.log[i].id = event.id /\ r.log[i].kind = "logged" /\ r.log[i].index = index}
      i == Max(written)
      fits == ReleaseRuns([r.log EXCEPT ![i] = [@ EXCEPT !.data = "kept", !.size = event.size, !.holds = event.run]],
                          r.retained + event.size)
  IN IF written = {} \/ r.log[i].data # "none" THEN r
     ELSE [r EXCEPT !.log = fits.log, !.retained = fits.retained]

\* receive(), of one event
Receives(r, event) ==
  LET status == r.statuses[event.id]
      index == status.runs + 1
      done == [running |-> FALSE, runs |-> index, latest |-> event.run, size |-> event.size, of |-> event.of]
      shown == [r EXCEPT !.statuses[event.id] = done]
      block == flow.blocks[event.id]
  IN CASE event.kind = "started" -> [r EXCEPT !.statuses[event.id].running = TRUE]
       [] event.kind = "log" -> LogRun(r, Entry(event, "logged", index, "none"))
       [] event.kind = "finished" ->
            IF block # NoBlock /\ block.logs THEN FillsEntry(shown, event, index)
            ELSE LogRun(shown, Entry(event, "ran", index, "kept"))

Receive(n) ==
  LET before == [statuses |-> statuses, log |-> log, dropped |-> dropped, retained |-> retained]
      after == FoldLeft(Receives, before, SubSeq(events, 1, n))
  IN
  /\ run # NoRun
  /\ events' = SubSeq(events, n + 1, Len(events))
  /\ statuses' = after.statuses /\ log' = after.log
  /\ dropped' = after.dropped /\ retained' = after.retained
  /\ UNCHANGED <<run, started, open, reissued, editing>>

NothingRuns == [id \in Ids |-> [statuses[id] EXCEPT !.running = FALSE]]

\* log() of a notice, which holds no data
Notice == LogRun([statuses |-> NothingRuns, log |-> log, dropped |-> dropped, retained |-> retained],
                 [id |-> 0, kind |-> "notice", index |-> 0, data |-> "none", run |-> 0, size |-> 0, holds |-> 0])

Run ==
  /\ run = NoRun
  /\ run' = flow
  /\ open' = {} /\ events' = <<>> /\ started' = 0 /\ reissued' = {}
  /\ statuses' = [id \in Ids |-> NoStatus]
  /\ log' = <<>> /\ dropped' = 0 /\ retained' = 0
  /\ UNCHANGED editing

\* stop() at any time, finish_run() once every event was received.
Ends ==
  /\ run # NoRun
  /\ run' = NoRun /\ open' = {} /\ events' = <<>>
  /\ statuses' = NothingRuns
  /\ log' = Notice.log /\ dropped' = Notice.dropped /\ retained' = Notice.retained
  /\ UNCHANGED <<started, reissued, editing>>

(***************************************************************************)
(* What a click on a log entry shows: the data of a run, or 0 for none.    *)
(***************************************************************************)
\* mutant: the last run of a block with the entry's ID is taken for its run
IsLatest(entry, status) == status.runs = entry.index
LatestIs(entry, status) == status.runs = entry.index /\ status.latest = entry.holds

\* log_row(): a block's last run stays with its status.
ShownFor(entry) ==
  LET status == IF entry.id \in Ids THEN statuses[entry.id] ELSE NoStatus IN
  CASE entry.data = "kept"     -> entry.holds
    [] entry.data = "released" -> IF LatestIs(entry, status) THEN status.latest ELSE 0
    [] entry.data = "none"     -> 0

-----------------------------------------------------------------------------
Next ==
  \/ Types \/ (\E logs \in BOOLEAN : AddBlock(logs)) \/ (\E id \in Ids : DeleteBlock(id))
  \/ Seal \/ Undo \/ Redo
  \/ \E id \in Ids : Starts(id)
  \/ \E o \in open : Logs(o)
  \/ \E o \in open, size \in Sizes : Finishes(o, size)
  \/ \E n \in 1 .. Len(events) : Receive(n)
  \/ Run \/ Ends

Spec == Init /\ [][Next]_vars

-----------------------------------------------------------------------------
\* Undo and redo together never hold more than the limit.
TypeOK ==
  /\ last \in {"", "text"}
  /\ Len(undo) + Len(redo) <= UNDO_LIMIT
  /\ \A i \in DOMAIN log : log[i].data \in {"none", "kept", "released"}

(***************************************************************************)
(* history.rs:22: every change can be undone on its own or with the typing *)
(* it joins, and an undo can be redone, also where typing goes on after an *)
(* undo; no flow is lost but the oldest of too many.                       *)
(***************************************************************************)
KeepsUndoable ==
  flow' # flow =>
    \/ joins = "text" /\ joins' = "text" /\ undo' = undo
    \/ undo' = Append(undo, flow)
    \/ Len(undo) = UNDO_LIMIT /\ undo' = Append(Tail(undo), flow)
    \/ redo' = Append(redo, flow) /\ Append(undo', flow') = undo
ChangesCanBeUndone == [][KeepsUndoable]_vars

(***************************************************************************)
(* run.rs:24: the log keeps the latest entries, at most LOG_LIMIT, counts  *)
(* what it dropped, and holds no more data than its limit; the count of    *)
(* what it holds is that of its entries.                                   *)
(***************************************************************************)
LogIsBounded ==
  /\ Len(log) <= LOG_LIMIT
  /\ retained = SizesOf(log)
  /\ retained <= RUN_DATA_LIMIT

(***************************************************************************)
(* run.rs:108: an entry shows the data of the run it tells of or none,     *)
(* although blocks are deleted and take the IDs of others.  A Log block's  *)
(* entry is an exception while a new block has its ID: see                 *)
(* NewBlocksHaveNotRun.                                                    *)
(***************************************************************************)
EntriesShowTheirRun ==
  \A i \in DOMAIN log :
    \/ ShownFor(log[i]) \in {0, log[i].run}
    \/ log[i].kind = "logged" /\ log[i].id \in reissued

(***************************************************************************)
(* editor.rs:831: "New blocks can take the IDs of deleted ones; they have  *)
(* not run."  The run that was started before still tells of the old one.  *)
(***************************************************************************)
NewBlocksHaveNotRun ==
  \A id \in InFlow(flow) : statuses[id].runs > 0 => statuses[id].of.number = flow.blocks[id].number
=============================================================================
