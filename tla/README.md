# Request Eagle: models, checks and proofs

Request Eagle is a desktop API client written in Rust: saved requests are TOML
files, several of them can be chained in a flow, and a CLI and an agent use the
same files beside the app. This directory holds TLA+ models of the parts of it
whose behaviour depends on order: what runs in the background while the user
goes on, what several processes write, what a scheduler decides turn by turn,
and what a server or an agent answers late or not at all. TLC checks small
instances of each model, and TLAPS proves some of the properties for every
instance.

`PROJECT.json` maps each definition to the lines it models, and lists the runs,
a mutant of the code for every property, the hazards and the findings. Paths
below are relative to `src/crates`.

## 1. Inventory

The app is one process with a UI thread. Everything that may block runs in
background tasks whose results are applied on the UI thread later, so an action
on state is atomic unless it awaits or is done by a background thread.

### 1.1 Parts that are modelled

**Flows** (`flow`). A flow is a graph of blocks on connections. `graph.rs` finds
the cycles (Tarjan's components), the connection of each cycle that leads back,
and which Collect block gathers for which loop. `runtime.rs` runs a flow in one
task: a stack of work, deliveries deferred to a cycle's next pass, loops that
wait, the latest packet of each input, named variables, what the Collect blocks
gathered, and the number of block runs, which is limited. Hard: the order of
work decides which values meet. Correct when a block never combines values of
two iterations, items and passes take turns, what a loop gathers is sent, and a
run ends.

**Flow editor** (`tab_ui/src/flow_editor`). The flow with its undo and redo, a
run of a copy of it, the status of each block, and a log that keeps 2000 entries
with up to 64 MB of data. Hard: the run goes on while its blocks are
deleted and their IDs are given to others. Correct when every change can be
undone and an entry shows the run it tells of.

**Saved items and tabs** (`collection`, `flow/src/library.rs`,
`workspace/src/flow_panel.rs`, `workspace/src/main_view.rs`). Requests, pages of
collections and flows are files that other programs change too. The app keeps
what it read last with a count of outside changes; a tab keeps what it opened
with that count; a save compares the file, what is known and the tab. A store is
read again in the background, once more if it changed meanwhile. Hard: a change
outside can fall between any two steps. Correct when a save replaces nothing
unseen without asking, a background read undoes no change of the app, unedited
tabs follow, and edits survive.

**Folders and their order** (`collection`). Collections are directories with
folders and requests, and a folder's order is a file of names. Creating, moving,
renaming, deleting and importing each take several calls of the file system,
undo what they did when one fails, and change the tree in memory. Hard: failures
between the calls, other programs, and a reload or an import that reads in the
background meanwhile. Correct when nothing is lost, a failure changes nothing,
and the sidebar shows what a restart would.

**Tab strip** (`workspace/src/main_view.rs`, `save_request.rs`). The open tabs,
the selected one, and the two questions a tab may ask; reloads and deletions
close, replace and rename tabs below the user's hands, and the next launch opens
them again from the session. Correct when an edit is in a tab until it is saved
or given up, and the selection and the questions stay with their tab.

**Git** (`workspace/src/git_state.rs`, `git`). Repositories that hold
collections, the status of each, one action at a time (init, commit, pull, push,
sync, publish) with a queue of commands per repository. Statuses are read in the
background after a delay and decide whether the collections are read again; a
reload asks for a status. Hard: statuses overlap with actions, reloads, saves
and Git in a terminal. Correct when the sidebar and the Git panel show what is
there once all is quiet, and all does become quiet.

**Cookies** (`request/src/cookies.rs`). The app and CLI commands share one file.
Each has a jar, the cookies it last saved, a count of changes, and the cookies
servers deleted. Saving locks the file, merges, and replaces it. Hard: changes
during a save, failures after the merge, two processes, and time, which expires
cookies. Correct when a save replaces only what its process changed, deletions
arrive, and no change is skipped.

**Preferences** (`preferences`). `preferences.json` names the keyring entry that
holds the credentials of the proxy. An edit writes the keyring, then the file,
then deletes the old entry; edits wait for each other. Hard: each of the three
can fail, the app can end between them, and other settings change meanwhile.
Correct when the file names an entry
that exists and the last edit wins.

**History** (`history`, `workspace/src/history_panel.rs`). A list of requests
and two files for each, written by one worker. Hard: it may be killed
between two files, or fail. Correct when a saved request stays whole and is
found, and quitting leaves the list as it was shown.

**Session file** (`workspace/src/session.rs`). Checkpoints of what is open, saved
by tasks that end in any order. Correct when no older one replaces a newer one.

**Updater** (`updater`). Checks of a track, their answers in any order, a
download, and the script that replaces the app and takes the replacement back.
Correct when what is offered is of the track looked at, and a version that works
is left whichever move fails and whenever the user opens the app.

**Agent** (`agent`, `agent_panel`). A thread with a coding agent over its
protocol: prompts wait for the options chosen before them, options may be turned
down, a stop can come at any time. Correct when a prompt runs in the options it
was sent with, the first one briefs the agent, and a stop ends the turn.

**Request scripts** (`request/src/executor.rs`, `request/src/scripts`). Scripts
of the collection and of the request run before and after it, on a thread of the
blocking pool, with jobs, promises and requests of their own, while the future
that waits for them may time out or be dropped. Correct when whoever gets a
response gets the report of every script, and those of a cancelled request stop.

**Collection Runner** (`tab_ui/src/collection_runner`). One task sends the
requests of every iteration; it is paused, resumed and stopped at any point.
Correct when each is sent once, and cookies and variables go where the user
chose.

**Requests in tabs** (`tab_ui/src/request_draft/execution.rs`, `request`). One
request at a time, whose response may be a stream of events through a bounded
queue. Correct when the log shows the stream, history the requests that went
out, and stopping ends it.

**WebSocket** (`request/src/websocket.rs`, `tab_ui/src/websocket_draft`). A
reader, a writer, a queue that is bounded by messages and by bytes, and closing
from both sides. Correct when the reader is woken, the count of bytes is exact
and closing ends.

**gRPC** (`tab_ui/src/grpc_draft`, `request/src/grpc`, `request/src/scripts`). A
definition that reflection or a file gives, loaded after typing pauses; Invoke,
which waits for it, perhaps runs a script first, and opens a call; the call with
its scripts, batches and stop. Correct when a call has the services of the very
server it is sent to, an Invoke that waits is served, and the tab shows what
came in its order.

**Environment sessions** (`environment/src/session.rs`). Values that scripts set
in three scopes, each with its lock; sessions share the globals. Correct when an
update, a snapshot and a fork are one step each, within the limits, and no two
calls wait for each other.

**Environments** (`environment/src/global.rs`, `tab_ui/src/environments.rs`,
`tab_ui/src/environment_editor.rs`, `workspace/src/environment_panel.rs`). Files
of variables, the list of their names, the active one, and the tabs that edit
them. Files are told apart by their names only, which change hands: by renames,
deletions, an import in the background, and other programs. Correct when no save
replaces variables the user has not seen, a tab follows its file, and the active
environment stays the same file and comes back at the next launch.

**Script queries** (`script_intelligence/src/worker.rs`). Editors ask a worker
thread for completions through a queue of 16; one that finds it full waits for
an event. The worker loads a compiler of 40 MB and drops it when idle. Hard: a
notification must reach an editor that still waits. Correct when no editor
waits while there is room, every query ends, and memory is released.

### 1.2 Parts that are not modelled

| Part | Why |
| --- | --- |
| Building a request, redirects, bodies, authorization (`request/src/http.rs`, `auth`) | one task per request; computation over data that its tests compare with servers and examples. The order of scripts, sending and reading is in ScriptedSend |
| FQL, imports, templates (`fql`, `import`, `flow/src/http.rs`) | pure functions over text and JSON |
| Flow model (`flow/src/model.rs`) | data and its validation; FlowGraph starts from a valid flow |
| Vim mode (`tab_ui/src/vim`) | a state machine over text, whose properties are positions in it |
| Window, panels, response view, settings pages, themes | presentation of the modelled state |
| Key bindings, analytics, CLI commands, start of the app | one thread and one step each; the CLI's use of the cookie file is in CookieJar |
| Docs, web site, packaging | not part of the running program |

`PROJECT.json` lists each with its reason, and for the parts that are partly
modelled what is left out.

### 1.3 How the parts interact

- A request's response, a script or the cookies page changes the jar;
  `tab_ui/src/cookies.rs` saves it in the background, and again when the save
  took cookies from another process.
- `GitState` asks `CollectionStore` for a reload when a HEAD moved, and the
  store's event asks `GitState` for a status. The GitState module holds both
  sides of that circle, with the store's reload as in `collection/src/store.rs`.
- A reload of a store makes `MainView` follow it in its tabs: SavedTabs has one
  tab of an item with every history of its file, TabStrip all tabs with the
  simplest files, CollectionFiles the paths by which tabs find their requests.
- The session that SessionFile saves holds the tabs that TabStrip restores.
- The panel and the connection of the agent talk over two channels: AgentThread
  holds both, with the agent.
- A tab that sends tells history of what went out and how it ended:
  RequestExchange, WebSocket and GrpcDraft say what they tell, History what it
  keeps.
- The runner forks the session and the jar of the app and gives back what the
  user chose to keep: CollectionRunner has both. What a fork is, is proved of
  the locks by the refinement of EnvironmentSession.
- The scripts of a request change the environment session, which
  EnvironmentSession shows to be one step, and send requests of their own.
- An environment's tabs are among those TabStrip keeps; Environments has their
  names and files, TabStrip which tab is selected and what closing one asks.
- A flow's request blocks use saved requests and their scripts; FlowRuntime
  takes their outcome as open.

## 2. Plan

Done: every part of 1.1, with proofs for eighteen of them. What would come next:

1. Proofs: that the sidebar shows the files (SidebarIsFaithful), what TabStrip
   promises, and iterations of flows whose loops are bracketed.
2. Linking and unlinking collections, in CollectionFiles.
3. Flow connections and the clipboard of the flow editor.

The runs that only show a disagreement between code and documentation can make
room for those of new parts, as their findings are settled.

## 3. Modules

Each module is written in the same order: constants and their assumptions, the
variables, `Init`, the actions of each part, `Next`, `Spec`, `TypeOK` and the
properties. A definition marked `mutant` is a plausible bug in place of the
definition that follows it; no specification uses it. A variable marked `ghost`
is not in the code: it remembers what a property speaks of.

| Module | Models | State |
| --- | --- | --- |
| FlowGraph | `flow/src/graph.rs` | the tables of a graph, as recursive functions over the state of each algorithm |
| FlowGraphSteps | the same algorithms, a turn of their loops per step | the call under way |
| FlowRuntime | `flow/src/runtime.rs` | stack, deferred, pending, inputs, variables, buffers, summary |
| FlowEditor | `tab_ui/src/flow_editor` | flow, undo, redo, run, events, statuses, log |
| SavedTabs | stores, registry and tabs | disk, known, tabs, the read under way |
| CollectionFiles | `collection/src/order.rs`, `registry`, `store.rs` | disk, orders, registry, the operation, the reload and the import under way, tabs |
| TabStrip | `main_view.rs`, `save_request.rs` | disk, known, view with tabs, selection and questions, dialog |
| GitState | `git_state.rs`, `git/src/repository.rs`, reloads | disk, shown, store, status, action with jobs, scan |
| CookieJar | `request/src/cookies.rs` | file and lock; each process's jar, saved, deleted, save under way |
| Preferences | `preferences` | file, keyring, the app's copy, edits |
| History | `history`, `history_panel.rs` | list, jobs, index, files |
| SessionFile | `workspace/src/session.rs` | open, captured, saves under way, file |
| Updater, UpdateInstaller | `updater` | track, checks, status, download; paths, process, script |
| AgentThread | `agent`, `agent_panel` | panel, commands, unanswered options, waiting prompt, events, agent |
| CollectionRunner | `collection_runner` | run with its cursor, tasks, the request under way, jar, session |
| RequestExchange | `execution.rs`, `event_stream.rs` | exchange, execution, updates, view, history |
| ScriptedSend | `executor.rs`, `scripts/runtime.rs`, `scripts/engine.rs`, `scripts/network.rs` | future, thread, scripts, the running one, flags, session, reports |
| WebSocket | `websocket.rs`, `websocket_draft` | draft, tab, reader, writer, queue with backlog and waker |
| GrpcDraft | `grpc_draft` | request, definition, call, its start, response, history |
| GrpcCall | `request/src/grpc`, `scripts/grpc.rs` | the pipeline of an open call: executor, scripts, batches, log |
| Environments | `global.rs`, `environments.rs`, `environment_editor.rs`, `environment_panel.rs` | disk, names, active, tabs, the question, import |
| VariableScopes | sets of changes and their limits | |
| EnvironmentSession | `environment/src/session.rs` | scopes with locks, calls step by step |
| VariableStore | what a session promises, whatever the limits and however changes are applied | the scopes, whole; a call is one step |
| ScriptQueue | `worker.rs` | editors, queue, listeners, worker, compiler |
| CookieJarProofs, SavedTabsProofs, GrpcDraftProofs | theorems of MCStores, MCTabs and MCExchanges, the first two and the last of CookieJar, SavedTabs, CollectionFiles and GrpcDraft by themselves | |
| StoresProofs, ExchangesProofs, ScriptQueueProofs, SessionsProofs, GitStateProofs | theorems of the other parts (section 5) | |
| MCFlowRuntime, MCSavedTabs, MCGitState | | instances for TLC |
| MCFlowParts, MCTabs, MCStores, MCExchanges | | unions of instances |

### The unions

Parts that share no state are checked in one run. Such a module extends the one
with the largest number of variables and instantiates the others over variables of
their own, named as in their modules unless the name is taken (MCFlowParts, whose
parts are not proved about, shares `v1`, `v2`, ...); `part`, which never
changes, says whose behaviour it is, and the variables of the others keep their
first values.
A behaviour of the union is one of exactly one part, its fairness that of the
part, so a property `part = "x" => P` of the union is `P` of the part. Leads-to
properties of different parts are joined in one predicate `UnderWay`, which is
the same for that reason. Properties that belong together are one formula there,
with the conjuncts named in their own modules.

### What is abstracted

- FlowRuntime: a value is the shape the scheduler looks at, with a ghost of the
  loop items it was computed from. What a block computes is any value of its
  shapes; a request succeeds or fails. One action is one turn of the run loop.
- FlowEditor: a flow has at most one block of each ID, and a number tells the
  blocks apart that had the same one. One block runs at a time. The canvas, the
  connections, the clipboard and the fields of the inspector are left out.
- SavedTabs: a file has an id and a content; a page has the two files that are
  saved one after the other. Creating and moving items is in CollectionFiles;
  the TOML text is left out. Ghosts tell which contents a tab showed, which
  files nobody else touched, and which changes a read must show.
- CollectionFiles: a name is a number, so that names have an order, and a
  request is its id; each file holds one. Links to directories elsewhere are
  left out, as is a new item at a path that the app still shows although another
  program removed what was there. An import has requests and no folders; what a
  failed one left in its folder is of no item.
- TabStrip: contents are numbers for what other programs wrote; a save of the
  app leaves a file as it is known. At most one edit per tab, numbered, so that
  the ghost `work` knows which must still be in a tab. A name that is
  being typed is left out; the rename itself is there, as it reads the file.
  Environment tabs are in Environments.
- ScriptedSend: what a script computes is open; it runs in steps of its own
  choosing, with promise jobs, requests and tests as counts. What `pm` reads and
  the libraries are left out, and a native call returns.
- GitState: a working tree is a numbered content with a HEAD, an upstream and a
  conflict. Commands fail, stop with a conflict or stash where `Happens` allows.
  What a commit takes and its message are left out.
- CookieJar: a cookie is a key and a value; a value expires for everyone, and an
  expired cookie stays in a jar as it does in the code's store. A save is the
  steps Begin (lock), Merge (one critical section), Write or a failure; changes
  of the jar come between any two of them. A deletion by the user is counted
  after the jar is unlocked, as the code does it. Ghosts tell which keys a
  process changed, deleted for a server, or took from a merge.
- Preferences: a secret is a value, other settings one value. Client
  certificates and agent variables write the keyring alike and are left out.
- History: a request is a number with its files; what they hold is whether they
  are whole. SessionFile: what a window holds is one of two looks.
- Updater: a release is a version of a track; the manifest, checksum and
  signature are the outcome of a download. UpdateInstaller: what is at a path is
  the old version, the new one, nothing, or `part`, which stands for anything
  that is no whole app: what an rm left, what mv had copied, an app inside
  another directory. Every rm and mv may fail, the ones whose result the script
  does not look at too, and the ghost `mishaps` keeps which of those did. The
  removal of the script's own directory is left out.
- AgentThread: the agents are installed and found; a message is whether it
  briefs; a queued message is sent in the step that finds the agent ready; one
  tool question at a time; the agent honours a cancel. A prompt is spawned in one
  step and runs in another, with commands between them; that it compares the
  stops and sends is one step, as the task does not wait in between. A second
  Stop of a message is modelled when the first one came too early; otherwise it
  would only repeat the notification.
- CollectionRunner, RequestExchange, WebSocket: a request is its number, a
  response one of its outcomes, a message its size. A bounded channel takes a
  message at once and then makes its sender wait, as its capacity is its buffer
  and one for each sender.
  The second send of Digest authorization (`request/src/executor.rs:199`) is part
  of the first.
- GrpcDraft: the settings beside the URL and the path behave as the URL and are
  left out; a method is always chosen; authorization that is inherited is left
  out; a script that fails or skips the call is `StartFails`.
- EnvironmentSession: names and values stand for their lengths.
- Environments: a name is a number in the order in which free names are tried; a
  file's variables are a number or unreadable, a tab's may also be refused.
  Names that are not valid or differ in case only are left out.
- ScriptQueue: `event_listener::Event` is modelled by what it does: `notify(n)`
  makes sure that n of the listeners are notified, the oldest first, and a
  notified listener that is dropped passes it on. A query an editor gave up
  becomes `NoEditor` in the queue. What TypeScript answers is left out.

## 4. Runs

| Run | Instances | Shows |
| --- | --- | --- |
| flows | every graph of 3 blocks with every order of connections; loops and Collects in 4; hand-made arrangements (branch in a loop, loop in a loop, cycle in a loop and the reverse, variables) and every wiring of a loop or cycle through a few blocks, 16 block runs; an editor with 2 IDs, 3 edits, 3 events | tables are right, iterations never mix, turns are taken, loops finish, every run ends; an editor keeps track: changes can be undone, entries show their run |
| tabs | a request, a page or a flow, 2 contents, 2 ids, 2 changes outside; 2 collections with folders and requests, depth 3, 2 edits, 1 trouble, an import of 2; a gRPC call with 2 messages each way; 3 script editors, a queue of 2, 4 queries | no silent overwrite, own changes stay, unedited tabs follow and edits survive; items are safe whatever fails, and the sidebar shows what a restart would; what was received is shown in its order; room is passed on; what the background owes arrives |
| git | the collections directory and a repository with an upstream, 2 contents, 2 requests of the user, terminal, stash, conflict and failure | the sidebar and the panel follow (ViewsFollow), no status catches a pull, all settles |
| stores | 2 processes with a cookie jar, 2 keys, 2 values, 3 changes, 1 failure; 2 edits of the proxy, 2 failures, 1 stop; 2 requests of a history of 1, 3 changes, 1 fault; 3 sessions, 1 fault; 3 tabs over a request, a flow and their collection, 1 edit, 1 change outside; 2 tracks, 4 checks, 3 changes; 2 starts of a new version; 3 names of environments, 2 files, 2 tabs, 1 event | cookies: only own changes replace, deletions arrive, none is skipped; preferences, history and session hold; tabs stay as they were left; environments are kept; updates fit; all that is to be written is |
| exchanges | a gRPC tab with 2 URLs, 3 paths, 2 edits, 2 calls; 3 environment calls in 2 collections; 2 messages to an agent, 1 choice, 1 trouble; 2 requests in 2 iterations; 3 sends with streams of 4 events; 2 connections with 2 messages; a request with two scripts before and two after it | an Invoke that waits is served and its call fits; updates of an environment are atomic (refinement); prompts are prepared; a run is exact; exchanges are recorded whole and end once; limits hold; scripts are told of; whatever is under way ends |
| flow_beside, flow_editor, saved_ask, strip_asks, git_pulls, cookies_others, agent_allows | one arrangement or part each | the disagreements of section 6 |

`UpdatesAreAtomic` is a refinement: EnvironmentSession, in which an update takes
three locks one after the other, implements VariableStore, in which it is one
step. The mapping shows a scope as changed once the update that has it locked began to
write, a fork's as its copy once that is whole, and any other as it is. In the union it is stated as `E!Promised!Init` at first and
`[][E!Promised!Next]_(E!Promised!vars)`, each while the behaviour is the
session's, as those of other parts move variables it does not speak of. TLC
checks it for 3 calls, section 5 proves it for any number.

### Bounds, and why they are enough

- Flow graphs: a wrong low-link or back edge shows in three blocks (two cycles
  that share a block); pairing needs a loop in a loop with both Collects, four.
- `MaxBlockRuns` (100,000 in the code) is 16: more than the runs of the
  arrangements without cycles, so they end by themselves, and low enough that
  cycles reach it. The violation run uses 40 so that the limit plays no part.
- FlowEditor: `UNDO_LIMIT`, `LOG_LIMIT` and `RUN_DATA_LIMIT` are 2 for 200, 2000
  and 64 MB: the least that can pass and still hold two.
- SavedTabs: items share only their store's read and the prompt, so MCSavedTabs
  gives one item at a time a file. Two changes outside are the fewest that come
  before and after a read or a save; a content and an id can change and return.
- CollectionFiles: depth 3 is a folder in a folder of a collection, the least
  that can be moved into each other; two edits are one that follows a failed one
  or a reload; the second item of the import sorts before the first, so that
  only its order file keeps its order.
- TabStrip: three tabs are one before, at and after the selected one. One edit
  and one change outside (98,660 states) are in the run; two of each (2.1 million
  states) were checked too and show no more.
- ScriptedSend: `REQUEST_LIMIT` is 2 for 32 and `CONCURRENT_REQUESTS` 1 for 4, so
  a script can wait for a place and be refused one; one job and one open promise
  are the fewest that keep a script from ending.
- GitState: `MaxContents` counts the contents a working tree can come to hold
  after the first, so two suffice for a change beside a change; two requests of
  the user are an action that overlaps with a save or a refresh.
- CookieJar: `MaxChanges` 3 lets one process change a cookie before, during and
  after another's save; 4 (8.4 million states) was checked too and shows no more.
- Environments: three names are one that is taken, one it goes to and one that
  stays free; with two tabs a name can lead two of them. One event is one of a
  failure, an import or another program; two of them (1,183,464 states) were
  checked too and show no more.
- Preferences: two edits are one that waits for another; two failures are the
  keyring and the file of one edit. History: a limit of 1 makes each new request
  drop one.
- Updater: four checks and three changes of track let an answer be superseded
  twice, by the other track and by the first again.
- UpdateInstaller: two starts by the user are one of the old version while the
  script works and one of the new version after it was stopped. Each exception of
  its properties is needed: without any one of them TLC finds them violated.
- AgentThread: two messages are one stopped and one after it. CollectionRunner:
  two requests and two iterations have every border of the cursor.
- RequestExchange: `UPDATE_QUEUE` is 1 for 256, so the queue is full with one
  update; WebSocket: sizes 1 and 3 for a limit of 2 bytes, below and above it.
- GrpcDraft: two edits reach every order of an edit and a load; three
  (314,596 states) were checked too and show no more.
- ScriptQueue: two free places and two waiting editors are the fewest for which
  one notification has to reach a second editor; the code's limit is 16.

CHECK_DEADLOCK is FALSE where the system rests: a flow that is done, a
repository nobody touches, processes without changes, editors that ask no more.

### Fairness

- FlowRuntime, FlowGraphSteps: weak fairness of the next step; a run is one task
  that awaits only its blocks, each of which ends (requests have time limits).
- MCSavedTabs: weak fairness of reading the files and of taking what was read,
  tasks that the executor runs. None of the user or of other programs.
- GitState: `WF_vars(Background)`: the timers, the scan, the reload and the
  commands of an action go on. Commands end, as `git/src/command.rs` kills those
  that pass their time limit. None of the user or the terminal; `Settles` also
  assumes that statuses stop failing, as two repositories whose statuses fail in
  turns keep asking for reloads.
- CollectionFiles: of the calls of an operation under way, and of the reload and
  the import in the background. None of the user or of other programs.
- Preferences, History, SessionFile, Updater: weak fairness of the background
  task or worker; the keyring and the network answer or fail. UpdateInstaller:
  of the script and of a new version that does not hang; whether it hangs is
  open.
- AgentThread: of the panel, of the connection that takes its commands, of the
  task of a prompt, which the executor polls, and of an agent that starts, answers
  a change of an option and honours a cancel. A turn that is not stopped need not
  end.
- CollectionRunner: of the run's task and of a request under way, which has a
  time limit. RequestExchange: of the window's task, and of an executor that was
  told to stop; a server may send for ever.
- ScriptedSend: of the thread of the pool and of time; scripts and answers have
  none, as a script may wait for ever and a server may not answer.
- WebSocket: of the reader, the writer with its timeouts, and of the tab that
  takes messages. None of the server.
- GrpcDraft: of the timer and of loads; reflection ends after 30 s. GrpcCall: of
  the steps of the pipeline once the server ended the call.
- EnvironmentSession: of a step of some task: no call waits but for a lock, and
  whoever holds it goes on.
- ScriptQueue: weak fairness of each editor that can continue (a woken task is
  polled) and of the worker thread. None of asking or giving up. Another editor
  may take the place an editor was told of, so the order of waiting is not kept
  and queries end once the editors do not ask without end. The run uses one
  weak fairness of all of these steps, which is a weaker assumption.
- CookieJar, FlowEditor, TabStrip: no liveness is claimed.

## 5. Proofs

Each module of proofs has one inductive invariant, `IInv`, a conjunction of named
parts, checked by TLC on the instances of the runs before it was proved; a
lemma for the initial states, one for each action that disturbs it, and theorems
of the specification.

| Module | Theorems | Assumptions |
| --- | --- | --- |
| GitStateProofs | ViewsAlwaysFollow, NoPullIsEverCaught | the repositories are finitely many, the collections' directory is one |
| SavedTabsProofs | TypeCorrect, NothingOverwrittenSilently, OwnChangesAreKept, CleanTabsAlwaysFollow, EditsAlwaysSurvive | the kinds of items are disjoint, a page has a fixed id, None is no file |
| SavedTabsProofs, of CollectionFiles | FilesAlwaysSafe | names are numbers, no request is called what a folder is, the requests of an import differ, `Nothing` and `Unreadable` are no orders |
| SavedTabsProofs, of MCTabs | TabsAlwaysFollow, RoomStaysPassedOn, ReceivedStayShown, ItemsStaySafe | those of the part |
| SessionsProofs, of EnvironmentSession | TypeCorrect, ScopesAlwaysGuarded, SomeCallAlwaysGoesOn, UpdatesAlwaysAtomic | a session's own scopes are not those of a path, an update has changes of names to three scopes |
| SessionsProofs, of EnvironmentSession | LimitsAlwaysHold | also that the limits are numbers and an update changes finitely many names |
| SessionsProofs, of AgentThread | ThreadTypeCorrect, OnlyTheFirstBriefs, PromptsAlwaysWait | none |
| CookieJarProofs | TypeCorrect, NoChangeIsSkipped, SavesReplaceOwnChanges, SavesDelete | `NoCookie` is no value and `Nobody` no process |
| CookieJarProofs, of MCStores | PreferencesStay, HistoryStays, UpdatesStayFit, NewestAlwaysStays, EnvironmentsStayKept | those of the part |
| GrpcDraftProofs | TypeCorrect, WaitingIsServed, CallsFit, ReflectionStaysCurrent, HistoryAlwaysPairs, ResponseAlwaysFollows | `Relative` is a path, `NoTarget` is no pair |
| GrpcDraftProofs, of MCExchanges | RunsStayExact, ScriptsStayTold, ExchangesStayRecorded, PromptsStayPrepared, UpdatesStayAtomic, LimitsStayHeld | those of the parts |
| ScriptQueueProofs, of GrpcCall | CallTypeCorrect, ScriptsAlwaysInPlace, ReceivedAlwaysShown | none |
| ScriptQueueProofs | TypeCorrect, RoomIsAlwaysPassedOn, AnswersFit | `NoEditor` is no editor, the queue has a limit of at least 1 |
| ExchangesProofs, of WebSocket | SocketTypeCorrect, HistoryAlwaysPairsUp, BacklogIsAlwaysExact, NoWakeIsLost | both limits are at least 1, sizes are numbers |
| ExchangesProofs, of CollectionRunner | RunTypeCorrect, RunsSendEachOnce, RunsAreComplete, CookiesAreLeftAsAsked, VariablesAreLeftAsAsked | the bounds on requests and iterations are numbers |
| ExchangesProofs, of RequestExchange | ExchangeTypeCorrect, ShownAsArrived, RecordedOnce, LogsAreClosed | the buffer of the queue is a number |
| ExchangesProofs, of ScriptedSend | ScriptedTypeCorrect, ScriptsAlwaysTold | the limits of what a script sends are numbers |
| StoresProofs, of SessionFile | SessionTypeCorrect, FileHoldsTheNewest, NoSaveGoesBack | none |
| StoresProofs, of Updater | UpdaterTypeCorrect, OffersAreOfTheTrack | `NoTrack` is no track |
| StoresProofs, of Preferences | PreferencesTypeCorrect, ReferenceAlwaysExists, CredentialsAreKept, LastEditAlwaysWins, OtherSettingsAlwaysStay | `NoSecret` is no secret, `NoId` no number |
| StoresProofs, of History | HistoryTypeCorrect, SavedRequestsAlwaysStay, OpenedAreAlwaysFound, RecordsAlwaysWhole, QuitAlwaysSaves | the limit and the number of requests sent are numbers |
| StoresProofs, of Environments | EnvironmentsTypeCorrect, TabsAlwaysFollow, ChoiceIsSaved, VariablesStay, TheActiveOneStays | there is a name, a file has a variable, a missing file is none that can be read, `NoName` is no name |
| StoresProofs, of UpdateInstaller | VersionRemains, ConfirmedIsKept | none |

- GitState: `ViewsFollow` speaks of quiet states only, so the invariant says for
  every other state what is still to come. A status that no longer tells where a
  repository stands is coming again (`PanelTells`, `ScanTells`, `Coming`); an
  action outdates the statuses under way, so what is read without an action in
  between was read beside no pull (`ReadFits`). A content the sidebar does not
  show is being read, or a status that differs from the HEAD known will ask for a
  reload, or Git's status cannot tell of it (`ShownFits`, `WhatWasReadFits`,
  `Noticed`). `HeadIsOf` carries this over a scan: a status whose HEAD is still
  the disk's was read beside the disk's content, or beside what is shown.
  `JobsFit` orders the commands of an action: only a pull that began leaves a
  working tree halfway, and a push comes after a commit.
  The first attempt at it failed on `missable`, the set of changes a status
  cannot tell: a HEAD that moves and comes back to the commit that a status under
  way has read is one of them too. TLC then checked the invariant on 3,162,927
  states with 2 contents and 2 requests, and on more than 11 million with 4
  contents and 1 request.
- SavedTabs: a save compares counts of outside changes, so the invariant says
  that a tab whose count is that of the known item was opened from, or has
  followed, the content known now; then a save that is not asked about replaces
  a content that its tab showed, and a tab without edits that follows shows what
  is known. For OwnChangesAreKept it also says what a read under way holds
  (`ReadsFit`): of a file that only the app touched, what the file holds, unless
  the store counts a change since the read began, which makes it read again.
- EnvironmentSession: a call is in one phase, and what it holds, has accepted and
  has copied fits that phase (`TaskFits`); a lock is that of the call in it
  (`LocksAreHeld`). All calls lock in the order of the kinds, so the one that
  waits for the latest kind waits for a call that goes on: no deadlock. For the
  refinement, `SeenRight` says of each scope how it is seen: as it will be once the
  update that has it locked wrote its first scope, as its copy once a fork has it
  whole, and else as it is. An update then is the step that writes its first scope, a
  snapshot or a fork the step that copies the last one, and every other step
  stutters. VariableStore takes `WithinLimits` and `Apply` as parameters, so the
  proof does not look into them: what they add up is a fold.
- CookieJar: five conjuncts per process: its changes are counted (`Counts`); a
  jar whose count is that of its save is as it was saved (`Skips`); what it did
  not change or take is as it was saved (`Unchanged`); while a merge waits to be
  written, the file differs from it only in what the process changed, took or
  let expire (`Writes`, which holds because the lock keeps the file); and what a
  server deleted waits for a save or is in the one under way (`Deletes`). An
  action changes what belongs to one process; `OthersStayGood` gives the rest.
- CollectionFiles: the tree is sound whatever happens (`IsSound`: every item is in
  a folder, a request is in one file, those nobody deleted are there), but that a
  change under way can be undone, or that an import has written what it meant to,
  holds only while nothing else works in their collections. So what the invariant
  says of them (`OpFits`, `ImpFits`) is of the part of the files in those
  collections (`Part`), and only while they are `alone`; a step elsewhere leaves
  that part as it is (`SameBut`), and one there ends being alone. `MoveUndoes` and
  `CreationUndoes` say that undoing now gives back a sound tree with all that is
  to be kept. Paths are sequences, so a file is under at most one folder to be
  moved, by induction over the length (`Smallest`).
  The attempt found two mistakes of the model. An operation that begins in
  the folder of an import disturbs it from then on, not from its first write: with
  3 edits TLC then found ImportsKeepTheirOrder violated. And a creation that
  fails takes away what is at its path, also if another program has replaced it;
  ItemsStay names that as an exception.
- AgentThread: who waits for whom. While a prompt waits for options, those it
  waits for are the ones unanswered when it was taken up (`WaitsFit`), so none is
  left when it goes on; a prompt carries the briefing exactly while the agent has
  had none and none is on its way (`AgentInv`), through drops, failures and new
  threads.
- Limits of EnvironmentSession: an update is checked and written under the same
  locks, so what was accepted still fits when it is written (`Allowed`). The
  bytes are a sum over a set, by the community modules' MapThenSumSet, which
  picks *some* function that satisfies a recursion over subsets. That there is
  one, and one only for the subsets of a finite set, follows from a smallest
  counterexample by cardinality; then the sum does not depend on what is picked,
  and removing a name cannot raise it.
- GrpcDraft: a definition describes the services of what it is for; a call that
  starts keeps the settings it started with; what reflection loads is of the
  current ones; and an Invoke that waits is served. HistoryAlwaysPairs adds what
  history was told of the call that is open, and ResponseAlwaysFollows is an
  action property from the same invariant: an end that is shown is that of the
  call whose number the tab has. The second is what makes the
  first useful: when a script's call returns with a definition, the check against
  the current settings decides whether the tab keeps it.
- GrpcCall: what the tab shows and what waits for it is one sequence; a batch
  moves its boundary, so only the task, the scripts and a cancel change it. The
  messages in it are the first `p`, and those the scripts have not seen are the
  rest (`NumbersFit`): a call that ended has none of these left, so it shows all.
  After an end only messages the call sent are queued (`OpenFits`), so dropping
  the events that are left loses no other. TLC checked the invariant on 89,165
  states, 2 messages each way.
- ScriptQueue: RoomIsPassedOn speaks of the editors that wait, of the queue
  without those that gave up (`Live`), and of those that were told of room. The
  invariant adds that a query is of an editor that waits for it and is there once
  (`QueriesFit`), and that nobody listens twice (`ListenersFit`); what removing
  one element does to a sequence is in lemmas of their own.
- WebSocket: each sender has one slot beyond the limit and does nothing else
  while it waits in it (`QueueFits`). `HistoryFits` says what history ends with
  while a connection is open. For the wake-ups, the reader has set its waker
  before it looks at the bytes (`WakeFits`), so whoever takes bytes off after
  the look finds it set.
- Preferences: the edit under way is the one that holds the lock, and it started
  from what is in memory and in the file (`LockFits`, `EditFits`); the entry it
  writes has an id that no other has, so the keyring loses what the file refers to
  only after the file refers to something else. A secret in memory, in the page
  or in a waiting edit was typed, or is empty because the keyring could not be
  read, and then carries the marker (`SecretsFit`). `WishesFit` follows what was
  typed last through the page, the last edit and the entry being written
  (`Reaches`), with the one exception LastEditWins names (`Cleared`). Every step
  of an edit is an `EditStep`, whose lemma says what such a step leaves alone. TLC
  checked the invariant on 9,389,464 states with 3 edits.
- History: the worker is always behind the list, so the invariant says of each job
  in the queue what it will do to a request that is kept, listed or no longer
  listed. Nothing that waits takes away what is kept (`KeptFits`), and nothing
  from the save of a listed request on takes that one (`SavesFit`); a request the
  saved list may hold is kept, failed, or has a job that changes it (`IndexFits`);
  a record is written after its body and removed before it, and a job that clears
  everything names every request that has a file by then (`BodiesFit`); and while
  nothing failed, the last list to be written is the list, and every file of a
  request outside it has its removal to come (`EndsFit`). Each change of the list
  is a job with the same shape (`Queued`), proved once; doing an operation moves
  the first job on (`Shift`), and a job that is done or failed moves the queue on
  (`Left`). TLC checked the invariant on 5,913,312 states with a limit of 1 and 3
  requests.
- Environments: files and tabs know each other by name only, so the invariant says
  that the list names files that are there, that each tab follows the file of its
  name, and that no two tabs have one name (`TabsFit`). Every action leaves it in
  one of three ways: no file goes (`FilesStay`, `WritesKeeps`), one tab takes a
  name that no file had (`NamedTabsFit`), or a tab goes with its file
  (`RemainingTabsFit`). The two action properties follow files instead of tabs:
  where the variables of a file are after a step (`Stay`), and where the active
  one is (`Remains`); that it comes back at a launch needs ChoiceIsSaved. TLC
  checked the invariant on 67,268 states, those of the run.
- RequestExchange: the queue and what the executor holds back continue what the
  log shows (`UpdatesFit`: each update has the number after the one before it), so
  a batch can be appended as it is; only a stop lets the executor drop some. Where
  the executor is tells what the tab can know: before it opened a stream nothing
  was ever queued (`ExecutionFits`), so a timeout finds no stream. History has the
  requests before the one that is sent, each once (`RecordsFit`), and what
  cancel() saw of it decides whether it joins them (`GhostsFit`). Both ends of a
  request are one `OverStep`. TLC checked the invariant on 4,928 states with 3
  requests of up to 5 events.
- ScriptedSend: wherever a request is, the scripts reported and those still to
  run make up those of its phase (`PreFits`, `PostFits`), and the session holds
  the changes of those reported without error; a closure whose future is gone
  keeps to this too. A script past the check of the flag is the one that may still
  change the session of a request that is gone, and the next one finds the flag
  set (`CancelFits`). Each end of a script either goes on with the next or stops
  the request, one lemma each (`ReportsKeep`, `StoppedKeep`). TLC checked the
  invariant on 78,012 states with both scripts before and after.
- CollectionRunner: a request that was not cancelled is the one that the run's
  task waits for (`TaskFits`), and what it did is where its results are looked
  for once it answers (`CookiesFit`); one that was cancelled has the jar and the
  options of its run, so it adds nothing that the run keeps apart (`Apart`).
  `Progress` counts: without a choice, the results are as many as the positions
  before the cursor, so a run that ends by itself has one for each.
- Recursive functions: `Live` and `BytesOf` are LET definitions by recursion over
  a sequence. That they exist, and what they return, follows from the least
  element of a set of naturals (`Smallest`), which is a fact about sets and needs
  no induction theorem.
- SessionFile: numbers are given once and grow, so a save whose number is larger
  than the last one's holds what is newer. Updater: a check has the number of
  the latest one exactly when its track is the one looked at. UpdateInstaller:
  for each place in the script, which of the two paths holds which version, as
  long as no rm failed and no version removed the backup too early
  (`NothingIsLost => Place`); a version that removes the backup at any time is
  either the new one while the script waits for it, or one of these mishaps.

The runs' properties are those of the unions, and a theorem states each that is
proved: its proof takes the part's invariant under `part = "x"` (`Kept`), so that
what was proved of a part by itself is used as it is. The instances in a module
of proofs and those of a union are the same over the same variables, which a lemma
for each says by expanding both (`CallIsSame`, `ThreadIsSame` and the like). The
hypotheses of such a theorem are those of the parts, and the instances of the
runs satisfy them.

Model-checked only, because the provers at hand cannot do it:

- liveness: `Settles`, `AnswersArrive`, `StoresSettle`, `ExchangesEnd`,
  `EveryRunEnds`, and the fairness of the refinement;
- what an algorithm computes for every graph, by recursion over it:
  `TablesAreRight`, `LoopsFinish` and `TurnsAreTaken`. FlowGraph filters with
  SelectSeq, which tlapm does not expand.

Model-checked only, because it holds of the run's arrangements and not of all:

- `IterationsNeverMix`. What the docs say of iterations (docs/flows.md:75) is
  not so of a block that two loops lead into, nor of a loop that starts again
  before its end came off the stack, by a condition behind an Or that both lead
  to it: a Record then takes one field from the last item of the first pass and
  one from the first of the second, as `runtime.rs:262` compares iterations of
  one loop run only. The run has flows whose loops and Collects are bracketed,
  and a proof would need that of the graph as its first lemma.

Not proved yet: `SidebarIsFaithful`, which relates the registry to the files
through every reload, `TabsStayAsLeft` and `EditorKeepsTrack`.

## 6. Findings

Each is a violation run whose counterexample is a run of the program.

1. `flow_beside`: a loop that waits outside keeps the inner loop of an item from
   starting, so the next item of the outer loop is handled first and the inner
   values never meet their own (`flow/src/runtime.rs:126`; docs/flows.md:71).
2. `flow_editor`: a new block that takes the ID of one deleted during a run is
   shown with the runs of the deleted one
   (`tab_ui/src/flow_editor/editor.rs:831`).
3. `saved_ask`: a page with edits whose collection leaves with its branch and
   returns with other settings is saved without asking
   (`collection/src/registry/linking.rs:143`; `main_view.rs:1832`). Flows lose
   their count in the same way (`flow/src/library.rs:218`).
4. `git_pulls`: a pull right after a commit is taken for the commit, and what it
   brought is not shown (`git_state.rs:417`; docs/git.md:53).
5. `cookies_others`: a cookie that expired in one process and was renewed by
   another is taken out of the file by the next save of the first
   (`request/src/cookies.rs:563`; the comments at 112 and 541). Cookies taken in
   a save whose write failed are the other exception of OnlyOwnChangesReplace:
   the next save takes them for changes of its own.
6. `agent_allows`: an agent that turns down the mode that asks nothing, or
   changes to one that asks, is shown in that mode while the panel answers its
   questions by itself (`agent_panel/src/panel.rs:508`; the comment at 856).
7. `strip_asks`: a draft that is restored at a launch counts from its file as it
   is then, so saving it replaces what changed while the app was closed, without
   asking (`main_view.rs:682`; docs/git.md:56).

Seen while modelling, without a run of their own:

- `follow_flows` selects no tab when the flow of the selected one is gone, so the
  placeholder is shown beside open tabs (`main_view.rs:925`; `placeholder.rs:10`):
  the exception of SelectionStep. `follow_reload` selects a neighbour.
- Edits of a collection's page, and of a flow whose file is gone, are not in the
  tabs of the next launch (`main_view.rs:534`: "unless the tab kept unsaved
  changes to it").
- A runner tab of a collection that a reload finds gone stays, unless the
  collection's page or a request of it was open (`main_view.rs:1845`).
- A reload that replaces an unedited tab takes away the question that another
  tab asks, and a name that is being typed in the replaced one.
- An import whose directory a reload read before `add_collection` is in the
  sidebar twice until the next reload (`registry/importing.rs:71`).
- A reload that reads between the steps of an operation that then fails takes
  what was undone, as a failed operation counts no revision (`store.rs:277`).
- A folder renamed to a name that its order file still lists takes, after a
  reload, the later of the two places (`order.rs:19`).
- A file that another program puts at the destination between the look and the
  rename is replaced (`registry/movement.rs:66`).
- The app saves the preferences it holds in memory, and with them the keyring
  entry that a CLI command has replaced and deleted meanwhile
  (`preferences/src/store.rs:189`; docs/cli.md:52 says to quit the app first).
- A timeout while the scripts before a request run loses the reports of scripts
  whose changes of the session stay; and a script that a timeout left running can
  replace the `pm.variables` of a run after its next request began, as
  `resolve()` does not look at the flag (`scripts/runtime.rs`).
- A file that cannot be attached, or variables that cannot be filled in, fail a
  script whose changes of the session stay.
- A value that another loop collects later meets only the last iteration
  (docs/flows.md:75), and a cycle around a loop starts its next pass before the
  loop's Collect has sent (`flow/src/runtime.rs:133`; the comment at 594).
- A flow store that changed during a read and was asked for another is read a
  third time (`workspace/src/flow_panel.rs:170`); OneMoreServesBoth is stated of
  collections.
- A rename in the sidebar takes a file with another id without looking at it
  (`collection/src/registry/mutations.rs:226`), and the count starts again.
- A failed status leaves no HEAD to compare the next with, and a pull stopped by
  a conflict moves none: both are in `missable`, the exception of SidebarFollows.
- After a query failed, `is_running()` of script queries says that a compiler is
  loaded although it was dropped, so that a hover loads one (`worker.rs:26`).
- An update track chosen during a download is not looked at when it ends
  (`updater/src/service.rs:111`; docs/releases.md:3).
- A user who opens the old version while the script that replaces it works makes
  that version confirm its start and remove the copy that the script has just
  moved out of the way (`updater/src/install.rs:60` and 136): the mishap `removed`.
  When the new version then cannot be moved in, no version is left. A new version
  that the user opens right after pkill (line 88) does the same to the copy that
  is about to move back.
- The script does not look at three of its commands. When `rm -rf` leaves the
  directory of an older backup (line 59), the app is moved into it and what moves
  back is no app; when it leaves a part of the new version (lines 67 and 93), the
  backup is moved into that; and when the move back fails (lines 68 and 94), the
  script ends with nothing at the path of the app and the copy beside it: the
  mishaps `clear`, `remove` and `back`.
- A new version that hangs and that the user opens again right after it was
  stopped goes on hanging, as `open` only brings it to the front (line 97).
- A Stop that is queued behind its prompt is handled before the spawned task of
  the prompt has run. On a connection where no option was ever set, the task has
  nothing to wait for and does not compare the stops (`agent/src/connection.rs:258`,
  259 and 277): the notification goes out before the prompt, and the turn goes on
  until the user stops once more. It is the exception of StopEndsTheTurn.
- LastEditWins of Preferences leaves out an edit made while the credentials
  could not be read at the start (the marker of `settings_ui/src/proxy.rs`).
- Two changes of an agent's variables write the keyring at the same time and may
  end in either order, with the names of the other in the file
  (`preferences/src/store.rs:502`).
- A request that goes out between cancel()'s look and the end of its task is not
  in history (`request_draft/execution.rs:445`): the exception `between`.
- Messages in the queue of a WebSocket that closes may still be sent, although
  the comment at `request/src/websocket.rs:270` says they are dropped; and a
  message whose send fails is not in the log, although the server may have it.
- The response of a gRPC tab goes on waiting when the URL of a request with a
  `.proto` file was cleared while its Invoke waited (`invocation.rs:91`), the
  exception of KeepsResponse.
- The Sent event of a gRPC message is queued after the message was handed over
  (`request/src/grpc/call.rs:28` and 94), so the answer may be logged first.
- A log entry of a Log block that was deleted is filled by a later run when the
  block's ID was given out again.
- A list of environments that cannot be read after a rename keeps the old name,
  and opening that gives the environment a second tab (`environments.rs:149`).
- The import of an environment creates an empty file and writes it later by its
  name (`environment/src/global.rs:96` and 115): when the empty one is renamed
  and another takes the name in between, the other's variables are replaced.
  It is the exception `Imports` of KeepsVariables.
- The question before an environment is deleted keeps its name
  (`environment_panel.rs:71`), which may be another's when it is answered.
- Unsaved variables of an environment tab are not kept in the session.
- A tab opened while its file could not be read cannot be saved after the file
  was repaired (`environment_editor.rs:92`).
- `git/src/command.rs` writes the input of a command before it looks at the
  time, so a Git that does not read its input is not stopped.

## 7. Limits of what is shown

- EndedLoopsAreQuiet is about flows whose loops and Collects are bracketed; the
  others are documented to gather elsewhere.
- NoSilentOverwrite leaves out a tab whose item memory had lost; that is
  finding 3.
- OnlyOwnChangesReplace leaves out what expired and what a failed save took;
  those are finding 5.
- SidebarFollows leaves out the changes that Git's status does not tell.
- SidebarIsFaithful leaves out what other programs changed, and folders whose
  order file lists a name twice.
- EditsSurvive of TabStrip counts as given up what the session does not keep, and
  the edited settings of a collection that the user deletes.
- AVersionRemains, KeepsWhatConfirmed and UpdateEnds leave out what the script
  does not look at and a version that removes its copy too early: `mishaps`, with
  the commands named in section 6.
- StopEndsTheTurn leaves out a stop that overtakes its prompt; section 6.
- The parts of a union are checked side by side, not together: that one part's
  promise is what another assumes (section 1.3) is read off the modules.
- The models of Git, the file system, servers and agents are what the app can
  see of them; a crash in the middle of a Git command is not modelled.
