------------------------------ MODULE MCTabs ------------------------------
(***************************************************************************)
(* The tabs of saved items, the files and folders they are saved in, the   *)
(* call of a gRPC tab and the queries of the script editors, in one run.   *)
(* These share no state in the models, so a behavior is one of a single    *)
(* part and the variables of the others keep the value they begin with.    *)
(***************************************************************************)
EXTENDS MCSavedTabs

CONSTANTS
  Editors, NoEditor, QueueLimit, MaxAsks,                                 \* of the queries
  MaxReceived, MaxSent,                                                   \* of the call
  Collections, Folders, Files, Reserved, FileRequests, ImportedItems, Idle, Nothing, Unreadable,
  MaxDepth, MaxEdits, MaxTroubles

VARIABLE part

\* Of the queries.
VARIABLES editor, queue, listeners, notified, worker, query, loaded, running, used, asks
\* Of the call.
VARIABLES kind, scripts, executor, raw, forwarder, output, messages, sent, call, log
\* Of the files.
VARIABLES tree, orders, registry, operation, reload, reloadPending, import, openRequests, edits,
          troubles, kept, strays, readAsIs, spoiled

Q == INSTANCE ScriptQueue WITH pending <- queue, current <- query
C == INSTANCE GrpcCall
F == INSTANCE CollectionFiles WITH
       Requests <- FileRequests, disk <- tree, reading <- reload, pending <- reloadPending,
       tabs <- openRequests, current <- readAsIs

savedVars == <<vars, focus>>
queriesVars == <<editor, queue, listeners, notified, worker, query, loaded, running, used, asks>>
callVars == <<kind, scripts, executor, raw, forwarder, output, messages, sent, call, log>>
filesVars == <<tree, orders, registry, operation, reload, reloadPending, import, openRequests, edits,
               troubles, kept, strays, readAsIs, spoiled>>
tabsVars == <<part, savedVars, queriesVars, callVars, filesVars>>

-----------------------------------------------------------------------------
\* Of the run: a collection with a request in it and in a folder, and perhaps
\* another; the order file names what is gone too.  The import's second item
\* comes first by name.
Small == [p \in {<<1>>, <<1, 5>>, <<1, 8>>, <<1, 5, 9>>} |->
            IF p = <<1, 8>> THEN "a" ELSE IF p = <<1, 5, 9>> THEN "b" ELSE "folder"]
TwoCollections ==
  [p \in DOMAIN Small \union {<<2>>} |-> IF p = <<2>> THEN "folder" ELSE Small[p]]
RunImport == <<[name |-> 9, request |-> "i"], [name |-> 8, request |-> "j"]>>

\* The variables of a part that a behavior is not of.
NothingSaved ==
  /\ Init /\ disk = [i \in Items |-> None]
  /\ focus = CHOOSE i \in Kinds : TRUE
NoQueries ==
  /\ editor = 0 /\ queue = 0 /\ listeners = 0 /\ notified = 0 /\ worker = 0 /\ query = 0
  /\ loaded = 0 /\ running = 0 /\ used = 0 /\ asks = 0
NoCall ==
  /\ kind = 0 /\ scripts = 0 /\ executor = 0 /\ raw = 0 /\ forwarder = 0 /\ output = 0
  /\ messages = 0 /\ sent = 0 /\ call = 0 /\ log = 0
NoFiles ==
  /\ tree = 0 /\ orders = 0 /\ registry = 0 /\ operation = 0 /\ reload = 0 /\ reloadPending = 0
  /\ import = 0 /\ openRequests = 0 /\ edits = 0 /\ troubles = 0 /\ kept = 0 /\ strays = 0
  /\ readAsIs = 0 /\ spoiled = 0
SomeFiles ==
  /\ \/ tree = Small /\ orders = <<>>
     \/ tree = TwoCollections /\ orders = [d \in {<<1>>} |-> <<8, 6, 5>>]
  /\ F!Init

TabsInit ==
  /\ part \in {"saved", "queries", "grpc_call", "files"}
  /\ IF part = "saved" THEN MCInit ELSE NothingSaved
  /\ IF part = "queries" THEN Q!Init ELSE NoQueries
  /\ IF part = "grpc_call" THEN C!Init ELSE NoCall
  /\ IF part = "files" THEN SomeFiles ELSE NoFiles

OthersStay ==
  /\ UNCHANGED part
  /\ part # "saved" => UNCHANGED savedVars
  /\ part # "queries" => UNCHANGED queriesVars
  /\ part # "grpc_call" => UNCHANGED callVars
  /\ part # "files" => UNCHANGED filesVars
Goes(name, action) == part = name /\ action /\ OthersStay

TabsNext ==
  \/ Goes("saved", MCNext)
  \/ Goes("queries", Q!Next)
  \/ Goes("grpc_call", C!Next)
  \/ Goes("files", F!Next)

SavedStep(action) == part = "saved" /\ action /\ UNCHANGED focus
TabsSpec ==
  /\ TabsInit /\ [][TabsNext]_tabsVars
  /\ \A i \in Items : WF_savedVars(SavedStep(ReadItem(i)))
  /\ WF_savedVars(SavedStep(CollectionsRead)) /\ WF_savedVars(SavedStep(FlowsRead))
  /\ WF_queriesVars(part = "queries" /\ ((\E e \in Editors : Q!Continue(e)) \/ Q!Work))
  /\ WF_callVars(part = "grpc_call" /\ C!Pipeline)
  /\ WF_filesVars(part = "files" /\ F!Works)
  /\ WF_filesVars(part = "files" /\ F!Background)

-----------------------------------------------------------------------------
(***************************************************************************)
(* SavedTabs, main_view.rs:1833: a tab without edits shows what memory     *)
(* holds after a reload, and no reload takes the edits of another.         *)
(***************************************************************************)
TabsFollow == CleanTabsFollow /\ EditsSurvive

(***************************************************************************)
(* ScriptQueue, worker.rs:61: while an editor waits and the queue has      *)
(* room, another that was notified, or that is about to look at the queue, *)
(* will tell it.                                                           *)
(***************************************************************************)
RoomIsPassedOn == part = "queries" => Q!TypeOK /\ Q!RoomIsPassedOn

(***************************************************************************)
(* GrpcCall, invocation.rs:311: a call shows each message it received once *)
(* and in order, and all of them when the server ended it, however the     *)
(* events were batched and whatever scripts ran; the reports of scripts    *)
(* are where their events are, and only messages it sent follow its end.   *)
(***************************************************************************)
ReceivedAreShown ==
  part = "grpc_call" => C!TypeOK /\ C!ReceivedAreShown /\ C!ScriptsAreInPlace

(***************************************************************************)
(* CollectionFiles, movement.rs:66 and order.rs:48: a request that nobody  *)
(* deleted is in one file, whatever was moved, renamed, interrupted or     *)
(* failed; what failed changed neither the files nor their order; and an   *)
(* import keeps the order of its source.                                   *)
(***************************************************************************)
ItemsAreSafe ==
  part = "files" => F!ItemsStay /\ F!FailuresChangeNothing /\ F!ImportsKeepTheirOrder

(***************************************************************************)
(* CollectionFiles, store.rs:264: what the sidebar shows of files that no  *)
(* other program changed is what a restart would show, in that order, and  *)
(* each tab finds its request there.                                       *)
(***************************************************************************)
SidebarIsFaithful ==
  part = "files" => F!TypeOK /\ F!SidebarIsFaithful /\ F!TabsFindTheirs

Asked(e) == part = "queries" /\ Q!Asked(e)
\* The part of a behavior is always the same, so these are four promises.
\* The first is SavedTabs' ReloadArrives; in the other parts it is quiet.
UnderWay ==
  \/ part = "saved" /\ wanted # {}
  \/ part = "queries" /\ Q!Used
  \/ part = "grpc_call" /\ C!Answered
  \/ part = "files" /\ F!Busy
(***************************************************************************)
(* What the background owes a tab arrives.  A reload that was asked for is *)
(* read, and one more read serves all that were asked for during one; a    *)
(* query is answered or given up however full the queue was, and the       *)
(* memory of a compiler is released; once the server ended a call, the tab *)
(* shows it ended, after the scripts that follow it ran; and a change of   *)
(* the files, an import and a reload end, however they meet.               *)
(***************************************************************************)
AnswersArrive ==
  /\ []OneMoreServesBoth
  /\ \A e \in Editors : Asked(e) ~> ~Asked(e)
  /\ Quiet => (UnderWay ~> ~UnderWay)
=============================================================================
