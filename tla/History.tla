------------------------------ MODULE History -------------------------------
(***************************************************************************)
(* The sent requests that the app keeps: crates/history/src/history.rs,    *)
(* with the jobs of crates/workspace/src/history_panel.rs.  The list       *)
(* changes at once; one worker saves the changes in their order, a file at *)
(* a time, and reads the requests that are opened in between.  Any file    *)
(* operation may fail and the app may be killed at any point.  A request   *)
(* is the number of its place among those sent; its record and the body of *)
(* its response are a file each, and it may end later than it is added.    *)
(***************************************************************************)
EXTENDS Naturals, Sequences, FiniteSets, SequencesExt

CONSTANTS LIMIT,
          MaxSent,     \* bound: requests sent
          MaxChanges,  \* bound: changes and reads
          MaxFaults    \* bound: failed operations and killed apps

VARIABLES
  app,      \* "open", "quitting" or "closed"
  list,     \* History.entries
  ended,    \*   those whose outcome is known
  jobs,     \* the worker's queue; the first is under way
  undo,     \* added requests whose failed save the panel hears of next
  index,    \* index.json
  files,    \* the files of requests
  sent,     \* the requests added so far
  kept,     \* ghost: saved and since not deleted
  faulty,   \* ghost: touched by a job that failed or was cut off
  missing,  \* ghost: opened, and not found
  changes, faults

vars == <<app, list, ended, jobs, undo, index, files, sent, kept, faulty, missing, changes, faults>>

Requests == 1 .. MaxSent
Extensions == {"json", "body"}

Init ==
  /\ app = "open"
  /\ list = {} /\ ended = {} /\ jobs = <<>> /\ undo = {}
  /\ index = [list |-> {}, ended |-> {}] /\ files = {}
  /\ sent = {} /\ kept = {} /\ faulty = {} /\ missing = {}
  /\ changes = 0 /\ faults = 0

-----------------------------------------------------------------------------
(***************************************************************************)
(* Changes of the list.  Each becomes a job: the file operations of        *)
(* Change::save and the requests it is about.                              *)
(***************************************************************************)
Op(do, id, extension) == [do |-> do, id |-> id, extension |-> extension]
\* mutants: the body goes first, or stays
RemovesRecordOnly(id) == <<Op("remove", id, "json")>>
RemovesBodyFirst(id) == <<Op("remove", id, "body"), Op("remove", id, "json")>>
Removes(id) == <<Op("remove", id, "json"), Op("remove", id, "body")>>
WriteIndex(to, over) == <<[do |-> "index", list |-> to, ended |-> over]>>

Job(kind, id, about, ops) == [kind |-> kind, id |-> id, about |-> about, ops |-> ops]
Queues(job) == jobs' = Append(jobs, job)

\* Two files of each, one request after the other.
RemovesAll(removed) ==
  LET order == SetToSeq(removed)
  IN  [n \in 1 .. 2 * Len(order) |-> Removes(order[(n + 1) \div 2])[2 - (n % 2)]]

\* Newest first: those beyond LIMIT leave, which may be the added one itself.
Oldest(all) == {id \in all : Cardinality({newer \in all : newer >= id}) > LIMIT}

Counts == changes < MaxChanges /\ changes' = changes + 1

Record(id) ==
  /\ app = "open" /\ id \notin sent
  /\ LET removed == Oldest(list \union {id})
         entries == (list \union {id}) \ removed
     IN  /\ list' = entries
         /\ Queues(Job("save", id, {id} \union removed,
                       <<Op("write", id, "body"), Op("write", id, "json")>>
                         \o RemovesAll(removed) \o WriteIndex(entries, ended)))
         /\ kept' = kept \ removed
  /\ sent' = sent \union {id}
  /\ UNCHANGED <<app, ended, undo, index, files, faulty, missing, changes, faults>>

\* A call or a connection ended: nothing changes once it was deleted.
End(id) ==
  /\ app = "open" /\ id \in list \ ended /\ Counts
  /\ ended' = ended \union {id}
  /\ Queues(Job("change", 0, {}, WriteIndex(list, ended \union {id})))
  /\ UNCHANGED <<app, list, undo, index, files, sent, kept, faulty, missing, faults>>

Deletes(id) ==
  /\ list' = list \ {id}
  /\ Queues(Job("change", 0, {id} \intersect list,
                RemovesAll({id} \intersect list) \o WriteIndex(list \ {id}, ended)))
  /\ kept' = kept \ {id}

Delete(id) ==
  /\ app = "open" /\ id \in list /\ Counts
  /\ Deletes(id)
  /\ UNCHANGED <<app, ended, undo, index, files, sent, faulty, missing, faults>>

Clear ==
  /\ app = "open" /\ list # {} /\ Counts
  /\ list' = {} /\ kept' = {}
  /\ Queues(Job("change", 0, sent, <<[do |-> "removeAll"], [do |-> "removeIndex"]>>))
  /\ UNCHANGED <<app, ended, undo, index, files, sent, faulty, missing, faults>>

\* mutant: a request is read at once
ReadsAtOnce(job) == jobs' = <<job>> \o jobs
Reads(job) == Queues(job)

Open(id) ==
  /\ app = "open" /\ id \in list /\ Counts
  /\ Reads(Job("read", id, {id}, <<[do |-> "read", id |-> id]>>))
  /\ UNCHANGED <<app, list, ended, undo, index, files, sent, kept, faulty, missing, faults>>

\* A request whose files were not written cannot be opened.
Undo(id) ==
  /\ app = "open" /\ id \in undo
  /\ undo' = undo \ {id}
  /\ Deletes(id)
  /\ UNCHANGED <<app, ended, index, files, sent, faulty, missing, changes, faults>>

Quit ==
  /\ app = "open"
  /\ app' = "quitting"
  /\ Queues(Job("quit", 0, {}, <<>>))
  /\ UNCHANGED <<list, ended, undo, index, files, sent, kept, faulty, missing, changes, faults>>

-----------------------------------------------------------------------------
(***************************************************************************)
(* The worker.                                                             *)
(***************************************************************************)
\* mutant: the newest job goes first
TakenLast == Len(jobs)
Taken == 1

Current == jobs[Taken]
OpDone == [jobs EXCEPT ![Taken].ops = Tail(@)]

\* A file is replaced whole.
Does(op) ==
  CASE op.do = "write"     -> files' = files \union {<<op.id, op.extension>>} /\ UNCHANGED <<index, missing>>
    [] op.do = "remove"    -> files' = files \ {<<op.id, op.extension>>} /\ UNCHANGED <<index, missing>>
    [] op.do = "removeAll" -> files' = {} /\ UNCHANGED <<index, missing>>
    [] op.do = "removeIndex" -> index' = [list |-> {}, ended |-> {}] /\ UNCHANGED <<files, missing>>
    [] op.do = "index"     -> index' = [list |-> op.list, ended |-> op.ended \intersect op.list]
                              /\ UNCHANGED <<files, missing>>
    [] op.do = "read"      -> missing' = missing \union {id \in {op.id} : <<id, "json">> \notin files}
                              /\ UNCHANGED <<index, files>>

Works ==
  /\ app # "closed" /\ jobs # <<>> /\ Current.ops # <<>>
  /\ Does(Head(Current.ops))
  /\ jobs' = OpDone
  /\ UNCHANGED <<app, list, ended, undo, sent, kept, faulty, changes, faults>>

Finishes ==
  /\ app # "closed" /\ jobs # <<>> /\ Current.ops = <<>>
  /\ jobs' = RemoveAt(jobs, Taken)
  /\ kept' = IF Current.kind = "save" THEN kept \union (Current.about \intersect list) ELSE kept
  /\ app' = IF Current.kind = "quit" THEN "closed" ELSE app
  /\ UNCHANGED <<list, ended, undo, index, files, sent, faulty, missing, changes, faults>>

\* mutant: the worker stops
StopsAfterFailure == <<>>
AfterFailure == RemoveAt(jobs, Taken)

\* The rest of the change is left; a failed removal of all leaves any files.
Fails ==
  /\ app # "closed" /\ jobs # <<>> /\ Current.ops # <<>>
  /\ faults < MaxFaults /\ faults' = faults + 1
  /\ IF Head(Current.ops).do = "removeAll" THEN files' \in SUBSET files ELSE UNCHANGED files
  /\ jobs' = AfterFailure
  /\ faulty' = faulty \union Current.about
  /\ undo' = IF Current.kind = "save" THEN undo \union {Current.id} ELSE undo
  /\ UNCHANGED <<app, list, ended, index, sent, kept, missing, changes>>

-----------------------------------------------------------------------------
Touched == UNION {jobs[n].about : n \in DOMAIN jobs}

Kill ==
  /\ app # "closed"
  /\ faults < MaxFaults /\ faults' = faults + 1
  /\ app' = "closed"
  /\ faulty' = faulty \union Touched
  /\ UNCHANGED <<list, ended, jobs, undo, index, files, sent, kept, missing, changes>>

Load ==
  /\ app = "closed"
  /\ app' = "open"
  /\ list' = index.list /\ ended' = index.ended
  /\ jobs' = <<>> /\ undo' = {}
  /\ UNCHANGED <<index, files, sent, kept, faulty, missing, changes, faults>>

Panel == \E id \in Requests : Record(id) \/ End(id) \/ Delete(id) \/ Open(id) \/ Undo(id)

Worker == Works \/ Finishes \/ Fails

Next == Panel \/ Clear \/ Quit \/ Worker \/ Kill \/ Load

Spec == Init /\ [][Next]_vars /\ WF_vars(Worker)

-----------------------------------------------------------------------------
TypeOK ==
  /\ app \in {"open", "quitting", "closed"}
  /\ list \subseteq sent /\ sent \subseteq Requests /\ ended \subseteq sent /\ undo \subseteq sent
  /\ Cardinality(list) <= LIMIT
  /\ index.list \subseteq sent /\ index.ended \subseteq index.list
  /\ files \subseteq sent \X Extensions

(***************************************************************************)
(* history.rs:79: the list and the files only meet in the order of the     *)
(* jobs.  A request that was saved and not deleted stays in the saved      *)
(* list with its files, whatever fails later or wherever the app is        *)
(* killed.                                                                 *)
(***************************************************************************)
SavedRequestsStay == kept \subseteq index.list /\ kept \X Extensions \subseteq files

(***************************************************************************)
(* history_panel.rs:47: a listed request that is opened is found, although *)
(* it may still have to be saved and may be deleted right after.           *)
(***************************************************************************)
OpenedRequestsAreFound == missing \subseteq faulty

(***************************************************************************)
(* history.rs:220: a record never shows a response without the body it     *)
(* came with, unless a job about it was cut off.                           *)
(***************************************************************************)
RecordsAreWhole ==
  \A id \in sent : <<id, "json">> \in files /\ <<id, "body">> \notin files => id \in faulty

(***************************************************************************)
(* history_panel.rs:80: when the app has quit, the saved list is the list, *)
(* and no file is left of a request that is not in it.                     *)
(***************************************************************************)
QuitSavesEverything ==
  app = "closed" /\ faults = 0 =>
    /\ index = [list |-> list, ended |-> ended \intersect list]
    /\ files = list \X Extensions

Quitting == app = "quitting"

(***************************************************************************)
(* The worker goes on after a job that failed: quitting ends.              *)
(***************************************************************************)
QuittingEnds == Quitting ~> ~Quitting
=============================================================================
