------------------------------ MODULE GitState ------------------------------
(***************************************************************************)
(* The Git repositories that hold collections: crates/workspace/src/       *)
(* git_state.rs, with the commands of crates/git/src/repository.rs and the *)
(* background reload of crates/collection/src/store.rs.  A working tree is *)
(* a content (a number) and a history of contents: Git in a terminal and   *)
(* the actions of the app move it, the status is read beside both, and the *)
(* collections show what they read last.                                   *)
(***************************************************************************)
EXTENDS Naturals, Sequences, FiniteSets, SequencesExt

CONSTANTS Repositories,
          Home,        \* the one in the collections directory, to start
          Happens,     \* what may happen: "terminal", "fails", "stops", "stashes"
          Touched,     \* bound: repositories that Git in a terminal changes
          MaxContents, \* bound: contents a working tree can come to hold
          MaxAsked     \* bound: actions started, saves, refreshes and fetches

ASSUME RepositoriesAssumption == IsFiniteSet(Repositories) /\ Home \in Repositories
ASSUME HappensAssumption == Happens \subseteq {"terminal", "fails", "stops", "stashes"}

VARIABLES
  disk,       \* each repository: what Git and its folder hold
  shown,      \* the content of each that the collections show
  store,      \* Collections: a reload, another asked for, what was read
  known,      \* each repository's status
  found,      \* the repositories that hold collections
  running,    \* the action running, the generation, and its jobs
  committed,  \* repositories whose last action committed
  refresh,    \* a refresh delayed, pending after the scan, a reload after the action
  scan,       \* the statuses being read
  bounds,     \* how much happened
  away,       \* ghost: repositories changed outside since a refresh was asked
  missable    \* ghost: repositories with a change the status does not tell

vars == <<disk, shown, store, known, found, running, committed, refresh, scan,
          bounds, away, missable>>

-----------------------------------------------------------------------------
Halfway == 0     \* the content of a working tree in the middle of a pull
NoCommit == 0    \* the HEAD of a repository without commits

\* `None` and a failed status are both no status; a failure is remembered.
Unread == [is |-> "none"]
Failed == [is |-> "failed"]
HasStatus(s) == s.is = "status"

\* `of` is the content the status was read beside: a ghost.
Status(d, head, of) ==
  [is |-> "status", head |-> head, changes |-> d.changes, upstream |-> d.upstream,
   remote |-> d.remote, interrupted |-> d.interrupted, of |-> of]

HeadOf(s) == IF HasStatus(s) THEN s.head ELSE NoCommit
IsInterrupted(s) == HasStatus(s) /\ s.interrupted

NoAction == [action |-> "none", generation |-> 0, jobs |-> <<>>, succeeded |-> {}]
Running == running.action # "none"

NoScan == [on |-> FALSE, generation |-> 0, unread |-> {},
           heads |-> [r \in {} |-> Unread], statuses |-> [r \in {} |-> Unread]]

\* The collections directory is looked at first, then one after another.
IsNext(r, unread) == r \in unread /\ (Home \in unread => r = Home)

\* Contents are numbered as they come to exist.
Fresh == bounds.contents + 1

Steps(action, hasUpstream) ==
  CASE action = "Init" -> <<"init">>
    [] action = "Commit" -> <<"commit">>
    [] action = "Pull" -> <<"pull">>
    [] action = "Push" -> <<"push">>
    [] action = "Sync" -> IF hasUpstream THEN <<"commit", "pull", "push">>
                                         ELSE <<"commit", "push">>
    [] action = "Publish" -> <<"remote", "commit", "push">>

-----------------------------------------------------------------------------
Init ==
  /\ disk = [r \in Repositories |->
       IF r = Home
       THEN [exists |-> FALSE, content |-> 1, history |-> <<>>, head |-> NoCommit,
             changes |-> TRUE, interrupted |-> FALSE, upstream |-> FALSE, remote |-> FALSE]
       ELSE [exists |-> TRUE, content |-> 1, history |-> <<1>>, head |-> 1,
             changes |-> FALSE, interrupted |-> FALSE, upstream |-> TRUE, remote |-> TRUE]]
  /\ shown = [r \in Repositories |-> 1]
  /\ store = [reloading |-> FALSE, again |-> FALSE, done |-> FALSE, read |-> shown]
  /\ known = [r \in Repositories |-> Unread]
  /\ found = {}
  /\ running = NoAction
  /\ committed = {}
  /\ refresh = [delayed |-> TRUE, pending |-> FALSE, reloadAfter |-> FALSE]
  /\ scan = NoScan
  /\ bounds = [contents |-> 1, asked |-> 0]
  /\ away = {}
  /\ missable = {}

-----------------------------------------------------------------------------
(***************************************************************************)
(* schedule_refresh: nothing while an action runs, which refreshes once it *)
(* is done; after the statuses being read; or after a delay.  Replacing    *)
(* the delayed one keeps one.                                              *)
(***************************************************************************)
Scheduled(isRunning, scanning, now) ==
  IF isRunning THEN now
  ELSE IF scanning THEN [now EXCEPT !.pending = TRUE]
  ELSE [now EXCEPT !.delayed = TRUE]

ScheduleRefresh == refresh' = Scheduled(Running, scan.on, refresh)

\* Collections::reload: one at a time, and one more for all that asked.
Reloads(s) ==
  IF s.reloading THEN [s EXCEPT !.again = TRUE]
  ELSE [s EXCEPT !.reloading = TRUE, !.done = FALSE]

\* refresh_all: an action can leave files halfway, so it waits for its end.
RefreshAll ==
  IF Running
  THEN /\ refresh' = [refresh EXCEPT !.reloadAfter = TRUE]
       /\ UNCHANGED store
  ELSE /\ store' = Reloads(store)
       /\ ScheduleRefresh

-----------------------------------------------------------------------------
(***************************************************************************)
(* What asks for a refresh.                                                *)
(***************************************************************************)
Asks ==
  /\ bounds.asked < MaxAsked
  /\ bounds' = [bounds EXCEPT !.asked = @ + 1]

\* The app saves a request of the repository's collection.
Save(r) ==
  /\ Asks
  /\ disk' = [disk EXCEPT ![r].changes = TRUE]
  /\ store' = [store EXCEPT !.again = store.reloading]
  /\ ScheduleRefresh
  /\ UNCHANGED <<shown, known, found, running, committed, scan, away, missable>>

UserRefreshes ==
  /\ Asks
  /\ RefreshAll
  /\ away' = {}
  /\ UNCHANGED <<disk, shown, known, found, running, committed, scan, missable>>

\* The window comes back to the front, perhaps with a linked folder.
Return ==
  /\ away # {}
  /\ RefreshAll \/ (ScheduleRefresh /\ UNCHANGED store)
  /\ away' = {}
  /\ UNCHANGED <<disk, shown, known, found, running, committed, scan, bounds,
                 missable>>

\* Fetching is done: it moves neither HEAD nor the files.
Fetched ==
  /\ Asks
  /\ \E r \in found : HasStatus(known[r]) /\ known[r].upstream
  /\ ScheduleRefresh
  /\ UNCHANGED <<disk, shown, store, known, found, running, committed, scan, away,
                 missable>>

-----------------------------------------------------------------------------
(***************************************************************************)
(* Reading the statuses, in the background.                                *)
(***************************************************************************)
Found == {r \in Repositories : disk[r].exists}

\* The delay is over, and discover() finds the repositories.
StartScan ==
  /\ refresh.delayed
  /\ refresh' = [refresh EXCEPT !.delayed = FALSE]
  /\ IF Running
     THEN UNCHANGED <<scan, found>>
     ELSE /\ scan' = [NoScan EXCEPT !.on = TRUE, !.generation = running.generation,
                                       !.unread = Found]
          /\ found' = Found
  /\ UNCHANGED <<disk, shown, store, known, running, committed, bounds, away, missable>>

Put(f, r, value) == [x \in DOMAIN f \union {r} |-> IF x = r THEN value ELSE f[x]]

\* One command tells HEAD and the changes, later ones the rest.
ReadHead(r) ==
  /\ IsNext(r, scan.unread) /\ DOMAIN scan.heads \subseteq DOMAIN scan.statuses
  /\ scan' = [scan EXCEPT !.heads = Put(@, r, Status(disk[r], disk[r].head,
                                                     disk[r].content))]
  /\ UNCHANGED <<disk, shown, store, known, found, running, committed, refresh,
                 bounds, away, missable>>

ReadRest(r) ==
  /\ r \in scan.unread \cap DOMAIN scan.heads
  /\ scan' = [scan EXCEPT
                !.unread = @ \ {r},
                !.statuses = Put(@, r, [scan.heads[r] EXCEPT
                                          !.remote = disk[r].remote,
                                          !.interrupted = disk[r].interrupted])]
  /\ UNCHANGED <<disk, shown, store, known, found, running, committed, refresh,
                 bounds, away, missable>>

ReadFails(r) ==
  /\ "fails" \in Happens
  /\ IsNext(r, scan.unread) /\ DOMAIN scan.heads \subseteq DOMAIN scan.statuses
  /\ scan' = [scan EXCEPT !.unread = @ \ {r}, !.statuses = Put(@, r, Failed)]
  /\ UNCHANGED <<disk, shown, store, known, found, running, committed, refresh,
                 bounds, away, missable>>

\* Whether a new status tells that the files changed outside of the app.
MovedHeadOnly(r, status) ==                                    \* mutant
  HeadOf(known[r]) # NoCommit /\ HeadOf(status) # HeadOf(known[r]) /\ r \notin committed

MovedWhileInterrupted(r, status) ==                            \* mutant
  \/ HeadOf(known[r]) # NoCommit /\ HeadOf(status) # HeadOf(known[r]) /\ r \notin committed
  \/ IsInterrupted(known[r])

Moved(r, status) ==
  \/ HeadOf(known[r]) # NoCommit /\ HeadOf(status) # HeadOf(known[r]) /\ r \notin committed
  \/ IsInterrupted(known[r]) /\ ~IsInterrupted(status)

\* Ghost: a status that cannot tell of a change: the move is taken for the
\* app's commit, or there is no HEAD to compare with.
Untold(r, status) ==
  /\ ~Moved(r, status)
  /\ HasStatus(status) => status.of # shown[r] \/ store.reloading
  /\ \/ r \in committed
     \/ HeadOf(known[r]) = NoCommit
     \/ ~HasStatus(status)

OutdatedAnyway == FALSE                                        \* mutant
Outdated == scan.generation # running.generation

ApplyStatuses(statuses) ==
  LET read == DOMAIN statuses \cap found
      moved == \E r \in read : Moved(r, statuses[r])
  IN  /\ known' = [r \in Repositories |-> IF r \in read THEN statuses[r] ELSE known[r]]
      /\ committed' = {}
      /\ store' = IF moved THEN Reloads(store) ELSE store
      /\ missable' = missable \union {r \in read : Untold(r, statuses[r])}

StatusesRead ==
  /\ scan.on /\ scan.unread = {}
  /\ scan' = NoScan
  /\ IF Outdated THEN UNCHANGED <<known, committed, store, missable>>
                 ELSE ApplyStatuses(scan.statuses)
  /\ refresh' = IF refresh.pending
                THEN Scheduled(Running, FALSE, [refresh EXCEPT !.pending = FALSE])
                ELSE refresh
  /\ UNCHANGED <<disk, shown, found, running, bounds, away>>

-----------------------------------------------------------------------------
(***************************************************************************)
(* The background reload of the collections.                               *)
(***************************************************************************)
\* The repositories are read one after another: in one step here, as the
\* properties relate what is read of each to that repository only.
ReadCollections ==
  /\ store.reloading /\ ~store.done
  /\ store' = [store EXCEPT !.done = TRUE,
                            !.read = [r \in Repositories |-> disk[r].content]]
  /\ UNCHANGED <<disk, shown, known, found, running, committed, refresh, scan,
                 bounds, away, missable>>

\* Every event of the collections asks for a refresh, Reloaded too.
Reloaded ==
  /\ store.reloading /\ store.done
  /\ IF store.again
     THEN /\ store' = [store EXCEPT !.again = FALSE, !.done = FALSE]
          /\ UNCHANGED <<shown, missable, refresh>>
     ELSE /\ store' = [store EXCEPT !.reloading = FALSE, !.done = FALSE]
          /\ shown' = store.read
          /\ ScheduleRefresh
          /\ missable' = {r \in missable : store.read[r] # disk[r].content}
                           \union {r \in Repositories : store.read[r] = Halfway}
  /\ UNCHANGED <<disk, known, found, running, committed, scan, bounds, away>>

-----------------------------------------------------------------------------
(***************************************************************************)
(* What moves a working tree.  A change is missable when HEAD is, or comes *)
(* back to, the commit the status knows or is about to.                    *)
(***************************************************************************)
Commits(d) == 1..Len(d.history)

Committed(d, content) ==
  [d EXCEPT !.history = Append(@, content), !.head = Len(d.history) + 1,
            !.content = content, !.interrupted = FALSE]
CheckedOut(d, commit) ==
  [d EXCEPT !.head = commit, !.content = d.history[commit], !.interrupted = FALSE]
\* A rebase stops on top of the new commits, a merge where it was.
Stopped(d, content) ==
  {[Committed(d, content) EXCEPT !.interrupted = TRUE],
   [d EXCEPT !.content = content, !.interrupted = TRUE]}

KnownAlready(r, d) ==
  IF scan.on /\ r \in DOMAIN scan.heads
  THEN d.head \in {HeadOf(known[r]), scan.heads[r].head}
  ELSE d.head = HeadOf(known[r]) /\ ~(IsInterrupted(known[r]) /\ ~d.interrupted)

\* What the files held, and what the collections show or are about to.
Views(r) == {disk[r].content, shown[r], store.read[r]}

Becomes(r, d) ==
  /\ disk' = [disk EXCEPT ![r] = d]
  /\ missable' = IF KnownAlready(r, d) /\ Views(r) # {d.content}
                 THEN missable \union {r} ELSE missable

CountContent ==
  /\ bounds.contents < MaxContents
  /\ bounds' = [bounds EXCEPT !.contents = @ + 1]

\* Git in a terminal pulls or finishes what stopped, commits, switches to
\* another commit, or stops on a conflict, which is resolved or given up.
Terminal(r) ==
  /\ "terminal" \in Happens /\ r \in Touched
  /\ disk[r].exists /\ disk[r].head # NoCommit /\ disk[r].content # Halfway
  /\ \/ CountContent /\ Becomes(r, Committed(disk[r], Fresh))
     \/ CountContent /\ ~disk[r].interrupted
          /\ Becomes(r, [Committed(disk[r], disk[r].content) EXCEPT !.changes = FALSE])
     \/ CountContent /\ ~disk[r].interrupted
          /\ \E commit \in Commits(disk[r]) \ {disk[r].head} :
               Becomes(r, CheckedOut(disk[r], commit))
     \/ CountContent /\ ~disk[r].interrupted /\ "stops" \in Happens
          /\ \E d \in Stopped(disk[r], Fresh) : Becomes(r, d)
     \/ CountContent /\ disk[r].interrupted
          /\ Becomes(r, [disk[r] EXCEPT !.content = Fresh, !.interrupted = FALSE])
     \/ disk[r].interrupted /\ UNCHANGED bounds
          /\ \E commit \in Commits(disk[r]) : Becomes(r, CheckedOut(disk[r], commit))
  /\ away' = away \union {r}
  /\ UNCHANGED <<shown, store, known, found, running, committed, refresh, scan>>

-----------------------------------------------------------------------------
(***************************************************************************)
(* run and init: one action at a time, its jobs one after another.         *)
(***************************************************************************)
Applies(action, status) ==
  HasStatus(status) /\
    CASE action = "Commit" -> status.changes
      [] action = "Pull" -> status.upstream
      [] action = "Publish" -> ~status.remote
      [] OTHER -> status.remote

\* The panel acts in one repository, the command palette in all it applies to.
Targets(action) ==
  LET all == {r \in found : Applies(action, known[r])}
  IN  {{r} : r \in {x \in all : ~IsInterrupted(known[x])}}
        \union (IF action \in {"Pull", "Push", "Sync"}
                THEN {{r \in all : ~IsInterrupted(known[r])}} ELSE {})

Starts(action, jobs) ==
  /\ running' = [action |-> action, generation |-> running.generation + 1,
                 jobs |-> jobs, succeeded |-> {}]

InitHome ==
  /\ Asks
  /\ ~Running
  /\ Home \notin found
  /\ Starts("Init", <<[repository |-> Home, todo |-> <<"init">>]>>)
  /\ UNCHANGED <<disk, shown, store, known, found, committed, refresh, scan, away,
                 missable>>

Run(action) ==
  /\ Asks
  /\ ~Running
  /\ \E targets \in Targets(action) : \E order \in SetToSeqs(targets) :
       IF targets = {}
       THEN ScheduleRefresh /\ UNCHANGED running
       ELSE /\ Starts(action, [i \in DOMAIN order |->
                 [repository |-> order[i],
                  todo |-> Steps(action, known[order[i]].upstream)]])
            /\ UNCHANGED refresh
  /\ UNCHANGED <<disk, shown, store, known, found, committed, scan, away, missable>>

-----------------------------------------------------------------------------
(***************************************************************************)
(* A job's commands, in the background: Job::perform.                      *)
(***************************************************************************)
Job == running.jobs[1]
Performs(step) == running.jobs # <<>> /\ Job.todo # <<>> /\ Job.todo[1] = step

Todo(todo) == running' = [running EXCEPT !.jobs[1].todo = todo]
StepDone == Todo(Tail(Job.todo))
JobFails == running' = [running EXCEPT !.jobs = Tail(@)]

Working == UNCHANGED <<shown, store, known, found, committed, refresh, scan, away>>

JobDone ==
  /\ running.jobs # <<>> /\ Job.todo = <<>>
  /\ running' = [running EXCEPT !.jobs = Tail(@), !.succeeded = @ \union {Job.repository}]
  /\ UNCHANGED <<disk, bounds, missable>>
  /\ Working

\* A command fails without a change; publishing takes its remote back.
GivesUp ==
  /\ JobFails
  /\ disk' = [disk EXCEPT ![Job.repository].remote =
                @ /\ (running.action = "Publish" => Job.todo[1] = "remote")]

StepFails ==
  /\ "fails" \in Happens
  /\ running.jobs # <<>> /\ Job.todo # <<>> /\ Job.todo[1] # "pulling"
  /\ GivesUp
  /\ UNCHANGED <<bounds, missable>>
  /\ Working

InitStep ==
  /\ Performs("init")
  /\ disk' = [disk EXCEPT ![Home].exists = TRUE]
  /\ StepDone
  /\ UNCHANGED <<bounds, missable>>
  /\ Working

AddRemote ==
  /\ Performs("remote")
  /\ IF disk[Job.repository].remote
     THEN JobFails /\ UNCHANGED disk
     ELSE StepDone /\ disk' = [disk EXCEPT ![Job.repository].remote = TRUE]
  /\ UNCHANGED <<bounds, missable>>
  /\ Working

\* Git refuses to commit some files while a merge waits to be finished.
Commit ==
  /\ Performs("commit")
  /\ LET r == Job.repository IN
       IF disk[r].changes /\ disk[r].interrupted
       THEN GivesUp
       ELSE /\ StepDone
            /\ disk' = IF disk[r].changes
                       THEN [disk EXCEPT ![r] = [Committed(@, @.content)
                                                   EXCEPT !.changes = FALSE]]
                       ELSE disk
  /\ UNCHANGED <<bounds, missable>>
  /\ Working

Push ==
  /\ Performs("push")
  /\ StepDone
  /\ disk' = [disk EXCEPT ![Job.repository].upstream = TRUE]
  /\ UNCHANGED <<bounds, missable>>
  /\ Working

PullRefused ==
  /\ Performs("pull")
  /\ ~disk[Job.repository].upstream \/ disk[Job.repository].interrupted
  /\ JobFails
  /\ UNCHANGED <<disk, bounds, missable>>
  /\ Working

NothingToPull ==
  /\ Performs("pull")
  /\ disk[Job.repository].upstream /\ ~disk[Job.repository].interrupted
  /\ StepDone
  /\ UNCHANGED <<disk, bounds, missable>>
  /\ Working

PullStarts ==
  /\ Performs("pull")
  /\ disk[Job.repository].upstream /\ ~disk[Job.repository].interrupted
  /\ CountContent
  /\ disk' = [disk EXCEPT ![Job.repository].content = Halfway]
  /\ Todo([Job.todo EXCEPT ![1] = "pulling"])
  /\ UNCHANGED missable
  /\ Working

\* New commits; only the changes put aside and back; or a conflict.
PullEnds ==
  /\ Performs("pulling")
  /\ LET r == Job.repository
         before == [disk[r] EXCEPT !.content = disk[r].history[disk[r].head]]
         pulled == bounds.contents
     IN  \/ StepDone /\ Becomes(r, Committed(before, pulled))
         \/ "stashes" \in Happens /\ StepDone /\ Becomes(r, before)
         \/ "stops" \in Happens /\ JobFails
              /\ \E d \in Stopped(before, pulled) : Becomes(r, d)
  /\ UNCHANGED bounds
  /\ Working

FinishAction ==
  /\ Running /\ running.jobs = <<>>
  /\ running' = [NoAction EXCEPT !.generation = running.generation]
  /\ committed' = IF running.action \in {"Commit", "Publish"}
                  THEN committed \union running.succeeded ELSE committed
  /\ store' = IF refresh.reloadAfter THEN Reloads(store) ELSE store
  /\ refresh' = Scheduled(FALSE, scan.on, [refresh EXCEPT !.reloadAfter = FALSE])
  /\ UNCHANGED <<disk, shown, known, found, scan, bounds, away, missable>>

-----------------------------------------------------------------------------
Actions == {"Commit", "Pull", "Push", "Sync", "Publish"}

Perform == \/ InitStep \/ AddRemote \/ Commit \/ Push \/ PullRefused \/ NothingToPull
           \/ PullStarts \/ PullEnds \/ JobDone \/ StepFails
Background ==
  \/ StartScan \/ StatusesRead \/ ReadCollections \/ Reloaded \/ FinishAction \/ Perform
  \/ \E r \in Repositories : ReadHead(r) \/ ReadRest(r)

Next ==
  \/ UserRefreshes \/ Return \/ Fetched \/ InitHome
  \/ \E action \in Actions : Run(action)
  \/ \E r \in Repositories : Save(r) \/ Terminal(r) \/ ReadFails(r)
  \/ Background

\* The executor goes on while a task is ready, and every Git command ends or
\* is stopped after a while.  Which task goes on is up to it.
Spec == Init /\ [][Next]_vars /\ WF_vars(Background)

-----------------------------------------------------------------------------
TypeOK ==
  /\ found \subseteq Found
  /\ \A r \in Repositories : disk[r].head \in {NoCommit} \union Commits(disk[r])
  /\ \A r \in Repositories : shown[r] \in 0..bounds.contents
  /\ running.action \in {"none", "Init"} \union Actions
  /\ ~Running => running.jobs = <<>>
  /\ scan.on => DOMAIN scan.statuses \union scan.unread \subseteq Found
  /\ store.again \/ store.done => store.reloading
  /\ committed \subseteq found
  \* What the app committed is known as such until the next status only.
  /\ committed # {} => Running \/ refresh.delayed \/ scan.on

\* No refresh, action or reload is under way or to come, and the window came
\* back since Git ran in a terminal.
Quiet ==
  /\ ~Running /\ ~scan.on /\ ~store.reloading
  /\ ~refresh.delayed /\ ~refresh.pending
  /\ away = {}

(***************************************************************************)
(* docs/git.md "After a pull, or when you switch branches in a terminal,   *)
(* the sidebar and open tabs show the new requests": once quiet, the       *)
(* collections show what the files hold, but for the changes that Git's    *)
(* status cannot tell (`missable`).                                        *)
(***************************************************************************)
SidebarFollows ==
  Quiet => \A r \in Repositories \ missable : shown[r] = disk[r].content

\* The same promise without the exception, for changes by the app's pulls.
PulledRequestsShow ==
  Quiet => \A r \in Repositories : shown[r] = disk[r].content

Tells(status, d) ==
  /\ HasStatus(status)
  /\ status = Status(d, d.head, status.of)

\* Once quiet, the Git panel tells where each repository stands, unless
\* reading it failed: no refresh is lost to an action or to another one.
PanelFollows ==
  Quiet => \A r \in Found : known[r] = Failed \/ Tells(known[r], disk[r])

(***************************************************************************)
(* Once quiet, the sidebar shows what the files hold and the panel where   *)
(* each repository stands, however refreshes, reloads and actions of the   *)
(* app and Git in a terminal came together.                                *)
(***************************************************************************)
ViewsFollow == TypeOK /\ SidebarFollows /\ PanelFollows

(***************************************************************************)
(* git_state.rs:577 "A status read now could catch a pull halfway": no     *)
(* status in the panel was read beside a working tree in the middle of one.*)
(***************************************************************************)
NoStatusCatchesAPull ==
  \A r \in Repositories : HasStatus(known[r]) => known[r].of # Halfway

(***************************************************************************)
(* Refreshes, reloads and actions ask for each other (a reload's event asks*)
(* for a refresh, which may reload), and yet come to rest, unless reading  *)
(* the statuses fails again and again.                                     *)
(***************************************************************************)
Settles ==
  <>[][\A r \in Repositories : ~ReadFails(r)]_vars => <>[](away # {} \/ Quiet)
=============================================================================
