--------------------------- MODULE GitStateProofs ---------------------------
(***************************************************************************)
(* What the sidebar and the Git panel promise of GitState, for any         *)
(* repositories and any number of changes, saves, refreshes and actions.   *)
(***************************************************************************)
EXTENDS GitState, FiniteSetTheorems, TLAPS

-----------------------------------------------------------------------------
(***************************************************************************)
(* Types.                                                                  *)
(***************************************************************************)
Commands == {"init", "commit", "pull", "pulling", "push", "remote"}

DiskType == [exists : BOOLEAN, content : Nat, history : Seq(Nat), head : Nat,
             changes : BOOLEAN, interrupted : BOOLEAN, upstream : BOOLEAN,
             remote : BOOLEAN]
StatusType == [is : {"status"}, head : Nat, changes : BOOLEAN, upstream : BOOLEAN,
               remote : BOOLEAN, interrupted : BOOLEAN, of : Nat]
AnyStatus == StatusType \union {Unread, Failed}
JobType == [repository : Repositories, todo : Seq(Commands)]

\* Functions on some of the repositories.
Partial(S) == UNION {[D -> S] : D \in SUBSET Repositories}

StoreType == [reloading : BOOLEAN, again : BOOLEAN, done : BOOLEAN,
              read : [Repositories -> Nat]]
RunningType == [action : {"none", "Init"} \union Actions, generation : Nat,
                jobs : Seq(JobType), succeeded : SUBSET Repositories]
RefreshType == [delayed : BOOLEAN, pending : BOOLEAN, reloadAfter : BOOLEAN]
ScanType == [on : BOOLEAN, generation : Nat, unread : SUBSET Repositories,
             heads : Partial(StatusType), statuses : Partial(AnyStatus)]

Typed ==
  /\ disk \in [Repositories -> DiskType]
  /\ shown \in [Repositories -> Nat]
  /\ store \in StoreType
  /\ known \in [Repositories -> AnyStatus]
  /\ found \in SUBSET Repositories
  /\ running \in RunningType
  /\ committed \in SUBSET Repositories
  /\ refresh \in RefreshType
  /\ scan \in ScanType
  /\ bounds \in [contents : Nat \ {0}, asked : Nat]
  /\ away \in SUBSET Repositories
  /\ missable \in SUBSET Repositories

-----------------------------------------------------------------------------
(***************************************************************************)
(* A working tree holds a content of its history or one that was made,     *)
(* only a repository with a commit has an upstream, and a remote too but   *)
(* between the first two steps of publishing.                              *)
(***************************************************************************)
Publishing(r) ==
  /\ running.action = "Publish" /\ running.jobs # <<>> /\ Job.repository = r
  /\ Job.todo # <<>> /\ Job.todo[1] = "commit"

DiskFits(r) ==
  LET d == disk[r] IN
  /\ d.head \in 0..Len(d.history)
  /\ \A k \in 1..Len(d.history) : d.history[k] \in 1..bounds.contents
  /\ d.content \in 0..bounds.contents
  /\ shown[r] \in 0..bounds.contents
  /\ store.read[r] \in 0..bounds.contents
  /\ d.head = NoCommit => d.changes /\ ~d.upstream
  /\ d.head = NoCommit /\ d.remote => Publishing(r)
  /\ ~d.exists => shown[r] = d.content /\ store.read[r] = d.content

\* Only the action that runs leaves a working tree halfway, and at once.
HalfwayFits(r) ==
  disk[r].content = Halfway =>
    /\ running.jobs # <<>> /\ Job.repository = r
    /\ Job.todo # <<>> /\ Job.todo[1] = "pulling"

(***************************************************************************)
(* What is left to do: a repository is started by that action only, a pull *)
(* that began is at the front, a push comes after a commit, and a remote   *)
(* is added right before one.                                              *)
(***************************************************************************)
TodoFits(i, todo, repository) ==
  \A k \in 1..Len(todo) :
    /\ todo[k] = "init" <=> running.action = "Init"
    /\ todo[k] = "pulling" => i = 1 /\ k = 1 /\ disk[repository].head # NoCommit
    /\ todo[k] = "push" => \/ disk[repository].head # NoCommit
                           \/ \E l \in 1..(k-1) : todo[l] = "commit"
    /\ todo[k] = "remote" => /\ running.action = "Publish"
                             /\ k + 1 <= Len(todo) /\ todo[k + 1] = "commit"

JobsFit ==
  /\ ~Running => running.jobs = <<>> /\ running.succeeded = {}
  /\ \A i \in 1..Len(running.jobs) :
       /\ TodoFits(i, running.jobs[i].todo, running.jobs[i].repository)
       /\ running.action # "Init" => running.jobs[i].repository \in found
  /\ running.action # "Init" => running.succeeded \subseteq found

-----------------------------------------------------------------------------
(***************************************************************************)
(* A status in the panel, and those being read unless an action came in    *)
(* between, were read beside no pull.                                      *)
(***************************************************************************)
StatusFits(status, r) ==
  HasStatus(status) =>
    /\ status.of # Halfway
    /\ status.head <= Len(disk[r].history)
    /\ status.remote => disk[r].head # NoCommit

HeadFits(status, r) ==
  /\ status.of # Halfway
  /\ status.head <= Len(disk[r].history)

ScanFits ==
  /\ scan.on => scan.generation <= running.generation
  /\ scan.on => ~refresh.delayed
  /\ scan.on => DOMAIN scan.statuses \union scan.unread \subseteq Found
  /\ refresh.pending => scan.on
  /\ refresh.reloadAfter => Running
  /\ ~scan.on => scan.unread = {} /\ DOMAIN scan.heads = {} /\ DOMAIN scan.statuses = {}
  /\ scan.unread \cap DOMAIN scan.statuses = {}
  /\ scan.on /\ Outdated => Running \/ refresh.pending
  /\ scan.on /\ ~Outdated =>
       /\ ~Running
       /\ Found = found
       /\ found \subseteq scan.unread \union DOMAIN scan.statuses

\* What was read of a repository, while no action came in between.
ReadFits(r) ==
  scan.on /\ ~Outdated =>
    /\ r \in DOMAIN scan.heads => HeadFits(scan.heads[r], r)
    /\ r \in DOMAIN scan.statuses =>
         /\ StatusFits(scan.statuses[r], r)
         /\ HasStatus(scan.statuses[r]) =>
              /\ r \in DOMAIN scan.heads
              /\ scan.statuses[r].head = scan.heads[r].head
              /\ scan.statuses[r].of = scan.heads[r].of

-----------------------------------------------------------------------------
(***************************************************************************)
(* The panel: a status that no longer tells where a repository stands is   *)
(* read again.                                                             *)
(***************************************************************************)
Coming(r) == Running \/ refresh.delayed \/ scan.on \/ r \in away

Reads(r) ==
  \/ /\ r \in scan.unread
     /\ r \in DOMAIN scan.heads =>
          /\ scan.heads[r].head = disk[r].head
          /\ scan.heads[r].changes = disk[r].changes
          /\ scan.heads[r].upstream = disk[r].upstream
  \/ /\ r \in DOMAIN scan.statuses
     /\ scan.statuses[r] = Failed \/ Tells(scan.statuses[r], disk[r])

ScanTells(r) ==
  scan.on /\ ~Outdated /\ r \in Found => Reads(r) \/ refresh.pending \/ r \in away

PanelTells(r) ==
  r \in Found => known[r] = Failed \/ Tells(known[r], disk[r]) \/ Coming(r)

-----------------------------------------------------------------------------
(***************************************************************************)
(* The sidebar: what it shows is what the files hold, or a reload or a     *)
(* status that tells of the change is to come, or the change is missable.  *)
(***************************************************************************)
Differs(status, d) ==
  d.head # HeadOf(status) \/ (IsInterrupted(status) /\ ~d.interrupted)

Reloading == store.reloading /\ (~store.done \/ store.again)

Noticed(r) ==
  \/ r \in missable
  \/ disk[r].content = Halfway
  \/ Reloading \/ refresh.reloadAfter
  \/ Differs(known[r], disk[r]) /\ Coming(r)

ShownFits(r) == shown[r] = disk[r].content \/ store.reloading \/ Noticed(r)

WhatWasReadFits(r) ==
  store.reloading =>
    store.read[r] = disk[r].content \/ store.read[r] = Halfway \/ Noticed(r)

\* The content a status under way was read beside is the one of its HEAD.
HeadIsOf(r) ==
  /\ scan.on /\ ~Outdated
  /\ r \in DOMAIN scan.heads /\ scan.heads[r].head = disk[r].head
  /\ r \notin missable
  => \/ scan.heads[r].of = disk[r].content
     \/ shown[r] = disk[r].content /\ store.read[r] = disk[r].content

-----------------------------------------------------------------------------
Each(r) ==
  /\ DiskFits(r) /\ HalfwayFits(r) /\ StatusFits(known[r], r) /\ ReadFits(r)
  /\ ScanTells(r) /\ PanelTells(r)
  /\ ShownFits(r) /\ WhatWasReadFits(r) /\ HeadIsOf(r)

IInv ==
  /\ Typed
  /\ TypeOK
  /\ JobsFit
  /\ ScanFits
  /\ \A r \in Repositories : Each(r)

-----------------------------------------------------------------------------
(***************************************************************************)
(* The operators the actions are built from.                               *)
(***************************************************************************)
LEMMA PartialType ==
  ASSUME NEW S, NEW f \in Partial(S)
  PROVE  /\ DOMAIN f \subseteq Repositories
         /\ f = [x \in DOMAIN f |-> f[x]]
         /\ \A x \in DOMAIN f : f[x] \in S
BY DEF Partial

LEMMA PutType ==
  ASSUME NEW S, NEW f \in Partial(S), NEW r \in Repositories, NEW value \in S
  PROVE  /\ Put(f, r, value) \in Partial(S)
         /\ DOMAIN Put(f, r, value) = DOMAIN f \union {r}
         /\ Put(f, r, value)[r] = value
         /\ \A x \in DOMAIN f \ {r} : Put(f, r, value)[x] = f[x]
<1>1. DOMAIN f \union {r} \in SUBSET Repositories  BY PartialType
<1>2. Put(f, r, value) \in [DOMAIN f \union {r} -> S]  BY PartialType DEF Put
<1>3. Put(f, r, value) \in Partial(S)  BY <1>1, <1>2 DEF Partial
<1>4. QED  BY <1>3 DEF Put

\* A refresh that is scheduled comes, unless an action runs.
LEMMA ScheduledType ==
  ASSUME NEW isRunning \in BOOLEAN, NEW scanning \in BOOLEAN, NEW now \in RefreshType
  PROVE  /\ Scheduled(isRunning, scanning, now) \in RefreshType
         /\ Scheduled(isRunning, scanning, now).reloadAfter = now.reloadAfter
         /\ now.delayed => Scheduled(isRunning, scanning, now).delayed
         /\ now.pending => Scheduled(isRunning, scanning, now).pending
         /\ ~isRunning /\ scanning => /\ Scheduled(isRunning, scanning, now).pending
                                      /\ Scheduled(isRunning, scanning, now).delayed = now.delayed
         /\ ~isRunning /\ ~scanning => /\ Scheduled(isRunning, scanning, now).delayed
                                       /\ Scheduled(isRunning, scanning, now).pending = now.pending
         /\ isRunning => Scheduled(isRunning, scanning, now) = now
BY DEF Scheduled, RefreshType

\* A reload that is asked for reads everything once more.
LEMMA ReloadsType ==
  ASSUME NEW s \in StoreType
  PROVE  /\ Reloads(s) \in StoreType
         /\ Reloads(s).reloading
         /\ ~Reloads(s).done \/ Reloads(s).again
         /\ Reloads(s).read = s.read
BY DEF Reloads, StoreType

LEMMA TailFacts ==
  ASSUME NEW S, NEW s \in Seq(S), s # <<>>
  PROVE  /\ Tail(s) \in Seq(S) /\ Len(s) > 0 /\ Len(Tail(s)) = Len(s) - 1
         /\ \A i \in 1..(Len(s) - 1) : Tail(s)[i] = s[i + 1]
         /\ s[1] \in S
OBVIOUS

LEMMA FirstReplaced ==
  ASSUME NEW S, NEW s \in Seq(S), s # <<>>, NEW e \in S
  PROVE  /\ [s EXCEPT ![1] = e] \in Seq(S) /\ Len([s EXCEPT ![1] = e]) = Len(s)
         /\ [s EXCEPT ![1] = e] # <<>>
         /\ [s EXCEPT ![1] = e][1] = e
         /\ \A i \in 2..Len(s) : [s EXCEPT ![1] = e][i] = s[i]
OBVIOUS

\* The first job goes on with the rest of its commands.
LEMMA AfterCommand ==
  ASSUME Typed, running.jobs # <<>>, NEW todo \in Seq(Commands), Todo(todo)
  PROVE  /\ running' \in RunningType
         /\ running'.action = running.action /\ running'.generation = running.generation
         /\ running'.succeeded = running.succeeded
         /\ running'.jobs # <<>> /\ Len(running'.jobs) = Len(running.jobs)
         /\ running'.jobs[1].repository = Job.repository
         /\ running'.jobs[1].todo = todo
         /\ \A i \in 2..Len(running.jobs) : running'.jobs[i] = running.jobs[i]
<1> DEFINE first == [running.jobs[1] EXCEPT !.todo = todo]
           jobs == [running.jobs EXCEPT ![1] = first]
<1>1. running.jobs \in Seq(JobType)  BY DEF Typed, RunningType
<1>2. running.jobs[1] \in JobType  BY <1>1, TailFacts
<1>3. first \in JobType /\ first.todo = todo /\ first.repository = Job.repository
  BY <1>2 DEF JobType, Job
<1>4. running' = [running EXCEPT !.jobs = jobs]  BY DEF Todo
<1>5. /\ jobs \in Seq(JobType) /\ Len(jobs) = Len(running.jobs) /\ jobs # <<>>
      /\ jobs[1] = first /\ \A i \in 2..Len(running.jobs) : jobs[i] = running.jobs[i]
  BY <1>1, <1>3, FirstReplaced
<1> HIDE DEF jobs, first
<1>6. /\ running' \in RunningType /\ running'.jobs = jobs
      /\ running'.action = running.action /\ running'.generation = running.generation
      /\ running'.succeeded = running.succeeded
  BY <1>4, <1>5 DEF Typed, RunningType
<1>7. QED  BY <1>3, <1>5, <1>6

\* The first job is over, and the next one is first.
LEMMA AfterJob ==
  ASSUME Typed, running.jobs # <<>>, NEW done \in SUBSET Repositories,
         running' = [running EXCEPT !.jobs = Tail(@), !.succeeded = done]
  PROVE  /\ running' \in RunningType
         /\ running'.action = running.action /\ running'.generation = running.generation
         /\ running'.succeeded = done
         /\ Len(running'.jobs) = Len(running.jobs) - 1
         /\ \A i \in 1..(Len(running.jobs) - 1) : running'.jobs[i] = running.jobs[i + 1]
<1>1. running.jobs \in Seq(JobType)  BY DEF Typed, RunningType
<1>2. /\ running' \in RunningType /\ running'.jobs = Tail(running.jobs)
      /\ running'.action = running.action /\ running'.generation = running.generation
      /\ running'.succeeded = done
  BY <1>1, TailFacts DEF Typed, RunningType
<1>3. QED  BY <1>1, <1>2, TailFacts

-----------------------------------------------------------------------------
(***************************************************************************)
(* A working tree that Git moved holds a content of its history or one     *)
(* that was made, at a commit, and forgets no commit.                      *)
(***************************************************************************)
MovedTree(d, from, contents) ==
  /\ d \in DiskType
  /\ d.head \in 1..Len(d.history)
  /\ \A k \in 1..Len(d.history) : d.history[k] \in 1..contents
  /\ d.content \in 1..contents
  /\ Len(from.history) <= Len(d.history)
  /\ d.exists = from.exists

Tree(d, contents) ==
  /\ d \in DiskType
  /\ d.head \in 1..Len(d.history)
  /\ \A k \in 1..Len(d.history) : d.history[k] \in 1..contents

LEMMA Rewritten ==
  ASSUME NEW d \in DiskType, NEW h \in Seq(Nat), NEW n \in Nat, NEW c \in Nat,
         NEW i \in BOOLEAN, NEW e,
         e = [d EXCEPT !.history = h, !.head = n, !.content = c, !.interrupted = i]
  PROVE  /\ e \in DiskType /\ e.history = h /\ e.head = n /\ e.content = c
         /\ e.interrupted = i /\ e.exists = d.exists /\ e.changes = d.changes
         /\ e.upstream = d.upstream /\ e.remote = d.remote
BY DEF DiskType

LEMMA Marked ==
  ASSUME NEW d \in DiskType, NEW e, NEW b \in BOOLEAN,
         e = [d EXCEPT !.changes = b] \/ e = [d EXCEPT !.interrupted = b]
  PROVE  /\ e \in DiskType /\ e.history = d.history /\ e.head = d.head
         /\ e.content = d.content /\ e.exists = d.exists
         /\ e.upstream = d.upstream /\ e.remote = d.remote
BY DEF DiskType

LEMMA CommittedTree ==
  ASSUME NEW d \in DiskType, NEW contents \in Nat, NEW content \in 1..contents,
         \A k \in 1..Len(d.history) : d.history[k] \in 1..contents
  PROVE  /\ MovedTree(Committed(d, content), d, contents)
         /\ Committed(d, content).content = content
         /\ Committed(d, content).head = Len(d.history) + 1
         /\ MovedTree([Committed(d, content) EXCEPT !.changes = FALSE], d, contents)
         /\ MovedTree([Committed(d, content) EXCEPT !.interrupted = TRUE], d, contents)
<1> DEFINE h == Append(d.history, content)
           n == Len(d.history) + 1
           e == Committed(d, content)
<1>1. d.history \in Seq(Nat)  BY DEF DiskType
<1>2. /\ h \in Seq(Nat) /\ Len(h) = n /\ n \in Nat /\ Len(d.history) \in Nat
      /\ \A k \in 1..n : h[k] \in 1..contents
  BY <1>1
<1>3. e = [d EXCEPT !.history = h, !.head = n, !.content = content, !.interrupted = FALSE]
  BY DEF Committed
<1>4. n = Len(d.history) + 1  OBVIOUS
<1> HIDE DEF h, n, e
<1>5. /\ e \in DiskType /\ e.history = h /\ e.head = n /\ e.content = content
      /\ e.exists = d.exists
  <2>1. content \in Nat /\ FALSE \in BOOLEAN  OBVIOUS
  <2>2. d.history \in Seq(Nat)  BY <1>1
  <2>3. QED  BY <1>2, <1>3, <2>1, <2>2 DEF DiskType
<1>6. ASSUME NEW f \in DiskType, f.history = h, f.head = n, f.content = content,
             f.exists = d.exists
      PROVE  MovedTree(f, d, contents)
  BY <1>2, <1>4, <1>6 DEF MovedTree
<1>7. MovedTree([e EXCEPT !.changes = FALSE], d, contents)
  BY <1>5, <1>6, Marked
<1>8. MovedTree([e EXCEPT !.interrupted = TRUE], d, contents)
  BY <1>5, <1>6, Marked
<1>9. QED  BY <1>4, <1>5, <1>6, <1>7, <1>8 DEF e

LEMMA CheckedOutTree ==
  ASSUME NEW d, NEW contents \in Nat, Tree(d, contents), NEW commit \in Commits(d)
  PROVE  /\ MovedTree(CheckedOut(d, commit), d, contents)
         /\ CheckedOut(d, commit).head = commit
         /\ CheckedOut(d, commit).history = d.history
         /\ CheckedOut(d, commit).upstream = d.upstream
<1> DEFINE e == CheckedOut(d, commit)
           c == d.history[commit]
<1>1. /\ d \in DiskType /\ d.history \in Seq(Nat) /\ commit \in 1..Len(d.history)
      /\ commit \in Nat /\ Len(d.history) \in Nat
  BY DEF Tree, DiskType, Commits
<1>2. c \in 1..contents /\ c \in Nat  BY <1>1 DEF Tree
<1>3. e = [d EXCEPT !.head = commit, !.content = c, !.interrupted = FALSE]
  BY DEF CheckedOut
<1> HIDE DEF c, e
<1>4. /\ e \in DiskType /\ e.history = d.history /\ e.head = commit /\ e.content = c
      /\ e.exists = d.exists /\ e.upstream = d.upstream
  BY <1>1, <1>2, <1>3 DEF DiskType
<1>5. MovedTree(e, d, contents)
  BY <1>1, <1>2, <1>4 DEF MovedTree, Tree
<1>6. QED  BY <1>4, <1>5 DEF e

LEMMA StoppedTree ==
  ASSUME NEW d, NEW contents \in Nat, Tree(d, contents),
         NEW content \in 1..contents, NEW e \in Stopped(d, content)
  PROVE  MovedTree(e, d, contents)
<1>1. CASE e = [Committed(d, content) EXCEPT !.interrupted = TRUE]
  BY <1>1, CommittedTree DEF Tree
<1>2. CASE e = [d EXCEPT !.content = content, !.interrupted = TRUE]
  <2>1. d \in DiskType /\ Len(d.history) \in Nat /\ content \in Nat  BY DEF Tree, DiskType
  <2>2. /\ e \in DiskType /\ e.history = d.history /\ e.head = d.head
        /\ e.content = content /\ e.exists = d.exists
    BY <1>2, <2>1 DEF DiskType
  <2>3. QED  BY <2>1, <2>2 DEF MovedTree, Tree
<1>3. QED  BY <1>1, <1>2 DEF Stopped

\* Every way in which Git in a terminal moves a working tree.
LEMMA TerminalMoves ==
  ASSUME IInv, NEW r \in Repositories, Terminal(r)
  PROVE  /\ disk[r].exists /\ disk[r].content # Halfway /\ disk[r].head # NoCommit
         /\ bounds' \in [contents : Nat \ {0}, asked : Nat]
         /\ bounds.contents <= bounds'.contents
         /\ \E d : Becomes(r, d) /\ MovedTree(d, disk[r], bounds'.contents)
<1>1. /\ disk[r] \in DiskType /\ bounds.contents \in Nat \ {0}
      /\ bounds \in [contents : Nat \ {0}, asked : Nat]
      /\ disk[r].head # NoCommit /\ disk[r].content # Halfway
      /\ DiskFits(r)
  BY DEF IInv, Typed, Each, Terminal
<1>2. \/ bounds' = bounds
      \/ bounds' = [bounds EXCEPT !.contents = @ + 1]
  BY DEF Terminal, CountContent
<1>3. /\ bounds' \in [contents : Nat \ {0}, asked : Nat]
      /\ bounds.contents <= bounds'.contents
      /\ CountContent => bounds'.contents = bounds.contents + 1
      /\ CountContent => Fresh \in 1..bounds'.contents
  BY <1>1, <1>2 DEF CountContent, Fresh
<1>4. Tree(disk[r], bounds'.contents)
  BY <1>1, <1>3 DEF Tree, DiskFits, DiskType, NoCommit
<1>5. disk[r].content \in 1..bounds'.contents
  BY <1>1, <1>3 DEF DiskFits, DiskType, Halfway
<1> SUFFICES \E d : Becomes(r, d) /\ MovedTree(d, disk[r], bounds'.contents)
  BY <1>1, <1>3 DEF Terminal
<1>6. CASE CountContent /\ Becomes(r, Committed(disk[r], Fresh))
  <2>1. MovedTree(Committed(disk[r], Fresh), disk[r], bounds'.contents)
    BY <1>1, <1>3, <1>4, <1>6, CommittedTree DEF Tree
  <2>2. QED  BY <1>6, <2>1, Zenon
<1>7. CASE Becomes(r, [Committed(disk[r], disk[r].content) EXCEPT !.changes = FALSE])
  <2>1. MovedTree([Committed(disk[r], disk[r].content) EXCEPT !.changes = FALSE],
                  disk[r], bounds'.contents)
    BY <1>1, <1>3, <1>4, <1>5, CommittedTree DEF Tree
  <2>2. QED  BY <1>7, <2>1, Zenon
<1>8. CASE \E commit \in Commits(disk[r]) : Becomes(r, CheckedOut(disk[r], commit))
  <2>1. bounds'.contents \in Nat  BY <1>3
  <2>2. QED  BY <1>4, <1>8, <2>1, CheckedOutTree, Zenon
<1>9. CASE CountContent /\ \E d \in Stopped(disk[r], Fresh) : Becomes(r, d)
  <2>1. bounds'.contents \in Nat /\ Fresh \in 1..bounds'.contents  BY <1>3, <1>9
  <2>2. QED  BY <1>4, <1>9, <2>1, StoppedTree, Zenon
<1>10. CASE CountContent /\ Becomes(r, [disk[r] EXCEPT !.content = Fresh, !.interrupted = FALSE])
  <2> DEFINE e == [disk[r] EXCEPT !.content = Fresh, !.interrupted = FALSE]
  <2>1. Fresh \in Nat /\ Len(disk[r].history) \in Nat  BY <1>1, <1>3, <1>10 DEF DiskType
  <2>2. /\ e \in DiskType /\ e.history = disk[r].history /\ e.head = disk[r].head
        /\ e.content = Fresh /\ e.exists = disk[r].exists
    BY <1>1, <2>1 DEF DiskType
  <2>3. MovedTree(e, disk[r], bounds'.contents)
    BY <1>3, <1>4, <1>10, <2>1, <2>2 DEF MovedTree, Tree
  <2>4. QED  BY <1>10, <2>3, Zenon
<1>11. QED  BY <1>6, <1>7, <1>8, <1>9, <1>10, Zenon DEF Terminal

\* A status that is read has the fields of the working tree.
LEMMA StatusRead ==
  ASSUME NEW d \in DiskType, NEW head \in Nat, NEW of \in Nat
  PROVE  /\ Status(d, head, of) \in StatusType
         /\ Status(d, head, of).head = head /\ Status(d, head, of).of = of
         /\ Status(d, head, of).changes = d.changes
         /\ Status(d, head, of).upstream = d.upstream
BY DEF Status, StatusType, DiskType

Completed(s, d) == [s EXCEPT !.remote = d.remote, !.interrupted = d.interrupted]
LEMMA RestRead ==
  ASSUME NEW d \in DiskType, NEW s \in StatusType
  PROVE  /\ Completed(s, d) \in StatusType
         /\ Completed(s, d).head = s.head /\ Completed(s, d).of = s.of
         /\ Completed(s, d).changes = s.changes /\ Completed(s, d).upstream = s.upstream
         /\ Completed(s, d).remote = d.remote /\ Completed(s, d).interrupted = d.interrupted
BY DEF StatusType, DiskType, Completed

LEMMA StatusIs ==
  ASSUME NEW s \in AnyStatus
  PROVE  /\ HasStatus(s) => s \in StatusType
         /\ ~HasStatus(s) => HeadOf(s) = NoCommit /\ ~IsInterrupted(s)
         /\ ~HasStatus(Failed) /\ ~HasStatus(Unread)
         /\ HasStatus(s) => HeadOf(s) = s.head /\ (IsInterrupted(s) <=> s.interrupted)
         /\ s \in StatusType => HasStatus(s)
         /\ HeadOf(s) \in Nat
BY DEF AnyStatus, StatusType, HasStatus, HeadOf, IsInterrupted, Failed, Unread, NoCommit

-----------------------------------------------------------------------------
(***************************************************************************)
(* Every action keeps the types.                                           *)
(***************************************************************************)
LEMMA InitTyped == Init => Typed
<1> SUFFICES ASSUME Init  PROVE Typed
  OBVIOUS
<1>1. disk \in [Repositories -> DiskType]
  <2>1. <<>> \in Seq(Nat) /\ <<1>> \in Seq(Nat)  OBVIOUS
  <2>2. /\ [exists |-> FALSE, content |-> 1, history |-> <<>>, head |-> NoCommit,
             changes |-> TRUE, interrupted |-> FALSE, upstream |-> FALSE, remote |-> FALSE]
              \in DiskType
        /\ [exists |-> TRUE, content |-> 1, history |-> <<1>>, head |-> 1,
             changes |-> FALSE, interrupted |-> FALSE, upstream |-> TRUE, remote |-> TRUE]
              \in DiskType
    BY <2>1 DEF DiskType, NoCommit
  <2>3. QED  BY <2>2 DEF Init
<1>2. store \in StoreType /\ shown \in [Repositories -> Nat]
  BY DEF Init, StoreType
<1>3. known \in [Repositories -> AnyStatus]  BY DEF Init, AnyStatus
<1>4. running \in RunningType
  <2>1. <<>> \in Seq(JobType)  OBVIOUS
  <2>2. QED  BY <2>1 DEF Init, NoAction, RunningType
<1>5. refresh \in RefreshType  BY DEF Init, RefreshType
<1>6. scan \in ScanType
  <2>1. \A S : [r \in {} |-> Unread] \in Partial(S)
    <3>1. \A S : [r \in {} |-> Unread] \in [{} -> S]  OBVIOUS
    <3>2. QED  BY <3>1 DEF Partial
  <2>2. QED  BY <2>1 DEF Init, NoScan, ScanType
<1>7. /\ found = {} /\ committed = {} /\ away = {} /\ missable = {}
      /\ bounds = [contents |-> 1, asked |-> 0]
  BY DEF Init
<1>8. bounds \in [contents : Nat \ {0}, asked : Nat]  BY <1>7
<1>9. QED  BY <1>1, <1>2, <1>3, <1>4, <1>5, <1>6, <1>7, <1>8 DEF Typed

LEMMA BooleansTyped ==
  /\ Typed => scan.on \in BOOLEAN /\ Running \in BOOLEAN /\ refresh.pending \in BOOLEAN
  /\ Typed => scan \in ScanType /\ store \in StoreType /\ refresh \in RefreshType
BY DEF Typed, ScanType, Running, RefreshType

LEMMA ScheduleTyped ==
  ASSUME Typed, ScheduleRefresh
  PROVE  refresh' \in RefreshType
BY BooleansTyped, ScheduledType DEF ScheduleRefresh

LEMMA RefreshAllTyped ==
  ASSUME Typed, RefreshAll
  PROVE  refresh' \in RefreshType /\ store' \in StoreType
<1>1. CASE Running
  BY <1>1, BooleansTyped DEF RefreshAll, RefreshType
<1>2. CASE ~Running
  BY <1>2, BooleansTyped, ReloadsType, ScheduleTyped DEF RefreshAll
<1>3. QED  BY <1>1, <1>2

LEMMA AsksTyped ==
  ASSUME Typed, Asks
  PROVE  bounds' \in [contents : Nat \ {0}, asked : Nat] /\ bounds'.contents = bounds.contents
BY DEF Typed, Asks

LEMMA AskingTyped ==
  ASSUME Typed,
         \/ \E r \in Repositories : Save(r)
         \/ UserRefreshes \/ Return \/ Fetched
  PROVE  Typed'
<1>1. CASE \E r \in Repositories : Save(r)
  <2>1. PICK r \in Repositories : Save(r)  BY <1>1
  <2>2. disk' \in [Repositories -> DiskType]
    <3>1. disk[r] \in DiskType /\ disk \in [Repositories -> DiskType]  BY DEF Typed
    <3>2. [disk[r] EXCEPT !.changes = TRUE] \in DiskType  BY <3>1 DEF DiskType
    <3>3. disk' = [disk EXCEPT ![r] = [disk[r] EXCEPT !.changes = TRUE]]  BY <2>1 DEF Save
    <3>4. QED  BY <3>1, <3>2, <3>3
  <2>3. store' \in StoreType  BY <2>1 DEF Save, Typed, StoreType
  <2>4. QED  BY <2>1, <2>2, <2>3, ScheduleTyped, AsksTyped DEF Save, Typed
<1>2. CASE UserRefreshes
  BY <1>2, RefreshAllTyped, AsksTyped DEF UserRefreshes, Typed
<1>3. CASE Return
  BY <1>3, RefreshAllTyped, ScheduleTyped DEF Return, Typed
<1>4. CASE Fetched
  BY <1>4, ScheduleTyped, AsksTyped DEF Fetched, Typed
<1>5. QED  BY <1>1, <1>2, <1>3, <1>4

LEMMA ScanningTyped ==
  ASSUME Typed,
         \/ StartScan
         \/ \E r \in Repositories : ReadHead(r) \/ ReadRest(r) \/ ReadFails(r)
  PROVE  Typed'
<1>1. scan \in ScanType /\ scan.heads \in Partial(StatusType)
      /\ scan.statuses \in Partial(AnyStatus) /\ scan.unread \in SUBSET Repositories
  BY DEF Typed, ScanType
<1>2. CASE StartScan
  <2>1. refresh' \in RefreshType  BY <1>2 DEF StartScan, Typed, RefreshType
  <2>2. found' \in SUBSET Repositories  BY <1>2 DEF StartScan, Typed, Found
  <2>3. scan' \in ScanType
    <3>1. CASE Running  BY <1>1, <1>2, <3>1 DEF StartScan
    <3>2. CASE ~Running
      <4>1. \A S : [r \in {} |-> Unread] \in Partial(S)
        <5>1. \A S : [r \in {} |-> Unread] \in [{} -> S]  OBVIOUS
        <5>2. QED  BY <5>1 DEF Partial
      <4>2. running.generation \in Nat  BY DEF Typed, RunningType
      <4>3. Found \in SUBSET Repositories  BY DEF Found
      <4>4. scan' = [NoScan EXCEPT !.on = TRUE, !.generation = running.generation,
                                   !.unread = Found]
        BY <1>2, <3>2 DEF StartScan
      <4>5. QED  BY <4>1, <4>2, <4>3, <4>4 DEF NoScan, ScanType
    <3>3. QED  BY <3>1, <3>2
  <2>4. QED  BY <1>2, <2>1, <2>2, <2>3 DEF StartScan, Typed
<1>3. ASSUME NEW r \in Repositories, ReadHead(r)  PROVE Typed'
  <2>1. disk[r] \in DiskType /\ disk[r].head \in Nat /\ disk[r].content \in Nat
    BY DEF Typed, DiskType
  <2>2. Put(scan.heads, r, Status(disk[r], disk[r].head, disk[r].content))
          \in Partial(StatusType)
    BY <1>1, <2>1, StatusRead, PutType
  <2>3. scan' \in ScanType  BY <1>1, <1>3, <2>2 DEF ReadHead, ScanType
  <2>4. QED  BY <1>3, <2>3 DEF ReadHead, Typed
<1>4. ASSUME NEW r \in Repositories, ReadRest(r)  PROVE Typed'
  <2> DEFINE status == [scan.heads[r] EXCEPT !.remote = disk[r].remote,
                                             !.interrupted = disk[r].interrupted]
  <2>1. disk[r] \in DiskType  BY DEF Typed
  <2>2. scan.heads[r] \in StatusType  BY <1>1, <1>4, PartialType DEF ReadRest
  <2>3. status \in AnyStatus
    <3>1. status = Completed(scan.heads[r], disk[r])  BY DEF Completed
    <3>2. QED  BY <2>1, <2>2, <3>1, RestRead DEF AnyStatus
  <2> HIDE DEF status
  <2>4. Put(scan.statuses, r, status) \in Partial(AnyStatus)  BY <1>1, <2>3, PutType
  <2>5. scan' = [scan EXCEPT !.unread = @ \ {r}, !.statuses = Put(@, r, status)]
    BY <1>4 DEF ReadRest, status
  <2>6. scan' \in ScanType  BY <1>1, <2>4, <2>5 DEF ScanType
  <2>7. QED  BY <1>4, <2>6 DEF ReadRest, Typed
<1>5. ASSUME NEW r \in Repositories, ReadFails(r)  PROVE Typed'
  <2>1. Failed \in AnyStatus  BY DEF AnyStatus
  <2>2. Put(scan.statuses, r, Failed) \in Partial(AnyStatus)  BY <1>1, <2>1, PutType
  <2>3. scan' \in ScanType  BY <1>1, <1>5, <2>2 DEF ReadFails, ScanType
  <2>4. QED  BY <1>5, <2>3 DEF ReadFails, Typed
<1>6. QED  BY <1>2, <1>3, <1>4, <1>5

LEMMA ReadTyped ==
  ASSUME Typed, StatusesRead \/ ReadCollections \/ Reloaded
  PROVE  Typed'
<1>1. CASE StatusesRead
  <2>1. scan' \in ScanType
    <3>1. \A S : [r \in {} |-> Unread] \in Partial(S)
      <4>1. \A S : [r \in {} |-> Unread] \in [{} -> S]  OBVIOUS
      <4>2. QED  BY <4>1 DEF Partial
    <3>2. QED  BY <1>1, <3>1 DEF StatusesRead, NoScan, ScanType
  <2>2. refresh' \in RefreshType
    <3> DEFINE now == [refresh EXCEPT !.pending = FALSE]
    <3>1. now \in RefreshType /\ refresh \in RefreshType /\ Running \in BOOLEAN
      BY BooleansTyped DEF RefreshType
    <3>2. refresh' = refresh \/ refresh' = Scheduled(Running, FALSE, now)
      BY <1>1 DEF StatusesRead
    <3>3. Scheduled(Running, FALSE, now) \in RefreshType
      BY <3>1, ScheduledType, FALSE \in BOOLEAN
    <3>4. QED  BY <3>1, <3>2, <3>3
  <2>3. CASE Outdated
    BY <1>1, <2>1, <2>2, <2>3 DEF StatusesRead, Typed
  <2>4. CASE ~Outdated
    <3>1. ApplyStatuses(scan.statuses)  BY <1>1, <2>4 DEF StatusesRead
    <3>2. scan.statuses \in Partial(AnyStatus)  BY DEF Typed, ScanType
    <3>3. known' \in [Repositories -> AnyStatus]
      BY <3>1, <3>2, PartialType DEF ApplyStatuses, Typed
    <3>4. store' \in StoreType
      BY <3>1, BooleansTyped, ReloadsType DEF ApplyStatuses
    <3>5. missable' \in SUBSET Repositories /\ committed' = {}
      BY <3>1 DEF ApplyStatuses, Typed
    <3>6. QED  BY <1>1, <2>1, <2>2, <3>3, <3>4, <3>5 DEF StatusesRead, Typed
  <2>5. QED  BY <2>3, <2>4
<1>2. CASE ReadCollections
  <2>1. \A r \in Repositories : disk[r].content \in Nat  BY DEF Typed, DiskType
  <2>2. store' \in StoreType  BY <1>2, <2>1 DEF ReadCollections, Typed, StoreType
  <2>3. QED  BY <1>2, <2>2 DEF ReadCollections, Typed
<1>3. CASE Reloaded
  <2>1. store' \in StoreType  BY <1>3 DEF Reloaded, Typed, StoreType
  <2>2. shown' \in [Repositories -> Nat]  BY <1>3 DEF Reloaded, Typed, StoreType
  <2>3. missable' \in SUBSET Repositories  BY <1>3 DEF Reloaded, Typed
  <2>4. refresh' \in RefreshType  BY <1>3, ScheduleTyped DEF Reloaded, Typed
  <2>5. QED  BY <1>3, <2>1, <2>2, <2>3, <2>4 DEF Reloaded, Typed
<1>4. QED  BY <1>1, <1>2, <1>3

LEMMA TerminalTyped ==
  ASSUME IInv, NEW r \in Repositories, Terminal(r)
  PROVE  Typed'
<1>1. PICK d : Becomes(r, d) /\ MovedTree(d, disk[r], bounds'.contents)
  BY TerminalMoves
<1>2. disk' \in [Repositories -> DiskType]
  BY <1>1 DEF Becomes, MovedTree, IInv, Typed
<1>3. missable' \in SUBSET Repositories  BY <1>1 DEF Becomes, IInv, Typed
<1>4. away' \in SUBSET Repositories  BY DEF Terminal, IInv, Typed
<1>5. QED  BY <1>2, <1>3, <1>4, TerminalMoves DEF Terminal, IInv, Typed

LEMMA Tuples ==
  ASSUME NEW a \in Commands, NEW b \in Commands, NEW c \in Commands
  PROVE  /\ <<a>> \in Seq(Commands) /\ Len(<<a>>) = 1 /\ <<a>>[1] = a
         /\ <<a, b>> \in Seq(Commands) /\ Len(<<a, b>>) = 2
         /\ <<a, b>>[1] = a /\ <<a, b>>[2] = b
         /\ <<a, b, c>> \in Seq(Commands) /\ Len(<<a, b, c>>) = 3
         /\ <<a, b, c>>[1] = a /\ <<a, b, c>>[2] = b /\ <<a, b, c>>[3] = c
OBVIOUS

\* The commands of an action: what each of them needs comes before it.
Orderly(action, todo) ==
  \A k \in 1..Len(todo) :
    /\ todo[k] # "init" /\ todo[k] # "pulling"
    /\ todo[k] = "push" => \/ action = "Push"
                           \/ \E l \in 1..(k-1) : todo[l] = "commit"
    /\ todo[k] = "remote" => /\ action = "Publish"
                             /\ k + 1 <= Len(todo) /\ todo[k + 1] = "commit"

LEMMA StepsFit ==
  ASSUME NEW action \in Actions, NEW hasUpstream
  PROVE  /\ Steps(action, hasUpstream) \in Seq(Commands)
         /\ Orderly(action, Steps(action, hasUpstream))
<1> DEFINE todo == Steps(action, hasUpstream)
<1> SUFFICES todo \in Seq(Commands) /\ Orderly(action, todo)
  OBVIOUS
<1>1. CASE action = "Commit"
  <2>1. todo = <<"commit">>  BY <1>1 DEF Steps
  <2> HIDE DEF todo
  <2>2. /\ todo \in Seq(Commands) /\ Len(todo) = 1
        /\ todo[1] = "commit"
    BY <2>1, Tuples DEF Commands
  <2>3. QED  BY <1>1, <2>2 DEF Orderly
<1>2. CASE action = "Pull"
  <2>1. todo = <<"pull">>  BY <1>2 DEF Steps
  <2> HIDE DEF todo
  <2>2. /\ todo \in Seq(Commands) /\ Len(todo) = 1
        /\ todo[1] = "pull"
    BY <2>1, Tuples DEF Commands
  <2>3. QED  BY <1>2, <2>2 DEF Orderly
<1>3. CASE action = "Push"
  <2>1. todo = <<"push">>  BY <1>3 DEF Steps
  <2> HIDE DEF todo
  <2>2. /\ todo \in Seq(Commands) /\ Len(todo) = 1
        /\ todo[1] = "push"
    BY <2>1, Tuples DEF Commands
  <2>3. QED  BY <1>3, <2>2 DEF Orderly
<1>4. CASE action = "Sync" /\ hasUpstream
  <2>1. todo = <<"commit", "pull", "push">>  BY <1>4 DEF Steps
  <2> HIDE DEF todo
  <2>2. /\ todo \in Seq(Commands) /\ Len(todo) = 3
        /\ todo[1] = "commit" /\ todo[2] = "pull" /\ todo[3] = "push"
    BY <2>1, Tuples DEF Commands
  <2>3. QED  BY <1>4, <2>2 DEF Orderly
<1>5. CASE action = "Sync" /\ ~hasUpstream
  <2>1. todo = <<"commit", "push">>  BY <1>5 DEF Steps
  <2> HIDE DEF todo
  <2>2. /\ todo \in Seq(Commands) /\ Len(todo) = 2
        /\ todo[1] = "commit" /\ todo[2] = "push"
    BY <2>1, Tuples DEF Commands
  <2>3. QED  BY <1>5, <2>2 DEF Orderly
<1>6. CASE action = "Publish"
  <2>1. todo = <<"remote", "commit", "push">>  BY <1>6 DEF Steps
  <2> HIDE DEF todo
  <2>2. /\ todo \in Seq(Commands) /\ Len(todo) = 3
        /\ todo[1] = "remote" /\ todo[2] = "commit" /\ todo[3] = "push"
    BY <2>1, Tuples DEF Commands
  <2>3. QED  BY <1>6, <2>2 DEF Orderly
<1>7. QED  BY <1>1, <1>2, <1>3, <1>4, <1>5, <1>6 DEF Actions

\* The jobs of an action are of repositories that it applies to, in any order.
LEMMA JobsStarted ==
  ASSUME Typed, NEW action \in Actions, NEW targets \in Targets(action),
         NEW order \in SetToSeqs(targets), NEW jobs,
         jobs = [i \in DOMAIN order |->
                   [repository |-> order[i],
                    todo |-> Steps(action, known[order[i]].upstream)]]
  PROVE  /\ jobs \in Seq(JobType)
         /\ \A i \in 1..Len(jobs) :
              /\ jobs[i].repository \in found
              /\ Applies(action, known[jobs[i].repository])
              /\ jobs[i].todo = Steps(action, known[jobs[i].repository].upstream)
<1>1. targets \subseteq {r \in found : Applies(action, known[r])}
  BY DEF Targets
<1>2. IsFiniteSet(targets)
  BY <1>1, FS_Subset, RepositoriesAssumption DEF Typed
<1>3. Cardinality(targets) \in Nat  BY <1>2, FS_CardinalityType
<1>4. order \in [1..Cardinality(targets) -> targets]  BY DEF SetToSeqs
<1> DEFINE n == Cardinality(targets)
           todo(i) == Steps(action, known[order[i]].upstream)
<1>5. \A i \in 1..n : todo(i) \in Seq(Commands)  BY StepsFit
<1>6. \A i \in 1..n : order[i] \in found /\ order[i] \in Repositories
                         /\ Applies(action, known[order[i]])
  BY <1>1, <1>4 DEF Typed
<1>7. jobs = [i \in 1..n |-> [repository |-> order[i], todo |-> todo(i)]]
  BY <1>4
<1> HIDE DEF n, todo
<1>8. jobs \in [1..n -> JobType]  BY <1>5, <1>6, <1>7 DEF JobType
<1>9. n \in Nat  BY <1>3 DEF n
<1>10. jobs \in Seq(JobType) /\ Len(jobs) = n  BY <1>7, <1>8, <1>9
<1>11. QED  BY <1>6, <1>7, <1>10 DEF todo

-----------------------------------------------------------------------------
(***************************************************************************)
(* A command that is done leaves a list of commands that fits, and so does *)
(* a job that is over.                                                     *)
(***************************************************************************)
TodoWillFit(i, todo, repository) ==
  \A k \in 1..Len(todo) :
    /\ todo[k] = "init" <=> running'.action = "Init"
    /\ todo[k] = "pulling" => i = 1 /\ k = 1 /\ disk'[repository].head # NoCommit
    /\ todo[k] = "push" => \/ disk'[repository].head # NoCommit
                           \/ \E l \in 1..(k-1) : todo[l] = "commit"
    /\ todo[k] = "remote" => /\ running'.action = "Publish"
                             /\ k + 1 <= Len(todo) /\ todo[k + 1] = "commit"

CommitsRemain ==
  \A r \in Repositories : disk[r].head # NoCommit => disk'[r].head # NoCommit

LEMMA JobsWillFit ==
  ASSUME ~Running' => running'.jobs = <<>> /\ running'.succeeded = {},
         \A i \in 1..Len(running'.jobs) :
           /\ TodoWillFit(i, running'.jobs[i].todo, running'.jobs[i].repository)
           /\ running'.action # "Init" => running'.jobs[i].repository \in found',
         running'.action # "Init" => running'.succeeded \subseteq found'
  PROVE  JobsFit'
BY DEF JobsFit, TodoFits, TodoWillFit

\* What fits the front fits there later, and what fits elsewhere too.
LEMMA TodoStillFits ==
  ASSUME NEW i \in Nat, NEW j \in Nat, NEW todo \in Seq(Commands), NEW r \in Repositories,
         TodoFits(i, todo, r), CommitsRemain, running'.action = running.action,
         i = j \/ i # 1
  PROVE  TodoWillFit(j, todo, r)
<1> SUFFICES ASSUME NEW k \in 1..Len(todo)
             PROVE  /\ todo[k] = "init" <=> running'.action = "Init"
                    /\ todo[k] = "pulling" => j = 1 /\ k = 1 /\ disk'[r].head # NoCommit
                    /\ todo[k] = "push" => \/ disk'[r].head # NoCommit
                                           \/ \E l \in 1..(k-1) : todo[l] = "commit"
                    /\ todo[k] = "remote" => /\ running'.action = "Publish"
                                             /\ k + 1 <= Len(todo) /\ todo[k + 1] = "commit"
  BY DEF TodoWillFit
<1>1. QED  BY DEF TodoFits, CommitsRemain

LEMMA RestFits ==
  ASSUME NEW todo \in Seq(Commands), todo # <<>>, NEW r \in Repositories,
         TodoFits(1, todo, r), CommitsRemain, running'.action = running.action,
         todo[1] = "commit" => disk'[r].head # NoCommit
  PROVE  TodoWillFit(1, Tail(todo), r)
<1> DEFINE rest == Tail(todo)
<1>1. /\ Len(rest) = Len(todo) - 1 /\ Len(todo) \in Nat /\ Len(todo) > 0
      /\ \A k \in 1..(Len(todo) - 1) : rest[k] = todo[k + 1]
  BY TailFacts
<1> HIDE DEF rest
<1> SUFFICES ASSUME NEW k \in 1..Len(rest)
             PROVE  /\ rest[k] = "init" <=> running'.action = "Init"
                    /\ rest[k] # "pulling"
                    /\ rest[k] = "push" => \/ disk'[r].head # NoCommit
                                           \/ \E l \in 1..(k-1) : rest[l] = "commit"
                    /\ rest[k] = "remote" => /\ running'.action = "Publish"
                                             /\ k + 1 <= Len(rest) /\ rest[k + 1] = "commit"
  BY DEF TodoWillFit, rest
<1>2. k + 1 \in 1..Len(todo) /\ rest[k] = todo[k + 1] /\ k + 1 # 1 /\ k \in Nat
  BY <1>1
<1>3. /\ todo[k+1] = "init" <=> running.action = "Init"
      /\ todo[k+1] # "pulling"
      /\ todo[k+1] = "push" => \/ disk[r].head # NoCommit
                               \/ \E l \in 1..k : todo[l] = "commit"
      /\ todo[k+1] = "remote" => /\ running.action = "Publish"
                                 /\ k + 2 <= Len(todo) /\ todo[k + 2] = "commit"
  BY <1>2 DEF TodoFits
<1>4. ASSUME rest[k] = "push"
      PROVE  disk'[r].head # NoCommit \/ \E l \in 1..(k-1) : rest[l] = "commit"
  <2>1. CASE disk[r].head # NoCommit  BY <2>1 DEF CommitsRemain
  <2>2. CASE \E l \in 1..k : todo[l] = "commit"
    <3>1. PICK l \in 1..k : todo[l] = "commit"  BY <2>2
    <3>2. CASE l = 1  BY <3>1, <3>2
    <3>3. CASE l # 1
      <4>1. l - 1 \in 1..(k-1) /\ l - 1 \in 1..(Len(todo) - 1)  BY <1>1, <1>2, <3>3
      <4>2. rest[l - 1] = "commit"  BY <1>1, <3>1, <4>1
      <4>3. QED  BY <4>1, <4>2
    <3>4. QED  BY <3>2, <3>3
  <2>3. QED  BY <1>2, <1>3, <1>4, <2>1, <2>2
<1>5. rest[k] = "remote" => k + 1 <= Len(rest) /\ rest[k + 1] = "commit"
  BY <1>1, <1>2, <1>3
<1>6. QED  BY <1>2, <1>3, <1>4, <1>5

LEMMA PullingFits ==
  ASSUME NEW todo \in Seq(Commands), todo # <<>>, todo[1] = "pull",
         NEW r \in Repositories,
         TodoFits(1, todo, r), CommitsRemain, running'.action = running.action,
         disk'[r].head # NoCommit
  PROVE  /\ [todo EXCEPT ![1] = "pulling"] \in Seq(Commands)
         /\ TodoWillFit(1, [todo EXCEPT ![1] = "pulling"], r)
<1> DEFINE pulling == [todo EXCEPT ![1] = "pulling"]
<1>1. /\ pulling \in Seq(Commands) /\ Len(pulling) = Len(todo) /\ Len(todo) \in Nat
      /\ pulling[1] = "pulling" /\ \A k \in 2..Len(todo) : pulling[k] = todo[k]
  BY FirstReplaced, "pulling" \in Commands DEF Commands
<1> HIDE DEF pulling
<1>2. running.action # "Init"
  <2>1. 1 \in 1..Len(todo)  OBVIOUS
  <2>2. QED  BY <2>1 DEF TodoFits
<1>3. ASSUME NEW k \in 1..Len(todo), k # 1
      PROVE  /\ pulling[k] = todo[k] /\ k \in 2..Len(todo)
             /\ todo[k] # "init" /\ todo[k] # "pulling"
             /\ todo[k] = "push" => disk'[r].head # NoCommit
             /\ todo[k] = "remote" => /\ running'.action = "Publish"
                                      /\ k + 1 <= Len(todo) /\ pulling[k + 1] = "commit"
  BY <1>1, <1>2, <1>3 DEF TodoFits
<1>4. TodoWillFit(1, pulling, r)
  BY <1>1, <1>2, <1>3 DEF TodoWillFit
<1>5. QED  BY <1>1, <1>4 DEF pulling

\* The first job, and the others, before a step.
LEMMA FirstJob ==
  ASSUME IInv, running.jobs # <<>>
  PROVE  /\ Job \in JobType /\ Job.repository \in Repositories /\ Job.todo \in Seq(Commands)
         /\ running.jobs \in Seq(JobType) /\ 1 \in 1..Len(running.jobs)
         /\ Len(running.jobs) \in Nat /\ Len(running.jobs) > 0
         /\ \A i \in 1..Len(running.jobs) :
              /\ running.jobs[i].repository \in Repositories
              /\ running.jobs[i].todo \in Seq(Commands)
         /\ TodoFits(1, Job.todo, Job.repository)
         /\ Running /\ (running.action # "Init" => Job.repository \in found)
<1>1. running.jobs \in Seq(JobType)  BY DEF IInv, Typed, RunningType
<1>2. /\ 1 \in 1..Len(running.jobs) /\ Len(running.jobs) \in Nat /\ Len(running.jobs) > 0
      /\ \A i \in 1..Len(running.jobs) : running.jobs[i] \in JobType
  BY <1>1
<1>3. \A i \in 1..Len(running.jobs) :
        /\ running.jobs[i].repository \in Repositories
        /\ running.jobs[i].todo \in Seq(Commands)
  BY <1>2 DEF JobType
<1>4. TodoFits(1, Job.todo, Job.repository)  BY <1>2 DEF IInv, JobsFit, Job
<1>5. Running /\ (running.action # "Init" => Job.repository \in found)
  BY <1>2 DEF IInv, JobsFit, Job
<1>6. QED  BY <1>1, <1>2, <1>3, <1>4, <1>5 DEF Job

LEMMA CommandDone ==
  ASSUME IInv, running.jobs # <<>>, NEW todo \in Seq(Commands), Todo(todo),
         CommitsRemain, found' = found,
         TodoWillFit(1, todo, Job.repository)
  PROVE  JobsFit'
<1>1. /\ running'.action = running.action /\ running'.succeeded = running.succeeded
      /\ running'.jobs # <<>> /\ Len(running'.jobs) = Len(running.jobs)
      /\ running'.jobs[1].repository = Job.repository
      /\ running'.jobs[1].todo = todo
      /\ \A i \in 2..Len(running.jobs) : running'.jobs[i] = running.jobs[i]
  BY AfterCommand DEF IInv
<1>2. Running' /\ running.action # "none"  BY <1>1, FirstJob DEF Running
<1>3. ASSUME NEW i \in 1..Len(running'.jobs)
      PROVE  /\ TodoWillFit(i, running'.jobs[i].todo, running'.jobs[i].repository)
             /\ running'.action # "Init" => running'.jobs[i].repository \in found'
  <2>1. CASE i = 1  BY <1>1, <2>1, FirstJob
  <2>2. CASE i # 1
    <3>1. i \in 2..Len(running.jobs) /\ i \in 1..Len(running.jobs) /\ i \in Nat
      BY <1>1, <2>2, FirstJob
    <3>2. running'.jobs[i] = running.jobs[i]  BY <1>1, <3>1
    <3>3. /\ TodoFits(i, running.jobs[i].todo, running.jobs[i].repository)
          /\ running.action # "Init" => running.jobs[i].repository \in found
      BY <3>1 DEF IInv, JobsFit
    <3>4. /\ running.jobs[i].repository \in Repositories
          /\ running.jobs[i].todo \in Seq(Commands)
      BY <3>1, FirstJob
    <3>5. TodoWillFit(i, running.jobs[i].todo, running.jobs[i].repository)
      BY <1>1, <3>1, <3>3, <3>4, TodoStillFits
    <3>6. QED  BY <1>1, <3>2, <3>3, <3>5
  <2>3. QED  BY <2>1, <2>2
<1>4. running'.action # "Init" => running'.succeeded \subseteq found'
  BY <1>1 DEF IInv, JobsFit
<1>5. QED  BY <1>2, <1>3, <1>4, JobsWillFit

LEMMA JobOver ==
  ASSUME IInv, running.jobs # <<>>, NEW done \in SUBSET Repositories,
         running' = [running EXCEPT !.jobs = Tail(@), !.succeeded = done],
         done \subseteq running.succeeded \union {Job.repository},
         CommitsRemain, found' = found
  PROVE  JobsFit'
<1>1. /\ running'.action = running.action /\ running'.succeeded = done
      /\ Len(running'.jobs) = Len(running.jobs) - 1
      /\ \A i \in 1..(Len(running.jobs) - 1) : running'.jobs[i] = running.jobs[i + 1]
  BY AfterJob DEF IInv
<1>2. Running' /\ running.action # "none"  BY <1>1, FirstJob DEF Running
<1>3. ASSUME NEW i \in 1..Len(running'.jobs)
      PROVE  /\ TodoWillFit(i, running'.jobs[i].todo, running'.jobs[i].repository)
             /\ running'.action # "Init" => running'.jobs[i].repository \in found'
  <2>1. /\ i + 1 \in 1..Len(running.jobs) /\ i + 1 # 1 /\ i \in Nat /\ i + 1 \in Nat
        /\ i \in 1..(Len(running.jobs) - 1)
    BY <1>1, FirstJob
  <2>2. running'.jobs[i] = running.jobs[i + 1]  BY <1>1, <2>1
  <2>3. /\ TodoFits(i + 1, running.jobs[i + 1].todo, running.jobs[i + 1].repository)
        /\ running.action # "Init" => running.jobs[i + 1].repository \in found
    BY <2>1 DEF IInv, JobsFit
  <2>4. /\ running.jobs[i + 1].repository \in Repositories
        /\ running.jobs[i + 1].todo \in Seq(Commands)
    BY <2>1, FirstJob
  <2>5. TodoWillFit(i, running.jobs[i + 1].todo, running.jobs[i + 1].repository)
    BY <1>1, <2>1, <2>3, <2>4, TodoStillFits
  <2>6. QED  BY <1>1, <2>2, <2>3, <2>5
<1>4. running'.action # "Init" => running'.succeeded \subseteq found'
  BY <1>1, FirstJob DEF IInv, JobsFit
<1>5. QED  BY <1>2, <1>3, <1>4, JobsWillFit

-----------------------------------------------------------------------------
(***************************************************************************)
(* A working tree that moves and is not missable tells the move, or holds  *)
(* what is shown and about to be shown.                                    *)
(***************************************************************************)
LEMMA MovesTell ==
  ASSUME NEW r \in Repositories, NEW d, Becomes(r, d), r \notin missable'
  PROVE  /\ \/ Differs(known[r], d)
            \/ shown[r] = d.content /\ store.read[r] = d.content
         /\ scan.on /\ r \in DOMAIN scan.heads /\ scan.heads[r].head = d.head
              => shown[r] = d.content /\ store.read[r] = d.content
         /\ r \notin missable
<1>1. ~KnownAlready(r, d) \/ Views(r) = {d.content}
  BY DEF Becomes
<1>2. ~KnownAlready(r, d) => Differs(known[r], d)
  BY DEF KnownAlready, Differs
<1>3. scan.on /\ r \in DOMAIN scan.heads /\ scan.heads[r].head = d.head => KnownAlready(r, d)
  BY DEF KnownAlready
<1>4. Views(r) = {d.content} => shown[r] = d.content /\ store.read[r] = d.content
  BY DEF Views
<1>5. QED  BY <1>1, <1>2, <1>3, <1>4 DEF Becomes

-----------------------------------------------------------------------------
(***************************************************************************)
(* A step of an action's job: it works on a repository's tree, which keeps *)
(* its commits and its content but for a pull, and nothing else moves.     *)
(***************************************************************************)
GoodTree(r, d) ==
  /\ d \in DiskType
  /\ d.head \in 0..Len(d.history)
  /\ \A k \in 1..Len(d.history) : d.history[k] \in 1..bounds'.contents
  /\ d.content \in 0..bounds'.contents
  /\ Len(disk[r].history) <= Len(d.history)
  /\ disk[r].head # NoCommit => d.head # NoCommit
  /\ disk[r].exists => d.exists
  /\ d.head = NoCommit => d.changes /\ ~d.upstream

KeepsContent(r, d) ==
  /\ d.content = disk[r].content /\ d.content # Halfway
  /\ missable' = missable
  /\ Differs(known[r], disk[r]) => Differs(known[r], d)

GoesHalfway(r, d) ==
  /\ d.exists /\ d.content = Halfway
  /\ running'.jobs # <<>> /\ running'.jobs[1].repository = r
  /\ running'.jobs[1].todo # <<>> /\ running'.jobs[1].todo[1] = "pulling"
  /\ missable' = missable

Arrives(r, d) == d.exists /\ d.content # Halfway /\ Becomes(r, d)

PublishingNext(r) ==
  /\ running'.action = "Publish" /\ running'.jobs # <<>>
  /\ running'.jobs[1].repository = r
  /\ running'.jobs[1].todo # <<>> /\ running'.jobs[1].todo[1] = "commit"

WorksOn(r, d) ==
  /\ disk' = [disk EXCEPT ![r] = d]
  /\ GoodTree(r, d)
  /\ KeepsContent(r, d) \/ GoesHalfway(r, d) \/ Arrives(r, d)
  /\ d.head = NoCommit /\ d.remote => PublishingNext(r)
  /\ \A x \in Repositories \ {r} : ~Publishing(x) /\ disk[x].content # Halfway

Counts ==
  /\ bounds' \in [contents : Nat \ {0}, asked : Nat]
  /\ bounds.contents <= bounds'.contents

GoesOn ==
  /\ running.jobs # <<>> /\ running' \in RunningType
  /\ running'.action = running.action /\ running'.generation = running.generation

LEMMA WorkedDisk ==
  ASSUME IInv, NEW r \in Repositories, NEW d, WorksOn(r, d), Counts, Working
  PROVE  /\ disk' \in [Repositories -> DiskType] /\ disk'[r] = d
         /\ \A x \in Repositories \ {r} : disk'[x] = disk[x]
         /\ CommitsRemain
         /\ \A x \in Repositories : disk[x].exists => disk'[x].exists
         /\ \A x \in Repositories : Len(disk[x].history) <= Len(disk'[x].history)
         /\ missable \subseteq missable' /\ missable' \subseteq missable \union {r}
         /\ bounds.contents \in Nat /\ bounds'.contents \in Nat /\ bounds.contents <= bounds'.contents
<1>1. disk \in [Repositories -> DiskType]  BY DEF IInv, Typed
<1>2. /\ disk' \in [Repositories -> DiskType] /\ disk'[r] = d
      /\ \A x \in Repositories \ {r} : disk'[x] = disk[x]
  BY <1>1 DEF WorksOn, GoodTree
<1>3. CommitsRemain  BY <1>2 DEF WorksOn, GoodTree, CommitsRemain
<1>4. \A x \in Repositories : disk[x].exists => disk'[x].exists
  BY <1>2 DEF WorksOn, GoodTree
<1>5. \A x \in Repositories : Len(disk[x].history) <= Len(disk'[x].history)
  <2>1. \A x \in Repositories : Len(disk[x].history) \in Nat
    BY <1>1 DEF DiskType
  <2>2. QED  BY <1>2, <2>1 DEF WorksOn, GoodTree
<1>6. missable \subseteq missable' /\ missable' \subseteq missable \union {r}
  BY DEF WorksOn, KeepsContent, GoesHalfway, Arrives, Becomes
<1>7. QED  BY <1>2, <1>3, <1>4, <1>5, <1>6 DEF Counts, IInv, Typed

LEMMA WorkedTrees ==
  ASSUME IInv, NEW r \in Repositories, NEW d, WorksOn(r, d), Counts, Working, GoesOn,
         NEW x \in Repositories
  PROVE  DiskFits(x)' /\ HalfwayFits(x)' /\ StatusFits(known[x], x)'
<1>1. /\ shown' = shown /\ store' = store /\ known' = known
  BY DEF Working
<1>2. /\ DiskFits(x) /\ StatusFits(known[x], x) /\ shown[x] \in Nat /\ store.read[x] \in Nat
      /\ disk[x] \in DiskType /\ disk'[x] \in DiskType
      /\ known[x] \in AnyStatus
  BY WorkedDisk DEF IInv, Each, Typed, StoreType
<1>3. Len(disk[x].history) \in Nat /\ Len(disk'[x].history) \in Nat
  BY <1>2 DEF DiskType
<1>4. StatusFits(known[x], x)'
  <2>1. HasStatus(known[x]) => known[x].head \in Nat
    BY <1>2, StatusIs DEF StatusType
  <2>2. QED  BY <1>1, <1>2, <1>3, <2>1, WorkedDisk DEF StatusFits, CommitsRemain
<1>5. CASE x = r
  <2>1. disk'[x] = d  BY <1>5, WorkedDisk
  <2>2. /\ d.head \in 0..Len(d.history)
        /\ \A k \in 1..Len(d.history) : d.history[k] \in 1..bounds'.contents
        /\ d.content \in 0..bounds'.contents
        /\ d.head = NoCommit => d.changes /\ ~d.upstream
        /\ d.head = NoCommit /\ d.remote => PublishingNext(r)
    BY DEF WorksOn, GoodTree
  <2>3. /\ shown[x] \in 0..bounds'.contents
        /\ store.read[x] \in 0..bounds'.contents
    BY <1>2, WorkedDisk DEF DiskFits
  <2>4. ~d.exists => shown[x] = d.content /\ store.read[x] = d.content
    BY <1>2, <1>5 DEF WorksOn, GoodTree, KeepsContent, GoesHalfway, Arrives, DiskFits
  <2>5. DiskFits(x)'
    BY <1>1, <1>5, <2>1, <2>2, <2>3, <2>4 DEF DiskFits, Publishing, PublishingNext, Job
  <2>6. HalfwayFits(x)'
    BY <1>5, <2>1 DEF WorksOn, KeepsContent, GoesHalfway, Arrives, HalfwayFits, Job
  <2>7. QED  BY <1>4, <2>5, <2>6
<1>6. CASE x # r
  <2>1. disk'[x] = disk[x] /\ ~Publishing(x) /\ disk[x].content # Halfway
    BY <1>6, WorkedDisk DEF WorksOn
  <2>2. /\ \A k \in 1..Len(disk[x].history) : disk[x].history[k] \in 1..bounds'.contents
        /\ disk[x].content \in 0..bounds'.contents
        /\ shown[x] \in 0..bounds'.contents
        /\ store.read[x] \in 0..bounds'.contents
    BY <1>2, WorkedDisk DEF DiskFits
  <2>3. DiskFits(x)'  BY <1>1, <1>2, <2>1, <2>2 DEF DiskFits
  <2>4. HalfwayFits(x)'  BY <2>1 DEF HalfwayFits
  <2>5. QED  BY <1>4, <2>3, <2>4
<1>7. QED  BY <1>5, <1>6

LEMMA WorkedViews ==
  ASSUME IInv, NEW r \in Repositories, NEW d, WorksOn(r, d), Counts, Working, GoesOn,
         NEW x \in Repositories
  PROVE  ReadFits(x)' /\ ScanTells(x)' /\ PanelTells(x)' /\ ShownFits(x)'
           /\ WhatWasReadFits(x)' /\ HeadIsOf(x)'
<1>1. /\ shown' = shown /\ store' = store /\ known' = known /\ scan' = scan
      /\ refresh' = refresh /\ away' = away /\ found' = found
  BY DEF Working
<1>2. Running /\ Running'  BY FirstJob DEF GoesOn, Running
<1>3. scan.on => Outdated'
  <2>1. scan.on => Outdated  BY <1>2 DEF IInv, ScanFits
  <2>2. QED  BY <1>1, <2>1 DEF GoesOn, Outdated
<1>4. ReadFits(x)' /\ ScanTells(x)' /\ HeadIsOf(x)'
  BY <1>1, <1>3 DEF ReadFits, ScanTells, HeadIsOf
<1>5. Coming(x)' /\ PanelTells(x)'
  BY <1>2 DEF Coming, PanelTells
<1>6. ShownFits(x) /\ WhatWasReadFits(x)  BY DEF IInv, Each
<1>7. CASE x # r
  <2>1. disk'[x] = disk[x] /\ (x \in missable => x \in missable')
    BY <1>7, WorkedDisk
  <2>2. Noticed(x) => Noticed(x)'
    BY <1>1, <1>5, <2>1 DEF Noticed, Reloading, Differs
  <2>3. QED  BY <1>1, <1>4, <1>5, <1>6, <2>1, <2>2 DEF ShownFits, WhatWasReadFits
<1>8. CASE x = r
  <2>1. disk'[x] = d  BY <1>8, WorkedDisk
  <2>2. CASE KeepsContent(r, d)
    <3>1. disk[x].content # Halfway  BY <1>8, <2>2 DEF KeepsContent
    <3>2. Noticed(x) => Noticed(x)'
      BY <1>1, <1>5, <1>8, <2>1, <2>2, <3>1 DEF Noticed, Reloading, KeepsContent
    <3>3. disk'[x].content = disk[x].content  BY <1>8, <2>1, <2>2 DEF KeepsContent
    <3>4. QED  BY <1>1, <1>4, <1>5, <1>6, <3>2, <3>3 DEF ShownFits, WhatWasReadFits
  <2>3. CASE GoesHalfway(r, d)
    <3>1. Noticed(x)'  BY <2>1, <2>3 DEF Noticed, GoesHalfway
    <3>2. QED  BY <1>4, <1>5, <3>1 DEF ShownFits, WhatWasReadFits
  <2>4. CASE Arrives(r, d)
    <3>1. x \in missable' \/ Differs(known[x], d)
            \/ (shown[x] = d.content /\ store.read[x] = d.content)
      BY <1>8, <2>4, MovesTell DEF Arrives
    <3>2. CASE x \in missable' \/ Differs(known[x], d)
      <4>1. Noticed(x)'  BY <1>1, <1>5, <2>1, <3>2 DEF Noticed
      <4>2. QED  BY <1>4, <1>5, <4>1 DEF ShownFits, WhatWasReadFits
    <3>3. CASE shown[x] = d.content /\ store.read[x] = d.content
      BY <1>1, <1>4, <1>5, <2>1, <3>3 DEF ShownFits, WhatWasReadFits
    <3>4. QED  BY <3>1, <3>2, <3>3
  <2>5. QED  BY <2>2, <2>3, <2>4 DEF WorksOn
<1>9. QED  BY <1>7, <1>8

\* A step of an action's job keeps the invariant.
LEMMA WorkDone ==
  ASSUME IInv, NEW r \in Repositories, NEW d, WorksOn(r, d), Counts, Working, GoesOn,
         JobsFit'
  PROVE  IInv'
<1>1. /\ shown' = shown /\ store' = store /\ known' = known /\ scan' = scan
      /\ refresh' = refresh /\ away' = away /\ found' = found /\ committed' = committed
  BY DEF Working
<1>2. Running /\ Running'  BY FirstJob DEF GoesOn, Running
<1>3. Typed'
  <2>1. missable' \in SUBSET Repositories  BY WorkedDisk DEF IInv, Typed
  <2>2. QED  BY <1>1, <2>1, WorkedDisk DEF IInv, Typed, Counts, GoesOn
<1>4. \A x \in Repositories : Each(x)'
  BY WorkedTrees, WorkedViews DEF Each
<1>5. Found \subseteq Found'
  BY WorkedDisk DEF Found
<1>6. ScanFits'
  <2>1. scan.on => Outdated  BY <1>2 DEF IInv, ScanFits
  <2>2. scan.on => Outdated'  BY <1>1, <2>1 DEF GoesOn, Outdated
  <2>3. QED  BY <1>1, <1>2, <1>5, <2>2 DEF IInv, ScanFits, GoesOn
<1>7. TypeOK'
  <2>1. \A x \in Repositories : /\ disk'[x].head \in {NoCommit} \union Commits(disk'[x])
                                /\ shown[x] \in 0..bounds'.contents
    <3> TAKE x \in Repositories
    <3>1. DiskFits(x)'  BY <1>4 DEF Each
    <3>2. Len(disk'[x].history) \in Nat  BY WorkedDisk DEF DiskType
    <3>3. QED  BY <1>1, <3>1, <3>2 DEF DiskFits, Commits, NoCommit
  <2>2. running'.action \in {"none", "Init"} \union Actions
    BY DEF IInv, TypeOK, GoesOn
  <2>3. QED  BY <1>1, <1>2, <1>5, <2>1, <2>2 DEF IInv, TypeOK
<1>8. QED  BY <1>3, <1>4, <1>6, <1>7 DEF IInv

-----------------------------------------------------------------------------
(***************************************************************************)
(* Each command of a job, and its end.                                     *)
(***************************************************************************)
LEMMA JobFacts ==
  ASSUME IInv, running.jobs # <<>>
  PROVE  /\ \A x \in Repositories \ {Job.repository} :
              ~Publishing(x) /\ disk[x].content # Halfway
         /\ disk \in [Repositories -> DiskType]
         /\ running \in RunningType /\ running.succeeded \in SUBSET Repositories
         /\ bounds \in [contents : Nat \ {0}, asked : Nat]
         /\ Job.todo = <<>> => /\ disk[Job.repository].content # Halfway
                               /\ ~Publishing(Job.repository)
         /\ Job.todo # <<>> =>
              /\ 1 \in 1..Len(Job.todo)
              /\ Job.todo[1] # "init" => running.action # "Init" /\ disk[Job.repository].exists
              /\ Job.todo[1] \in {"pulling", "push"} => disk[Job.repository].head # NoCommit
              /\ Job.todo[1] # "pulling" => disk[Job.repository].content # Halfway
<1>1. \A x \in Repositories : DiskFits(x) /\ HalfwayFits(x)  BY DEF IInv, Each
<1>2. \A x \in Repositories \ {Job.repository} : ~Publishing(x) /\ disk[x].content # Halfway
  BY <1>1 DEF HalfwayFits, Publishing
<1>3. /\ disk \in [Repositories -> DiskType]
      /\ running \in RunningType /\ running.succeeded \in SUBSET Repositories
      /\ bounds \in [contents : Nat \ {0}, asked : Nat]
  BY DEF IInv, Typed, RunningType
<1>4. /\ Job.repository \in Repositories /\ Job.todo \in Seq(Commands)
      /\ TodoFits(1, Job.todo, Job.repository)
      /\ running.action # "Init" => Job.repository \in found
  BY FirstJob
<1>5. ASSUME Job.todo = <<>>
      PROVE  disk[Job.repository].content # Halfway /\ ~Publishing(Job.repository)
  BY <1>1, <1>4, <1>5 DEF HalfwayFits, Publishing
<1>6. ASSUME Job.todo # <<>>
      PROVE  /\ 1 \in 1..Len(Job.todo)
             /\ Job.todo[1] # "init" => running.action # "Init" /\ disk[Job.repository].exists
             /\ Job.todo[1] \in {"pulling", "push"} => disk[Job.repository].head # NoCommit
             /\ Job.todo[1] # "pulling" => disk[Job.repository].content # Halfway
  <2>1. 1 \in 1..Len(Job.todo)  BY <1>4, <1>6
  <2>2. /\ Job.todo[1] = "init" <=> running.action = "Init"
        /\ Job.todo[1] = "pulling" => disk[Job.repository].head # NoCommit
        /\ Job.todo[1] = "push" => disk[Job.repository].head # NoCommit
    BY <1>4, <2>1 DEF TodoFits
  <2>3. found \subseteq Found  BY DEF IInv, TypeOK
  <2>4. Job.todo[1] # "pulling" => disk[Job.repository].content # Halfway
    BY <1>1, <1>4 DEF HalfwayFits
  <2>5. QED  BY <1>4, <2>1, <2>2, <2>3, <2>4 DEF Found
<1>7. QED  BY <1>2, <1>3, <1>5, <1>6

\* A command that leaves the files and the commits alone.
LEMMA LeavesFiles ==
  ASSUME IInv, NEW r \in Repositories, NEW d \in DiskType,
         d.content = disk[r].content, d.history = disk[r].history, d.head = disk[r].head,
         d.interrupted = disk[r].interrupted, disk[r].exists => d.exists,
         d.head = NoCommit => d.changes /\ ~d.upstream,
         disk[r].content # Halfway, bounds' = bounds, missable' = missable
  PROVE  GoodTree(r, d) /\ KeepsContent(r, d)
<1>1. DiskFits(r) /\ disk[r] \in DiskType  BY DEF IInv, Each, Typed
<1>2. Len(d.history) \in Nat  BY DEF DiskType
<1>3. GoodTree(r, d)  BY <1>1, <1>2 DEF GoodTree, DiskFits
<1>4. QED  BY <1>3 DEF KeepsContent, Differs

LEMMA NothingCounted ==
  ASSUME IInv, bounds' = bounds
  PROVE  Counts
<1>1. bounds \in [contents : Nat \ {0}, asked : Nat]  BY DEF IInv, Typed
<1>2. QED  BY <1>1 DEF Counts

LEMMA JobFailed ==
  ASSUME IInv, running.jobs # <<>>, JobFails, CommitsRemain, found' = found
  PROVE  GoesOn /\ JobsFit'
<1>1. running' = [running EXCEPT !.jobs = Tail(@), !.succeeded = running.succeeded]
  BY JobFacts DEF JobFails, RunningType
<1>2. running.succeeded \in SUBSET Repositories  BY JobFacts
<1>3. GoesOn  BY <1>1, <1>2, AfterJob DEF IInv, GoesOn
<1>4. QED  BY <1>1, <1>2, <1>3, JobOver

LEMMA CommandOver ==
  ASSUME IInv, running.jobs # <<>>, Job.todo # <<>>, StepDone, CommitsRemain, found' = found,
         Job.todo[1] = "commit" => disk'[Job.repository].head # NoCommit
  PROVE  GoesOn /\ JobsFit'
<1>1. Job.todo \in Seq(Commands) /\ Job.repository \in Repositories
      /\ TodoFits(1, Job.todo, Job.repository)
  BY FirstJob
<1>2. Tail(Job.todo) \in Seq(Commands)  BY <1>1, TailFacts
<1>3. Todo(Tail(Job.todo))  BY DEF StepDone
<1>4. GoesOn /\ running'.action = running.action
  BY <1>2, <1>3, AfterCommand DEF IInv, GoesOn
<1>5. TodoWillFit(1, Tail(Job.todo), Job.repository)
  BY <1>1, <1>4, RestFits
<1>6. QED  BY <1>2, <1>3, <1>4, <1>5, CommandDone

LEMMA TreeOnly ==
  ASSUME IInv, NEW r \in Repositories, NEW d,
         disk' = [disk EXCEPT ![r] = d], disk[r].head # NoCommit => d.head # NoCommit
  PROVE  CommitsRemain
BY DEF CommitsRemain, IInv, Typed

\* A command that changes nothing, or a job that is over.
LEMMA NothingDone ==
  ASSUME IInv, running.jobs # <<>>, UNCHANGED <<disk, bounds, missable>>, Working,
         disk[Job.repository].content # Halfway,
         GoesOn, JobsFit',
         Publishing(Job.repository) => disk[Job.repository].head # NoCommit \/ ~disk[Job.repository].remote
  PROVE  IInv'
<1> DEFINE r == Job.repository
<1>1. r \in Repositories /\ disk \in [Repositories -> DiskType] /\ disk[r] \in DiskType
  BY FirstJob, JobFacts
<1>2. disk' = [disk EXCEPT ![r] = disk[r]]  BY <1>1
<1>3. DiskFits(r)  BY <1>1 DEF IInv, Each
<1>4. GoodTree(r, disk[r]) /\ KeepsContent(r, disk[r])
  BY <1>1, <1>3, LeavesFiles DEF DiskFits
<1>5. WorksOn(r, disk[r])
  BY <1>2, <1>3, <1>4, JobFacts DEF WorksOn, DiskFits
<1>6. QED  BY <1>1, <1>5, NothingCounted, WorkDone

LEMMA PullRefusedStep ==
  ASSUME IInv, PullRefused
  PROVE  IInv'
<1>1. running.jobs # <<>> /\ Job.todo # <<>> /\ Job.todo[1] = "pull"
  BY DEF PullRefused, Performs
<1>2. CommitsRemain /\ found' = found  BY DEF CommitsRemain, PullRefused, Working
<1>3. GoesOn /\ JobsFit'  BY <1>1, <1>2, JobFailed DEF PullRefused
<1>4. disk[Job.repository].content # Halfway /\ ~Publishing(Job.repository)
  BY <1>1, JobFacts DEF Publishing
<1>5. QED  BY <1>1, <1>3, <1>4, NothingDone DEF PullRefused

LEMMA NothingToPullStep ==
  ASSUME IInv, NothingToPull
  PROVE  IInv'
<1>1. running.jobs # <<>> /\ Job.todo # <<>> /\ Job.todo[1] = "pull"
  BY DEF NothingToPull, Performs
<1>2. CommitsRemain /\ found' = found  BY DEF CommitsRemain, NothingToPull, Working
<1>3. GoesOn /\ JobsFit'  BY <1>1, <1>2, CommandOver DEF NothingToPull
<1>4. disk[Job.repository].content # Halfway /\ ~Publishing(Job.repository)
  BY <1>1, JobFacts DEF Publishing
<1>5. QED  BY <1>1, <1>3, <1>4, NothingDone DEF NothingToPull

LEMMA JobDoneStep ==
  ASSUME IInv, JobDone
  PROVE  IInv'
<1> DEFINE done == running.succeeded \union {Job.repository}
<1>1. running.jobs # <<>> /\ Job.todo = <<>>  BY DEF JobDone
<1>2. CommitsRemain /\ found' = found  BY DEF CommitsRemain, JobDone, Working
<1>3. done \in SUBSET Repositories  BY <1>1, FirstJob, JobFacts
<1>4. running' = [running EXCEPT !.jobs = Tail(@), !.succeeded = done]
  BY DEF JobDone
<1> HIDE DEF done
<1>5. GoesOn  BY <1>1, <1>3, <1>4, AfterJob DEF IInv, GoesOn
<1>6. JobsFit'
  <2>1. done \subseteq running.succeeded \union {Job.repository}  BY DEF done
  <2>2. QED  BY <1>1, <1>2, <1>3, <1>4, <2>1, JobOver
<1>7. QED  BY <1>1, <1>5, <1>6, JobFacts, NothingDone DEF JobDone

\* A command that fails, and publishing that takes its remote back.
LEMMA GaveUp ==
  ASSUME IInv, running.jobs # <<>>, Job.todo # <<>>, Job.todo[1] # "pulling",
         GivesUp, UNCHANGED <<bounds, missable>>, Working
  PROVE  IInv'
<1> DEFINE r == Job.repository
           kept == disk[r].remote /\ (running.action = "Publish" => Job.todo[1] = "remote")
           d == [disk[r] EXCEPT !.remote = kept]
<1>1. /\ r \in Repositories /\ disk \in [Repositories -> DiskType] /\ disk[r] \in DiskType
      /\ disk[r].content # Halfway
  BY FirstJob, JobFacts
<1>2. disk' = [disk EXCEPT ![r] = d]  BY DEF GivesUp
<1>3. kept \in BOOLEAN  BY <1>1 DEF DiskType
<1>4. kept => disk[r].remote /\ (running.action = "Publish" => Job.todo[1] = "remote")
  OBVIOUS
<1> HIDE DEF kept
<1>5. /\ d \in DiskType /\ d.remote = kept /\ d.exists = disk[r].exists
      /\ d.content = disk[r].content /\ d.history = disk[r].history
      /\ d.head = disk[r].head /\ d.changes = disk[r].changes
      /\ d.interrupted = disk[r].interrupted /\ d.upstream = disk[r].upstream
  BY <1>1, <1>3 DEF DiskType
<1> HIDE DEF d
<1>6. DiskFits(r)  BY <1>1 DEF IInv, Each
<1>7. GoodTree(r, d) /\ KeepsContent(r, d)
  BY <1>1, <1>5, <1>6, LeavesFiles DEF DiskFits
<1>8. ~(d.head = NoCommit /\ d.remote)
  <2>1. Publishing(r) => ~kept  BY <1>4 DEF Publishing
  <2>2. QED  BY <1>4, <1>5, <1>6, <2>1 DEF DiskFits
<1>9. WorksOn(r, d)
  BY <1>2, <1>7, <1>8, JobFacts DEF WorksOn
<1>10. CommitsRemain /\ found' = found
  BY <1>1, <1>2, <1>5, TreeOnly DEF Working
<1>11. GoesOn /\ JobsFit'  BY <1>10, JobFailed DEF GivesUp
<1>12. QED  BY <1>1, <1>9, <1>11, NothingCounted, WorkDone

LEMMA StepFailsStep ==
  ASSUME IInv, StepFails
  PROVE  IInv'
BY GaveUp DEF StepFails

LEMMA InitStepStep ==
  ASSUME IInv, InitStep
  PROVE  IInv'
<1> DEFINE d == [disk[Home] EXCEPT !.exists = TRUE]
<1>1. running.jobs # <<>> /\ Job.todo # <<>> /\ Job.todo[1] = "init"
  BY DEF InitStep, Performs
<1>2. Home \in Repositories  BY RepositoriesAssumption
<1>3. \A x \in Repositories : ~Publishing(x) /\ disk[x].content # Halfway
  BY <1>1, JobFacts DEF Publishing
<1>4. disk' = [disk EXCEPT ![Home] = d]  BY DEF InitStep
<1>5. disk[Home] \in DiskType  BY <1>1, <1>2, JobFacts
<1>6. /\ d \in DiskType /\ d.exists /\ d.remote = disk[Home].remote
      /\ d.content = disk[Home].content /\ d.history = disk[Home].history
      /\ d.head = disk[Home].head /\ d.changes = disk[Home].changes
      /\ d.interrupted = disk[Home].interrupted /\ d.upstream = disk[Home].upstream
  BY <1>5 DEF DiskType
<1> HIDE DEF d
<1>7. DiskFits(Home)  BY <1>2 DEF IInv, Each
<1>8. GoodTree(Home, d) /\ KeepsContent(Home, d)
  BY <1>2, <1>3, <1>6, <1>7, LeavesFiles DEF DiskFits, InitStep
<1>9. WorksOn(Home, d)
  BY <1>2, <1>3, <1>4, <1>6, <1>7, <1>8 DEF WorksOn, DiskFits
<1>10. CommitsRemain /\ found' = found
  BY <1>2, <1>4, <1>6, TreeOnly DEF InitStep, Working
<1>11. GoesOn /\ JobsFit'  BY <1>1, <1>10, CommandOver DEF InitStep
<1>12. QED  BY <1>2, <1>9, <1>11, NothingCounted, WorkDone DEF InitStep

LEMMA PushStep ==
  ASSUME IInv, Push
  PROVE  IInv'
<1> DEFINE r == Job.repository
           d == [disk[r] EXCEPT !.upstream = TRUE]
<1>1. running.jobs # <<>> /\ Job.todo # <<>> /\ Job.todo[1] = "push"
  BY DEF Push, Performs
<1>2. /\ r \in Repositories /\ disk[r] \in DiskType /\ disk[r].content # Halfway
      /\ disk[r].head # NoCommit
  BY <1>1, FirstJob, JobFacts
<1>3. disk' = [disk EXCEPT ![r] = d]  BY DEF Push
<1>4. /\ d \in DiskType /\ d.exists = disk[r].exists
      /\ d.content = disk[r].content /\ d.history = disk[r].history
      /\ d.head = disk[r].head /\ d.interrupted = disk[r].interrupted
  BY <1>2 DEF DiskType
<1> HIDE DEF d
<1>5. GoodTree(r, d) /\ KeepsContent(r, d)
  BY <1>2, <1>4, LeavesFiles DEF Push
<1>6. WorksOn(r, d)
  BY <1>1, <1>2, <1>3, <1>4, <1>5, JobFacts DEF WorksOn
<1>7. CommitsRemain /\ found' = found
  BY <1>2, <1>3, <1>4, TreeOnly DEF Push, Working
<1>8. GoesOn /\ JobsFit'  BY <1>1, <1>7, CommandOver DEF Push
<1>9. QED  BY <1>2, <1>6, <1>8, NothingCounted, WorkDone DEF Push

LEMMA NextCommand ==
  ASSUME NEW todo \in Seq(Commands), 2 <= Len(todo)
  PROVE  /\ Tail(todo) \in Seq(Commands) /\ Tail(todo) # <<>>
         /\ Tail(todo)[1] = todo[2]
OBVIOUS

LEMMA AddRemoteStep ==
  ASSUME IInv, AddRemote
  PROVE  IInv'
<1> DEFINE r == Job.repository
           d == [disk[r] EXCEPT !.remote = TRUE]
<1>1. running.jobs # <<>> /\ Job.todo # <<>> /\ Job.todo[1] = "remote"
  BY DEF AddRemote, Performs
<1>2. /\ r \in Repositories /\ disk[r] \in DiskType /\ disk[r].content # Halfway
      /\ ~Publishing(r) /\ Job.todo \in Seq(Commands) /\ TodoFits(1, Job.todo, r)
      /\ 1 \in 1..Len(Job.todo)
  BY <1>1, FirstJob, JobFacts DEF Publishing
<1>3. CASE disk[r].remote
  <2>1. JobFails /\ UNCHANGED <<disk, bounds, missable>>  BY <1>3 DEF AddRemote
  <2>2. CommitsRemain /\ found' = found  BY <2>1 DEF CommitsRemain, AddRemote, Working
  <2>3. GoesOn /\ JobsFit'  BY <1>1, <2>1, <2>2, JobFailed
  <2>4. QED  BY <1>1, <1>2, <2>1, <2>3, NothingDone DEF AddRemote
<1>4. CASE ~disk[r].remote
  <2>1. disk' = [disk EXCEPT ![r] = d] /\ StepDone /\ UNCHANGED <<bounds, missable>>
    BY <1>4 DEF AddRemote
  <2>2. /\ d \in DiskType /\ d.exists = disk[r].exists /\ d.upstream = disk[r].upstream
        /\ d.content = disk[r].content /\ d.history = disk[r].history
        /\ d.head = disk[r].head /\ d.interrupted = disk[r].interrupted
        /\ d.changes = disk[r].changes
    BY <1>2 DEF DiskType
  <2> HIDE DEF d
  <2>3. DiskFits(r)  BY <1>2 DEF IInv, Each
  <2>4. GoodTree(r, d) /\ KeepsContent(r, d)
    BY <1>2, <2>1, <2>2, <2>3, LeavesFiles DEF DiskFits
  <2>5. CommitsRemain /\ found' = found
    BY <1>2, <2>1, <2>2, TreeOnly DEF AddRemote, Working
  <2>6. GoesOn /\ JobsFit'  BY <1>1, <2>1, <2>5, CommandOver
  <2>7. PublishingNext(r)
    <3>1. /\ running.action = "Publish" /\ 2 <= Len(Job.todo) /\ Job.todo[2] = "commit"
          /\ Len(Job.todo) \in Nat
      BY <1>1, <1>2 DEF TodoFits
    <3>2. /\ Tail(Job.todo) \in Seq(Commands) /\ Tail(Job.todo) # <<>>
          /\ Tail(Job.todo)[1] = "commit"
      BY <1>2, <3>1, NextCommand
    <3>3. /\ running'.jobs # <<>> /\ running'.jobs[1].repository = r
          /\ running'.jobs[1].todo = Tail(Job.todo) /\ running'.action = "Publish"
      BY <1>1, <2>1, <3>1, <3>2, AfterCommand DEF StepDone, IInv
    <3>4. QED  BY <3>1, <3>2, <3>3 DEF PublishingNext
  <2>8. WorksOn(r, d)
    BY <1>1, <2>1, <2>4, <2>7, JobFacts DEF WorksOn
  <2>9. QED  BY <1>2, <2>1, <2>6, <2>8, NothingCounted, WorkDone DEF AddRemote
<1>5. QED  BY <1>3, <1>4

LEMMA CommitStep ==
  ASSUME IInv, Commit
  PROVE  IInv'
<1> DEFINE r == Job.repository
           made == [Committed(disk[r], disk[r].content) EXCEPT !.changes = FALSE]
           d == IF disk[r].changes THEN made ELSE disk[r]
<1>1. running.jobs # <<>> /\ Job.todo # <<>> /\ Job.todo[1] = "commit"
  BY DEF Commit, Performs
<1>2. /\ r \in Repositories /\ disk[r] \in DiskType /\ disk[r].content # Halfway
      /\ DiskFits(r) /\ StatusFits(known[r], r) /\ known[r] \in AnyStatus
      /\ bounds.contents \in Nat
  BY <1>1, FirstJob, JobFacts DEF IInv, Each, Typed
<1>3. CASE disk[r].changes /\ disk[r].interrupted
  <2>1. GivesUp  BY <1>3 DEF Commit
  <2>2. QED  BY <1>1, <2>1, GaveUp DEF Commit
<1>4. CASE ~(disk[r].changes /\ disk[r].interrupted)
  <2>1. StepDone /\ disk' = [disk EXCEPT ![r] = d]
    BY <1>2, <1>4, JobFacts, <1>1 DEF Commit
  <2>2. GoodTree(r, d) /\ d.head # NoCommit /\ KeepsContent(r, d)
    <3>1. CASE disk[r].changes
      <4>1. disk[r].content \in 1..bounds.contents
        BY <1>2 DEF DiskFits, Halfway
      <4>2. \A k \in 1..Len(disk[r].history) : disk[r].history[k] \in 1..bounds.contents
        BY <1>2 DEF DiskFits
      <4>3. /\ MovedTree(made, disk[r], bounds.contents)
            /\ MovedTree(Committed(disk[r], disk[r].content), disk[r], bounds.contents)
            /\ Committed(disk[r], disk[r].content).content = disk[r].content
            /\ Committed(disk[r], disk[r].content).head = Len(disk[r].history) + 1
        BY ZenonT(40), <1>2, <4>1, <4>2, CommittedTree
      <4>4. made.content = disk[r].content /\ made.head = Len(disk[r].history) + 1
        BY <4>3, Marked DEF MovedTree
      <4>5. /\ Len(made.history) \in Nat /\ Len(disk[r].history) \in Nat
            /\ bounds' = bounds /\ missable' = missable /\ d = made
        BY <1>2, <3>1, <4>3 DEF MovedTree, DiskType, Commit
      <4> HIDE DEF made, d
      <4>6. GoodTree(r, d) /\ d.head # NoCommit
        BY <1>2, <4>3, <4>5 DEF GoodTree, MovedTree, NoCommit
      <4>7. Differs(known[r], d)
        <5>1. HasStatus(known[r]) => HeadOf(known[r]) <= Len(disk[r].history)
          BY <1>2, StatusIs DEF StatusFits
        <5>2. ~HasStatus(known[r]) => HeadOf(known[r]) = 0
          BY <1>2, StatusIs DEF NoCommit
        <5>3. HeadOf(known[r]) \in Nat  BY <1>2, StatusIs
        <5>4. QED  BY <4>4, <4>5, <5>1, <5>2, <5>3 DEF Differs
      <4>8. QED  BY <1>2, <4>4, <4>5, <4>6, <4>7 DEF KeepsContent
    <3>2. CASE ~disk[r].changes
      <4>1. d = disk[r] /\ disk[r].head # NoCommit  BY <1>2, <3>2 DEF DiskFits
      <4>2. QED  BY <1>2, <4>1, LeavesFiles DEF Commit
    <3>3. QED  BY <3>1, <3>2
  <2> HIDE DEF d
  <2>3. WorksOn(r, d)  BY <1>1, <2>1, <2>2, JobFacts DEF WorksOn
  <2>4. CommitsRemain /\ found' = found /\ disk'[r].head # NoCommit
    BY <1>1, <1>2, <2>1, <2>2, TreeOnly, JobFacts DEF Commit, Working
  <2>5. GoesOn /\ JobsFit'  BY <1>1, <2>1, <2>4, CommandOver
  <2>6. QED  BY <1>2, <2>3, <2>5, NothingCounted, WorkDone DEF Commit
<1>5. QED  BY <1>3, <1>4

LEMMA PullStartsStep ==
  ASSUME IInv, PullStarts
  PROVE  IInv'
<1> DEFINE r == Job.repository
           d == [disk[r] EXCEPT !.content = Halfway]
           todo == [Job.todo EXCEPT ![1] = "pulling"]
<1>1. /\ running.jobs # <<>> /\ Job.todo # <<>> /\ Job.todo[1] = "pull"
      /\ disk[r].upstream /\ Todo(todo) /\ disk' = [disk EXCEPT ![r] = d]
      /\ missable' = missable /\ CountContent /\ Working
  BY DEF PullStarts, Performs
<1>2. /\ r \in Repositories /\ disk[r] \in DiskType /\ disk \in [Repositories -> DiskType]
      /\ DiskFits(r) /\ disk[r].exists
      /\ Job.todo \in Seq(Commands) /\ TodoFits(1, Job.todo, r)
  BY <1>1, FirstJob, JobFacts DEF IInv, Each
<1>3. disk[r].head # NoCommit  BY <1>1, <1>2 DEF DiskFits
<1>4. /\ d \in DiskType /\ d.exists = disk[r].exists /\ d.content = 0
      /\ d.history = disk[r].history /\ d.head = disk[r].head
      /\ Len(d.history) \in Nat
  <2>1. /\ d \in DiskType /\ d.exists = disk[r].exists /\ d.content = Halfway
        /\ d.history = disk[r].history /\ d.head = disk[r].head
    BY <1>2, 0 \in Nat DEF DiskType, Halfway
  <2>2. Len(disk[r].history) \in Nat  BY <1>2 DEF DiskType
  <2> HIDE DEF d
  <2>3. QED  BY <2>1, <2>2 DEF Halfway
<1> HIDE DEF d
<1>5. Counts /\ bounds.contents \in Nat /\ bounds'.contents \in Nat
  BY <1>1, JobFacts DEF CountContent, Counts
<1>6. CommitsRemain /\ disk'[r].head # NoCommit
  BY <1>1, <1>2, <1>3, <1>4, TreeOnly
<1>7. Todo(todo) /\ todo \in Seq(Commands)
  BY <1>1, <1>2, FirstReplaced, "pulling" \in Commands DEF Commands
<1>8. /\ GoesOn /\ running'.jobs # <<>> /\ running'.jobs[1].repository = r
      /\ running'.jobs[1].todo = todo
  BY <1>1, <1>7, AfterCommand DEF IInv, GoesOn
<1>9. TodoWillFit(1, todo, r)
  BY <1>1, <1>2, <1>6, <1>8, PullingFits DEF GoesOn
<1>10. JobsFit'
  BY <1>1, <1>6, <1>7, <1>9, CommandDone DEF Working
<1>11. todo # <<>> /\ todo[1] = "pulling"
  BY <1>1, <1>2, FirstReplaced, "pulling" \in Commands DEF Commands
<1> HIDE DEF todo
<1>12. GoesHalfway(r, d)
  BY <1>1, <1>2, <1>4, <1>8, <1>11 DEF GoesHalfway, Halfway
<1>13. GoodTree(r, d)
  <2>1. \A k \in 1..Len(d.history) : d.history[k] \in 1..bounds'.contents
    BY <1>2, <1>4, <1>5 DEF DiskFits, Counts
  <2>2. d.head \in 0..Len(d.history)  BY <1>2, <1>4 DEF DiskFits
  <2>3. QED  BY <1>2, <1>3, <1>4, <1>5, <2>1, <2>2 DEF GoodTree
<1>14. WorksOn(r, d)
  BY <1>1, <1>3, <1>4, <1>12, <1>13, JobFacts DEF WorksOn
<1>15. QED  BY <1>1, <1>2, <1>5, <1>8, <1>10, <1>14, WorkDone

\* A working tree that a pull leaves.
LEMMA Pulled ==
  ASSUME IInv, running.jobs # <<>>, Job.todo # <<>>, Job.todo[1] = "pulling",
         NEW d, Becomes(Job.repository, d), bounds' = bounds, Working,
         MovedTree(d, disk[Job.repository], bounds.contents),
         StepDone \/ JobFails
  PROVE  IInv'
<1> DEFINE r == Job.repository
<1>1. /\ r \in Repositories /\ disk[r] \in DiskType /\ disk[r].exists
      /\ disk[r].head # NoCommit /\ Len(disk[r].history) \in Nat
  BY FirstJob, JobFacts DEF DiskType
<1>2. disk' = [disk EXCEPT ![r] = d]  BY DEF Becomes
<1>3. d \in DiskType /\ Len(d.history) \in Nat /\ bounds.contents \in Nat
  BY JobFacts DEF MovedTree, DiskType
<1>4. GoodTree(r, d) /\ d.head # NoCommit /\ d.exists /\ d.content # Halfway
  BY <1>1, <1>3 DEF GoodTree, MovedTree, NoCommit, Halfway
<1>5. WorksOn(r, d)
  BY <1>2, <1>4, JobFacts DEF WorksOn, Arrives
<1>6. CommitsRemain /\ found' = found
  BY <1>1, <1>2, <1>4, TreeOnly DEF Working
<1>7. GoesOn /\ JobsFit'  BY <1>6, CommandOver, JobFailed
<1>8. QED  BY <1>1, <1>5, <1>7, NothingCounted, WorkDone

LEMMA PullEndsStep ==
  ASSUME IInv, PullEnds
  PROVE  IInv'
<1> DEFINE r == Job.repository
           c == disk[r].history[disk[r].head]
           before == [disk[r] EXCEPT !.content = c]
           contents == bounds.contents
<1>1. running.jobs # <<>> /\ Job.todo # <<>> /\ Job.todo[1] = "pulling"
  BY DEF PullEnds, Performs
<1>2. /\ r \in Repositories /\ disk[r] \in DiskType /\ DiskFits(r)
      /\ disk[r].head # NoCommit /\ contents \in Nat /\ contents \in 1..contents
      /\ Len(disk[r].history) \in Nat
  BY <1>1, FirstJob, JobFacts DEF IInv, Each, DiskType
<1>3. disk[r].head \in 1..Len(disk[r].history)  BY <1>2 DEF DiskFits, NoCommit
<1>4. c \in 1..contents /\ c \in Nat  BY <1>2, <1>3 DEF DiskFits
<1>5. before = [disk[r] EXCEPT !.content = c]  OBVIOUS
<1> HIDE DEF c, before
<1>6. /\ before \in DiskType /\ before.history = disk[r].history
      /\ before.head = disk[r].head /\ before.content = c /\ before.exists = disk[r].exists
  BY <1>2, <1>4, <1>5 DEF DiskType
<1>7. Tree(before, contents)  BY <1>2, <1>3, <1>6 DEF Tree, DiskFits
<1>8. \A d : MovedTree(d, before, contents) => MovedTree(d, disk[r], contents)
  BY <1>6 DEF MovedTree
<1>9. /\ UNCHANGED bounds /\ Working
      /\ \/ StepDone /\ Becomes(r, Committed(before, contents))
         \/ StepDone /\ Becomes(r, before)
         \/ JobFails /\ \E d \in Stopped(before, contents) : Becomes(r, d)
  BY DEF PullEnds, c, before
<1>10. CASE StepDone /\ Becomes(r, Committed(before, contents))
  <2>1. MovedTree(Committed(before, contents), before, contents)
    BY <1>2, <1>6, <1>7, CommittedTree DEF Tree
  <2>2. QED  BY <1>1, <1>8, <1>9, <1>10, <2>1, Pulled
<1>11. CASE StepDone /\ Becomes(r, before)
  <2>1. MovedTree(before, disk[r], contents)
    BY <1>2, <1>4, <1>6, <1>7 DEF MovedTree, Tree
  <2>2. QED  BY <1>1, <1>9, <1>11, <2>1, Pulled
<1>12. CASE JobFails /\ \E d \in Stopped(before, contents) : Becomes(r, d)
  <2>1. PICK d \in Stopped(before, contents) : Becomes(r, d)  BY <1>12
  <2>2. MovedTree(d, before, contents)  BY <1>2, <1>7, StoppedTree
  <2>3. QED  BY <1>1, <1>8, <1>9, <1>12, <2>1, <2>2, Pulled
<1>13. QED  BY <1>9, <1>10, <1>11, <1>12

LEMMA PerformStep ==
  ASSUME IInv, Perform
  PROVE  IInv'
BY InitStepStep, AddRemoteStep, CommitStep, PushStep, PullRefusedStep, NothingToPullStep,
   PullStartsStep, PullEndsStep, JobDoneStep, StepFailsStep DEF Perform

-----------------------------------------------------------------------------
(***************************************************************************)
(* What asks for a refresh keeps the invariant: a refresh comes, unless an *)
(* action runs, which asks for one when it is done.                        *)
(***************************************************************************)
SameTree(x) ==
  /\ disk'[x].content = disk[x].content /\ disk'[x].history = disk[x].history
  /\ disk'[x].head = disk[x].head /\ disk'[x].interrupted = disk[x].interrupted
  /\ disk'[x].exists = disk[x].exists /\ disk'[x].upstream = disk[x].upstream
  /\ disk'[x].remote = disk[x].remote
  /\ disk[x].changes => disk'[x].changes

AsksRefresh ==
  \/ refresh' = Scheduled(Running, scan.on, refresh)
  \/ Running /\ refresh' = [refresh EXCEPT !.reloadAfter = TRUE]

\* A reload that was to come still is, and one that begins reads everything.
KeepsReload ==
  /\ store'.read = store.read
  /\ store.reloading => store'.reloading
  /\ Reloading => Reloading'
  /\ store'.reloading /\ ~store.reloading => Reloading'
  /\ store'.again \/ store'.done => store'.reloading

LEMMA ReloadsKeep ==
  ASSUME IInv, store' = store \/ store' = Reloads(store)
  PROVE  KeepsReload
<1>1. store \in StoreType /\ (store.again \/ store.done => store.reloading)
  BY DEF IInv, Typed, TypeOK
<1>2. QED  BY <1>1, ReloadsType DEF KeepsReload, Reloading

\* What AsksRefresh leaves to come.
LEMMA AskedComes ==
  ASSUME IInv, AsksRefresh
  PROVE  /\ Running \/ refresh'.delayed \/ scan.on
         /\ scan.on /\ ~Running => refresh'.pending
         /\ scan.on => ~refresh'.delayed
         /\ refresh'.pending => scan.on
         /\ refresh.pending => refresh'.pending
         /\ refresh'.reloadAfter => Running
         /\ refresh.reloadAfter => refresh'.reloadAfter
<1>1. /\ Running \in BOOLEAN /\ scan.on \in BOOLEAN /\ refresh \in RefreshType
      /\ scan.on => ~refresh.delayed
      /\ refresh.pending => scan.on
      /\ refresh.reloadAfter => Running
  BY BooleansTyped DEF IInv, ScanFits
<1>2. CASE refresh' = Scheduled(Running, scan.on, refresh)
  BY <1>1, <1>2, ScheduledType
<1>3. CASE Running /\ refresh' = [refresh EXCEPT !.reloadAfter = TRUE]
  BY <1>1, <1>3 DEF RefreshType
<1>4. QED  BY <1>2, <1>3 DEF AsksRefresh

LEMMA AskedStep ==
  ASSUME IInv, Typed',
         UNCHANGED <<shown, known, found, committed, scan, missable, running>>,
         bounds'.contents = bounds.contents,
         \A x \in Repositories : SameTree(x),
         AsksRefresh, KeepsReload
  PROVE  IInv'
<1>1. /\ Running \/ refresh'.delayed \/ scan.on
      /\ scan.on /\ ~Running => refresh'.pending
      /\ scan.on => ~refresh'.delayed
      /\ refresh'.pending => scan.on
      /\ refresh.pending => refresh'.pending
      /\ refresh'.reloadAfter => Running
      /\ refresh.reloadAfter => refresh'.reloadAfter
  BY AskedComes
<1>2. (Running' <=> Running) /\ (Outdated' <=> Outdated)
  BY DEF Running, Outdated
<1>3. \A x \in Repositories : Coming(x)'  BY <1>1, <1>2 DEF Coming
<1>4. Found' = Found  BY DEF Found, SameTree
<1>5. scan.on /\ ~Outdated => ~Running  BY DEF IInv, ScanFits
<1>6. JobsFit'
  <2>1. \A i \in 1..Len(running.jobs) : running.jobs[i].repository \in Repositories
    BY FirstJob DEF IInv, JobsFit
  <2>2. QED  BY <2>1, <1>2 DEF IInv, JobsFit, TodoFits, SameTree
<1>7. ScanFits'  BY <1>1, <1>2, <1>4 DEF IInv, ScanFits
<1>8. TypeOK'
  BY <1>1, <1>2, <1>4 DEF IInv, TypeOK, SameTree, Commits, KeepsReload
<1>9. ASSUME NEW x \in Repositories  PROVE Each(x)'
  <2>1. Each(x) /\ SameTree(x)  BY DEF IInv
  <2>2. DiskFits(x)'
    BY <2>1 DEF Each, DiskFits, SameTree, KeepsReload, Publishing, Job
  <2>3. HalfwayFits(x)'  BY <2>1 DEF Each, HalfwayFits, SameTree, Job
  <2>4. StatusFits(known[x], x)'  BY <2>1 DEF Each, StatusFits, SameTree
  <2>5. ReadFits(x)'
    BY <2>1, <1>2 DEF Each, ReadFits, HeadFits, StatusFits, SameTree
  <2>6. ScanTells(x)' /\ PanelTells(x)'
    BY <1>1, <1>2, <1>3, <1>5 DEF ScanTells, PanelTells
  <2>7. Noticed(x) => Noticed(x)'
    BY <1>1, <1>3, <2>1 DEF Noticed, SameTree, Differs, KeepsReload
  <2>8. ShownFits(x)'
    BY <2>1, <2>7 DEF Each, ShownFits, SameTree, KeepsReload
  <2>9. WhatWasReadFits(x)'
    <3>1. CASE store.reloading
      BY <2>1, <2>7, <3>1 DEF Each, WhatWasReadFits, SameTree, KeepsReload
    <3>2. CASE ~store.reloading
      BY <3>2 DEF WhatWasReadFits, Noticed, KeepsReload
    <3>3. QED  BY <3>1, <3>2
  <2>10. HeadIsOf(x)'
    BY <2>1, <1>2 DEF Each, HeadIsOf, SameTree, KeepsReload
  <2>11. QED
    BY <2>2, <2>3, <2>4, <2>5, <2>6, <2>8, <2>9, <2>10 DEF Each
<1>10. QED  BY <1>6, <1>7, <1>8, <1>9 DEF IInv

LEMMA RefreshAllAsks ==
  ASSUME IInv, RefreshAll
  PROVE  AsksRefresh /\ KeepsReload
<1>1. AsksRefresh /\ (store' = store \/ store' = Reloads(store))
  BY DEF RefreshAll, AsksRefresh, ScheduleRefresh
<1>2. QED  BY <1>1, ReloadsKeep

LEMMA AskingStep ==
  ASSUME IInv,
         \/ \E r \in Repositories : Save(r)
         \/ UserRefreshes \/ Return \/ Fetched
  PROVE  IInv'
<1>1. Typed'  BY AskingTyped DEF IInv
<1>2. CASE \E r \in Repositories : Save(r)
  <2>1. PICK r \in Repositories : Save(r)  BY <1>2
  <2>2. \A x \in Repositories : SameTree(x)
    <3>1. disk \in [Repositories -> DiskType]  BY DEF IInv, Typed
    <3>2. disk' = [disk EXCEPT ![r] = [disk[r] EXCEPT !.changes = TRUE]]
      BY <2>1 DEF Save
    <3> DEFINE d == [disk[r] EXCEPT !.changes = TRUE]
    <3>3. /\ d.content = disk[r].content /\ d.history = disk[r].history
          /\ d.head = disk[r].head /\ d.interrupted = disk[r].interrupted
          /\ d.exists = disk[r].exists /\ d.upstream = disk[r].upstream
          /\ d.remote = disk[r].remote /\ d.changes
      BY <3>1 DEF DiskType
    <3> HIDE DEF d
    <3>4. disk' = [disk EXCEPT ![r] = d]  BY <3>2 DEF d
    <3>5. QED  BY <3>1, <3>3, <3>4 DEF SameTree
  <2>3. KeepsReload
    <3>1. /\ store' = [store EXCEPT !.again = store.reloading] /\ store \in StoreType
          /\ store.again \/ store.done => store.reloading
      BY <2>1 DEF Save, IInv, Typed, TypeOK
    <3>2. /\ store'.again = store.reloading /\ store'.reloading = store.reloading
          /\ store'.done = store.done /\ store'.read = store.read
      BY <3>1 DEF StoreType
    <3>3. QED  BY <3>1, <3>2 DEF KeepsReload, Reloading
  <2>4. AsksRefresh  BY <2>1 DEF Save, ScheduleRefresh, AsksRefresh
  <2>5. bounds'.contents = bounds.contents  BY <2>1, AsksTyped DEF Save, IInv
  <2>6. QED  BY <1>1, <2>1, <2>2, <2>3, <2>4, <2>5, AskedStep DEF Save
<1>3. CASE UserRefreshes \/ Return \/ Fetched
  <2>1. AsksRefresh /\ KeepsReload
    BY <1>3, RefreshAllAsks, ReloadsKeep
       DEF UserRefreshes, Return, Fetched, ScheduleRefresh, AsksRefresh
  <2>2. bounds'.contents = bounds.contents
    BY <1>3, AsksTyped DEF UserRefreshes, Return, Fetched, IInv
  <2>3. disk' = disk  BY <1>3 DEF UserRefreshes, Return, Fetched
  <2>4. \A x \in Repositories : SameTree(x)  BY <2>3 DEF SameTree
  <2>5. UNCHANGED <<shown, known, found, committed, scan, missable, running>>
    BY <1>3 DEF UserRefreshes, Return, Fetched
  <2>6. QED  BY <1>1, <2>1, <2>2, <2>4, <2>5, AskedStep
<1>4. QED  BY <1>2, <1>3

-----------------------------------------------------------------------------
(***************************************************************************)
(* An action that starts makes what is being read outdated.                *)
(***************************************************************************)
LEMMA StartedStep ==
  ASSUME IInv, ~Running, NEW action \in {"Init"} \union Actions, NEW jobs \in Seq(JobType),
         Starts(action, jobs), Asks,
         UNCHANGED <<disk, shown, store, known, found, committed, refresh, scan, away,
                     missable>>,
         \A i \in 1..Len(jobs) :
           /\ TodoWillFit(i, jobs[i].todo, jobs[i].repository)
           /\ action # "Init" => jobs[i].repository \in found
  PROVE  IInv'
<1>1. running.generation \in Nat /\ running.jobs = <<>>
  BY DEF IInv, Typed, RunningType, JobsFit
<1>2. /\ running' \in RunningType /\ running'.action = action /\ running'.jobs = jobs
      /\ running'.generation = running.generation + 1 /\ running'.succeeded = {}
  BY <1>1 DEF Starts, RunningType
<1>3. Running'  BY <1>2 DEF Running, Actions
<1>4. scan.on => Outdated'
  <2>1. scan.on => scan.generation <= running.generation  BY DEF IInv, ScanFits
  <2>2. scan.generation \in Nat  BY DEF IInv, Typed, ScanType
  <2>3. QED  BY <1>1, <1>2, <2>1, <2>2 DEF Outdated
<1>5. Typed'  BY <1>2, AsksTyped DEF IInv, Typed
<1>6. bounds'.contents = bounds.contents  BY AsksTyped DEF IInv
<1>7. JobsFit'  BY <1>2, <1>3, JobsWillFit
<1>8. Found' = Found  BY DEF Found
<1>9. ScanFits'
  <2>1. scan.on => scan.generation <= running'.generation
    <3>1. scan.on => scan.generation <= running.generation  BY DEF IInv, ScanFits
    <3>2. scan.generation \in Nat  BY DEF IInv, Typed, ScanType
    <3>3. QED  BY <1>1, <1>2, <3>1, <3>2
  <2>2. QED  BY <1>3, <1>4, <1>8, <2>1 DEF IInv, ScanFits
<1>10. TypeOK'  BY <1>2, <1>3, <1>6, <1>8 DEF IInv, TypeOK
<1>11. ASSUME NEW x \in Repositories  PROVE Each(x)'
  <2>1. Each(x)  BY DEF IInv
  <2>2. disk[x].content # Halfway /\ ~Publishing(x)
    BY <1>1, <2>1 DEF Each, HalfwayFits, Publishing
  <2>3. DiskFits(x)' /\ HalfwayFits(x)' /\ StatusFits(known[x], x)'
    BY <1>6, <2>1, <2>2 DEF Each, DiskFits, HalfwayFits, StatusFits
  <2>4. Coming(x)'  BY <1>3 DEF Coming
  <2>5. ReadFits(x)' /\ ScanTells(x)' /\ PanelTells(x)' /\ HeadIsOf(x)'
    BY <1>4, <2>4 DEF ReadFits, ScanTells, PanelTells, HeadIsOf
  <2>6. Noticed(x) => Noticed(x)'
    BY <2>4 DEF Noticed, Reloading, Differs
  <2>7. ShownFits(x)' /\ WhatWasReadFits(x)'
    BY <2>1, <2>6 DEF Each, ShownFits, WhatWasReadFits
  <2>8. QED  BY <2>3, <2>5, <2>7 DEF Each
<1>12. QED  BY <1>5, <1>7, <1>9, <1>10, <1>11 DEF IInv

LEMMA InitHomeStep ==
  ASSUME IInv, InitHome
  PROVE  IInv'
<1> DEFINE job == [repository |-> Home, todo |-> <<"init">>]
<1>1. <<"init">> \in Seq(Commands) /\ Len(<<"init">>) = 1 /\ <<"init">>[1] = "init"
  BY Tuples, "init" \in Commands DEF Commands
<1>2. job \in JobType  BY <1>1, RepositoriesAssumption DEF JobType
<1>3. job.repository = Home /\ job.todo = <<"init">>  OBVIOUS
<1>4. Starts("Init", <<job>>)  BY DEF InitHome
<1>5. running'.action = "Init"  BY <1>4 DEF Starts
<1> HIDE DEF job
<1>6. <<job>> \in Seq(JobType) /\ Len(<<job>>) = 1 /\ <<job>>[1] = job
  BY <1>2
<1>7. TodoWillFit(1, job.todo, job.repository)
  BY <1>1, <1>3, <1>5 DEF TodoWillFit
<1>8. \A i \in 1..Len(<<job>>) : TodoWillFit(i, <<job>>[i].todo, <<job>>[i].repository)
  BY <1>6, <1>7
<1>9. QED  BY <1>4, <1>6, <1>8, StartedStep DEF InitHome

LEMMA RunStep ==
  ASSUME IInv, NEW action \in Actions, Run(action)
  PROVE  IInv'
<1> PICK targets \in Targets(action) :
      \E order \in SetToSeqs(targets) :
        IF targets = {}
        THEN ScheduleRefresh /\ UNCHANGED running
        ELSE /\ Starts(action, [i \in DOMAIN order |->
                  [repository |-> order[i],
                   todo |-> Steps(action, known[order[i]].upstream)]])
             /\ UNCHANGED refresh
  BY DEF Run
<1>1. PICK order \in SetToSeqs(targets) :
        IF targets = {}
        THEN ScheduleRefresh /\ UNCHANGED running
        ELSE /\ Starts(action, [i \in DOMAIN order |->
                  [repository |-> order[i],
                   todo |-> Steps(action, known[order[i]].upstream)]])
             /\ UNCHANGED refresh
  OBVIOUS
<1>2. /\ UNCHANGED <<disk, shown, store, known, found, committed, scan, away, missable>>
      /\ Asks /\ ~Running
  BY DEF Run
<1>3. CASE targets = {}
  <2>1. ScheduleRefresh /\ UNCHANGED running  BY <1>1, <1>3
  <2>2. Typed'  BY <1>2, <2>1, ScheduleTyped, AsksTyped DEF IInv, Typed
  <2>3. AsksRefresh /\ KeepsReload
    BY <1>2, <2>1, ReloadsKeep DEF AsksRefresh, ScheduleRefresh
  <2>4. \A x \in Repositories : SameTree(x)  BY <1>2 DEF SameTree
  <2>5. bounds'.contents = bounds.contents  BY <1>2, AsksTyped DEF IInv
  <2>6. QED  BY <1>2, <2>1, <2>2, <2>3, <2>4, <2>5, AskedStep
<1>4. CASE targets # {}
  <2> DEFINE jobs == [i \in DOMAIN order |->
                        [repository |-> order[i],
                         todo |-> Steps(action, known[order[i]].upstream)]]
  <2>1. Starts(action, jobs) /\ UNCHANGED refresh  BY <1>1, <1>4
  <2>2. /\ jobs \in Seq(JobType)
        /\ \A i \in 1..Len(jobs) :
             /\ jobs[i].repository \in found
             /\ Applies(action, known[jobs[i].repository])
             /\ jobs[i].todo = Steps(action, known[jobs[i].repository].upstream)
    BY JobsStarted DEF IInv
  <2>3. running'.action = action  BY <2>1 DEF Starts
  <2> HIDE DEF jobs
  <2>4. ASSUME NEW i \in 1..Len(jobs)
        PROVE  TodoWillFit(i, jobs[i].todo, jobs[i].repository)
    <3> DEFINE r == jobs[i].repository
               todo == jobs[i].todo
    <3>1. /\ r \in Repositories /\ Applies(action, known[r])
          /\ todo = Steps(action, known[r].upstream)
      BY <2>2 DEF IInv, Typed
    <3>2. Orderly(action, todo)  BY <3>1, StepsFit
    <3>3. action = "Push" => disk'[r].head # NoCommit
      <4>1. StatusFits(known[r], r) /\ disk' = disk  BY <1>2, <3>1 DEF IInv, Each
      <4>2. action = "Push" => HasStatus(known[r]) /\ known[r].remote
        BY <3>1 DEF Applies
      <4>3. QED  BY <4>1, <4>2 DEF StatusFits
    <3> HIDE DEF r, todo
    <3>4. action # "Init"  BY DEF Actions
    <3>5. TodoWillFit(i, todo, r)
      BY <2>3, <3>2, <3>3, <3>4 DEF Orderly, TodoWillFit
    <3>6. QED  BY <3>5 DEF r, todo
  <2>5. QED  BY <1>2, <2>1, <2>2, <2>4, StartedStep
<1>5. QED  BY <1>3, <1>4

-----------------------------------------------------------------------------
(***************************************************************************)
(* Reading the statuses.                                                   *)
(***************************************************************************)
LEMMA NotDuringActions ==
  ASSUME IInv, ~Running, NEW r \in Repositories
  PROVE  /\ disk[r].content # Halfway
         /\ disk[r].head = NoCommit => ~disk[r].remote
BY DEF IInv, Each, JobsFit, HalfwayFits, DiskFits, Publishing

LEMMA StartScanStep ==
  ASSUME IInv, StartScan
  PROVE  IInv'
<1>1. Typed'  BY ScanningTyped DEF IInv
<1>2. /\ UNCHANGED <<disk, shown, store, known, running, committed, bounds, away, missable>>
      /\ refresh \in RefreshType /\ refresh' = [refresh EXCEPT !.delayed = FALSE]
      /\ refresh.delayed /\ ~scan.on
  BY DEF StartScan, IInv, Typed, ScanFits
<1>3. /\ ~refresh'.delayed /\ refresh'.pending = refresh.pending
      /\ refresh'.reloadAfter = refresh.reloadAfter
      /\ ~refresh.pending
  BY <1>2 DEF RefreshType, IInv, ScanFits
<1>4. (Running' <=> Running) /\ Found' = Found  BY <1>2 DEF Running, Found
<1>5. JobsFit' \/ ~Running
  BY <1>2 DEF StartScan, IInv, JobsFit, TodoFits, Running
<1>6. CASE Running
  <2>1. scan' = scan /\ found' = found  BY <1>6 DEF StartScan
  <2>2. JobsFit'  BY <1>5, <1>6
  <2>3. ScanFits'
    BY <1>2, <1>3, <1>4, <2>1 DEF IInv, ScanFits, Outdated
  <2>4. TypeOK'  BY <1>2, <1>4, <1>6, <2>1 DEF IInv, TypeOK
  <2>5. ASSUME NEW x \in Repositories  PROVE Each(x)'
    <3>1. Each(x)  BY DEF IInv
    <3>2. Coming(x)'  BY <1>4, <1>6 DEF Coming
    <3>3. DiskFits(x)' /\ HalfwayFits(x)' /\ StatusFits(known[x], x)'
      BY <1>2, <3>1 DEF Each, DiskFits, HalfwayFits, StatusFits, Publishing, Job
    <3>4. ReadFits(x)' /\ ScanTells(x)' /\ PanelTells(x)' /\ HeadIsOf(x)'
      BY <1>2, <2>1, <3>2 DEF ReadFits, ScanTells, PanelTells, HeadIsOf
    <3>5. Noticed(x) => Noticed(x)'
      BY <1>2, <1>3, <3>2 DEF Noticed, Reloading, Differs
    <3>6. ShownFits(x)' /\ WhatWasReadFits(x)'
      BY <1>2, <3>1, <3>5 DEF Each, ShownFits, WhatWasReadFits
    <3>7. QED  BY <3>3, <3>4, <3>6 DEF Each
  <2>6. QED  BY <1>1, <2>2, <2>3, <2>4, <2>5 DEF IInv
<1>7. CASE ~Running
  <2>1. /\ scan' = [NoScan EXCEPT !.on = TRUE, !.generation = running.generation,
                                  !.unread = Found]
        /\ found' = Found
    BY <1>7 DEF StartScan
  <2>2. /\ scan'.on /\ scan'.generation = running.generation /\ scan'.unread = Found
        /\ DOMAIN scan'.heads = {} /\ DOMAIN scan'.statuses = {}
    BY <2>1 DEF NoScan
  <2>3. ~Outdated'  BY <1>2, <2>2 DEF Outdated
  <2>4. running.jobs = <<>> /\ running.succeeded = {} /\ running.action = "none"
    BY <1>7 DEF IInv, JobsFit, Running
  <2>5. JobsFit'  BY <1>2, <1>4, <1>7, <2>4 DEF JobsFit
  <2>6. ScanFits'
    <3>1. running.generation \in Nat  BY DEF IInv, Typed, RunningType
    <3>2. ~refresh.reloadAfter  BY <1>7 DEF IInv, ScanFits
    <3>3. QED  BY <1>2, <1>3, <1>4, <1>7, <2>1, <2>2, <2>3, <3>1, <3>2 DEF ScanFits
  <2>7. TypeOK'
    BY <1>2, <1>4, <1>7, <2>1, <2>2 DEF IInv, TypeOK
  <2>8. ASSUME NEW x \in Repositories  PROVE Each(x)'
    <3>1. Each(x)  BY DEF IInv
    <3>2. Coming(x)'  BY <2>2 DEF Coming
    <3>3. DiskFits(x)' /\ HalfwayFits(x)' /\ StatusFits(known[x], x)'
      BY <1>2, <3>1 DEF Each, DiskFits, HalfwayFits, StatusFits, Publishing, Job
    <3>4. ReadFits(x)' /\ ScanTells(x)' /\ PanelTells(x)' /\ HeadIsOf(x)'
      BY <1>4, <2>2, <3>2 DEF ReadFits, ScanTells, Reads, PanelTells, HeadIsOf
    <3>5. Noticed(x) => Noticed(x)'
      BY <1>2, <1>3, <3>2 DEF Noticed, Reloading, Differs
    <3>6. ShownFits(x)' /\ WhatWasReadFits(x)'
      BY <1>2, <3>1, <3>5 DEF Each, ShownFits, WhatWasReadFits
    <3>7. QED  BY <3>3, <3>4, <3>6 DEF Each
  <2>9. QED  BY <1>1, <2>5, <2>6, <2>7, <2>8 DEF IInv
<1>8. QED  BY <1>6, <1>7

\* A step of the scan concerns the reading of one repository.
LEMMA ReadingStep ==
  ASSUME IInv, Typed', NEW r \in Repositories, scan.on,
         UNCHANGED <<disk, shown, store, known, found, running, committed, refresh,
                     bounds, away, missable>>,
         scan'.on = scan.on, scan'.generation = scan.generation,
         scan'.unread \union DOMAIN scan'.statuses = scan.unread \union DOMAIN scan.statuses,
         scan'.unread \cap DOMAIN scan'.statuses = {},
         \A x \in Repositories \ {r} :
           /\ x \in DOMAIN scan'.heads <=> x \in DOMAIN scan.heads
           /\ x \in DOMAIN scan'.statuses <=> x \in DOMAIN scan.statuses
           /\ x \in scan'.unread <=> x \in scan.unread
           /\ x \in DOMAIN scan.heads => scan'.heads[x] = scan.heads[x]
           /\ x \in DOMAIN scan.statuses => scan'.statuses[x] = scan.statuses[x],
         ReadFits(r)', ScanTells(r)', HeadIsOf(r)'
  PROVE  IInv'
<1>1. (Running' <=> Running) /\ (Outdated' <=> Outdated) /\ Found' = Found
  BY DEF Running, Outdated, Found
<1>2. JobsFit'  BY DEF IInv, JobsFit, TodoFits, Running
<1>3. ScanFits'  BY <1>1 DEF IInv, ScanFits
<1>4. TypeOK'  BY <1>1 DEF IInv, TypeOK
<1>5. ASSUME NEW x \in Repositories  PROVE Each(x)'
  <2>1. Each(x)  BY DEF IInv
  <2>2. Coming(x)'  BY DEF Coming
  <2>3. DiskFits(x)' /\ HalfwayFits(x)' /\ StatusFits(known[x], x)'
    BY <2>1 DEF Each, DiskFits, HalfwayFits, StatusFits, Publishing, Job
  <2>4. PanelTells(x)'  BY <2>2 DEF PanelTells
  <2>5. ASSUME x # r  PROVE ReadFits(x)' /\ ScanTells(x)' /\ HeadIsOf(x)'
    <3>1. ReadFits(x)'
      BY <1>1, <2>1, <2>5 DEF Each, ReadFits, HeadFits, StatusFits
    <3>2. ScanTells(x)'  BY <1>1, <2>1, <2>5 DEF Each, ScanTells, Reads, Tells
    <3>3. HeadIsOf(x)'  BY <1>1, <2>1, <2>5 DEF Each, HeadIsOf
    <3>4. QED  BY <3>1, <3>2, <3>3
  <2>6. Noticed(x) => Noticed(x)'  BY <2>2 DEF Noticed, Reloading, Differs
  <2>7. ShownFits(x)' /\ WhatWasReadFits(x)'
    BY <2>1, <2>6 DEF Each, ShownFits, WhatWasReadFits
  <2>8. ReadFits(x)' /\ ScanTells(x)' /\ HeadIsOf(x)'
    <3>1. CASE x = r  BY <3>1 DEF ReadFits, ScanTells, HeadIsOf
    <3>2. CASE x # r  BY <2>5, <3>2
    <3>3. QED  BY <3>1, <3>2
  <2>9. QED  BY <2>3, <2>4, <2>7, <2>8 DEF Each
<1>6. QED  BY <1>2, <1>3, <1>4, <1>5 DEF IInv

LEMMA ScanIsTyped ==
  ASSUME IInv
  PROVE  /\ scan \in ScanType /\ scan.heads \in Partial(StatusType)
         /\ scan.statuses \in Partial(AnyStatus) /\ scan.unread \in SUBSET Repositories
         /\ scan.unread # {} => scan.on
BY DEF IInv, Typed, ScanType, ScanFits

LEMMA ReadHeadStep ==
  ASSUME IInv, NEW r \in Repositories, ReadHead(r)
  PROVE  IInv'
<1> DEFINE status == Status(disk[r], disk[r].head, disk[r].content)
<1>1. disk[r] \in DiskType /\ disk[r].head \in Nat /\ disk[r].content \in Nat
  BY DEF IInv, Typed, DiskType
<1>2. /\ status \in StatusType /\ status.head = disk[r].head
      /\ status.of = disk[r].content /\ status.changes = disk[r].changes
      /\ status.upstream = disk[r].upstream
  BY <1>1, StatusRead
<1> DEFINE heads == Put(scan.heads, r, status)
<1>3. scan' = [scan EXCEPT !.heads = heads] /\ heads = Put(scan.heads, r, status)
  BY DEF ReadHead
<1> HIDE DEF status, heads
<1>4. /\ heads \in Partial(StatusType) /\ DOMAIN heads = DOMAIN scan.heads \union {r}
      /\ heads[r] = status /\ \A x \in DOMAIN scan.heads \ {r} : heads[x] = scan.heads[x]
  <2> DEFINE f == scan.heads
  <2>1. f \in Partial(StatusType) /\ status \in StatusType  BY <1>2, ScanIsTyped
  <2> HIDE DEF f
  <2>2. /\ Put(f, r, status) \in Partial(StatusType)
        /\ DOMAIN Put(f, r, status) = DOMAIN f \union {r}
        /\ Put(f, r, status)[r] = status
        /\ \A x \in DOMAIN f \ {r} : Put(f, r, status)[x] = f[x]
    BY <2>1, PutType
  <2>3. QED  BY <1>3, <2>2 DEF f
<1>5. /\ scan'.on = scan.on /\ scan'.generation = scan.generation
      /\ scan'.unread = scan.unread /\ scan'.statuses = scan.statuses /\ scan'.heads = heads
  BY <1>3, ScanIsTyped DEF ScanType
<1>6. r \in scan.unread /\ scan.on /\ r \notin DOMAIN scan.statuses
  BY ScanIsTyped DEF ReadHead, IsNext, IInv, ScanFits
<1>7. UNCHANGED <<disk, shown, store, known, found, running, committed, refresh,
                  bounds, away, missable>>
  BY DEF ReadHead
<1>8. (Outdated' <=> Outdated) /\ (~Outdated => ~Running)
  BY <1>5, <1>6, <1>7 DEF Outdated, IInv, ScanFits
<1>9. ReadFits(r)'
  <2>1. ~Running => disk[r].content # Halfway  BY NotDuringActions
  <2>2. disk[r].head <= Len(disk[r].history)
    <3>1. DiskFits(r) /\ Len(disk[r].history) \in Nat  BY <1>1 DEF IInv, Each, DiskType
    <3>2. QED  BY <3>1 DEF DiskFits
  <2>3. QED
    BY <1>2, <1>4, <1>5, <1>6, <1>7, <1>8, <2>1, <2>2 DEF ReadFits, HeadFits
<1>10. ScanTells(r)'
  BY <1>2, <1>4, <1>5, <1>6, <1>7 DEF ScanTells, Reads
<1>11. HeadIsOf(r)'
  BY <1>2, <1>4, <1>5, <1>7 DEF HeadIsOf
<1>12. Typed'  BY ScanningTyped DEF IInv
<1>13. scan.unread \cap DOMAIN scan.statuses = {}  BY DEF IInv, ScanFits
<1>14. \A x \in Repositories \ {r} :
         /\ x \in DOMAIN scan'.heads <=> x \in DOMAIN scan.heads
         /\ x \in DOMAIN scan.heads => scan'.heads[x] = scan.heads[x]
  BY <1>4, <1>5
<1>15. QED
  BY <1>5, <1>6, <1>7, <1>9, <1>10, <1>11, <1>12, <1>13, <1>14, ReadingStep

LEMMA PutStatus ==
  ASSUME IInv, NEW r \in Repositories, NEW status \in AnyStatus
  PROVE  /\ Put(scan.statuses, r, status) \in Partial(AnyStatus)
         /\ DOMAIN Put(scan.statuses, r, status) = DOMAIN scan.statuses \union {r}
         /\ Put(scan.statuses, r, status)[r] = status
         /\ \A x \in DOMAIN scan.statuses \ {r} :
              Put(scan.statuses, r, status)[x] = scan.statuses[x]
<1> DEFINE f == scan.statuses
<1>1. f \in Partial(AnyStatus)  BY ScanIsTyped
<1> HIDE DEF f
<1>2. Put(f, r, status) \in Partial(AnyStatus)  BY <1>1, PutType
<1>3. DOMAIN Put(f, r, status) = DOMAIN f \union {r}  BY <1>1, PutType
<1>4. Put(f, r, status)[r] = status  BY DEF Put
<1>5. \A x \in DOMAIN f \ {r} : Put(f, r, status)[x] = f[x]  BY DEF Put
<1>6. QED  BY <1>2, <1>3, <1>4, <1>5 DEF f

\* A status that was read, or could not be, is the repository's.
LEMMA StatusPut ==
  ASSUME IInv, NEW r \in Repositories, r \in scan.unread, NEW status \in AnyStatus,
         NEW statuses, statuses = Put(scan.statuses, r, status),
         scan' = [scan EXCEPT !.unread = @ \ {r}, !.statuses = statuses],
         UNCHANGED <<disk, shown, store, known, found, running, committed, refresh,
                     bounds, away, missable>>,
         Typed',
         scan.on /\ ~Outdated =>
           /\ StatusFits(status, r)
           /\ HasStatus(status) => /\ r \in DOMAIN scan.heads
                                   /\ status.head = scan.heads[r].head
                                   /\ status.of = scan.heads[r].of,
         ScanTells(r) => ~scan.on \/ Outdated \/ r \notin Found \/ refresh.pending \/ r \in away
                           \/ status = Failed \/ Tells(status, disk[r])
  PROVE  IInv'
<1>2. /\ statuses \in Partial(AnyStatus) /\ DOMAIN statuses = DOMAIN scan.statuses \union {r}
      /\ statuses[r] = status
      /\ \A x \in DOMAIN scan.statuses \ {r} : statuses[x] = scan.statuses[x]
  BY PutStatus
<1>3. /\ scan'.on = scan.on /\ scan'.generation = scan.generation
      /\ scan'.unread = scan.unread \ {r} /\ scan'.statuses = statuses
      /\ scan'.heads = scan.heads
  BY ScanIsTyped DEF ScanType
<1>4. scan.on /\ r \notin DOMAIN scan.statuses
  BY ScanIsTyped DEF IInv, ScanFits
<1>5. (Outdated' <=> Outdated) /\ Found' = Found  BY <1>3 DEF Outdated, Found
<1>6. Each(r)  BY DEF IInv
<1>7. ReadFits(r)'
  BY <1>2, <1>3, <1>5, <1>6 DEF Each, ReadFits, HeadFits, StatusFits
<1>8. ScanTells(r)'
  BY <1>2, <1>3, <1>5, <1>6 DEF Each, ScanTells, Reads, Tells
<1>9. HeadIsOf(r)'  BY <1>3, <1>5, <1>6 DEF Each, HeadIsOf
<1>10. /\ scan'.unread \union DOMAIN scan'.statuses = scan.unread \union DOMAIN scan.statuses
       /\ scan'.unread \cap DOMAIN scan'.statuses = {}
  BY <1>2, <1>3 DEF IInv, ScanFits
<1>11. \A x \in Repositories \ {r} :
         /\ x \in DOMAIN scan'.heads <=> x \in DOMAIN scan.heads
         /\ x \in DOMAIN scan'.statuses <=> x \in DOMAIN scan.statuses
         /\ x \in scan'.unread <=> x \in scan.unread
         /\ x \in DOMAIN scan.heads => scan'.heads[x] = scan.heads[x]
         /\ x \in DOMAIN scan.statuses => scan'.statuses[x] = scan.statuses[x]
  BY <1>2, <1>3
<1>12. QED
  BY <1>3, <1>4, <1>7, <1>8, <1>9, <1>10, <1>11, ReadingStep

LEMMA ReadFailsStep ==
  ASSUME IInv, NEW r \in Repositories, ReadFails(r)
  PROVE  IInv'
<1>1. Typed'  BY ScanningTyped DEF IInv
<1>2. Failed \in AnyStatus /\ ~HasStatus(Failed)  BY DEF AnyStatus, HasStatus, Failed
<1>3. r \in scan.unread  BY DEF ReadFails, IsNext
<1>4. QED  BY <1>1, <1>2, <1>3, StatusPut DEF ReadFails, StatusFits

LEMMA ReadRestStep ==
  ASSUME IInv, NEW r \in Repositories, ReadRest(r)
  PROVE  IInv'
<1> DEFINE status == [scan.heads[r] EXCEPT !.remote = disk[r].remote,
                                           !.interrupted = disk[r].interrupted]
<1>1. Typed'  BY ScanningTyped DEF IInv
<1>2. r \in scan.unread /\ r \in DOMAIN scan.heads  BY DEF ReadRest
<1>3. scan.heads[r] \in StatusType /\ disk[r] \in DiskType
  BY <1>2, ScanIsTyped, PartialType DEF IInv, Typed
<1>4. /\ scan' = [scan EXCEPT !.unread = @ \ {r}, !.statuses = Put(@, r, status)]
      /\ UNCHANGED <<disk, shown, store, known, found, running, committed, refresh,
                     bounds, away, missable>>
      /\ status = [scan.heads[r] EXCEPT !.remote = disk[r].remote,
                                        !.interrupted = disk[r].interrupted]
  BY DEF ReadRest
<1> HIDE DEF status
<1>5. /\ status \in StatusType /\ status.head = scan.heads[r].head
      /\ status.of = scan.heads[r].of /\ status.changes = scan.heads[r].changes
      /\ status.upstream = scan.heads[r].upstream
      /\ status.remote = disk[r].remote /\ status.interrupted = disk[r].interrupted
  <2>1. status = Completed(scan.heads[r], disk[r])  BY <1>4 DEF Completed
  <2>2. QED  BY <1>3, <2>1, RestRead
<1>6. Each(r) /\ r \notin DOMAIN scan.statuses  BY <1>2 DEF IInv, ScanFits
<1>7. scan.on /\ ~Outdated =>
        /\ StatusFits(status, r)
        /\ HasStatus(status) => /\ r \in DOMAIN scan.heads
                                /\ status.head = scan.heads[r].head
                                /\ status.of = scan.heads[r].of
  <2>1. scan.on /\ ~Outdated => ~Running  BY DEF IInv, ScanFits
  <2>2. scan.on /\ ~Outdated => HeadFits(scan.heads[r], r)
    BY <1>2, <1>6 DEF Each, ReadFits
  <2>3. QED  BY <1>2, <1>5, <2>1, <2>2, NotDuringActions DEF StatusFits, HeadFits
<1>8. status.head = disk[r].head /\ status.changes = disk[r].changes
        /\ status.upstream = disk[r].upstream => Tells(status, disk[r])
  <2>1. HasStatus(status)  BY <1>5 DEF HasStatus, StatusType
  <2>2. ASSUME status.head = disk[r].head, status.changes = disk[r].changes,
               status.upstream = disk[r].upstream
        PROVE  status = Status(disk[r], disk[r].head, status.of)
    <3>1. /\ Status(disk[r], disk[r].head, status.of) \in StatusType
      BY <1>3, <1>5 DEF Status, StatusType, DiskType
    <3>2. QED  BY <1>5, <2>2, <3>1 DEF Status, StatusType
  <2>3. QED  BY <2>1, <2>2 DEF Tells
<1>9. scan.on /\ ~Outdated /\ r \in Found /\ ~refresh.pending /\ r \notin away
        => Tells(status, disk[r])
  BY <1>2, <1>5, <1>6, <1>8 DEF Each, ScanTells, Reads
<1>10. status \in AnyStatus  BY <1>5 DEF AnyStatus
<1>11. QED  BY <1>1, <1>2, <1>4, <1>7, <1>9, <1>10, StatusPut

-----------------------------------------------------------------------------
(***************************************************************************)
(* The reload of the collections, and the end of an action.                *)
(***************************************************************************)
LEMMA ReadCollectionsStep ==
  ASSUME IInv, ReadCollections
  PROVE  IInv'
<1>1. Typed'  BY ReadTyped DEF IInv
<1>2. /\ store \in StoreType /\ store.reloading /\ ~store.done
      /\ store' = [store EXCEPT !.done = TRUE,
                                !.read = [r \in Repositories |-> disk[r].content]]
      /\ UNCHANGED <<disk, shown, known, found, running, committed, refresh, scan,
                     bounds, away, missable>>
  BY DEF ReadCollections, IInv, Typed
<1>3. /\ store'.reloading /\ store'.done /\ store'.again = store.again
      /\ \A x \in Repositories : store'.read[x] = disk[x].content
  BY <1>2 DEF StoreType
<1>4. (Running' <=> Running) /\ (Outdated' <=> Outdated) /\ Found' = Found
  BY <1>2 DEF Running, Outdated, Found
<1>5. JobsFit' /\ ScanFits' /\ TypeOK'
  BY <1>2, <1>3, <1>4 DEF IInv, JobsFit, TodoFits, ScanFits, TypeOK
<1>6. ASSUME NEW x \in Repositories  PROVE Each(x)'
  <2>1. Each(x) /\ (Coming(x) <=> Coming(x)')
    BY <1>2, <1>4 DEF IInv, Coming
  <2>2. DiskFits(x)' /\ HalfwayFits(x)' /\ StatusFits(known[x], x)'
    BY <1>2, <1>3, <2>1 DEF Each, DiskFits, HalfwayFits, StatusFits, Publishing, Job
  <2>3. ReadFits(x)' /\ ScanTells(x)' /\ PanelTells(x)'
    BY <1>2, <1>4, <2>1
       DEF Each, ReadFits, HeadFits, StatusFits, ScanTells, Reads, Tells, PanelTells
  <2>4. ShownFits(x)' /\ WhatWasReadFits(x)'
    BY <1>2, <1>3 DEF ShownFits, WhatWasReadFits
  <2>5. HeadIsOf(x)'
    BY <1>2, <1>3, <1>4, <2>1 DEF Each, HeadIsOf
  <2>6. QED  BY <2>2, <2>3, <2>4, <2>5 DEF Each
<1>7. QED  BY <1>1, <1>5, <1>6 DEF IInv

LEMMA ReloadedAgain ==
  ASSUME IInv, Reloaded, store.again
  PROVE  IInv'
<1>1. Typed'  BY ReadTyped DEF IInv
<1>2. /\ store \in StoreType /\ store.reloading
      /\ store' = [store EXCEPT !.again = FALSE, !.done = FALSE]
      /\ UNCHANGED <<disk, shown, known, found, running, committed, refresh, scan,
                     bounds, away, missable>>
  BY DEF Reloaded, IInv, Typed
<1>3. store'.reloading /\ ~store'.done /\ ~store'.again /\ store'.read = store.read
  BY <1>2 DEF StoreType
<1>4. (Running' <=> Running) /\ (Outdated' <=> Outdated) /\ Found' = Found
  BY <1>2 DEF Running, Outdated, Found
<1>5. JobsFit' /\ ScanFits' /\ TypeOK'
  BY <1>2, <1>3, <1>4 DEF IInv, JobsFit, TodoFits, ScanFits, TypeOK
<1>6. ASSUME NEW x \in Repositories  PROVE Each(x)'
  <2>1. Each(x) /\ (Coming(x) <=> Coming(x)')
    BY <1>2, <1>4 DEF IInv, Coming
  <2>2. DiskFits(x)' /\ HalfwayFits(x)' /\ StatusFits(known[x], x)'
    BY <1>2, <1>3, <2>1 DEF Each, DiskFits, HalfwayFits, StatusFits, Publishing, Job
  <2>3. ReadFits(x)' /\ ScanTells(x)' /\ PanelTells(x)'
    BY <1>2, <1>4, <2>1
       DEF Each, ReadFits, HeadFits, StatusFits, ScanTells, Reads, Tells, PanelTells
  <2>4. ShownFits(x)' /\ WhatWasReadFits(x)'
    BY <1>3 DEF ShownFits, WhatWasReadFits, Noticed, Reloading
  <2>5. HeadIsOf(x)'
    BY <1>2, <1>3, <1>4, <2>1 DEF Each, HeadIsOf
  <2>6. QED  BY <2>2, <2>3, <2>4, <2>5 DEF Each
<1>7. QED  BY <1>1, <1>5, <1>6 DEF IInv

LEMMA ReloadedLast ==
  ASSUME IInv, Reloaded, ~store.again
  PROVE  IInv'
<1>1. Typed'  BY ReadTyped DEF IInv
<1>2. /\ store \in StoreType /\ store.reloading /\ store.done
      /\ store' = [store EXCEPT !.reloading = FALSE, !.done = FALSE]
      /\ shown' = store.read /\ ScheduleRefresh
      /\ missable' = {r \in missable : store.read[r] # disk[r].content}
                       \union {r \in Repositories : store.read[r] = Halfway}
      /\ UNCHANGED <<disk, known, found, running, committed, scan, bounds, away>>
  BY DEF Reloaded, IInv, Typed
<1>3. ~store'.reloading /\ ~store'.done /\ ~store'.again /\ store'.read = store.read
  BY <1>2 DEF StoreType
<1>4. (Running' <=> Running) /\ (Outdated' <=> Outdated) /\ Found' = Found
  BY <1>2 DEF Running, Outdated, Found
<1>5. /\ Running \/ refresh'.delayed \/ scan.on
      /\ scan.on /\ ~Running => refresh'.pending
      /\ scan.on => ~refresh'.delayed
      /\ refresh'.pending => scan.on
      /\ refresh.pending => refresh'.pending
      /\ refresh'.reloadAfter => Running
      /\ refresh.reloadAfter => refresh'.reloadAfter
  BY <1>2, AskedComes DEF AsksRefresh, ScheduleRefresh
<1>6. scan.on /\ ~Outdated => ~Running  BY DEF IInv, ScanFits
<1>7. JobsFit' /\ ScanFits'
  BY <1>2, <1>4, <1>5 DEF IInv, JobsFit, TodoFits, ScanFits
<1>8. TypeOK'
  <2>1. \A r \in Repositories : store.read[r] \in 0..bounds.contents
    BY DEF IInv, Each, DiskFits
  <2>2. QED  BY <1>2, <1>3, <1>4, <1>5, <2>1 DEF IInv, TypeOK
<1>9. ASSUME NEW x \in Repositories  PROVE Each(x)'
  <2>1. Each(x)  BY DEF IInv
  <2>2. Coming(x)'  BY <1>2, <1>4, <1>5 DEF Coming
  <2>3. shown'[x] = store.read[x]  BY <1>2
  <2>4. DiskFits(x)' /\ HalfwayFits(x)' /\ StatusFits(known[x], x)'
    BY <1>2, <1>3, <2>1, <2>3 DEF Each, DiskFits, HalfwayFits, StatusFits, Publishing, Job
  <2>5. ReadFits(x)' /\ ScanTells(x)' /\ PanelTells(x)'
    BY <1>2, <1>4, <1>5, <1>6, <2>1, <2>2
       DEF Each, ReadFits, HeadFits, StatusFits, ScanTells, PanelTells
  <2>6. ShownFits(x)'
    <3>1. CASE store.read[x] = disk[x].content  BY <1>2, <2>3, <3>1 DEF ShownFits
    <3>2. CASE store.read[x] = Halfway  BY <1>2, <3>2 DEF ShownFits, Noticed
    <3>3. CASE Noticed(x) /\ store.read[x] # disk[x].content
      <4>1. x \in missable => x \in missable'  BY <1>2, <3>3
      <4>2. ~Reloading  BY <1>2 DEF Reloading
      <4>3. Noticed(x)'
        BY <1>2, <1>5, <2>2, <3>3, <4>1, <4>2 DEF Noticed, Differs
      <4>4. QED  BY <4>3 DEF ShownFits
    <3>4. QED  BY <1>2, <2>1, <3>1, <3>2, <3>3 DEF Each, WhatWasReadFits
  <2>7. WhatWasReadFits(x)'  BY <1>3 DEF WhatWasReadFits
  <2>8. HeadIsOf(x)'
    <3>1. CASE store.read[x] = disk[x].content
      BY <1>2, <1>3, <2>3, <3>1 DEF HeadIsOf
    <3>2. CASE store.read[x] # disk[x].content
      <4>1. x \in missable => x \in missable'  BY <1>2, <3>2
      <4>2. QED  BY <1>2, <1>4, <2>1, <3>2, <4>1 DEF Each, HeadIsOf
    <3>3. QED  BY <3>1, <3>2
  <2>9. QED  BY <2>4, <2>5, <2>6, <2>7, <2>8 DEF Each
<1>10. QED  BY <1>1, <1>7, <1>8, <1>9 DEF IInv

LEMMA FinishActionStep ==
  ASSUME IInv, FinishAction
  PROVE  IInv'
<1> DEFINE now == [refresh EXCEPT !.reloadAfter = FALSE]
<1>1. /\ Running /\ running.jobs = <<>> /\ running.generation \in Nat
      /\ running.succeeded \in SUBSET Repositories
      /\ running' = [NoAction EXCEPT !.generation = running.generation]
      /\ refresh' = Scheduled(FALSE, scan.on, now)
      /\ UNCHANGED <<disk, shown, known, found, scan, bounds, away, missable>>
  BY DEF FinishAction, IInv, Typed, RunningType
<1>2. /\ running'.action = "none" /\ running'.generation = running.generation
      /\ running'.jobs = <<>> /\ running'.succeeded = {} /\ running' \in RunningType
  <2>1. <<>> \in Seq(JobType)  OBVIOUS
  <2>2. QED  BY <1>1, <2>1 DEF NoAction, RunningType
<1>3. ~Running' /\ (Outdated' <=> Outdated) /\ Found' = Found
  BY <1>1, <1>2 DEF Running, Outdated, Found
<1>4. /\ now \in RefreshType /\ ~now.reloadAfter /\ now.delayed = refresh.delayed
      /\ now.pending = refresh.pending /\ scan.on \in BOOLEAN
  BY BooleansTyped DEF IInv, RefreshType
<1> HIDE DEF now
<1>5. /\ refresh' \in RefreshType /\ ~refresh'.reloadAfter
      /\ scan.on => refresh'.pending /\ ~refresh'.delayed
      /\ ~scan.on => refresh'.delayed /\ ~refresh'.pending
  <2>1. /\ scan.on => ~refresh.delayed
        /\ refresh.pending => scan.on
    BY DEF IInv, ScanFits
  <2>2. QED  BY <1>1, <1>4, <2>1, ScheduledType, FALSE \in BOOLEAN
<1>6. /\ store' = store \/ store' = Reloads(store)
      /\ refresh.reloadAfter => store' = Reloads(store)
  BY DEF FinishAction
<1>7. KeepsReload /\ store' \in StoreType /\ (refresh.reloadAfter => Reloading')
  BY <1>6, ReloadsKeep, ReloadsType, BooleansTyped DEF IInv, Reloading
<1>8. committed' \subseteq found
  <2>1. committed \subseteq found  BY DEF IInv, TypeOK
  <2>2. running.action # "Init" => running.succeeded \subseteq found
    BY DEF IInv, JobsFit
  <2>3. QED  BY <2>1, <2>2 DEF FinishAction
<1>9. Typed'  BY <1>1, <1>2, <1>5, <1>7, <1>8 DEF IInv, Typed
<1>10. JobsFit'  BY <1>2 DEF JobsFit
<1>11. scan.on => Outdated  BY <1>1 DEF IInv, ScanFits
<1>12. ScanFits'
  BY <1>1, <1>2, <1>3, <1>5, <1>11 DEF IInv, ScanFits
<1>13. TypeOK'
  BY <1>1, <1>2, <1>3, <1>5, <1>7, <1>8 DEF IInv, TypeOK, KeepsReload
<1>14. ASSUME NEW x \in Repositories  PROVE Each(x)'
  <2>1. Each(x)  BY DEF IInv
  <2>2. Coming(x)'  BY <1>1, <1>5 DEF Coming
  <2>3. disk[x].content # Halfway /\ ~Publishing(x)
    BY <1>1, <2>1 DEF Each, HalfwayFits, Publishing
  <2>4. DiskFits(x)' /\ HalfwayFits(x)' /\ StatusFits(known[x], x)'
    BY <1>1, <1>7, <2>1, <2>3 DEF Each, DiskFits, HalfwayFits, StatusFits, KeepsReload
  <2>5. ReadFits(x)' /\ ScanTells(x)' /\ PanelTells(x)' /\ HeadIsOf(x)'
    BY <1>1, <1>3, <1>11, <2>2 DEF ReadFits, ScanTells, PanelTells, HeadIsOf
  <2>6. Noticed(x) => Noticed(x)'
    BY <1>1, <1>7, <2>2 DEF Noticed, Differs, KeepsReload
  <2>7. ShownFits(x)'
    BY <1>1, <1>7, <2>1, <2>6 DEF Each, ShownFits, KeepsReload
  <2>8. WhatWasReadFits(x)'
    <3>1. CASE store.reloading
      BY <1>1, <1>7, <2>1, <2>6, <3>1 DEF Each, WhatWasReadFits, KeepsReload
    <3>2. CASE ~store.reloading
      BY <1>7, <3>2 DEF WhatWasReadFits, Noticed, KeepsReload
    <3>3. QED  BY <3>1, <3>2
  <2>9. QED  BY <2>4, <2>5, <2>7, <2>8 DEF Each
<1>15. QED  BY <1>9, <1>10, <1>12, <1>13, <1>14 DEF IInv

-----------------------------------------------------------------------------
(***************************************************************************)
(* Git in a terminal: the window comes back, and either HEAD tells of the  *)
(* move or what is shown and about to be is what the files hold.           *)
(***************************************************************************)
LEMMA TerminalStep ==
  ASSUME IInv, NEW r \in Repositories, Terminal(r)
  PROVE  IInv'
<1>1. PICK d : Becomes(r, d) /\ MovedTree(d, disk[r], bounds'.contents)
  BY TerminalMoves
<1>2. Typed'  BY TerminalTyped
<1>3. /\ disk' = [disk EXCEPT ![r] = d] /\ disk \in [Repositories -> DiskType]
      /\ missable' = missable \/ missable' = missable \union {r}
      /\ away' = away \union {r}
      /\ UNCHANGED <<shown, store, known, found, running, committed, refresh, scan>>
  BY <1>1 DEF Becomes, Terminal, IInv, Typed
<1>4. /\ disk'[r] = d /\ \A x \in Repositories \ {r} : disk'[x] = disk[x]
      /\ disk[r].exists /\ d.exists /\ disk[r].content # Halfway /\ disk[r].head # NoCommit
  BY <1>1, <1>3, TerminalMoves DEF MovedTree
<1>5. /\ bounds.contents \in Nat /\ bounds'.contents \in Nat
      /\ bounds.contents <= bounds'.contents
  BY TerminalMoves DEF IInv, Typed
<1>6. /\ Len(d.history) \in Nat /\ Len(disk[r].history) \in Nat
      /\ Len(disk[r].history) <= Len(d.history)
      /\ d.head \in 1..Len(d.history) /\ d.content \in 1..bounds'.contents
      /\ \A k \in 1..Len(d.history) : d.history[k] \in 1..bounds'.contents
  BY <1>1, <1>3 DEF MovedTree, DiskType
<1>7. (Running' <=> Running) /\ (Outdated' <=> Outdated) /\ Found' = Found
  BY <1>3, <1>4 DEF Running, Outdated, Found
<1>8. JobsFit'
  <2>1. CommitsRemain  BY <1>4, <1>6 DEF CommitsRemain, NoCommit
  <2>2. ASSUME NEW i \in 1..Len(running.jobs)
        PROVE  TodoWillFit(i, running.jobs[i].todo, running.jobs[i].repository)
    <3>1. running.jobs # <<>> /\ i \in Nat  OBVIOUS
    <3>2. running.jobs[i].repository \in Repositories /\ running.jobs[i].todo \in Seq(Commands)
      BY <3>1, FirstJob
    <3>3. TodoFits(i, running.jobs[i].todo, running.jobs[i].repository)
      BY DEF IInv, JobsFit
    <3>4. QED  BY <1>3, <2>1, <3>1, <3>2, <3>3, TodoStillFits
  <2>3. QED  BY <1>3, <1>7, <2>2, JobsWillFit DEF IInv, JobsFit
<1>9. ScanFits'  BY <1>3, <1>7 DEF IInv, ScanFits
<1>10. TypeOK'
  <2>1. \A x \in Repositories : /\ disk'[x].head \in {NoCommit} \union Commits(disk'[x])
                                /\ shown[x] \in 0..bounds'.contents
    <3> TAKE x \in Repositories
    <3>1. /\ disk[x].head \in {NoCommit} \union Commits(disk[x])
          /\ shown[x] \in 0..bounds.contents /\ shown[x] \in Nat
      BY DEF IInv, Typed, TypeOK
    <3>2. shown[x] \in 0..bounds'.contents  BY <1>5, <3>1
    <3>3. CASE x = r  BY <1>4, <1>6, <3>2, <3>3 DEF Commits
    <3>4. CASE x # r  BY <1>4, <3>1, <3>2, <3>4
    <3>5. QED  BY <3>3, <3>4
  <2>2. QED  BY <1>3, <1>7, <2>1 DEF IInv, TypeOK
<1>11. ASSUME NEW x \in Repositories, x # r  PROVE Each(x)'
  <2>1. Each(x) /\ disk'[x] = disk[x] /\ (Coming(x) => Coming(x)')
        /\ (x \in missable <=> x \in missable')
        /\ (x \in away <=> x \in away')
    BY <1>3, <1>4, <1>7, <1>11 DEF IInv, Coming
  <2>2. DiskFits(x)'
    <3>1. /\ \A k \in 1..Len(disk[x].history) : disk[x].history[k] \in 1..bounds'.contents
          /\ disk[x].content \in 0..bounds'.contents
          /\ shown[x] \in 0..bounds'.contents
          /\ store.read[x] \in 0..bounds'.contents
      <4>1. disk[x] \in DiskType /\ shown[x] \in Nat /\ store.read[x] \in Nat
        BY DEF IInv, Typed, StoreType
      <4>2. QED  BY <1>5, <2>1, <4>1 DEF Each, DiskFits, DiskType
    <3>2. QED  BY <1>3, <2>1, <3>1 DEF Each, DiskFits, Publishing, Job
  <2>3. HalfwayFits(x)' /\ StatusFits(known[x], x)'
    BY <1>3, <2>1 DEF Each, HalfwayFits, StatusFits, Job
  <2>4. ReadFits(x)' /\ ScanTells(x)' /\ PanelTells(x)' /\ HeadIsOf(x)'
    BY <1>3, <1>7, <2>1
       DEF Each, ReadFits, HeadFits, StatusFits, ScanTells, Reads, Tells, PanelTells, HeadIsOf
  <2>5. Noticed(x) => Noticed(x)'
    BY <1>3, <2>1 DEF Noticed, Reloading, Differs
  <2>6. ShownFits(x)' /\ WhatWasReadFits(x)'
    BY <1>3, <2>1, <2>5 DEF Each, ShownFits, WhatWasReadFits
  <2>7. QED  BY <2>2, <2>3, <2>4, <2>6 DEF Each
<1>12. Each(r)'
  <2>1. Each(r) /\ Coming(r)' /\ r \in away'  BY <1>3 DEF IInv, Coming
  <2>2. DiskFits(r)'
    <3>1. shown[r] \in 0..bounds'.contents /\ store.read[r] \in 0..bounds'.contents
      <4>1. shown[r] \in Nat /\ store.read[r] \in Nat  BY DEF IInv, Typed, StoreType
      <4>2. QED  BY <1>5, <2>1, <4>1 DEF Each, DiskFits
    <3>2. QED  BY <1>3, <1>4, <1>6, <3>1 DEF DiskFits, NoCommit
  <2>3. HalfwayFits(r)'  BY <1>4, <1>6 DEF HalfwayFits, Halfway
  <2>4. StatusFits(known[r], r)'
    <3>1. known[r] \in AnyStatus /\ (HasStatus(known[r]) => known[r].head \in Nat)
      BY StatusIs DEF IInv, Typed, StatusType
    <3>2. QED  BY <1>3, <1>4, <1>6, <2>1, <3>1 DEF Each, StatusFits, NoCommit
  <2>5. ReadFits(r)'
    <3>1. /\ r \in DOMAIN scan.heads => scan.heads[r] \in StatusType
          /\ r \in DOMAIN scan.statuses => scan.statuses[r] \in AnyStatus
      BY ScanIsTyped, PartialType
    <3>2. /\ r \in DOMAIN scan.heads => scan.heads[r].head \in Nat
          /\ r \in DOMAIN scan.statuses /\ HasStatus(scan.statuses[r])
               => scan.statuses[r].head \in Nat
      BY <3>1, StatusIs DEF StatusType
    <3>3. /\ r \in DOMAIN scan.heads /\ HeadFits(scan.heads[r], r) => HeadFits(scan.heads[r], r)'
          /\ r \in DOMAIN scan.statuses /\ StatusFits(scan.statuses[r], r)
               => StatusFits(scan.statuses[r], r)'
      BY <1>3, <1>4, <1>6, <3>2 DEF HeadFits, StatusFits, NoCommit
    <3>4. QED  BY <1>3, <1>7, <2>1, <3>3 DEF Each, ReadFits
  <2>6. ScanTells(r)' /\ PanelTells(r)'  BY <2>1 DEF ScanTells, PanelTells
  <2>7. CASE r \in missable'
    <3>1. Noticed(r)'  BY <2>7 DEF Noticed
    <3>2. ShownFits(r)' /\ WhatWasReadFits(r)' /\ HeadIsOf(r)'
      BY <2>7, <3>1 DEF ShownFits, WhatWasReadFits, HeadIsOf
    <3>3. QED  BY <2>2, <2>3, <2>4, <2>5, <2>6, <3>2 DEF Each
  <2>8. CASE r \notin missable'
    <3>1. /\ Differs(known[r], d) \/ (shown[r] = d.content /\ store.read[r] = d.content)
          /\ scan.on /\ r \in DOMAIN scan.heads /\ scan.heads[r].head = d.head
               => shown[r] = d.content /\ store.read[r] = d.content
      BY <1>1, <2>8, MovesTell
    <3>2. Differs(known[r], d) => Noticed(r)'
      BY <1>3, <1>4, <2>1 DEF Noticed
    <3>3. ShownFits(r)' /\ WhatWasReadFits(r)'
      BY <1>3, <1>4, <3>1, <3>2 DEF ShownFits, WhatWasReadFits
    <3>4. HeadIsOf(r)'  BY <1>3, <1>4, <3>1 DEF HeadIsOf
    <3>5. QED  BY <2>2, <2>3, <2>4, <2>5, <2>6, <3>3, <3>4 DEF Each
  <2>9. QED  BY <2>7, <2>8
<1>13. \A x \in Repositories : Each(x)'
  <2>1. SUFFICES ASSUME NEW x \in Repositories  PROVE Each(x)'  OBVIOUS
  <2>2. CASE x = r  BY <1>12, <2>2 DEF Each
  <2>3. QED  BY <1>11, <2>2
<1>14. QED  BY <1>2, <1>8, <1>9, <1>10, <1>13 DEF IInv

-----------------------------------------------------------------------------
(***************************************************************************)
(* The statuses that were read.                                            *)
(***************************************************************************)
LEMMA StatusesComes ==
  ASSUME IInv, StatusesRead
  PROVE  /\ UNCHANGED <<disk, shown, found, running, bounds, away>>
         /\ scan.on /\ scan.unread = {} /\ ~scan'.on /\ scan'.unread = {}
         /\ DOMAIN scan'.heads = {} /\ DOMAIN scan'.statuses = {}
         /\ ~refresh'.pending /\ refresh'.reloadAfter = refresh.reloadAfter
         /\ refresh.pending => Running \/ refresh'.delayed
         /\ (Running' <=> Running) /\ Found' = Found
<1>1. /\ UNCHANGED <<disk, shown, found, running, bounds, away>>
      /\ scan.on /\ scan.unread = {} /\ scan' = NoScan
  BY DEF StatusesRead
<1>2. /\ ~scan'.on /\ scan'.unread = {} /\ DOMAIN scan'.heads = {}
      /\ DOMAIN scan'.statuses = {}
  BY <1>1 DEF NoScan
<1>3. /\ ~refresh'.pending /\ refresh'.reloadAfter = refresh.reloadAfter
      /\ refresh.pending => Running \/ refresh'.delayed
  <2> DEFINE now == [refresh EXCEPT !.pending = FALSE]
  <2>1. /\ refresh \in RefreshType /\ Running \in BOOLEAN /\ FALSE \in BOOLEAN
        /\ now \in RefreshType /\ ~now.pending /\ now.reloadAfter = refresh.reloadAfter
    BY BooleansTyped DEF IInv, RefreshType
  <2>2. refresh' = IF refresh.pending THEN Scheduled(Running, FALSE, now) ELSE refresh
    BY DEF StatusesRead
  <2> HIDE DEF now
  <2>3. QED  BY <2>1, <2>2, ScheduledType
<1>4. (Running' <=> Running) /\ Found' = Found  BY <1>1 DEF Running, Found
<1>5. QED  BY <1>1, <1>2, <1>3, <1>4

LEMMA OutdatedStep ==
  ASSUME IInv, StatusesRead, Outdated
  PROVE  IInv'
<1>1. Typed'  BY ReadTyped DEF IInv
<1>2. /\ UNCHANGED <<disk, shown, found, running, bounds, away, known, committed, store,
                     missable>>
      /\ scan.on /\ scan.unread = {} /\ ~scan'.on /\ scan'.unread = {}
      /\ DOMAIN scan'.heads = {} /\ DOMAIN scan'.statuses = {}
      /\ ~refresh'.pending /\ refresh'.reloadAfter = refresh.reloadAfter
      /\ (Running' <=> Running) /\ Found' = Found
  BY StatusesComes DEF StatusesRead
<1>3. Running \/ refresh'.delayed
  BY StatusesComes DEF IInv, ScanFits
<1>4. JobsFit' /\ ScanFits' /\ TypeOK'
  BY <1>2, <1>3 DEF IInv, JobsFit, TodoFits, ScanFits, TypeOK
<1>5. ASSUME NEW x \in Repositories  PROVE Each(x)'
  <2>1. Each(x) /\ Coming(x)'  BY <1>2, <1>3 DEF IInv, Coming
  <2>2. DiskFits(x)' /\ HalfwayFits(x)' /\ StatusFits(known[x], x)'
    BY <1>2, <2>1 DEF Each, DiskFits, HalfwayFits, StatusFits, Publishing, Job
  <2>3. ReadFits(x)' /\ ScanTells(x)' /\ PanelTells(x)' /\ HeadIsOf(x)'
    BY <1>2, <2>1 DEF ReadFits, ScanTells, PanelTells, HeadIsOf
  <2>4. Noticed(x) => Noticed(x)'
    BY <1>2, <2>1 DEF Noticed, Reloading, Differs
  <2>5. ShownFits(x)' /\ WhatWasReadFits(x)'
    BY <1>2, <2>1, <2>4 DEF Each, ShownFits, WhatWasReadFits
  <2>6. QED  BY <2>2, <2>3, <2>5 DEF Each
<1>6. QED  BY <1>1, <1>4, <1>5 DEF IInv

(***************************************************************************)
(* The heart of it: a change that the status in the panel told stays so    *)
(* when a newer status replaces it, unless it was noticed, or is missable, *)
(* or shown already.                                                       *)
(***************************************************************************)
LEMMA ChangeStaysNoticed ==
  ASSUME IInv, StatusesRead, ~Outdated, NEW r \in Repositories, r \in Found,
         Differs(known[r], disk[r])
  PROVE  \/ r \in missable'
         \/ store' = Reloads(store)
         \/ Differs(known'[r], disk[r]) /\ Coming(r)'
         \/ shown[r] = disk[r].content /\ ~store.reloading
<1> DEFINE s == scan.statuses[r]
           d == disk[r]
<1>1. /\ Each(r) /\ scan.on /\ scan.unread = {} /\ ~Running /\ found = Found
      /\ r \in DOMAIN scan.statuses /\ r \in found
  BY DEF StatusesRead, IInv, ScanFits
<1>2. /\ known[r] \in AnyStatus /\ s \in AnyStatus /\ d \in DiskType
  BY <1>1, ScanIsTyped, PartialType DEF IInv, Typed
<1>3. ApplyStatuses(scan.statuses)  BY DEF StatusesRead
<1>4. /\ known'[r] = s
      /\ Moved(r, s) => store' = Reloads(store)
      /\ Untold(r, s) => r \in missable'
      /\ r \in missable => r \in missable'
  BY <1>1, <1>3 DEF ApplyStatuses
<1>5. (refresh.pending \/ r \in away) => Coming(r)'
  BY <1>1, StatusesComes DEF Coming
<1>6. Differs(s, d) => s = Failed \/ Coming(r)'
  <2>1. ASSUME Tells(s, d)  PROVE ~Differs(s, d)
    <3>1. HasStatus(s) /\ s = Status(d, d.head, s.of)  BY <2>1 DEF Tells
    <3>2. s.head = d.head /\ s.interrupted = d.interrupted  BY <3>1 DEF Status
    <3>3. QED  BY <3>1, <3>2 DEF Differs, HeadOf, IsInterrupted
  <2>2. s = Failed \/ Tells(s, d) \/ refresh.pending \/ r \in away
    BY <1>1 DEF Each, ScanTells, Reads
  <2>3. QED  BY <1>5, <2>1, <2>2
<1> HIDE DEF s
<1>7. CASE Moved(r, s) \/ Untold(r, s)  BY <1>4, <1>7
<1>8. CASE ~Moved(r, s) /\ ~Untold(r, s)
  <2>1. \/ HasStatus(s) /\ s.of = shown[r] /\ ~store.reloading
        \/ r \notin committed /\ HeadOf(known[r]) # NoCommit /\ HasStatus(s)
    BY <1>8 DEF Untold
  <2>2. HasStatus(s) => HeadOf(s) = s.head /\ s # Failed
    BY <1>2, StatusIs DEF HasStatus, Failed
  <2>3. CASE HasStatus(s) /\ s.of = shown[r] /\ ~store.reloading
    <3>1. /\ r \in DOMAIN scan.heads /\ s.head = scan.heads[r].head
          /\ s.of = scan.heads[r].of
      BY <1>1, <2>3 DEF Each, ReadFits, s
    <3>2. CASE s.head = d.head
      BY <1>1, <1>4, <2>3, <3>1, <3>2 DEF Each, HeadIsOf
    <3>3. CASE s.head # d.head
      <4>1. Differs(s, d)  BY <2>2, <2>3, <3>3 DEF Differs
      <4>2. QED  BY <1>4, <1>6, <2>2, <2>3, <4>1
    <3>4. QED  BY <3>2, <3>3
  <2>4. CASE r \notin committed /\ HeadOf(known[r]) # NoCommit /\ HasStatus(s)
    <3>1. HeadOf(s) = HeadOf(known[r]) /\ (IsInterrupted(known[r]) => IsInterrupted(s))
      BY <1>8, <2>4 DEF Moved
    <3>2. Differs(s, d)  BY <3>1 DEF Differs
    <3>3. QED  BY <1>4, <1>6, <2>2, <2>4, <3>2
  <2>5. QED  BY <2>1, <2>3, <2>4
<1>9. QED  BY <1>7, <1>8

LEMMA AppliedStep ==
  ASSUME IInv, StatusesRead, ~Outdated
  PROVE  IInv'
<1>1. Typed'  BY ReadTyped DEF IInv
<1>2. /\ UNCHANGED <<disk, shown, found, running, bounds, away>>
      /\ scan.on /\ scan.unread = {} /\ ~scan'.on /\ scan'.unread = {}
      /\ DOMAIN scan'.heads = {} /\ DOMAIN scan'.statuses = {}
      /\ ~refresh'.pending /\ refresh'.reloadAfter = refresh.reloadAfter
      /\ (Running' <=> Running) /\ Found' = Found
  BY StatusesComes
<1>3. /\ ~Running /\ found = Found /\ Found \subseteq DOMAIN scan.statuses
      /\ DOMAIN scan.statuses \subseteq Found
  BY <1>2 DEF IInv, ScanFits
<1>4. ApplyStatuses(scan.statuses)  BY DEF StatusesRead
<1>5. /\ committed' = {} /\ (store' = store \/ store' = Reloads(store))
      /\ missable \subseteq missable'
      /\ \A x \in Found : known'[x] = scan.statuses[x]
      /\ \A x \in Repositories \ Found : known'[x] = known[x]
  BY <1>3, <1>4 DEF ApplyStatuses, Found
<1>6. KeepsReload  BY <1>5, ReloadsKeep
<1>7. JobsFit' /\ ScanFits' /\ TypeOK'
  BY <1>2, <1>3, <1>5, <1>6 DEF IInv, JobsFit, TodoFits, ScanFits, TypeOK, KeepsReload
<1>8. ASSUME NEW x \in Repositories  PROVE Each(x)'
  <2>1. Each(x)  BY DEF IInv
  <2>2. DiskFits(x)' /\ HalfwayFits(x)'
    BY <1>2, <1>6, <2>1 DEF Each, DiskFits, HalfwayFits, KeepsReload, Publishing, Job
  <2>3. StatusFits(known[x], x)'
    <3>1. CASE x \in Found
      BY <1>2, <1>3, <1>5, <2>1, <3>1 DEF Each, ReadFits, StatusFits
    <3>2. CASE x \notin Found
      BY <1>2, <1>5, <2>1, <3>2 DEF Each, StatusFits
    <3>3. QED  BY <3>1, <3>2
  <2>4. ReadFits(x)' /\ ScanTells(x)' /\ HeadIsOf(x)'
    BY <1>2 DEF ReadFits, ScanTells, HeadIsOf
  <2>5. PanelTells(x)'
    <3>1. refresh.pending \/ x \in away => Coming(x)'
      BY <1>2, <1>3, StatusesComes DEF Coming
    <3>2. x \in Found => scan.statuses[x] = Failed \/ Tells(scan.statuses[x], disk[x])
                            \/ refresh.pending \/ x \in away
      BY <1>2, <2>1 DEF Each, ScanTells, Reads
    <3>3. QED  BY <1>2, <1>5, <3>1, <3>2 DEF PanelTells, Tells
  <2>6. CASE x \notin Found
    <3>1. shown[x] = disk[x].content /\ store.read[x] = disk[x].content
      BY <2>1, <2>6 DEF Each, DiskFits, Found
    <3>2. ShownFits(x)' /\ WhatWasReadFits(x)'
      BY <1>2, <1>6, <3>1 DEF ShownFits, WhatWasReadFits, KeepsReload
    <3>3. QED  BY <2>2, <2>3, <2>4, <2>5, <3>2 DEF Each
  <2>7. CASE x \in Found
    <3>1. disk[x].content # Halfway /\ ~refresh.reloadAfter
      BY <1>3, NotDuringActions DEF IInv, ScanFits
    <3>2. Noticed(x) => Noticed(x)' \/ (shown[x] = disk[x].content /\ ~store.reloading)
      <4>1. x \in missable \/ Reloading => Noticed(x)'
        BY <1>5, <1>6 DEF Noticed, KeepsReload
      <4>2. store' = Reloads(store) => Reloading'
        BY ReloadsType DEF Reloading, IInv, Typed
      <4>3. Differs(known[x], disk[x]) =>
              Noticed(x)' \/ (shown[x] = disk[x].content /\ ~store.reloading)
        BY <1>2, <2>7, <4>2, ChangeStaysNoticed DEF Noticed
      <4>4. QED  BY <3>1, <4>1, <4>3 DEF Noticed
    <3>3. ShownFits(x)'
      BY <1>2, <1>6, <2>1, <3>2 DEF Each, ShownFits, KeepsReload
    <3>4. WhatWasReadFits(x)'
      <4>1. CASE store.reloading
        BY <1>2, <1>6, <2>1, <3>2, <4>1 DEF Each, WhatWasReadFits, KeepsReload
      <4>2. CASE ~store.reloading
        BY <1>6, <4>2 DEF WhatWasReadFits, Noticed, KeepsReload
      <4>3. QED  BY <4>1, <4>2
    <3>5. QED  BY <2>2, <2>3, <2>4, <2>5, <3>3, <3>4 DEF Each
  <2>8. QED  BY <2>6, <2>7
<1>9. QED  BY <1>1, <1>7, <1>8 DEF IInv

-----------------------------------------------------------------------------
(***************************************************************************)
(* The invariant, and what follows from it once quiet.                     *)
(***************************************************************************)
LEMMA InitFits == Init => IInv
<1> SUFFICES ASSUME Init  PROVE IInv
  OBVIOUS
<1>1. Typed  BY InitTyped
<1>2. /\ running.action = "none" /\ running.jobs = <<>> /\ running.succeeded = {}
      /\ ~Running
  BY DEF Init, NoAction, Running
<1>3. /\ ~scan.on /\ scan.unread = {} /\ DOMAIN scan.heads = {} /\ DOMAIN scan.statuses = {}
  BY DEF Init, NoScan
<1>4. /\ refresh.delayed /\ ~refresh.pending /\ ~refresh.reloadAfter
      /\ bounds.contents = 1 /\ found = {} /\ committed = {}
      /\ ~store.reloading /\ ~store.again /\ ~store.done
      /\ \A x \in Repositories : shown[x] = 1 /\ store.read[x] = 1 /\ known[x] = Unread
  BY DEF Init
<1>5. ASSUME NEW x \in Repositories
      PROVE  /\ disk[x].content = 1 /\ disk[x].head \in 0..Len(disk[x].history)
             /\ Len(disk[x].history) \in {0, 1} /\ disk[x].head = Len(disk[x].history)
             /\ \A k \in 1..Len(disk[x].history) : disk[x].history[k] = 1
             /\ disk[x].head = NoCommit =>
                  disk[x].changes /\ ~disk[x].upstream /\ ~disk[x].remote
  <2>1. Len(<<>>) = 0 /\ Len(<<1>>) = 1 /\ <<1>>[1] = 1  OBVIOUS
  <2>2. CASE x = Home  BY <2>1, <2>2 DEF Init, NoCommit
  <2>3. CASE x # Home
    <3>1. /\ disk[x].content = 1 /\ disk[x].head = 1 /\ disk[x].history = <<1>>
      BY <2>3 DEF Init
    <3>2. Len(disk[x].history) = 1 /\ \A k \in 1..1 : disk[x].history[k] = 1
      BY <2>1, <3>1
    <3>3. QED  BY <3>1, <3>2 DEF NoCommit
  <2>4. QED  BY <2>2, <2>3
<1>6. JobsFit  BY <1>2, <1>4 DEF JobsFit
<1>7. ScanFits  BY <1>3, <1>4 DEF ScanFits
<1>8. TypeOK
  <2>1. Len(<<>>) = 0  OBVIOUS
  <2>2. QED  BY <1>2, <1>3, <1>4, <1>5 DEF TypeOK, NoCommit, Commits
<1>9. ASSUME NEW x \in Repositories  PROVE Each(x)
  <2>1. DiskFits(x) /\ HalfwayFits(x)
    BY <1>4, <1>5 DEF DiskFits, HalfwayFits, Halfway
  <2>2. StatusFits(known[x], x)
    BY <1>4 DEF StatusFits, HasStatus, Unread
  <2>3. ReadFits(x) /\ ScanTells(x) /\ HeadIsOf(x)
    BY <1>3 DEF ReadFits, ScanTells, HeadIsOf
  <2>4. PanelTells(x)  BY <1>4 DEF PanelTells, Coming
  <2>5. ShownFits(x) /\ WhatWasReadFits(x)
    BY <1>4, <1>5 DEF ShownFits, WhatWasReadFits
  <2>6. QED  BY <2>1, <2>2, <2>3, <2>4, <2>5 DEF Each
<1>10. QED  BY <1>1, <1>6, <1>7, <1>8, <1>9 DEF IInv

LEMMA StutterFits ==
  ASSUME IInv, UNCHANGED vars
  PROVE  IInv'
<1>1. (Running' <=> Running) /\ (Outdated' <=> Outdated) /\ Found' = Found
      /\ (Reloading' <=> Reloading)
  BY DEF vars, Running, Outdated, Found, Reloading
<1>2. Typed' /\ TypeOK'  BY <1>1 DEF vars, IInv, Typed, TypeOK
<1>3. JobsFit' /\ ScanFits'  BY <1>1 DEF vars, IInv, JobsFit, TodoFits, ScanFits
<1>4. ASSUME NEW x \in Repositories  PROVE Each(x)'
  <2>1. Each(x) /\ (Coming(x)' <=> Coming(x))  BY <1>1 DEF vars, IInv, Coming
  <2>2. DiskFits(x)' /\ HalfwayFits(x)' /\ StatusFits(known[x], x)'
    BY <2>1 DEF vars, Each, DiskFits, HalfwayFits, StatusFits, Publishing, Job
  <2>3. ReadFits(x)' /\ ScanTells(x)' /\ PanelTells(x)' /\ HeadIsOf(x)'
    BY <1>1, <2>1
       DEF vars, Each, ReadFits, HeadFits, StatusFits, ScanTells, Reads, Tells, PanelTells,
           HeadIsOf
  <2>4. Noticed(x)' <=> Noticed(x)  BY <1>1, <2>1 DEF vars, Noticed, Differs
  <2>5. ShownFits(x)' /\ WhatWasReadFits(x)'
    BY <2>1, <2>4 DEF vars, Each, ShownFits, WhatWasReadFits
  <2>6. QED  BY <2>2, <2>3, <2>5 DEF Each
<1>5. QED  BY <1>2, <1>3, <1>4 DEF IInv

LEMMA NextFits ==
  ASSUME IInv, [Next]_vars
  PROVE  IInv'
<1>1. CASE UserRefreshes \/ Return \/ Fetched \/ \E r \in Repositories : Save(r)
  BY <1>1, AskingStep
<1>2. CASE InitHome  BY <1>2, InitHomeStep
<1>3. CASE \E action \in Actions : Run(action)  BY <1>3, RunStep
<1>4. CASE \E r \in Repositories : Terminal(r)  BY <1>4, TerminalStep
<1>5. CASE \E r \in Repositories : ReadFails(r)  BY <1>5, ReadFailsStep
<1>6. CASE Background
  <2>1. CASE StartScan  BY <2>1, StartScanStep
  <2>2. CASE StatusesRead  BY <2>2, OutdatedStep, AppliedStep
  <2>3. CASE ReadCollections  BY <2>3, ReadCollectionsStep
  <2>4. CASE Reloaded  BY <2>4, ReloadedAgain, ReloadedLast
  <2>5. CASE FinishAction  BY <2>5, FinishActionStep
  <2>6. CASE Perform  BY <2>6, PerformStep
  <2>7. CASE \E r \in Repositories : ReadHead(r) \/ ReadRest(r)
    BY <2>7, ReadHeadStep, ReadRestStep
  <2>8. QED  BY <1>6, <2>1, <2>2, <2>3, <2>4, <2>5, <2>6, <2>7 DEF Background
<1>7. CASE UNCHANGED vars  BY <1>7, StutterFits
<1>8. QED  BY <1>1, <1>2, <1>3, <1>4, <1>5, <1>6, <1>7 DEF Next

LEMMA InvariantHolds == Spec => []IInv
<1>1. Init => IInv  BY InitFits
<1>2. IInv /\ [Next]_vars => IInv'  BY NextFits
<1>3. QED  BY <1>1, <1>2, PTL DEF Spec

LEMMA QuietFollows ==
  ASSUME IInv
  PROVE  ViewsFollow
<1>1. TypeOK  BY DEF IInv
<1>2. ASSUME Quiet, NEW r \in Repositories
      PROVE  /\ r \notin missable => shown[r] = disk[r].content
             /\ r \in Found => known[r] = Failed \/ Tells(known[r], disk[r])
  <2>1. Each(r) /\ ~Coming(r)  BY <1>2 DEF IInv, Quiet, Coming
  <2>2. ~store.reloading /\ ~Running /\ ~refresh.reloadAfter
    BY <1>2 DEF Quiet, IInv, ScanFits
  <2>3. disk[r].content # Halfway  BY <2>2, NotDuringActions
  <2>4. r \notin missable => ~Noticed(r)
    BY <2>1, <2>2, <2>3 DEF Noticed, Reloading
  <2>5. QED  BY <2>1, <2>2, <2>4 DEF Each, ShownFits, PanelTells
<1>3. SidebarFollows  BY <1>2 DEF SidebarFollows
<1>4. PanelFollows  BY <1>2 DEF PanelFollows, Found
<1>5. QED  BY <1>1, <1>3, <1>4 DEF ViewsFollow

(***************************************************************************)
(* Once no refresh, action or reload is under way or to come, the sidebar  *)
(* shows what the files of every repository hold (but for the changes that *)
(* Git's status cannot tell) and the panel where each stands, for any      *)
(* repositories and however actions of the app, Git in a terminal, statuses*)
(* and reloads came together (git_state.rs:242-434).                       *)
(***************************************************************************)
THEOREM ViewsAlwaysFollow == Spec => []ViewsFollow
<1>1. IInv => ViewsFollow  BY QuietFollows
<1>2. QED  BY <1>1, InvariantHolds, PTL

(***************************************************************************)
(* No status that the panel keeps was read beside a working tree in the    *)
(* middle of a pull: an action makes the statuses under way outdated when  *)
(* it starts (git_state.rs:573-578).                                       *)
(***************************************************************************)
THEOREM NoPullIsEverCaught == Spec => []NoStatusCatchesAPull
<1>1. IInv => NoStatusCatchesAPull
  BY DEF IInv, Each, StatusFits, NoStatusCatchesAPull
<1>2. QED  BY <1>1, InvariantHolds, PTL
=============================================================================
