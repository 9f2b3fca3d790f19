----------------------------- MODULE SavedTabs -----------------------------
(***************************************************************************)
(* Saved requests, collection pages and flows, each with its file, what    *)
(* the app last read of it, and the tab that edits it.  Other programs (an *)
(* editor, Git, the agent) change the files; the app reads them again in   *)
(* the background, and a save must ask before it replaces a change nobody  *)
(* saw.                                                                    *)
(*                                                                         *)
(*   crates/collection/src/store.rs, registry/mutations.rs and linking.rs: *)
(*     requests and pages, in the store "collections";                     *)
(*   crates/flow/src/library.rs, crates/workspace/src/flow_panel.rs:       *)
(*     flows, in the store "flows";                                        *)
(*   crates/workspace/src/main_view.rs: the tabs.                          *)
(*                                                                         *)
(* A file's content is a value for each of its parts.  A page has two: the *)
(* settings file (scripts and authorization) and the variables file.       *)
(***************************************************************************)
EXTENDS Naturals

CONSTANTS Requests, Pages, Flows,  \* what is saved, by kind
          Ids,                     \* what a file says it is
          PageId,                  \* a page is what its folder is
          Values, Default,         \* contents; an absent settings file's
          None, NoItem,
          MaxOutside               \* bound: changes made outside, half writes

Items == Requests \union Pages \union Flows
Stores == {"collections", "flows"}

ASSUME KindsAssumption ==
  /\ Requests \cap Pages = {} /\ Requests \cap Flows = {} /\ Pages \cap Flows = {}
  /\ NoItem \notin Items

ASSUME ValuesAssumption ==
  PageId \in Ids /\ Default \in Values /\ MaxOutside \in Nat

VARIABLES
  disk,     \* each item's file: [id, data], or None when absent or unreadable
  known,    \* what the app last read: [id, data, outside], or None
  tabs,     \* each item's tab: [id, outside, base, data, stray], or None
  copies,   \* contents of tabs that became unsaved requests
  asked,    \* changed_on_disk: the tab that asks whose changes to keep
  reading,  \* the stores being read again in the background
  pending,  \* the stores asked for another read meanwhile
  changed,  \* the stores changed here since the read began (revision)
  unread,   \* the items that read has not come to
  read,     \* what it read of the others
  left,     \* changes outside and half writes still to come
  lost,     \* ghost: saves that replaced a content their tab never showed
  fresh,    \* ghost: items not changed outside since the app last looked
  seen,     \* ghost: items not changed outside since the read under way came by
  wanted,   \* ghost: items whose change a read that was asked for must show
  sought,   \* ghost: stores asked for a read since the one under way began
  needless  \* ghost: stores read once more although nothing had changed

app == <<known, tabs, copies, asked>>
reads == <<reading, pending, changed, unread, read>>
ghosts == <<lost, fresh, seen, wanted, sought, needless>>
vars == <<disk, known, tabs, copies, asked, reading, pending, changed, unread,
          read, left, lost, fresh, seen, wanted, sought, needless>>

-----------------------------------------------------------------------------
StoreOf(i) == IF i \in Flows THEN "flows" ELSE "collections"
Held(s) == {i \in Items : StoreOf(i) = s}

Parts(i) == IF i \in Pages THEN {"settings", "variables"} ELSE {"whole"}
Contents(i) == [Parts(i) -> Values]
IdsOf(i) == IF i \in Pages THEN {PageId} ELSE Ids
File(i) == [id : IdsOf(i), data : Contents(i)]
Known(i) == [id : IdsOf(i), data : Contents(i), outside : Nat]
Tab(i) == [id : IdsOf(i), outside : Nat, base : Contents(i), data : Contents(i),
           stray : BOOLEAN]

ASSUME NoneAssumption ==
  \A i \in Items : None \notin File(i) \union Known(i) \union Tab(i)

Dirty(t) == t.data # t.base
Is(f, t) == f # None /\ f.id = t.id      \* still what the tab edits

\* take_latest(): what was read becomes the known one, counted if it differs.
Latest(k, f) ==
  [id |-> f.id, data |-> f.data,
   outside |-> IF k.data = f.data THEN k.outside ELSE k.outside + 1]

ResetReloaded(k, f) ==                                         \* mutant
  IF f = None THEN None ELSE [id |-> f.id, data |-> f.data, outside |-> 0]

\* take_reloaded(): the count is carried over for what was there before.
Reloaded(k, f) ==
  IF f = None THEN None
  ELSE IF k # None /\ k.id = f.id THEN Latest(k, f)
  ELSE [id |-> f.id, data |-> f.data, outside |-> 0]

OpenedFrom(k) ==
  [id |-> k.id, outside |-> k.outside, base |-> k.data, data |-> k.data,
   stray |-> FALSE]

\* The tab lost its item, or found another in its place, and stayed open.
Strayed(t, k) == [t EXCEPT !.stray = @ \/ ~Is(k, t)]

\* The app changed something of the store, or read it on its own.
OwnChange(s) == changed' = [changed EXCEPT ![s] = reading[s]]

-----------------------------------------------------------------------------
Init ==
  /\ disk \in [Items -> UNION {File(i) : i \in Items} \union {None}]
  /\ \A i \in Items : disk[i] \in File(i) \union {None}
  /\ known = [i \in Items |-> Reloaded(None, disk[i])]
  /\ tabs = [i \in Items |-> None]
  /\ copies = {}
  /\ asked = NoItem
  /\ reading = [s \in Stores |-> FALSE]
  /\ pending = [s \in Stores |-> FALSE]
  /\ changed = [s \in Stores |-> FALSE]
  /\ unread = {}
  /\ read = [i \in Items |-> None]
  /\ left = MaxOutside
  /\ lost = {}
  /\ fresh = Items
  /\ seen = {}
  /\ wanted = {}
  /\ sought = [s \in Stores |-> FALSE]
  /\ needless = {}

\* Another program writes, replaces or removes the file.
Outside(i) ==
  /\ left > 0
  /\ left' = left - 1
  /\ \E f \in File(i) \union {None} :
       f # disk[i] /\ disk' = [disk EXCEPT ![i] = f]
  /\ fresh' = fresh \ {i}
  /\ seen' = seen \ {i}
  /\ wanted' = wanted \ {i}
  /\ UNCHANGED <<app, reads, lost, sought, needless>>

-----------------------------------------------------------------------------
(***************************************************************************)
(* Tabs.                                                                   *)
(***************************************************************************)
Open(i) ==
  /\ tabs[i] = None
  /\ known[i] # None
  /\ tabs' = [tabs EXCEPT ![i] = OpenedFrom(known[i])]
  /\ asked' = NoItem
  /\ UNCHANGED <<disk, known, copies, reads, left, ghosts>>

Edit(i) ==
  /\ tabs[i] # None
  /\ \E data \in Contents(i) : tabs' = [tabs EXCEPT ![i].data = data]
  /\ UNCHANGED <<disk, known, copies, asked, reads, left, ghosts>>

KeepsPrompt(i) ==                                              \* mutant
  /\ tabs[i] # None
  /\ tabs' = [tabs EXCEPT ![i] = None]
  /\ UNCHANGED <<disk, known, copies, asked, reads, left, ghosts>>

\* The user closes the tab, without its changes if it has any.
Close(i) ==
  /\ tabs[i] # None
  /\ tabs' = [tabs EXCEPT ![i] = None]
  /\ asked' = NoItem
  /\ UNCHANGED <<disk, known, copies, reads, left, ghosts>>

Cancel ==
  /\ asked # NoItem
  /\ asked' = NoItem
  /\ UNCHANGED <<disk, known, tabs, copies, reads, left, ghosts>>

-----------------------------------------------------------------------------
(***************************************************************************)
(* Saving.  A save asks, fails, or writes.                                 *)
(***************************************************************************)
\* The count the tab opened with is not the known one's anymore.
ForgetsCount(i) == FALSE                                       \* mutant
CountMoved(i) == Is(known[i], tabs[i]) /\ known[i].outside # tabs[i].outside

Ask(i) ==
  /\ asked' = i
  /\ UNCHANGED <<disk, known, tabs, copies, reading, pending, unread, read, left, ghosts>>

Fail ==
  /\ asked' = NoItem
  /\ UNCHANGED <<disk, known, tabs, copies, reading, pending, unread, read, left, ghosts>>

\* The parts are written, and the saved content is the one the tab edits.
Write(i, parts, overwrite) ==
  LET t == tabs[i]
      unasked == ~overwrite /\ \E p \in parts : disk[i].data[p] # t.base[p]
  IN  /\ disk' = IF parts = {} THEN disk
                 ELSE [disk EXCEPT ![i].data =
                         [p \in Parts(i) |-> IF p \in parts THEN t.data[p] ELSE @[p]]]
      /\ known' = [known EXCEPT ![i].data = t.data]
      /\ tabs' = [tabs EXCEPT ![i].base = t.data, ![i].outside = known[i].outside]
      /\ asked' = NoItem
      /\ lost' = IF unasked THEN lost \union {<<i, t.stray>>} ELSE lost
      /\ fresh' = IF parts = Parts(i) THEN fresh \union {i} ELSE fresh
      /\ wanted' = IF parts = Parts(i) THEN wanted \ {i} ELSE wanted
      /\ UNCHANGED <<copies, reading, pending, unread, read, left, seen, sought,
                     needless>>

Expected(i) == Is(known[i], tabs[i]) /\ Is(disk[i], tabs[i])
ChangedOnDisk(i) == known[i].data # disk[i].data

SaveRequest(i) ==
  /\ tabs[i] # None
  /\ \/ CountMoved(i) /\ Ask(i) /\ UNCHANGED changed
     \/ ~CountMoved(i) /\ Expected(i) /\ ChangedOnDisk(i) /\ Ask(i) /\ UNCHANGED changed
     \/ ~CountMoved(i) /\ Expected(i) /\ ~ChangedOnDisk(i)
          /\ Write(i, Parts(i), FALSE) /\ OwnChange("collections")
     \/ ~CountMoved(i) /\ Fail /\ UNCHANGED changed

OverwriteRequest(i) ==
  /\ asked = i
  /\ \/ Expected(i) /\ Write(i, Parts(i), TRUE) /\ OwnChange("collections")
     \/ Fail /\ UNCHANGED changed

\* Once past the count, a flow's save counts as a change even if it fails.
SaveFlow(i) ==
  /\ tabs[i] # None
  /\ \/ CountMoved(i) /\ Ask(i) /\ UNCHANGED changed
     \/ ~CountMoved(i) /\ Expected(i) /\ ChangedOnDisk(i) /\ Ask(i) /\ OwnChange("flows")
     \/ ~CountMoved(i) /\ Expected(i) /\ ~ChangedOnDisk(i)
          /\ Write(i, Parts(i), FALSE) /\ OwnChange("flows")
     \/ ~CountMoved(i) /\ Fail /\ OwnChange("flows")

OverwriteFlow(i) ==
  /\ asked = i
  /\ \/ Expected(i) /\ Write(i, Parts(i), TRUE) /\ OwnChange("flows")
     \/ Fail /\ OwnChange("flows")

\* Only the files that the save writes can lose a change.
Written(i) == {p \in Parts(i) : known[i].data[p] # tabs[i].data[p]}
OnDisk(i, p) == IF disk[i] = None THEN Default ELSE disk[i].data[p]
WrittenChanged(i) == \E p \in Written(i) : known[i].data[p] # OnDisk(i, p)

\* The settings were written, the variables were not, and the settings
\* could not be put back.
WriteHalf(i) ==
  /\ left > 0
  /\ left' = left - 1
  /\ disk[i] # None
  /\ Written(i) = Parts(i)
  /\ disk' = [disk EXCEPT ![i].data["settings"] = tabs[i].data["settings"]]
  /\ asked' = NoItem
  /\ fresh' = fresh \ {i}
  /\ seen' = seen \ {i}
  /\ wanted' = wanted \ {i}
  /\ UNCHANGED <<known, tabs, copies, reads, lost, sought, needless>>

\* A folder that is gone reads as empty files, an unreadable one as changed;
\* neither can be written.
SavePage(i) ==
  /\ tabs[i] # None
  /\ \/ CountMoved(i) /\ Ask(i) /\ UNCHANGED changed
     \/ /\ ~CountMoved(i) /\ known[i] # None /\ Written(i) # {}
        /\ WrittenChanged(i) \/ disk[i] = None
        /\ Ask(i) /\ UNCHANGED changed
     \/ /\ ~CountMoved(i) /\ known[i] # None
        /\ Written(i) = {} \/ (disk[i] # None /\ ~WrittenChanged(i))
        /\ Write(i, Written(i), FALSE) /\ OwnChange("collections")
     \/ ~CountMoved(i) /\ known[i] # None /\ ~WrittenChanged(i) /\ WriteHalf(i)
     \/ ~CountMoved(i) /\ Fail /\ UNCHANGED changed

OverwritePage(i) ==
  /\ asked = i
  /\ \/ /\ known[i] # None
        /\ Written(i) = {} \/ disk[i] # None
        /\ Write(i, Written(i), TRUE) /\ OwnChange("collections")
     \/ known[i] # None /\ WriteHalf(i)
     \/ Fail /\ UNCHANGED changed

-----------------------------------------------------------------------------
(***************************************************************************)
(* The other answer, and the other operations that read a file.            *)
(***************************************************************************)
\* The app read the item's file by itself, and knows `k` from then on.
Looked(i, k) ==
  /\ known' = [known EXCEPT ![i] = k]
  /\ fresh' = IF (k = None) = (disk'[i] = None) THEN fresh \union {i} ELSE fresh \ {i}
  /\ wanted' = wanted \ fresh'
  /\ OwnChange(StoreOf(i))

\* reload_tab(): discard the tab's changes for those made outside.
TakeTheirs(i) ==
  /\ asked = i
  /\ asked' = NoItem
  /\ UNCHANGED disk
  /\ \/ /\ i \notin Pages /\ Expected(i)
        /\ LET k == Latest(known[i], disk[i])
           IN  Looked(i, k) /\ tabs' = [tabs EXCEPT ![i] = OpenedFrom(k)]
     \/ /\ i \in Pages /\ known[i] # None
        /\ LET files == [id |-> PageId, data |-> [p \in Parts(i) |-> OnDisk(i, p)]]
               k == Latest(known[i], files)
           IN  Looked(i, k) /\ tabs' = [tabs EXCEPT ![i] = OpenedFrom(k)]
     \/ /\ \/ i \notin Pages /\ ~Expected(i)
           \/ i \in Pages /\ (known[i] = None \/ disk[i] = None)
        /\ IF i \in Flows THEN OwnChange("flows") ELSE UNCHANGED changed
        /\ UNCHANGED <<known, tabs, fresh, wanted>>
  /\ UNCHANGED <<copies, reading, pending, unread, read, left, lost, seen,
                 sought, needless>>

\* Renaming reads the latest content and writes the name into it.  From the
\* sidebar a request's file may hold another request by then, which becomes
\* the known one; from its tab, and for a flow, it may not.
Renamed(i) ==
  LET k == Latest(known[i], disk[i])
  IN  /\ known[i] # None /\ disk[i] # None
      /\ i \in Flows => disk[i].id = known[i].id
      /\ UNCHANGED disk
      /\ Looked(i, k)
      /\ tabs' = IF tabs[i] = None THEN tabs
                 ELSE [tabs EXCEPT ![i] = Strayed(tabs[i], k)]

\* A flow that cannot be renamed, duplicated or deleted counts as changed.
FlowUnchanged(i) ==
  i \in Flows /\ OwnChange("flows") /\ UNCHANGED <<disk, known, tabs, fresh, wanted>>

Rename(i) ==
  /\ i \notin Pages
  /\ Renamed(i) \/ FlowUnchanged(i)
  /\ UNCHANGED <<copies, asked, reading, pending, unread, read, left, lost, seen,
                 sought, needless>>

NothingUnsaved(i) == {}                                        \* mutant

\* The tabs of a request that is gone: its changes stay, unsaved.
Unsaved(i) ==
  IF i \in Requests /\ tabs[i] # None /\ Dirty(tabs[i]) THEN {tabs[i].data} ELSE {}

Delete(i) ==
  /\ known[i] # None
  /\ disk' = [disk EXCEPT ![i] = None]
  /\ tabs' = [tabs EXCEPT ![i] = None]
  /\ copies' = copies \union Unsaved(i)
  /\ asked' = IF tabs[i] = None THEN asked ELSE NoItem
  /\ Looked(i, None)
  /\ UNCHANGED <<reading, pending, unread, read, left, lost, seen, sought, needless>>

-----------------------------------------------------------------------------
(***************************************************************************)
(* Reading a store again in the background, an item at a time.             *)
(***************************************************************************)
Begin(s) ==
  /\ reading' = [reading EXCEPT ![s] = TRUE]
  /\ changed' = [changed EXCEPT ![s] = FALSE]
  /\ sought' = [sought EXCEPT ![s] = FALSE]
  /\ unread' = unread \union Held(s)
  /\ read' = [i \in Items |-> IF i \in Held(s) THEN None ELSE read[i]]
  /\ seen' = seen \ Held(s)

ForgetsRequest(s) ==                                           \* mutant
  /\ Held(s) # {}
  /\ IF reading[s]
     THEN UNCHANGED <<reads, seen, sought>>
     ELSE Begin(s) /\ UNCHANGED pending
  /\ wanted' = wanted \union (Held(s) \ fresh)
  /\ UNCHANGED <<disk, app, left, lost, fresh, needless>>

AskToRead(s) ==
  /\ Held(s) # {}
  /\ IF reading[s]
     THEN /\ pending' = [pending EXCEPT ![s] = TRUE]
          /\ sought' = [sought EXCEPT ![s] = TRUE]
          /\ UNCHANGED <<reading, changed, unread, read, seen>>
     ELSE Begin(s) /\ UNCHANGED pending
  /\ wanted' = wanted \union (Held(s) \ fresh)
  /\ UNCHANGED <<disk, app, left, lost, fresh, needless>>

ReloadCollections == AskToRead("collections")
RefreshFlows == AskToRead("flows")

ReadItem(i) ==
  /\ i \in unread
  /\ unread' = unread \ {i}
  /\ read' = [read EXCEPT ![i] = disk[i]]
  /\ seen' = seen \union {i}
  /\ UNCHANGED <<disk, app, reading, pending, changed, left, lost, fresh, wanted,
                 sought, needless>>

AllRead(s) == reading[s] /\ unread \cap Held(s) = {}

\* It missed a change, or another read was asked for: read once more.
ReadAgain(s) ==
  /\ Begin(s)
  /\ needless' = IF changed[s] \/ sought[s] THEN needless ELSE needless \union {s}
  /\ UNCHANGED <<disk, app, left, lost, fresh, wanted>>

\* follow_reload() and follow_flows(): tabs of what is gone close, clean ones
\* show what is saved now, and those with changes stay; a request's changes
\* stay in an unsaved copy once its file is gone.
Followed(i, k) ==
  LET t == tabs[i]
  IN  CASE t = None -> None
        [] t # None /\ ~Is(k, t) /\ (i \in Requests \/ ~Dirty(t)) -> None
        [] t # None /\ Is(k, t) /\ ~Dirty(t) /\ k.outside # t.outside -> OpenedFrom(k)
        [] OTHER -> Strayed(t, k)

Gone(i, k) == tabs[i] # None /\ ~Is(k, tabs[i])

Take(s) ==
  /\ known' = [i \in Items |-> IF i \in Held(s) THEN Reloaded(known[i], read[i])
                                                ELSE known[i]]
  /\ tabs' = [i \in Items |-> IF i \in Held(s) THEN Followed(i, known'[i]) ELSE tabs[i]]
  /\ copies' = copies \union UNION {Unsaved(i) : i \in {j \in Held(s) : Gone(j, known'[j])}}
  /\ asked' = IF \E i \in Items : tabs[i] # None /\
                   (tabs'[i] = None \/ tabs'[i].outside # tabs[i].outside)
              THEN NoItem ELSE asked
  /\ reading' = [reading EXCEPT ![s] = FALSE]
  /\ changed' = [changed EXCEPT ![s] = FALSE]
  /\ sought' = [sought EXCEPT ![s] = FALSE]
  /\ read' = [i \in Items |-> IF i \in Held(s) THEN None ELSE read[i]]
  /\ fresh' = (fresh \ Held(s)) \union (seen \cap Held(s))
  /\ wanted' = wanted \ (seen \cap Held(s))
  /\ seen' = seen \ Held(s)
  /\ UNCHANGED <<disk, unread, left, lost, needless>>

TakesAnyway ==                                                 \* mutant
  /\ AllRead("collections")
  /\ pending' = [pending EXCEPT !["collections"] = FALSE]
  /\ IF pending["collections"] THEN ReadAgain("collections") ELSE Take("collections")

KeepsPending ==                                                \* mutant
  /\ AllRead("collections")
  /\ pending' = [pending EXCEPT !["collections"] = @ /\ changed["collections"]]
  /\ IF changed["collections"] \/ pending["collections"]
     THEN ReadAgain("collections") ELSE Take("collections")

CollectionsRead ==
  /\ AllRead("collections")
  /\ pending' = [pending EXCEPT !["collections"] = FALSE]
  /\ IF changed["collections"] \/ pending["collections"]
     THEN ReadAgain("collections") ELSE Take("collections")

\* The request to read again is only looked at when nothing changed here.
FlowsRead ==
  /\ AllRead("flows")
  /\ pending' = [pending EXCEPT !["flows"] = @ /\ changed["flows"]]
  /\ IF changed["flows"] \/ pending["flows"] THEN ReadAgain("flows") ELSE Take("flows")

-----------------------------------------------------------------------------
User ==
  \/ Cancel
  \/ \E i \in Items : Open(i) \/ Edit(i) \/ Close(i) \/ TakeTheirs(i) \/ Rename(i) \/ Delete(i)
  \/ \E i \in Requests : SaveRequest(i) \/ OverwriteRequest(i)
  \/ \E i \in Pages : SavePage(i) \/ OverwritePage(i)
  \/ \E i \in Flows : SaveFlow(i) \/ OverwriteFlow(i)

Background ==
  \/ \E i \in Items : ReadItem(i)
  \/ CollectionsRead
  \/ FlowsRead

Next ==
  \/ User
  \/ Background
  \/ ReloadCollections
  \/ RefreshFlows
  \/ \E i \in Items : Outside(i)

\* The background tasks run on; nobody has to change or ask for anything.
Spec == /\ Init /\ [][Next]_vars
        /\ \A i \in Items : WF_vars(ReadItem(i))
        /\ WF_vars(CollectionsRead) /\ WF_vars(FlowsRead)

-----------------------------------------------------------------------------
TypeOK ==
  /\ \A i \in Items :
       /\ disk[i] \in File(i) \union {None}
       /\ read[i] \in File(i) \union {None}
       /\ known[i] \in Known(i) \union {None}
       /\ tabs[i] \in Tab(i) \union {None}
  /\ DOMAIN disk = Items /\ DOMAIN read = Items
  /\ DOMAIN known = Items /\ DOMAIN tabs = Items
  /\ asked \in Items \union {NoItem}
  /\ asked # NoItem => tabs[asked] # None
  /\ reading \in [Stores -> BOOLEAN] /\ pending \in [Stores -> BOOLEAN]
  /\ changed \in [Stores -> BOOLEAN] /\ sought \in [Stores -> BOOLEAN]
  /\ unread \subseteq Items /\ fresh \subseteq Items
  /\ seen \subseteq Items /\ wanted \subseteq Items
  /\ left \in 0..MaxOutside /\ needless \subseteq Stores

(***************************************************************************)
(* registry/mutations.rs:16 "a change made outside the app is not lost": a *)
(* save nobody was asked about never replaces a content that its tab did   *)
(* not show, whatever was reloaded, renamed and saved in between, as long  *)
(* as memory did not lose the item while the tab stayed open.              *)
(***************************************************************************)
NoSilentOverwrite == \A i \in Items : <<i, FALSE>> \notin lost

(***************************************************************************)
(* main_view.rs:1833 and 926 "Tabs with unsaved changes stay; saving them  *)
(* asks whose changes to keep", without that exception.                    *)
(***************************************************************************)
AsksWhoseToKeep == lost = {}

(***************************************************************************)
(* store.rs:276, flow_panel.rs:53: a read in the background never undoes a *)
(* change the app made meanwhile.  What is known of a file that nobody     *)
(* else touched since is what it holds.                                    *)
(***************************************************************************)
Agree(k, f) == IF f = None THEN k = None
                           ELSE k # None /\ k.id = f.id /\ k.data = f.data
OwnChangesStay == \A i \in fresh : Agree(known[i], disk[i])

Taken(s) == reading[s] /\ ~reading'[s]

(***************************************************************************)
(* main_view.rs:1831 "tabs without unsaved changes show what is saved now",*)
(* once a store was read again.                                            *)
(***************************************************************************)
CleanTabsFollow ==
  [][\A s \in Stores : Taken(s) => \A i \in Held(s) :
       (tabs'[i] # None /\ ~Dirty(tabs'[i]) /\ ~tabs'[i].stray)
          => known'[i] # None /\ tabs'[i].data = known'[i].data]_vars

(***************************************************************************)
(* Reading a store again loses no edits: they stay in their tab, or in an  *)
(* unsaved copy of a request whose file is gone.                           *)
(***************************************************************************)
EditsSurvive ==
  [][\A s \in Stores : Taken(s) => \A i \in Held(s) :
       (tabs[i] # None /\ Dirty(tabs[i]))
          => \/ tabs'[i] # None /\ tabs'[i].data = tabs[i].data
             \/ tabs[i].data \in copies']_vars

(***************************************************************************)
(* store.rs:272 "One more serves both": the collections are only read once *)
(* more when something changed, or asked for it, since the read that just  *)
(* ended began.  The flows are read a third time: flow_panel.rs:170 looks  *)
(* at the request to read again only when nothing changed here.            *)
(***************************************************************************)
OneMoreServesBoth == "collections" \notin needless

(***************************************************************************)
(* A change made outside is shown by the read asked for after it, unless   *)
(* the app's own changes and further requests never let a read end.        *)
(***************************************************************************)
Quiet == <>[](\A s \in Stores : ~changed[s] /\ ~pending[s])
ReloadArrives == Quiet => (wanted # {} ~> wanted = {})
=============================================================================
