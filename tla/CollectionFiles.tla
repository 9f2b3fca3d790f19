-------------------------- MODULE CollectionFiles --------------------------
(***************************************************************************)
(* The folders and files of the collections, their order, and the tree of  *)
(* them that the app keeps and the sidebar shows.  A folder's order is a   *)
(* file of names in it; what the file does not name comes last, by name.   *)
(* Items are created, moved, renamed and deleted, each a few calls of the  *)
(* file system that may fail; collections are imported and read again in   *)
(* the background; other programs change the files at any time.            *)
(*                                                                         *)
(*   crates/collection/src/order.rs: the order files;                      *)
(*   crates/collection/src/registry: creation.rs, movement.rs,             *)
(*     mutations.rs, importing.rs, catalog.rs, linking.rs;                 *)
(*   crates/collection/src/store.rs: revisions, reloads and events;        *)
(*   crates/workspace/src/main_view.rs: the tabs that follow.              *)
(*                                                                         *)
(* A path is the sequence of its names, the collection's first, and names  *)
(* are numbers, so that they have an order.                                *)
(***************************************************************************)
EXTENDS Naturals, Sequences, FiniteSets, SequencesExt

CONSTANTS Collections,     \* names of collections
          Folders, Files,  \* names of folders, and of request files
          Reserved,        \* environment.toml, which no request may replace
          Requests,        \* what a request file holds: its id
          ImportedItems,   \* the requests of an import, in its order
          Idle, Nothing, Unreadable,  \* no step; no order file, not a list
          MaxDepth,        \* bound: how deep folders are moved
          MaxEdits,        \* bound: what the user does, reloads among it
          MaxTroubles      \* bound: changes outside and failures

VARIABLES
  disk,       \* what is at each path that exists: Folder or a request
  orders,     \* the folders with an order file, with the names in it
  registry,   \* the collections loaded: [root, entries], with a sequence of
              \* [name, what] for each folder
  operation,  \* the change under way on the UI thread, or Idle
  reading,    \* the reload under way: [changed, left, got], or Idle
  pending,    \* reload_pending
  import,     \* the import under way: [root, written, step, got], or Idle
  tabs,       \* the path of each open request
  edits, troubles,  \* how many there were
  kept,       \* ghost: the requests nobody deleted
  strays,     \* ghost: collections changed outside since they were read
  current,    \* ghost: those the reload under way read as they are
  spoiled     \* ghost: an operation failed and left something behind

files == <<disk, orders>>
app == <<registry, tabs>>
background == <<reading, pending, import>>
bounds == <<edits, troubles>>
ghosts == <<kept, strays, current, spoiled>>
vars == <<disk, orders, registry, operation, reading, pending, import, tabs,
          edits, troubles, kept, strays, current, spoiled>>

Folder == "folder"

-----------------------------------------------------------------------------
(* Paths and trees: functions of the paths that exist. *)

Under(p, q) == IsPrefix(p, q)
Name(p) == Last(p)
Parent(p) == Front(p)
Root(p) == Head(p)
\* rebase_path(): where q is once old became new.
Rebased(q, old, new) ==
  IF Under(old, q) THEN new \o SubSeq(q, Len(old) + 1, Len(q)) ELSE q

Without(f, p) == [q \in {r \in DOMAIN f : ~Under(p, r)} |-> f[q]]
Dropped(f, p) == [q \in DOMAIN f \ {p} |-> f[q]]
With(f, p, x) == [q \in DOMAIN f \union {p} |-> IF q = p THEN x ELSE f[q]]
Moved(f, old, new) ==
  [q \in {Rebased(r, old, new) : r \in DOMAIN f} |->
     f[CHOOSE r \in DOMAIN f : Rebased(r, old, new) = q]]

Dirs(tree) == {p \in DOMAIN tree : tree[p] = Folder}
Children(tree, d) == {p \in DOMAIN tree : Len(p) > 1 /\ Parent(p) = d}
IdsUnder(tree, p) == {tree[q] : q \in {r \in DOMAIN tree : Under(p, r)}} \ {Folder}

-----------------------------------------------------------------------------
(* Loading. *)

OrderOf(d) == IF d \in DOMAIN orders THEN orders[d] ELSE Nothing
Readable(d) == OrderOf(d) \notin {Nothing, Unreadable}
CanSave(d) == OrderOf(d) # Unreadable
\* The order file of a folder that has one.
OrderFile(d) == [q \in DOMAIN orders \intersect {d} |-> orders[q]]

\* positions: of a name that is listed twice the later place counts.
Position(listed, n) ==
  IF \E i \in DOMAIN listed : listed[i] = n
  THEN CHOOSE i \in DOMAIN listed :
         listed[i] = n /\ \A j \in DOMAIN listed : listed[j] = n => j <= i
  ELSE Len(listed) + 1
\* apply(): the entries by their place, and by name where they have none.
Apply(names, listed) ==
  LET Before(a, b) == \/ Position(listed, a) < Position(listed, b)
                      \/ Position(listed, a) = Position(listed, b) /\ a < b
  IN  [i \in 1..Cardinality(names) |->
         CHOOSE n \in names : Cardinality({m \in names : Before(m, n)}) = i - 1]

\* load_directory(): what is in a folder, as it is shown.  The files of a
\* collection itself are no requests.
Excluded(p) == Len(p) = 2 /\ Name(p) = Reserved
LoadedEntries(d) ==
  LET names == Apply({Name(p) : p \in {q \in Children(disk, d) : ~Excluded(q)}},
                     IF Readable(d) THEN OrderOf(d) ELSE <<>>)
  IN  [i \in DOMAIN names |-> [name |-> names[i], what |-> disk[Append(d, names[i])]]]
\* Collection::from_path()
Loaded(c) ==
  [root |-> c, entries |-> [d \in {p \in Dirs(disk) : Root(p) = c} |-> LoadedEntries(d)]]

\* A request that is made has an id that no other has.
ImportedIds == {ImportedItems[i].request : i \in DOMAIN ImportedItems}
FreshIds == Requests \ (kept \union ImportedIds \union {disk[p] : p \in DOMAIN disk})

OnDisk == {c \in Collections : <<c>> \in DOMAIN disk}
\* from_path(): every collection, by name.
Listed(cs) == [i \in 1..Cardinality(cs) |->
                 CHOOSE c \in cs : Cardinality({e \in cs : e < c}) = i - 1]
LoadAll == [i \in 1..Cardinality(OnDisk) |-> Loaded(Listed(OnDisk)[i])]

-----------------------------------------------------------------------------
(* The tree in memory.  Two collections may be of one folder; the first     *)
(* that has a path counts.  What the app still shows although another       *)
(* program removed it is in the way here of a new item of that path.        *)

Names(entries) == [i \in DOMAIN entries |-> entries[i].name]
Place(entries, n) ==
  CHOOSE i \in DOMAIN entries : entries[i].name = n /\ \A j \in 1..(i - 1) : entries[j].name # n
HasEntry(c, p) == Parent(p) \in DOMAIN c.entries /\ Name(p) \in ToSet(Names(c.entries[Parent(p)]))
EntryAt(c, p) == c.entries[Parent(p)][Place(c.entries[Parent(p)], Name(p))]
\* requests_in()
RequestsIn(c, d) ==
  UNION {{[path |-> Append(e, x.name), request |-> x.what] :
            x \in {y \in ToSet(c.entries[e]) : y.what # Folder}} :
         e \in {f \in DOMAIN c.entries : Under(d, f)}}

Holds(i, p) == p = <<registry[i].root>> \/ HasEntry(registry[i], p)
Owner(p) == CHOOSE i \in DOMAIN registry : Holds(i, p) /\ \A j \in 1..(i - 1) : ~Holds(j, p)
Known(p) == \E i \in DOMAIN registry : Holds(i, p)
KnownDirs == UNION {DOMAIN registry[i].entries : i \in DOMAIN registry}
KnownFiles ==
  UNION {{x.path : x \in RequestsIn(registry[i], <<registry[i].root>>)} : i \in DOMAIN registry}
EntriesOf(d) == registry[Owner(d)].entries[d]

\* remove(): an item leaves its folder with everything in it.
Forgotten(c, p) ==
  LET left == RemoveAt(c.entries[Parent(p)], Place(c.entries[Parent(p)], Name(p)))
  IN  [c EXCEPT !.entries = [Without(@, p) EXCEPT ![Parent(p)] = left]]
Branch(f, p) == [q \in {r \in DOMAIN f : Under(p, r)} |-> f[q]]
\* The item at old comes to be at new, as the index-th entry of its folder.
Relocated(old, new, index) ==
  LET source == Owner(Parent(old))
      target == Owner(Parent(new))
      entry == [EntryAt(registry[source], old) EXCEPT !.name = Name(new)]
      below == Moved(Branch(registry[source].entries, old), old, new)
      left == [registry EXCEPT ![source] = Forgotten(@, old)]
  IN  [left EXCEPT ![target].entries = [@ EXCEPT ![Parent(new)] = InsertAt(@, index, entry)] @@ below]
RenamedCollection(c, new) == [root |-> new, entries |-> Moved(c.entries, <<c.root>>, <<new>>)]

\* RequestRelocated, for each request of the collection in what was moved:
\* the tab that shows it follows.
Followed(old, new, now) ==
  LET told == RequestsIn(SelectSeq(now, LAMBDA c : c.root = Root(new))[1], <<Root(new)>>)
      at(q) == Under(old, tabs[q]) /\ [path |-> Rebased(tabs[q], old, new), request |-> q] \in told
  IN  [q \in DOMAIN tabs |-> IF at(q) THEN Rebased(tabs[q], old, new) ELSE tabs[q]]
\* close_deleted()
Closed(p) == [q \in {r \in DOMAIN tabs : ~Under(p, tabs[r])} |-> tabs[q]]

-----------------------------------------------------------------------------
Init ==
  /\ kept = {disk[p] : p \in DOMAIN disk \ Dirs(disk)}
  /\ registry = LoadAll
  /\ operation = Idle /\ reading = Idle /\ pending = FALSE /\ import = Idle
  /\ tabs = [r \in kept |-> CHOOSE p \in DOMAIN disk : disk[p] = r]
  /\ edits = 0 /\ troubles = 0
  /\ strays = {} /\ current = {} /\ spoiled = FALSE

-----------------------------------------------------------------------------
(* Changes made in the app.  One is a few calls of the file system on the   *)
(* UI thread, between which only others go on.  A call that fails before    *)
(* anything changed is no step here.                                        *)

Ready == operation = Idle /\ edits < MaxEdits
Part(f, roots) == [p \in {q \in DOMAIN f : Root(q) \in roots} |-> f[p]]
Parts(old, new) ==
  LET roots == {Root(old), Root(new)} IN <<Part(disk, roots), Part(orders, roots)>>
\* An import into what something else changes meanwhile is not alone there.
Disturbs(roots) ==
  import' = IF import # Idle /\ import.root \in roots THEN [import EXCEPT !.alone = FALSE] ELSE import
Begins(change) ==
  /\ edits' = edits + 1
  /\ operation' = change
  /\ Disturbs({Root(change.old), Root(change.new)})
\* Whatever the app changes, a reload under way has missed (revision).
Changed == reading' = IF reading = Idle THEN Idle ELSE [reading EXCEPT !.changed = TRUE]
Ends == operation' = Idle
\* Something fails: a call, and perhaps what would undo the ones before it.
Fault(undone) ==
  /\ troubles' = troubles + (IF undone THEN 1 ELSE 2)
  /\ troubles' <= MaxTroubles
\* The operation ends with an error: all is as it was before, unless others
\* changed the files meanwhile or it could not be undone.  No revision tells
\* a reload that it may have read what was then undone.
Fails(undone) ==
  LET roots == {Root(operation.old), Root(operation.new)}
  IN  /\ Ends
      /\ spoiled' = (spoiled \/ (/\ undone /\ operation.alone
                                 /\ operation.before # <<Part(disk', roots), Part(orders', roots)>>))
      /\ strays' = IF undone THEN strays ELSE strays \union roots
      /\ current' = current \ roots
      /\ UNCHANGED <<app, background, edits>>

Free(d, n) == Append(d, n) \notin DOMAIN disk /\ ~Excluded(Append(d, n))
IsFirstFree(d, n, names) == Free(d, n) /\ \A m \in names : Free(d, m) => n <= m

\* create_collection()
CreateCollection(c) ==
  /\ Ready /\ IsFirstFree(<<>>, c, Collections) /\ ~Known(<<c>>)
  /\ disk' = With(disk, <<c>>, Folder)
  /\ registry' = Append(registry, [root |-> c, entries |-> With(<<>>, <<c>>, <<>>)])
  /\ edits' = edits + 1 /\ Changed
  /\ UNCHANGED <<orders, operation, pending, import, tabs, troubles, ghosts>>

\* create_folder(), create_request_with(): with the first name that is free.
Create(d, names, what) ==
  /\ Ready /\ d \in KnownDirs /\ d \in Dirs(disk) /\ Len(d) < MaxDepth
  /\ \E n \in names :
       /\ IsFirstFree(d, n, names) /\ ~Known(Append(d, n))
       /\ disk' = With(disk, Append(d, n), what)
       /\ Begins([does |-> "create", old |-> Append(d, n), new |-> Append(d, n), what |-> what,
                  names |-> Append(Names(EntriesOf(d)), n),
                  alone |-> TRUE, before |-> Parts(Append(d, n), Append(d, n))])
  /\ UNCHANGED <<orders, app, reading, pending, troubles, ghosts>>
CreateFolder(d) == Create(d, Folders, Folder)
CreateRequest(d) ==
  \E r \in FreshIds : Create(d, Files, r)

Creating == operation # Idle /\ operation.does = "create"
\* persist_created_order(): the order is saved with the new item, or the
\* item is taken away again.
Created ==
  LET d == Parent(operation.new)
      n == Name(operation.new)
      below == IF operation.what = Folder THEN With(<<>>, operation.new, <<>>) ELSE <<>>
  IN  /\ Creating
      /\ d \in Dirs(disk) \/ ~CanSave(d)
      /\ orders' = IF CanSave(d) THEN With(orders, d, operation.names) ELSE orders
      /\ registry' = [registry EXCEPT ![Owner(d)].entries =
                        [@ EXCEPT ![d] = Append(@, [name |-> n, what |-> operation.what])] @@ below]
      /\ kept' = kept \union ({operation.what} \intersect {disk[p] : p \in DOMAIN disk \ Dirs(disk)})
      /\ Ends /\ Changed /\ Disturbs({Root(d)})
      /\ UNCHANGED <<disk, tabs, pending, bounds, strays, current, spoiled>>
CreationFails(undone) ==
  /\ Creating
  /\ \/ CanSave(Parent(operation.new)) /\ Fault(undone)
     \/ undone /\ Parent(operation.new) \notin Dirs(disk) /\ UNCHANGED troubles
  /\ LET new == operation.new
         removed == /\ undone /\ new \in DOMAIN disk
                    /\ disk[new] = Folder <=> operation.what = Folder
                    /\ Children(disk, new) = {} /\ new \notin DOMAIN orders
     IN  /\ disk' = IF removed THEN Without(disk, new) ELSE disk
         /\ kept' = IF removed /\ ~operation.alone THEN kept \ IdsUnder(disk, new) ELSE kept
  /\ UNCHANGED orders
  /\ Fails(undone)

\* move_entry(): what it names is looked at, then the order of the folder
\* it goes to is saved, then it is renamed.
Relocate(old, d, n, index, names, saves) ==
  LET new == Append(d, n)
  IN  /\ old # new => new \notin DOMAIN disk /\ ~Known(new)
      /\ saves => d \in Dirs(disk)
      /\ orders' = IF saves THEN With(orders, d, names) ELSE orders
      /\ Begins([does |-> "relocate", old |-> old, new |-> new, index |-> index,
                 saves |-> saves, had |-> OrderFile(d), step |-> "files",
                 alone |-> TRUE, before |-> Parts(old, new)])
      /\ UNCHANGED <<disk, app, reading, pending, troubles, ghosts>>
Depth(p) == CHOOSE n \in 0..MaxDepth + 1 :
  /\ \A q \in DOMAIN disk : Under(p, q) => Len(q) - Len(p) <= n
  /\ n = 0 \/ \E q \in DOMAIN disk : Under(p, q) /\ Len(q) - Len(p) = n
Move(p, d) ==
  /\ Ready /\ Len(p) > 1 /\ d \in KnownDirs
  /\ ~Under(p, d) /\ ~Excluded(Append(d, Name(p)))
  /\ p \in DOMAIN disk /\ Len(d) + 1 + Depth(p) <= MaxDepth
  /\ LET others == IF d = Parent(p) THEN SelectSeq(Names(EntriesOf(d)), LAMBDA n : n # Name(p))
                   ELSE Names(EntriesOf(d))
     IN  \E index \in 1..Len(others) + 1 :
           Relocate(p, d, Name(p), index, InsertAt(others, index, Name(p)), CanSave(d))

\* rename() of a collection or folder: the order that names it, if there is
\* one, names what it is called now.
Rename(p, n) ==
  LET d == Parent(p)
      listed == OrderOf(d)
  IN  /\ Ready /\ p \in KnownDirs /\ n # Name(p) /\ ~Excluded(Append(d, n))
      /\ Relocate(p, d, n, IF Len(p) > 1 THEN Place(EntriesOf(d), Name(p)) ELSE 1,
                  IF Readable(d)
                  THEN [i \in DOMAIN listed |-> IF listed[i] = Name(p) THEN n ELSE listed[i]]
                  ELSE <<>>,
                  Readable(d))

Relocating(step) == operation # Idle /\ operation.does = "relocate" /\ operation.step = step
\* rename(2): a file takes a file's place, a folder an empty folder's.
CanTake(old, new) ==
  /\ old \in DOMAIN disk
  /\ Len(new) > 1 => Parent(new) \in Dirs(disk)
  /\ new \in DOMAIN disk =>
       IF disk[new] = Folder
       THEN disk[old] = Folder /\ Children(disk, new) = {} /\ new \notin DOMAIN orders
       ELSE disk[old] # Folder
FilesMove ==
  LET old == operation.old
      new == operation.new
  IN  /\ Relocating("files")
      /\ old # new => CanTake(old, new)
      /\ disk' = IF old = new THEN disk ELSE Moved(Without(disk, new), old, new)
      /\ orders' = IF old = new THEN orders ELSE Moved(orders, old, new)
      /\ registry' = IF Len(old) = 1
                     THEN [registry EXCEPT ![Owner(old)] = RenamedCollection(@, Root(new))]
                     ELSE Relocated(old, new, operation.index)
      /\ tabs' = Followed(old, new, registry')
      /\ kept' = IF old # new /\ new \in DOMAIN disk THEN kept \ {disk[new]} ELSE kept
      /\ strays' = IF Root(old) \in strays THEN strays \union {Root(new)} ELSE strays
      /\ Ends /\ Changed /\ Disturbs({Root(old), Root(new)})
      /\ UNCHANGED <<pending, bounds, current, spoiled>>
\* mutant: the order stays as it was to be.
NotRestored == orders
\* The files do not move: what the order was is written again.
Restored ==
  LET d == Parent(operation.new)
  IN  IF ~operation.saves \/ d \notin Dirs(disk) THEN orders
      ELSE [q \in (DOMAIN orders \ {d}) \union DOMAIN operation.had |->
              IF q = d THEN operation.had[q] ELSE orders[q]]
FilesStay(undone) ==
  /\ Relocating("files") /\ operation.old # operation.new
  /\ \/ Fault(undone)
     \/ undone /\ ~CanTake(operation.old, operation.new) /\ UNCHANGED troubles
  /\ orders' = IF undone THEN Restored ELSE orders
  /\ UNCHANGED <<disk, kept>>
  /\ Fails(undone)

\* delete(): what is there goes, and with it what the app did not know of.
Delete(p) ==
  /\ Ready /\ p \in DOMAIN disk
  /\ disk' = Without(disk, p) /\ orders' = Without(orders, p)
  /\ registry' = IF Len(p) = 1 THEN RemoveAt(registry, Owner(p))
                 ELSE [registry EXCEPT ![Owner(p)] = Forgotten(@, p)]
  /\ tabs' = Closed(p)
  /\ kept' = kept \ IdsUnder(disk, p)
  /\ edits' = edits + 1 /\ Changed /\ Disturbs({Root(p)})
  /\ UNCHANGED <<operation, pending, troubles, strays, current, spoiled>>
\* remove_dir_all() fails after it removed some: the folder stays in the tree.
DeletePartly(p) ==
  /\ Ready /\ p \in KnownDirs
  /\ \E q \in Children(disk, p) :
       /\ disk' = Without(disk, q) /\ orders' = Without(orders, q)
       /\ kept' = kept \ IdsUnder(disk, q)
  /\ Fault(TRUE)
  /\ edits' = edits + 1 /\ Disturbs({Root(p)})
  /\ strays' = strays \union {Root(p)} /\ current' = current \ {Root(p)}
  /\ UNCHANGED <<app, operation, reading, pending, spoiled>>

Open(p) ==
  /\ Ready /\ p \in KnownFiles /\ edits' = edits + 1
  /\ LET r == EntryAt(registry[Owner(p)], p).what
     IN  r \notin DOMAIN tabs /\ tabs' = With(tabs, r, p)
  /\ UNCHANGED <<files, registry, operation, background, troubles, ghosts>>

-----------------------------------------------------------------------------
(* Other programs. *)

Beside(c) ==
  IF operation # Idle /\ c \in {Root(operation.old), Root(operation.new)}
  THEN [operation EXCEPT !.alone = FALSE] ELSE operation
Touches(c) ==
  /\ troubles < MaxTroubles /\ troubles' = troubles + 1
  /\ strays' = strays \union {c} /\ current' = current \ {c}
  /\ Disturbs({c})
  /\ operation' = Beside(c)
  /\ UNCHANGED <<app, reading, pending, edits, spoiled>>
OutsideAdd(d, n) ==
  /\ d \in Dirs(disk) /\ Append(d, n) \notin DOMAIN disk /\ Len(d) < MaxDepth
  /\ \E r \in FreshIds :
       disk' = With(disk, Append(d, n), r) /\ kept' = kept \union {r}
  /\ UNCHANGED orders
  /\ Touches(Root(d))
OutsideRemove(p) ==
  /\ p \in DOMAIN disk
  /\ disk' = Without(disk, p) /\ orders' = Without(orders, p)
  /\ kept' = kept \ IdsUnder(disk, p)
  /\ Touches(Root(p))
OutsideOrder(d) ==
  /\ d \in Dirs(disk)
  /\ orders' \in {With(orders, d, Unreadable), Dropped(orders, d)}
  /\ UNCHANGED <<disk, kept>>
  /\ Touches(Root(d))

-----------------------------------------------------------------------------
(* Collections::reload() *)

Reads == [changed |-> FALSE, left |-> OnDisk, got |-> <<>>]
Reload ==
  /\ Ready /\ edits' = edits + 1
  /\ IF reading # Idle
     THEN pending' = TRUE /\ UNCHANGED <<reading, current>>
     ELSE reading' = Reads /\ current' = Collections \ OnDisk /\ UNCHANGED pending
  /\ UNCHANGED <<files, app, operation, import, troubles, kept, strays, spoiled>>

\* load(), in the background, one collection after the other.
ReadCollection ==
  /\ reading # Idle
  /\ \E c \in reading.left :
       /\ \A e \in reading.left : c <= e
       /\ reading' = [reading EXCEPT !.left = @ \ {c},
                                     !.got = IF c \in OnDisk THEN Append(@, Loaded(c)) ELSE @]
       /\ current' = current \union {c}
  /\ UNCHANGED <<files, app, operation, pending, import, bounds, kept, strays, spoiled>>

\* mutant: what was read is taken although the app has changed it since.
ReadsAgainAsked == pending
ReadsAgain == reading.changed \/ pending
\* take_reloaded(); follow_reload() closes the tabs whose request is gone.
Shows(c, q) == HasEntry(c, tabs[q]) /\ EntryAt(c, tabs[q]).what = q
TakeReloaded ==
  /\ registry' = reading.got
  /\ tabs' = [q \in {r \in DOMAIN tabs : \E i \in DOMAIN reading.got : Shows(reading.got[i], r)} |-> tabs[q]]
  /\ reading' = Idle
  /\ strays' = Collections \ current
  /\ UNCHANGED current
FinishReload ==
  /\ operation = Idle /\ reading # Idle /\ reading.left = {}
  /\ pending' = FALSE
  /\ IF ReadsAgain
     THEN reading' = Reads /\ current' = Collections \ OnDisk /\ UNCHANGED <<app, strays>>
     ELSE TakeReloaded
  /\ UNCHANGED <<files, operation, import, bounds, kept, spoiled>>

-----------------------------------------------------------------------------
(* ImportedCollection::write() in the background, and add_collection() once *)
(* it is done.  What is read again meanwhile may hold a part of it.         *)

Writes(c) ==
  /\ strays' = strays \union {c} /\ current' = current \ {c}
  /\ operation' = Beside(c)
ImportUnchanged == UNCHANGED <<app, reading, pending, spoiled>>
StartImport(c) ==
  /\ Ready /\ import = Idle /\ IsFirstFree(<<>>, c, Collections) /\ ~Known(<<c>>)
  /\ ImportedIds \intersect (kept \union {disk[p] : p \in DOMAIN disk}) = {}
  /\ disk' = With(disk, <<c>>, Folder)
  /\ import' = [root |-> c, names |-> <<>>, step |-> "items", got |-> <<>>, alone |-> TRUE]
  /\ edits' = edits + 1
  /\ Writes(c)
  /\ UNCHANGED <<orders, troubles, kept>> /\ ImportUnchanged

ImportDir == <<import.root>>
Importing(step) == import # Idle /\ import.step = step
\* create_unique(): an item takes its name, or the next that is free.
WriteItem ==
  /\ Importing("items") /\ ImportDir \in Dirs(disk)
  /\ Len(import.names) < Len(ImportedItems)
  /\ LET item == ImportedItems[Len(import.names) + 1]
         names == {m \in Files : m >= item.name}
     IN  \E n \in names :
           /\ IsFirstFree(ImportDir, n, names)
           /\ disk' = With(disk, Append(ImportDir, n), item.request)
           /\ import' = [import EXCEPT !.names = Append(@, n)]
           /\ kept' = kept \union {item.request}
  /\ Writes(import.root)
  /\ UNCHANGED <<orders, edits, troubles>> /\ ImportUnchanged
SaveImportedOrder ==
  /\ Importing("items") /\ ImportDir \in Dirs(disk)
  /\ Len(import.names) = Len(ImportedItems)
  /\ orders' = IF CanSave(ImportDir) THEN With(orders, ImportDir, import.names) ELSE orders
  /\ import' = [import EXCEPT !.step = "read"]
  /\ Writes(import.root)
  /\ UNCHANGED <<disk, edits, troubles, kept>> /\ ImportUnchanged
ReadImported ==
  /\ Importing("read") /\ ImportDir \in Dirs(disk)
  /\ import' = [import EXCEPT !.step = "done", !.got = Loaded(import.root)]
  /\ UNCHANGED <<files, operation, edits, troubles, kept, strays, current>> /\ ImportUnchanged
\* A failed write removes everything it wrote.
ImportFails ==
  /\ import # Idle /\ import.step # "done"
  /\ \/ Fault(TRUE)
     \/ ImportDir \notin DOMAIN disk /\ UNCHANGED troubles
  /\ disk' = Without(disk, ImportDir) /\ orders' = Without(orders, ImportDir)
  /\ kept' = kept \ IdsUnder(disk, ImportDir)
  /\ import' = Idle
  /\ Writes(import.root)
  /\ UNCHANGED edits /\ ImportUnchanged
\* add_collections().  It does not look whether a reload took it meanwhile,
\* and then the sidebar shows the collection twice until the next reload.
AddImported ==
  LET shown == \E i \in DOMAIN registry : registry[i].root = import.root
  IN  /\ Importing("done") /\ operation = Idle
      /\ registry' = Append(registry, import.got)
      /\ import' = Idle
      /\ strays' = IF import.alone /\ ~shown THEN strays \ {import.root}
                   ELSE strays \union {import.root}
      /\ Changed
      /\ UNCHANGED <<files, operation, pending, tabs, bounds, kept, current, spoiled>>

\* The process ends in the middle of something, and starts again.
Restart ==
  /\ operation # Idle \/ import # Idle
  /\ Fault(TRUE)
  /\ registry' = LoadAll
  /\ operation' = Idle /\ import' = Idle /\ reading' = Idle /\ pending' = FALSE
  /\ tabs' = <<>>
  /\ strays' = {} /\ current' = {}
  /\ UNCHANGED <<files, edits, kept, spoiled>>

-----------------------------------------------------------------------------
FolderNames == Folders \union {Reserved}
KnownPaths == KnownDirs \union KnownFiles
Edit ==
  \/ \E c \in Collections : CreateCollection(c)
  \/ \E d \in KnownDirs : CreateFolder(d)
  \/ \E d \in KnownDirs : CreateRequest(d)
  \/ \E p \in KnownPaths, d \in KnownDirs : Move(p, d)
  \/ \E p \in KnownDirs, n \in FolderNames \union Collections :
       n \in (IF Len(p) = 1 THEN Collections ELSE FolderNames) /\ Rename(p, n)
  \/ \E p \in KnownPaths : Delete(p)
  \/ \E p \in KnownDirs : DeletePartly(p)
  \/ \E p \in KnownFiles : Open(p)
Works ==
  \/ Created \/ FilesMove
  \/ \E undone \in BOOLEAN : CreationFails(undone) \/ FilesStay(undone)
Outside ==
  \/ \E d \in Dirs(disk), n \in Files : OutsideAdd(d, n)
  \/ \E p \in DOMAIN disk : OutsideRemove(p)
  \/ \E d \in Dirs(disk) : OutsideOrder(d)
Imports ==
  \/ WriteItem \/ SaveImportedOrder \/ ReadImported \/ ImportFails \/ AddImported
Background == ReadCollection \/ FinishReload \/ Imports

Next ==
  \/ Edit \/ Works \/ Outside \/ Background \/ Reload \/ Restart
  \/ \E c \in Collections : StartImport(c)

\* The UI thread goes on with what it does, and so do background tasks.
Spec == Init /\ [][Next]_vars /\ WF_vars(Works) /\ WF_vars(Background)

-----------------------------------------------------------------------------
TypeOK ==
  /\ \A p \in DOMAIN disk : disk[p] \in Requests \union {Folder}
  /\ \A p \in DOMAIN disk : Len(p) > 1 => Parent(p) \in Dirs(disk)
  /\ DOMAIN orders \subseteq Dirs(disk)
  /\ \A i \in DOMAIN registry : registry[i].root \in Collections
  /\ DOMAIN tabs \subseteq Requests
  /\ strays \subseteq Collections /\ current \subseteq Collections

(***************************************************************************)
(* A request that nobody deleted is in one file, whatever was moved,       *)
(* renamed, interrupted or failed (movement.rs:66, creation.rs:98).  The   *)
(* exceptions are a file that another program puts, between the look at a  *)
(* name and the rename, where a request is moved to, and one it puts in    *)
(* the place of a new request whose creation is then undone.               *)
(***************************************************************************)
ItemsStay == \A r \in kept : \E p \in DOMAIN disk : disk[p] = r /\ \A q \in DOMAIN disk : disk[q] = r => q = p

(***************************************************************************)
(* The sidebar shows what a restart would show (movement_tests.rs:36):     *)
(* collections nobody else changed have in memory the files they have, and *)
(* in the order that is saved.  A name that is listed twice is left out:   *)
(* a folder that is renamed to what a deleted one was called takes the     *)
(* later of the two places.                                                *)
(***************************************************************************)
IsOrdered(d) ==
  Readable(d) /\ \A i, j \in DOMAIN OrderOf(d) : OrderOf(d)[i] = OrderOf(d)[j] => i = j
ShowsItsFiles(c) ==
  LET loaded == Loaded(c.root).entries
  IN  /\ DOMAIN c.entries = DOMAIN loaded
      /\ \A d \in DOMAIN loaded :
           /\ Len(c.entries[d]) = Len(loaded[d]) /\ ToSet(c.entries[d]) = ToSet(loaded[d])
           /\ IsOrdered(d) => c.entries[d] = loaded[d]
SidebarIsFaithful ==
  operation = Idle =>
    \A c \in Collections \ strays :
      LET copies == {i \in DOMAIN registry : registry[i].root = c}
      IN  IF c \in OnDisk
          THEN Cardinality(copies) = 1 /\ \A i \in copies : ShowsItsFiles(registry[i])
          ELSE copies = {}

\* An operation that failed changed neither files nor their order (order.rs:48).
FailuresChangeNothing == ~spoiled

\* What a tab shows is in the tree where the tab says it is.
TabsFindTheirs ==
  operation = Idle => \A r \in DOMAIN tabs : \E i \in DOMAIN registry : Shows(registry[i], r)

\* An import keeps the order of its source (importing.rs:175).
ImportsKeepTheirOrder ==
  import # Idle /\ import.step = "done" /\ import.alone =>
    LET entries == import.got.entries[ImportDir]
    IN  [i \in DOMAIN entries |-> entries[i].what]
          = [i \in DOMAIN ImportedItems |-> ImportedItems[i].request]

Busy == operation # Idle \/ reading # Idle \/ import # Idle
\* Whatever is under way ends.
WorkEnds == Busy ~> ~Busy
=============================================================================
