-------------------------- MODULE SavedTabsProofs --------------------------
(***************************************************************************)
(* What holds of SavedTabs for any number of requests, pages and flows,    *)
(* any contents and any number of changes made outside the app; what holds *)
(* of CollectionFiles for any files; and, as one specification, what the   *)
(* parts that MCTabs puts beside SavedTabs keep.                           *)
(***************************************************************************)
EXTENDS MCTabs, Sequences, FiniteSetTheorems, WellFoundedInduction, TLAPS

USE KindsAssumption, ValuesAssumption, NoneAssumption

-----------------------------------------------------------------------------
(***************************************************************************)
(* The operators the actions are built from.                               *)
(***************************************************************************)
\* What was read and becomes the known one is a known one.
LEMMA LatestType ==
  ASSUME NEW i \in Items, NEW k \in Known(i), NEW f \in File(i)
  PROVE  Latest(k, f) \in Known(i)
BY SMT DEF Latest, Known, File

LEMMA ReloadedType ==
  ASSUME NEW i \in Items, NEW k \in Known(i) \union {None},
         NEW f \in File(i) \union {None}
  PROVE  Reloaded(k, f) \in Known(i) \union {None}
<1>1. CASE f = None  BY <1>1 DEF Reloaded
<1>2. CASE f # None /\ k # None /\ k.id = f.id
  BY <1>2, LatestType DEF Reloaded
<1>3. CASE f # None /\ ~(k # None /\ k.id = f.id)
  BY <1>3 DEF Reloaded, Known, File
<1>4. QED  BY <1>1, <1>2, <1>3

LEMMA OpenedFromType ==
  ASSUME NEW i \in Items, NEW k \in Known(i)
  PROVE  OpenedFrom(k) \in Tab(i)
BY DEF OpenedFrom, Known, Tab

LEMMA StrayedType ==
  ASSUME NEW i \in Items, NEW k \in Known(i) \union {None}, NEW t \in Tab(i)
  PROVE  Strayed(t, k) \in Tab(i)
<1>1. Is(k, t) \in BOOLEAN  BY DEF Is
<1>2. t.stray \in BOOLEAN  BY DEF Tab
<1>3. QED  BY <1>1, <1>2 DEF Strayed, Tab

LEMMA FollowedType ==
  ASSUME NEW i \in Items, NEW k \in Known(i) \union {None},
         tabs[i] \in Tab(i) \union {None}
  PROVE  Followed(i, k) \in Tab(i) \union {None}
<1> DEFINE t == tabs[i]
<1>1. CASE t = None  BY <1>1 DEF Followed
<1>2. CASE t # None /\ ~Is(k, t) /\ (i \in Requests \/ ~Dirty(t))
  BY <1>2 DEF Followed
<1>3. CASE t # None /\ Is(k, t) /\ ~Dirty(t) /\ k.outside # t.outside
  <2>1. k \in Known(i)  BY <1>3 DEF Is
  <2>2. Followed(i, k) = OpenedFrom(k)  BY <1>3 DEF Followed
  <2>3. QED  BY <2>1, <2>2, OpenedFromType
<1>4. CASE /\ t # None
           /\ ~(~Is(k, t) /\ (i \in Requests \/ ~Dirty(t)))
           /\ ~(Is(k, t) /\ ~Dirty(t) /\ k.outside # t.outside)
  <2>1. Followed(i, k) = Strayed(t, k)  BY <1>4 DEF Followed
  <2>2. QED  BY <1>4, <2>1, StrayedType
<1>5. QED  BY <1>1, <1>2, <1>3, <1>4

-----------------------------------------------------------------------------
(***************************************************************************)
(* Type correctness.  One lemma per group of actions; an action changes    *)
(* the item it is about, or those of one store.                            *)
(***************************************************************************)
ItemOK(i) ==
  /\ disk[i] \in File(i) \union {None}
  /\ read[i] \in File(i) \union {None}
  /\ known[i] \in Known(i) \union {None}
  /\ tabs[i] \in Tab(i) \union {None}

LEMMA InitType == Init => TypeOK
<1> SUFFICES ASSUME Init PROVE TypeOK  OBVIOUS
<1>1. ASSUME NEW i \in Items PROVE ItemOK(i)
  <2>1. disk[i] \in File(i) \union {None} /\ read[i] = None /\ tabs[i] = None
    BY DEF Init
  <2>2. known[i] = Reloaded(None, disk[i])  BY DEF Init
  <2>3. QED  BY <2>1, <2>2, ReloadedType DEF ItemOK
<1>2. DOMAIN disk = Items  BY DEF Init
<1>3. QED  BY <1>1, <1>2 DEF Init, TypeOK, ItemOK

LEMMA TabActionsType ==
  ASSUME TypeOK, NEW i \in Items, Open(i) \/ Edit(i) \/ Close(i)
  PROVE  TypeOK'
<1>1. CASE Open(i)
  <2>1. OpenedFrom(known[i]) \in Tab(i)
    BY <1>1, OpenedFromType DEF Open, TypeOK
  <2>2. QED  BY <1>1, <2>1 DEF Open, TypeOK, reads, ghosts
<1>2. CASE Edit(i)
  <2>1. PICK data \in Contents(i) : tabs' = [tabs EXCEPT ![i].data = data]
    BY <1>2 DEF Edit
  <2>2. tabs[i] \in Tab(i)  BY <1>2 DEF Edit, TypeOK
  <2>3. [tabs[i] EXCEPT !.data = data] \in Tab(i)  BY <2>2 DEF Tab
  <2>4. tabs' = [tabs EXCEPT ![i] = [tabs[i] EXCEPT !.data = data]]
    BY <2>1 DEF TypeOK
  <2>5. QED  BY <1>2, <2>3, <2>4 DEF Edit, TypeOK, reads, ghosts
<1>3. CASE Close(i)
  BY <1>3 DEF Close, TypeOK, reads, ghosts
<1>4. QED  BY <1>1, <1>2, <1>3

\* Every change the app makes of a store keeps `changed` what it is.
LEMMA OwnChangeType ==
  ASSUME TypeOK, NEW s \in Stores, OwnChange(s)
  PROVE  changed' \in [Stores -> BOOLEAN]
BY DEF OwnChange, TypeOK

LEMMA AskFailType ==
  ASSUME TypeOK, NEW i \in Items, tabs[i] # None, Ask(i) \/ Fail,
         changed' \in [Stores -> BOOLEAN]
  PROVE  TypeOK'
BY DEF Ask, Fail, TypeOK, ghosts

LEMMA WriteType ==
  ASSUME TypeOK, NEW i \in Items, tabs[i] # None, known[i] # None,
         NEW parts \in SUBSET Parts(i), parts # {} => disk[i] # None,
         NEW overwrite \in BOOLEAN, Write(i, parts, overwrite),
         changed' \in [Stores -> BOOLEAN]
  PROVE  TypeOK'
<1> DEFINE t == tabs[i]
           content == [p \in Parts(i) |-> IF p \in parts THEN t.data[p]
                                          ELSE disk[i].data[p]]
<1>1. t \in Tab(i) /\ known[i] \in Known(i)  BY DEF TypeOK
<1>2. t.data \in Contents(i) /\ known[i].outside \in Nat /\ known[i].id \in IdsOf(i)
  BY <1>1 DEF Tab, Known
<1>3. /\ DOMAIN disk' = Items /\ disk'[i] \in File(i) \union {None}
      /\ \A j \in Items \ {i} : disk'[j] = disk[j]
  <2>1. CASE parts = {}
    <3>1. disk' = disk  BY <2>1 DEF Write
    <3>2. QED  BY <3>1 DEF TypeOK
  <2>2. CASE parts # {}
    <3>1. disk[i] \in File(i)  BY <2>2 DEF TypeOK
    <3>2. content \in Contents(i)  BY <1>2, <3>1 DEF Contents, File
    <3>3. disk' = [disk EXCEPT ![i] = [disk[i] EXCEPT !.data = content]]
      BY <2>2 DEF Write, TypeOK
    <3>4. [disk[i] EXCEPT !.data = content] \in File(i)
      BY <3>1, <3>2 DEF File
    <3>5. QED  BY <3>3, <3>4 DEF TypeOK
  <2>3. QED  BY <2>1, <2>2
<1>4. /\ DOMAIN known' = Items /\ known'[i] \in Known(i)
      /\ \A j \in Items \ {i} : known'[j] = known[j]
  <2>1. known' = [known EXCEPT ![i] = [known[i] EXCEPT !.data = t.data]]
    BY DEF Write, TypeOK
  <2>2. [known[i] EXCEPT !.data = t.data] \in Known(i)
    BY <1>1, <1>2 DEF Known
  <2>3. QED  BY <2>1, <2>2 DEF TypeOK
<1>5. /\ DOMAIN tabs' = Items /\ tabs'[i] \in Tab(i)
      /\ \A j \in Items \ {i} : tabs'[j] = tabs[j]
  <2>1. tabs' = [tabs EXCEPT ![i] = [t EXCEPT !.base = t.data, !.outside = known[i].outside]]
    BY DEF Write, TypeOK
  <2>2. [t EXCEPT !.base = t.data, !.outside = known[i].outside] \in Tab(i)
    BY <1>1, <1>2 DEF Tab
  <2>3. QED  BY <2>1, <2>2 DEF TypeOK
<1>6. fresh' \subseteq Items /\ wanted' \subseteq Items
  BY DEF Write, TypeOK
<1>7. asked' = NoItem /\ read' = read /\ reading' = reading /\ pending' = pending
      /\ unread' = unread /\ left' = left /\ seen' = seen /\ sought' = sought
      /\ needless' = needless
  BY DEF Write
<1>8. ASSUME NEW j \in Items PROVE ItemOK(j)'
  BY <1>3, <1>4, <1>5, <1>7 DEF TypeOK, ItemOK
<1>9. QED  BY <1>3, <1>4, <1>5, <1>6, <1>7, <1>8 DEF TypeOK, ItemOK

\* What every save does is one of: nothing, an answer to ask for, a write.
LEMMA SaveType ==
  ASSUME TypeOK, NEW i \in Items,
         \/ i \in Requests /\ (SaveRequest(i) \/ OverwriteRequest(i))
         \/ i \in Flows /\ (SaveFlow(i) \/ OverwriteFlow(i))
  PROVE  TypeOK'
<1>1. tabs[i] # None
  BY DEF SaveRequest, OverwriteRequest, SaveFlow, OverwriteFlow, TypeOK, Items
<1>2. changed' \in [Stores -> BOOLEAN]
  <2>1. \A s \in Stores : OwnChange(s) => changed' \in [Stores -> BOOLEAN]
    BY OwnChangeType
  <2>2. UNCHANGED changed => changed' \in [Stores -> BOOLEAN]  BY DEF TypeOK
  <2>3. "collections" \in Stores /\ "flows" \in Stores  BY DEF Stores
  <2>4. QED
    BY <2>1, <2>2, <2>3 DEF SaveRequest, OverwriteRequest, SaveFlow, OverwriteFlow
<1>3. CASE Ask(i) \/ Fail  BY <1>1, <1>2, <1>3, AskFailType
<1>4. ASSUME NEW overwrite \in BOOLEAN, Expected(i), Write(i, Parts(i), overwrite)
      PROVE  TypeOK'
  <2>1. known[i] # None /\ disk[i] # None  BY <1>4 DEF Expected, Is
  <2>2. QED  BY <1>1, <1>2, <1>4, <2>1, WriteType
<1>5. QED
  BY <1>3, <1>4 DEF SaveRequest, OverwriteRequest, SaveFlow, OverwriteFlow

LEMMA WriteHalfType ==
  ASSUME TypeOK, NEW i \in Pages, tabs[i] # None, known[i] # None, WriteHalf(i),
         changed' = changed
  PROVE  TypeOK'
<1>1. i \in Items /\ Parts(i) = {"settings", "variables"}  BY DEF Items, Parts
<1> DEFINE f == [disk[i] EXCEPT !.data = [disk[i].data EXCEPT
                   !["settings"] = tabs[i].data["settings"]]]
<1>2. disk' = [disk EXCEPT ![i] = f]
  BY <1>1 DEF WriteHalf, TypeOK
<1>3. disk[i] \in File(i) /\ tabs[i] \in Tab(i)
  BY <1>1 DEF WriteHalf, TypeOK
<1>4. f \in File(i)
  <2>1. disk[i].data \in [Parts(i) -> Values] /\ tabs[i].data["settings"] \in Values
    BY <1>1, <1>3 DEF File, Tab, Contents
  <2>2. [disk[i].data EXCEPT !["settings"] = tabs[i].data["settings"]] \in Contents(i)
    BY <1>1, <2>1 DEF Contents
  <2>3. QED  BY <1>3, <2>2 DEF File
<1>5. QED  BY <1>1, <1>2, <1>4 DEF WriteHalf, TypeOK, reads

LEMMA SavePageType ==
  ASSUME TypeOK, NEW i \in Pages, SavePage(i) \/ OverwritePage(i)
  PROVE  TypeOK'
<1>1. i \in Items  BY DEF Items
<1>2. tabs[i] # None  BY <1>1 DEF SavePage, OverwritePage, TypeOK
<1>3. ASSUME changed' = changed \/ OwnChange("collections")
      PROVE  changed' \in [Stores -> BOOLEAN]
  <2>1. CASE changed' = changed  BY <2>1 DEF TypeOK
  <2>2. CASE OwnChange("collections")  BY <2>2, OwnChangeType DEF Stores
  <2>3. QED  BY <1>3, <2>1, <2>2
<1>4. CASE (Ask(i) \/ Fail) /\ UNCHANGED changed
  BY <1>1, <1>2, <1>3, <1>4, AskFailType
<1>5. CASE WriteHalf(i) /\ known[i] # None
  BY <1>2, <1>5, WriteHalfType DEF WriteHalf, reads
<1>6. ASSUME NEW overwrite \in BOOLEAN, known[i] # None,
             Written(i) = {} \/ disk[i] # None,
             Write(i, Written(i), overwrite), OwnChange("collections")
      PROVE  TypeOK'
  <2>1. Written(i) \in SUBSET Parts(i)  BY DEF Written
  <2>2. QED  BY <1>1, <1>2, <1>3, <1>6, <2>1, WriteType
<1>7. QED  BY <1>4, <1>5, <1>6 DEF SavePage, OverwritePage

\* The app looked at one item's file, and put `k` and `t` in place of what
\* it knew and showed of it.
LEMMA LookType ==
  ASSUME TypeOK, NEW i \in Items,
         NEW k \in Known(i) \union {None}, Looked(i, k),
         DOMAIN disk' = Items, disk'[i] \in File(i) \union {None},
         DOMAIN tabs' = Items, tabs'[i] \in Tab(i) \union {None},
         \A j \in Items \ {i} : disk'[j] = disk[j] /\ tabs'[j] = tabs[j],
         asked' \in {asked, NoItem}, asked' = i => tabs'[i] # None,
         UNCHANGED <<reading, pending, unread, read, left, seen, sought, needless>>
  PROVE  TypeOK'
<1>1. StoreOf(i) \in Stores  BY DEF StoreOf, Stores
<1>2. changed' \in [Stores -> BOOLEAN]  BY <1>1, OwnChangeType DEF Looked
<1>3. fresh' \subseteq Items /\ wanted' \subseteq Items  BY DEF Looked, TypeOK
<1>4. known' = [known EXCEPT ![i] = k]  BY DEF Looked
<1>5. \A j \in Items : ItemOK(j)'  BY <1>4 DEF ItemOK, TypeOK
<1>6. asked' # NoItem => tabs'[asked'] # None  BY DEF TypeOK
<1>7. DOMAIN known' = Items  BY <1>4 DEF TypeOK
<1>8. QED  BY <1>2, <1>3, <1>5, <1>6, <1>7 DEF TypeOK, ItemOK

\* A file that is gone, or a page's missing file, reads as this one.
LEMMA PageFileType ==
  ASSUME TypeOK, NEW i \in Pages
  PROVE  [id |-> PageId, data |-> [p \in Parts(i) |-> OnDisk(i, p)]] \in File(i)
<1>1. i \in Items  BY DEF Items
<1>2. disk[i] \in File(i) \union {None}  BY <1>1 DEF TypeOK
<1>3. \A p \in Parts(i) : OnDisk(i, p) \in Values
  BY <1>2 DEF OnDisk, File, Contents
<1>4. QED  BY <1>3 DEF File, Contents, IdsOf

LEMMA TakeTheirsType ==
  ASSUME TypeOK, NEW i \in Items, TakeTheirs(i)
  PROVE  TypeOK'
<1>1. UNCHANGED <<disk, reading, pending, unread, read, left, seen, sought, needless>>
      /\ asked' = NoItem
  BY DEF TakeTheirs
<1>2. ASSUME NEW k \in Known(i), Looked(i, k),
             tabs' = [tabs EXCEPT ![i] = OpenedFrom(k)]
      PROVE  TypeOK'
  <2>1. OpenedFrom(k) \in Tab(i)  BY OpenedFromType
  <2>2. /\ DOMAIN tabs' = Items /\ tabs'[i] = OpenedFrom(k)
        /\ \A j \in Items \ {i} : tabs'[j] = tabs[j]
    BY <1>2 DEF TypeOK
  <2>3. DOMAIN disk' = Items /\ \A j \in Items : disk'[j] = disk[j]
    BY <1>1 DEF TypeOK
  <2>4. disk'[i] \in File(i) \union {None}  BY <1>1 DEF TypeOK
  <2>5. asked' = NoItem /\ NoItem # i  BY <1>1
  <2>6. QED  BY <1>1, <1>2, <2>1, <2>2, <2>3, <2>4, <2>5, LookType
<1>3. CASE /\ i \notin Pages /\ Expected(i)
           /\ Looked(i, Latest(known[i], disk[i]))
           /\ tabs' = [tabs EXCEPT ![i] = OpenedFrom(Latest(known[i], disk[i]))]
  <2>1. Latest(known[i], disk[i]) \in Known(i)
    BY <1>3, LatestType DEF TypeOK, Expected, Is
  <2>2. QED  BY <1>2, <1>3, <2>1
<1>4. CASE /\ i \in Pages /\ known[i] # None
           /\ LET files == [id |-> PageId, data |-> [p \in Parts(i) |-> OnDisk(i, p)]]
                  k == Latest(known[i], files)
              IN  Looked(i, k) /\ tabs' = [tabs EXCEPT ![i] = OpenedFrom(k)]
  <2> DEFINE files == [id |-> PageId, data |-> [p \in Parts(i) |-> OnDisk(i, p)]]
  <2>1. Latest(known[i], files) \in Known(i)
    BY <1>4, LatestType, PageFileType DEF TypeOK
  <2>2. QED  BY <1>2, <1>4, <2>1
<1>5. CASE /\ UNCHANGED <<known, tabs, fresh, wanted>>
           /\ IF i \in Flows THEN OwnChange("flows") ELSE UNCHANGED changed
  <2>1. changed' \in [Stores -> BOOLEAN]
    <3>1. CASE i \in Flows  BY <1>5, <3>1, OwnChangeType DEF Stores
    <3>2. CASE i \notin Flows  BY <1>5, <3>2 DEF TypeOK
    <3>3. QED  BY <3>1, <3>2
  <2>2. QED  BY <1>1, <1>5, <2>1 DEF TypeOK
<1>6. QED  BY <1>3, <1>4, <1>5 DEF TakeTheirs

LEMMA RenameType ==
  ASSUME TypeOK, NEW i \in Items, Rename(i)
  PROVE  TypeOK'
<1>1. CASE Renamed(i)
  <2> DEFINE k == Latest(known[i], disk[i])
             t == IF tabs[i] = None THEN None ELSE Strayed(tabs[i], k)
  <2>1. k \in Known(i)  BY <1>1, LatestType DEF Renamed, TypeOK
  <2>2. t \in Tab(i) \union {None} /\ (tabs[i] # None => t # None)
    BY <2>1, StrayedType DEF TypeOK
  <2>3. /\ DOMAIN tabs' = Items /\ tabs'[i] = t
        /\ \A j \in Items \ {i} : tabs'[j] = tabs[j]
    BY <1>1 DEF Renamed, TypeOK
  <2>4. /\ DOMAIN disk' = Items /\ disk'[i] \in File(i) \union {None}
        /\ \A j \in Items : disk'[j] = disk[j]
    BY <1>1 DEF Renamed, TypeOK
  <2>5. asked' = asked /\ (asked' = i => tabs'[i] # None)
    BY <2>2, <2>3 DEF Rename, TypeOK
  <2>6. QED  BY <1>1, <2>1, <2>2, <2>3, <2>4, <2>5, LookType DEF Renamed, Rename
<1>2. CASE FlowUnchanged(i)
  <2>1. changed' \in [Stores -> BOOLEAN]
    BY <1>2, OwnChangeType DEF FlowUnchanged, Stores
  <2>2. QED  BY <1>2, <2>1 DEF FlowUnchanged, Rename, TypeOK
<1>3. QED  BY <1>1, <1>2 DEF Rename

LEMMA DeleteType ==
  ASSUME TypeOK, NEW i \in Items, Delete(i)
  PROVE  TypeOK'
<1>1. asked' \in {asked, NoItem} /\ asked' # i
  BY DEF Delete, TypeOK
<1>2. DOMAIN disk' = Items /\ disk'[i] = None /\ DOMAIN tabs' = Items /\ tabs'[i] = None
      /\ \A j \in Items \ {i} : disk'[j] = disk[j] /\ tabs'[j] = tabs[j]
  BY DEF Delete, TypeOK
<1>3. QED  BY <1>1, <1>2, LookType DEF Delete

LEMMA BeginType ==
  ASSUME TypeOK, NEW s \in Stores, Begin(s)
  PROVE  /\ reading' \in [Stores -> BOOLEAN] /\ changed' \in [Stores -> BOOLEAN]
         /\ sought' \in [Stores -> BOOLEAN]
         /\ unread' \subseteq Items /\ seen' \subseteq Items
         /\ DOMAIN read' = Items
         /\ \A i \in Items : read'[i] \in File(i) \union {None}
BY DEF Begin, TypeOK, Held

LEMMA AskToReadType ==
  ASSUME TypeOK, NEW s \in Stores, AskToRead(s)
  PROVE  TypeOK'
<1>1. wanted' \subseteq Items  BY DEF AskToRead, TypeOK, Held
<1>2. CASE reading[s]  BY <1>1, <1>2 DEF AskToRead, TypeOK, app
<1>3. CASE ~reading[s]
  BY <1>1, <1>3, BeginType DEF AskToRead, TypeOK, app
<1>4. QED  BY <1>2, <1>3

LEMMA ReadItemType ==
  ASSUME TypeOK, NEW i \in Items, ReadItem(i)
  PROVE  TypeOK'
BY DEF ReadItem, TypeOK, app

LEMMA ReadAgainType ==
  ASSUME TypeOK, NEW s \in Stores, ReadAgain(s), pending' \in [Stores -> BOOLEAN]
  PROVE  TypeOK'
<1>1. Begin(s)  BY DEF ReadAgain
<1>2. needless' \subseteq Stores  BY DEF ReadAgain, TypeOK
<1>3. QED  BY <1>1, <1>2, BeginType DEF ReadAgain, TypeOK, app

LEMMA TakeType ==
  ASSUME TypeOK, NEW s \in Stores, Take(s), pending' \in [Stores -> BOOLEAN]
  PROVE  TypeOK'
<1>1. /\ reading' \in [Stores -> BOOLEAN] /\ changed' \in [Stores -> BOOLEAN]
      /\ sought' \in [Stores -> BOOLEAN]
      /\ unread' \subseteq Items /\ fresh' \subseteq Items /\ seen' \subseteq Items
      /\ wanted' \subseteq Items /\ left' \in 0..MaxOutside /\ needless' \subseteq Stores
  BY DEF Take, TypeOK
<1>2. ASSUME NEW i \in Items PROVE known'[i] \in Known(i) \union {None}
  <2>1. CASE i \in Held(s)
    <3>1. known'[i] = Reloaded(known[i], read[i])  BY <2>1 DEF Take
    <3>2. QED  BY <3>1, ReloadedType DEF TypeOK
  <2>2. CASE i \notin Held(s)  BY <2>2 DEF Take, TypeOK
  <2>3. QED  BY <2>1, <2>2
<1>3. ASSUME NEW i \in Items PROVE tabs'[i] \in Tab(i) \union {None}
  <2>1. CASE i \in Held(s)
    <3>1. tabs'[i] = Followed(i, known'[i])  BY <2>1 DEF Take
    <3>2. QED  BY <1>2, <3>1, FollowedType DEF TypeOK
  <2>2. CASE i \notin Held(s)  BY <2>2 DEF Take, TypeOK
  <2>3. QED  BY <2>1, <2>2
<1>4. asked' \in Items \union {NoItem} /\ (asked' # NoItem => tabs'[asked'] # None)
  BY DEF Take, TypeOK
<1>5. /\ disk' = disk
      /\ DOMAIN known' = Items /\ DOMAIN tabs' = Items /\ DOMAIN read' = Items
      /\ \A i \in Items : read'[i] \in File(i) \union {None}
  BY DEF Take, TypeOK
<1>6. QED  BY <1>1, <1>2, <1>3, <1>4, <1>5 DEF TypeOK

LEMMA StoreReadType ==
  ASSUME TypeOK, CollectionsRead \/ FlowsRead
  PROVE  TypeOK'
<1>1. "collections" \in Stores /\ "flows" \in Stores  BY DEF Stores
<1>2. pending' \in [Stores -> BOOLEAN]
  BY DEF CollectionsRead, FlowsRead, TypeOK
<1>3. \E s \in Stores : ReadAgain(s) \/ Take(s)
  BY <1>1 DEF CollectionsRead, FlowsRead
<1>4. QED  BY <1>2, <1>3, ReadAgainType, TakeType

LEMMA OutsideType ==
  ASSUME TypeOK, NEW i \in Items, Outside(i)
  PROVE  TypeOK'
<1>1. PICK f \in File(i) \union {None} : disk' = [disk EXCEPT ![i] = f]
  BY DEF Outside
<1>2. left' \in 0..MaxOutside  BY DEF Outside, TypeOK
<1>3. QED  BY <1>1, <1>2 DEF Outside, TypeOK, app, reads

LEMMA NextType == TypeOK /\ [Next]_vars => TypeOK'
<1> SUFFICES ASSUME TypeOK, [Next]_vars PROVE TypeOK'  OBVIOUS
<1>1. ASSUME NEW i \in Items, Open(i) \/ Edit(i) \/ Close(i) PROVE TypeOK'
  BY <1>1, TabActionsType
<1>2. ASSUME NEW i \in Items, TakeTheirs(i) \/ Rename(i) \/ Delete(i) PROVE TypeOK'
  BY <1>2, TakeTheirsType, RenameType, DeleteType
<1>3. CASE Cancel  BY <1>3 DEF Cancel, TypeOK, reads, ghosts
<1>4. CASE \/ \E i \in Requests : SaveRequest(i) \/ OverwriteRequest(i)
           \/ \E i \in Flows : SaveFlow(i) \/ OverwriteFlow(i)
  BY <1>4, SaveType DEF Items
<1>5. CASE \E i \in Pages : SavePage(i) \/ OverwritePage(i)  BY <1>5, SavePageType
<1>6. CASE Background  BY <1>6, ReadItemType, StoreReadType DEF Background
<1>7. CASE ReloadCollections \/ RefreshFlows
  BY <1>7, AskToReadType DEF ReloadCollections, RefreshFlows, Stores
<1>8. CASE \E i \in Items : Outside(i)  BY <1>8, OutsideType
<1>9. CASE UNCHANGED vars  BY <1>9 DEF vars, TypeOK
<1>10. QED
  BY <1>1, <1>2, <1>3, <1>4, <1>5, <1>6, <1>7, <1>8, <1>9 DEF Next, User

(***************************************************************************)
(* TypeOK holds in every reachable state: in particular the prompt that    *)
(* asks whose changes to keep always has a tab to ask about                *)
(* (main_view.rs: changed_on_disk).                                        *)
(***************************************************************************)
THEOREM TypeCorrect == Spec => []TypeOK
<1>1. Init => TypeOK  BY InitType
<1>2. TypeOK /\ [Next]_vars => TypeOK'  BY NextType
<1>3. QED  BY <1>1, <1>2, PTL DEF Spec

-----------------------------------------------------------------------------
(***************************************************************************)
(* No silent overwrite.  It is not inductive: a save compares counts, and  *)
(* then the file with what is known.  That is enough because a tab that    *)
(* never lost its item opened with a count no greater than the known one,  *)
(* and with the known content if the counts are equal.                     *)
(***************************************************************************)
Shown(k, t) ==
  (t # None /\ ~t.stray) =>
    /\ k # None /\ k.id = t.id
    /\ t.outside <= k.outside
    /\ t.outside = k.outside => t.base = k.data

AllShown == \A i \in Items : Shown(known[i], tabs[i])

IInv == TypeOK /\ AllShown /\ NoSilentOverwrite

LEMMA OpenedShown ==
  ASSUME NEW i \in Items, NEW k \in Known(i)
  PROVE  Shown(k, OpenedFrom(k))
BY DEF Shown, OpenedFrom, Known

\* What is read of the same item counts if it differs, so what the tab showed
\* is still known, or counted.
LEMMA LatestShown ==
  ASSUME NEW i \in Items, NEW k \in Known(i), NEW f \in File(i), NEW t \in Tab(i),
         Shown(k, t)
  PROVE  Shown(Latest(k, f), Strayed(t, Latest(k, f)))
<1> DEFINE l == Latest(k, f)
           u == Strayed(t, l)
<1> SUFFICES ASSUME ~u.stray PROVE Shown(l, u)  BY DEF Shown
<1>1. u.outside = t.outside /\ u.base = t.base /\ u.id = t.id
  BY DEF Strayed, Tab
<1>2. ~t.stray /\ Is(l, t)  BY DEF Strayed, Tab, Is
<1>3. t.outside <= k.outside /\ (t.outside = k.outside => t.base = k.data)
  BY <1>2 DEF Shown, Tab
<1>4. t.outside \in Nat /\ k.outside \in Nat  BY DEF Tab, Known
<1>5. CASE k.data = f.data
  BY <1>1, <1>2, <1>3, <1>4, <1>5 DEF Shown, Latest, Is
<1>6. CASE k.data # f.data
  <2>1. l.outside = k.outside + 1  BY <1>6 DEF Latest
  <2>2. u.outside < l.outside  BY <1>1, <1>3, <1>4, <2>1
  <2>3. QED  BY <1>1, <1>2, <1>4, <2>1, <2>2 DEF Shown, Is
<1>7. QED  BY <1>5, <1>6

LEMMA ReloadedShown ==
  ASSUME NEW i \in Items, NEW k \in Known(i) \union {None},
         NEW f \in File(i) \union {None}, NEW t \in Tab(i), Shown(k, t)
  PROVE  Shown(Reloaded(k, f), Strayed(t, Reloaded(k, f)))
<1> DEFINE l == Reloaded(k, f)
           u == Strayed(t, l)
<1> SUFFICES ASSUME ~u.stray PROVE Shown(l, u)  BY DEF Shown
<1>1. ~t.stray /\ Is(l, t)  BY DEF Strayed, Tab, Is
<1>2. k # None /\ k.id = t.id  BY <1>1 DEF Shown
<1>3. f # None /\ f.id = t.id
  BY <1>1 DEF Is, Reloaded, Latest
<1>4. l = Latest(k, f)  BY <1>2, <1>3 DEF Reloaded
<1>5. QED  BY <1>2, <1>3, <1>4, LatestShown

LEMMA FollowedShown ==
  ASSUME TypeOK, NEW i \in Items, Shown(known[i], tabs[i])
  PROVE  Shown(Reloaded(known[i], read[i]), Followed(i, Reloaded(known[i], read[i])))
<1> DEFINE k == Reloaded(known[i], read[i])
           t == tabs[i]
<1>1. k \in Known(i) \union {None}  BY ReloadedType DEF TypeOK
<1>2. CASE Followed(i, k) = None  BY <1>2 DEF Shown
<1>3. CASE t # None /\ Is(k, t) /\ ~Dirty(t) /\ k.outside # t.outside
  <2>1. Followed(i, k) = OpenedFrom(k) /\ k \in Known(i)
    BY <1>1, <1>3 DEF Followed, Is
  <2>2. QED  BY <2>1, OpenedShown
<1>4. CASE t # None /\ Followed(i, k) = Strayed(t, k)
  BY <1>4, ReloadedShown DEF TypeOK
<1>5. QED  BY <1>2, <1>3, <1>4 DEF Followed

-----------------------------------------------------------------------------
\* A step that leaves what is known, shown and lost as they are.
LEMMA StillShown ==
  ASSUME AllShown, NoSilentOverwrite, known' = known, tabs' = tabs, lost' = lost
  PROVE  AllShown' /\ NoSilentOverwrite'
BY DEF AllShown, NoSilentOverwrite

\* A step about one item.
LEMMA ItemShown ==
  ASSUME AllShown, NoSilentOverwrite, NEW i \in Items, lost' = lost,
         Shown(known'[i], tabs'[i]),
         \A j \in Items \ {i} : known'[j] = known[j] /\ tabs'[j] = tabs[j]
  PROVE  AllShown' /\ NoSilentOverwrite'
BY DEF AllShown, NoSilentOverwrite

LEMMA TabActionsShown ==
  ASSUME IInv, NEW i \in Items, Open(i) \/ Edit(i) \/ Close(i)
  PROVE  AllShown' /\ NoSilentOverwrite'
<1>1. CASE Open(i)
  <2>1. Shown(known[i], OpenedFrom(known[i]))
    BY <1>1, OpenedShown DEF Open, IInv, TypeOK
  <2>2. QED  BY <1>1, <2>1, ItemShown DEF Open, IInv, TypeOK, ghosts
<1>2. CASE Edit(i)
  <2>1. PICK data \in Contents(i) : tabs' = [tabs EXCEPT ![i].data = data]
    BY <1>2 DEF Edit
  <2>2. tabs[i] \in Tab(i)  BY <1>2 DEF Edit, IInv, TypeOK
  <2>3. tabs' = [tabs EXCEPT ![i] = [tabs[i] EXCEPT !.data = data]]
    BY <2>1 DEF IInv, TypeOK
  <2>4. Shown(known[i], tabs[i])  BY DEF IInv, AllShown
  <2>5. Shown(known[i], [tabs[i] EXCEPT !.data = data])
    BY <1>2, <2>2, <2>4 DEF Shown, Tab, Edit
  <2>6. QED  BY <1>2, <2>3, <2>5, ItemShown DEF Edit, IInv, TypeOK, ghosts
<1>3. CASE Close(i)
  <2>1. Shown(known[i], None)  BY DEF Shown
  <2>2. QED  BY <1>3, <2>1, ItemShown DEF Close, IInv, TypeOK, ghosts
<1>4. QED  BY <1>1, <1>2, <1>3

\* After a write, the tab shows what is known.
LEMMA WriteShown ==
  ASSUME IInv, NEW i \in Items, tabs[i] # None, known[i] # None,
         known[i].id = tabs[i].id,
         NEW parts \in SUBSET Parts(i), NEW overwrite \in BOOLEAN,
         Write(i, parts, overwrite),
         ~overwrite /\ ~tabs[i].stray
            => \A p \in parts : disk[i].data[p] = tabs[i].base[p]
  PROVE  AllShown' /\ NoSilentOverwrite'
<1> DEFINE t == tabs[i]
<1>1. t \in Tab(i) /\ known[i] \in Known(i)  BY DEF IInv, TypeOK
<1>2. known' = [known EXCEPT ![i] = [known[i] EXCEPT !.data = t.data]]
  BY DEF Write, IInv, TypeOK
<1>3. tabs' = [tabs EXCEPT ![i] = [t EXCEPT !.base = t.data, !.outside = known[i].outside]]
  BY DEF Write, IInv, TypeOK
<1>4. Shown([known[i] EXCEPT !.data = t.data],
            [t EXCEPT !.base = t.data, !.outside = known[i].outside])
  BY <1>1 DEF Shown, Tab, Known
<1>5. AllShown'  BY <1>2, <1>3, <1>4 DEF AllShown, IInv, TypeOK
<1>6. NoSilentOverwrite'
  <2>1. t.stray \in BOOLEAN  BY <1>1 DEF Tab
  <2>2. lost' \subseteq lost \union {<<i, TRUE>>}
    <3>1. CASE ~overwrite /\ \E p \in parts : disk[i].data[p] # t.base[p]
      <4>1. t.stray = TRUE  BY <2>1, <3>1
      <4>2. lost' = lost \union {<<i, t.stray>>}  BY <3>1 DEF Write
      <4>3. QED  BY <4>1, <4>2
    <3>2. CASE ~(~overwrite /\ \E p \in parts : disk[i].data[p] # t.base[p])
      BY <3>2 DEF Write
    <3>3. QED  BY <3>1, <3>2
  <2>3. QED  BY <2>2 DEF NoSilentOverwrite, IInv
<1>7. QED  BY <1>5, <1>6

\* The comparison of counts passed: what is known is what the tab shows.
LEMMA CountsAgree ==
  ASSUME IInv, NEW i \in Items, tabs[i] # None, ~tabs[i].stray, ~CountMoved(i)
  PROVE  tabs[i].base = known[i].data
BY DEF IInv, AllShown, Shown, CountMoved, Is

LEMMA SaveShown ==
  ASSUME IInv, NEW i \in Items,
         \/ i \in Requests /\ (SaveRequest(i) \/ OverwriteRequest(i))
         \/ i \in Flows /\ (SaveFlow(i) \/ OverwriteFlow(i))
  PROVE  AllShown' /\ NoSilentOverwrite'
<1>1. tabs[i] # None
  BY DEF SaveRequest, OverwriteRequest, SaveFlow, OverwriteFlow, IInv, TypeOK, Items
<1>2. CASE Ask(i) \/ Fail
  BY <1>2, StillShown DEF Ask, Fail, IInv, ghosts
<1>3. CASE Expected(i) /\ Write(i, Parts(i), TRUE)
  BY <1>1, <1>3, WriteShown DEF Expected, Is
<1>4. CASE /\ ~CountMoved(i) /\ Expected(i) /\ ~ChangedOnDisk(i)
           /\ Write(i, Parts(i), FALSE)
  <2>1. ~tabs[i].stray => \A p \in Parts(i) : disk[i].data[p] = tabs[i].base[p]
    BY <1>1, <1>4, CountsAgree DEF ChangedOnDisk
  <2>2. QED  BY <1>1, <1>4, <2>1, WriteShown DEF Expected, Is
<1>5. QED
  BY <1>2, <1>3, <1>4 DEF SaveRequest, OverwriteRequest, SaveFlow, OverwriteFlow

LEMMA SavePageShown ==
  ASSUME IInv, NEW i \in Pages, SavePage(i) \/ OverwritePage(i)
  PROVE  AllShown' /\ NoSilentOverwrite'
<1>1. i \in Items  BY DEF Items
<1>2. tabs[i] # None  BY <1>1 DEF SavePage, OverwritePage, IInv, TypeOK
<1>3. Written(i) \in SUBSET Parts(i)  BY DEF Written
<1>4. CASE Ask(i) \/ Fail \/ WriteHalf(i)
  BY <1>4, StillShown DEF Ask, Fail, WriteHalf, IInv, ghosts
<1>5. known[i] # None => known[i].id = tabs[i].id
  BY <1>1, <1>2 DEF IInv, TypeOK, Known, Tab, IdsOf
<1>6. CASE known[i] # None /\ Write(i, Written(i), TRUE)
  BY <1>1, <1>2, <1>3, <1>5, <1>6, WriteShown
<1>7. CASE /\ ~CountMoved(i) /\ known[i] # None
           /\ Written(i) = {} \/ (disk[i] # None /\ ~WrittenChanged(i))
           /\ Write(i, Written(i), FALSE)
  <2>1. ASSUME ~tabs[i].stray, NEW p \in Written(i)
        PROVE  disk[i].data[p] = tabs[i].base[p]
    <3>1. disk[i] # None /\ known[i].data[p] = OnDisk(i, p)
      BY <1>7, <2>1 DEF WrittenChanged
    <3>2. tabs[i].base = known[i].data  BY <1>1, <1>2, <1>7, <2>1, CountsAgree
    <3>3. QED  BY <3>1, <3>2 DEF OnDisk
  <2>2. QED  BY <1>1, <1>2, <1>3, <1>5, <1>7, <2>1, WriteShown
<1>8. QED  BY <1>4, <1>6, <1>7 DEF SavePage, OverwritePage

LEMMA TakeTheirsShown ==
  ASSUME IInv, NEW i \in Items, TakeTheirs(i)
  PROVE  AllShown' /\ NoSilentOverwrite'
<1>1. lost' = lost  BY DEF TakeTheirs
<1>2. ASSUME NEW k \in Known(i), known' = [known EXCEPT ![i] = k],
             tabs' = [tabs EXCEPT ![i] = OpenedFrom(k)]
      PROVE  AllShown' /\ NoSilentOverwrite'
  <2>1. Shown(k, OpenedFrom(k))  BY OpenedShown
  <2>2. QED  BY <1>1, <1>2, <2>1, ItemShown DEF IInv, TypeOK
<1>3. CASE /\ i \notin Pages /\ Expected(i)
           /\ Looked(i, Latest(known[i], disk[i]))
           /\ tabs' = [tabs EXCEPT ![i] = OpenedFrom(Latest(known[i], disk[i]))]
  <2>1. Latest(known[i], disk[i]) \in Known(i)
    BY <1>3, LatestType DEF IInv, TypeOK, Expected, Is
  <2>2. QED  BY <1>2, <1>3, <2>1 DEF Looked
<1>4. CASE /\ i \in Pages /\ known[i] # None
           /\ LET files == [id |-> PageId, data |-> [p \in Parts(i) |-> OnDisk(i, p)]]
                  k == Latest(known[i], files)
              IN  Looked(i, k) /\ tabs' = [tabs EXCEPT ![i] = OpenedFrom(k)]
  <2> DEFINE files == [id |-> PageId, data |-> [p \in Parts(i) |-> OnDisk(i, p)]]
  <2>1. Latest(known[i], files) \in Known(i)
    BY <1>4, LatestType, PageFileType DEF IInv, TypeOK
  <2>2. QED  BY <1>2, <1>4, <2>1 DEF Looked
<1>5. CASE UNCHANGED <<known, tabs, fresh, wanted>>
  BY <1>1, <1>5, StillShown DEF IInv
<1>6. QED  BY <1>3, <1>4, <1>5 DEF TakeTheirs

LEMMA RenameShown ==
  ASSUME IInv, NEW i \in Items, Rename(i)
  PROVE  AllShown' /\ NoSilentOverwrite'
<1>1. CASE Renamed(i)
  <2> DEFINE k == Latest(known[i], disk[i])
  <2>1. known' = [known EXCEPT ![i] = k]  BY <1>1 DEF Renamed, Looked
  <2>2. CASE tabs[i] = None
    <3>1. Shown(k, tabs[i])  BY <2>2 DEF Shown
    <3>2. QED
      BY <1>1, <2>1, <2>2, <3>1, ItemShown DEF Renamed, Rename, IInv, TypeOK
  <2>3. CASE tabs[i] # None
    <3>1. Shown(k, Strayed(tabs[i], k))
      BY <1>1, <2>3, LatestShown DEF Renamed, IInv, TypeOK, AllShown
    <3>2. QED
      BY <1>1, <2>1, <2>3, <3>1, ItemShown DEF Renamed, Rename, IInv, TypeOK
  <2>4. QED  BY <2>2, <2>3
<1>2. CASE FlowUnchanged(i)
  BY <1>2, StillShown DEF FlowUnchanged, Rename, IInv
<1>3. QED  BY <1>1, <1>2 DEF Rename

LEMMA DeleteShown ==
  ASSUME IInv, NEW i \in Items, Delete(i)
  PROVE  AllShown' /\ NoSilentOverwrite'
<1>1. Shown(None, None)  BY DEF Shown
<1>2. QED  BY <1>1, ItemShown DEF Delete, Looked, IInv, TypeOK

LEMMA TakeShown ==
  ASSUME IInv, NEW s \in Stores, Take(s)
  PROVE  AllShown' /\ NoSilentOverwrite'
<1>1. ASSUME NEW i \in Items PROVE Shown(known'[i], tabs'[i])
  <2>1. Shown(known[i], tabs[i])  BY DEF IInv, AllShown
  <2>2. CASE i \in Held(s)
    <3>1. known'[i] = Reloaded(known[i], read[i])  BY <2>2 DEF Take
    <3>2. tabs'[i] = Followed(i, Reloaded(known[i], read[i]))
      BY <2>2, <3>1 DEF Take
    <3>3. QED  BY <2>1, <3>1, <3>2, FollowedShown DEF IInv
  <2>3. CASE i \notin Held(s)
    BY <2>1, <2>3 DEF Take
  <2>4. QED  BY <2>2, <2>3
<1>2. lost' = lost  BY DEF Take
<1>3. QED  BY <1>1, <1>2 DEF AllShown, NoSilentOverwrite, IInv

LEMMA NextShown == IInv /\ [Next]_vars => IInv'
<1> SUFFICES ASSUME IInv, [Next]_vars PROVE IInv'  OBVIOUS
<1>1. TypeOK'  BY NextType DEF IInv
<1>2. AllShown' /\ NoSilentOverwrite'
  <2>1. ASSUME NEW i \in Items, Open(i) \/ Edit(i) \/ Close(i)
        PROVE  AllShown' /\ NoSilentOverwrite'
    BY <2>1, TabActionsShown
  <2>2. ASSUME NEW i \in Items, TakeTheirs(i) \/ Rename(i) \/ Delete(i)
        PROVE  AllShown' /\ NoSilentOverwrite'
    BY <2>2, TakeTheirsShown, RenameShown, DeleteShown
  <2>3. CASE \/ \E i \in Requests : SaveRequest(i) \/ OverwriteRequest(i)
             \/ \E i \in Flows : SaveFlow(i) \/ OverwriteFlow(i)
    BY <2>3, SaveShown DEF Items
  <2>4. CASE \E i \in Pages : SavePage(i) \/ OverwritePage(i)
    BY <2>4, SavePageShown
  <2>5. CASE \E s \in Stores : Take(s)  BY <2>5, TakeShown
  <2>6. CASE \/ Cancel \/ \E i \in Items : ReadItem(i) \/ Outside(i)
             \/ \E s \in Stores : AskToRead(s) \/ ReadAgain(s)
             \/ UNCHANGED vars
    BY <2>6, StillShown
    DEF Cancel, ReadItem, Outside, AskToRead, ReadAgain, IInv, app, ghosts, vars
  <2>7. ASSUME Background PROVE \/ \E i \in Items : ReadItem(i)
                                \/ \E s \in Stores : ReadAgain(s) \/ Take(s)
    BY <2>7 DEF Background, CollectionsRead, FlowsRead, Stores
  <2>8. ASSUME ReloadCollections \/ RefreshFlows PROVE \E s \in Stores : AskToRead(s)
    BY <2>8 DEF ReloadCollections, RefreshFlows, Stores
  <2>9. QED
    BY <2>1, <2>2, <2>3, <2>4, <2>5, <2>6, <2>7, <2>8 DEF Next, User
<1>3. QED  BY <1>1, <1>2 DEF IInv

(***************************************************************************)
(* A save that nobody was asked about never replaces a content its tab did *)
(* not show (mutations.rs: "a change made outside the app is not lost"),   *)
(* for a tab whose item memory never lost.                                 *)
(***************************************************************************)
THEOREM NothingOverwrittenSilently == Spec => []NoSilentOverwrite
<1>1. Init => IInv
  <2>1. Init => TypeOK  BY InitType
  <2>2. Init => AllShown /\ NoSilentOverwrite
    BY DEF Init, AllShown, Shown, NoSilentOverwrite
  <2>3. QED  BY <2>1, <2>2 DEF IInv
<1>2. IInv /\ [Next]_vars => IInv'  BY NextShown
<1>3. IInv => NoSilentOverwrite  BY DEF IInv
<1>4. QED  BY <1>1, <1>2, <1>3, PTL DEF Spec

-----------------------------------------------------------------------------
(***************************************************************************)
(* The app's own changes.  What is known of a file that nobody else        *)
(* touched is what it holds because a read is only taken if the app        *)
(* changed nothing since it began: then what it read of such a file is     *)
(* still there.                                                            *)
(***************************************************************************)
\* What the read under way came by, or has to, is of a store being read; and
\* what it read is still there, unless it will be thrown away.
ReadsFit ==
  /\ \A i \in unread \union seen : reading[StoreOf(i)]
  /\ \A i \in seen : ~changed[StoreOf(i)] => read[i] = disk[i]

KInv == TypeOK /\ ReadsFit /\ OwnChangesStay

LEMMA StoreOfType == \A i \in Items : StoreOf(i) \in Stores
BY DEF StoreOf, Stores

LEMMA LatestAgrees ==
  ASSUME NEW i \in Items, NEW k \in Known(i), NEW f \in File(i)
  PROVE  Agree(Latest(k, f), f)
<1>1. Latest(k, f).id = f.id /\ Latest(k, f).data = f.data  BY DEF Latest
<1>2. Latest(k, f) # None /\ f # None  BY LatestType
<1>3. QED  BY <1>1, <1>2 DEF Agree

LEMMA ReloadedAgrees ==
  ASSUME NEW i \in Items, NEW k \in Known(i) \union {None},
         NEW f \in File(i) \union {None}
  PROVE  Agree(Reloaded(k, f), f)
<1>1. CASE f = None  BY <1>1 DEF Reloaded, Agree
<1>2. CASE f # None /\ k # None /\ k.id = f.id
  BY <1>2, LatestAgrees DEF Reloaded
<1>3. CASE f # None /\ ~(k # None /\ k.id = f.id)
  <2>1. Reloaded(k, f) = [id |-> f.id, data |-> f.data, outside |-> 0]
    BY <1>3 DEF Reloaded
  <2>2. Reloaded(k, f) # None
    BY <1>3, <2>1 DEF File, Known
  <2>3. QED  BY <1>3, <2>1, <2>2 DEF Agree
<1>4. QED  BY <1>1, <1>2, <1>3

\* A step that changes no file, nothing known, and no read.
LEMMA StillAgrees ==
  ASSUME KInv, UNCHANGED <<disk, known, reading, unread, read, fresh, seen>>,
         changed' = changed \/ \E s \in Stores : OwnChange(s)
  PROVE  ReadsFit' /\ OwnChangesStay'
<1>1. OwnChangesStay'  BY DEF KInv, OwnChangesStay
<1>2. ASSUME NEW i \in seen, ~changed'[StoreOf(i)] PROVE ~changed[StoreOf(i)]
  <2>1. reading[StoreOf(i)]  BY DEF KInv, ReadsFit
  <2>2. StoreOf(i) \in Stores  BY StoreOfType DEF KInv, TypeOK
  <2>3. QED  BY <1>2, <2>1, <2>2 DEF OwnChange, KInv, TypeOK
<1>3. ReadsFit'  BY <1>2 DEF KInv, ReadsFit
<1>4. QED  BY <1>1, <1>3

\* A step of the app that changes the file of one item, what is known of it,
\* or both: the read under way will be thrown away.
LEMMA ChangeAgrees ==
  ASSUME KInv, NEW i \in Items, OwnChange(StoreOf(i)),
         UNCHANGED <<reading, unread, read, seen>>,
         fresh' \subseteq fresh \union {i},
         i \in fresh' => Agree(known'[i], disk'[i]),
         \A j \in Items \ {i} : disk'[j] = disk[j] /\ known'[j] = known[j]
  PROVE  ReadsFit' /\ OwnChangesStay'
<1>1. OwnChangesStay'
  <2>1. ASSUME NEW j \in fresh', j # i PROVE Agree(known'[j], disk'[j])
    <3>1. j \in fresh /\ j \in Items  BY <2>1 DEF KInv, TypeOK
    <3>2. QED  BY <2>1, <3>1 DEF KInv, OwnChangesStay
  <2>2. QED  BY <2>1 DEF OwnChangesStay
<1>2. ASSUME NEW j \in seen, ~changed'[StoreOf(j)] PROVE read[j] = disk'[j]
  <2>1. reading[StoreOf(j)] /\ j \in Items  BY DEF KInv, ReadsFit, TypeOK
  <2>2. StoreOf(j) \in Stores /\ StoreOf(i) \in Stores  BY <2>1, StoreOfType
  <2>3. StoreOf(j) # StoreOf(i) /\ ~changed[StoreOf(j)]
    BY <1>2, <2>1, <2>2 DEF OwnChange, KInv, TypeOK
  <2>4. QED  BY <2>1, <2>3 DEF KInv, ReadsFit
<1>3. ReadsFit'  BY <1>2 DEF KInv, ReadsFit
<1>4. QED  BY <1>1, <1>3

\* A change nobody told the app of.
LEMMA HiddenChangeAgrees ==
  ASSUME KInv, NEW i \in Items, UNCHANGED <<known, reading, changed, unread, read>>,
         \A j \in Items \ {i} : disk'[j] = disk[j],
         fresh' = fresh \ {i}, seen' = seen \ {i}
  PROVE  ReadsFit' /\ OwnChangesStay'
<1>1. OwnChangesStay'  BY DEF KInv, OwnChangesStay, TypeOK
<1>2. ReadsFit'  BY DEF KInv, ReadsFit, TypeOK
<1>3. QED  BY <1>1, <1>2

LEMMA WriteAgrees ==
  ASSUME KInv, NEW i \in Items, tabs[i] # None, known[i] # None,
         NEW parts \in SUBSET Parts(i), parts # {} => disk[i] # None,
         parts = Parts(i) => disk[i].id = known[i].id,
         \A p \in Parts(i) \ parts : tabs[i].data[p] = known[i].data[p],
         NEW overwrite \in BOOLEAN, Write(i, parts, overwrite), OwnChange(StoreOf(i))
  PROVE  ReadsFit' /\ OwnChangesStay'
<1> DEFINE t == tabs[i]
           content == [p \in Parts(i) |-> IF p \in parts THEN t.data[p]
                                          ELSE disk[i].data[p]]
<1>1. t \in Tab(i) /\ known[i] \in Known(i) /\ disk[i] \in File(i) \union {None}
  BY DEF KInv, TypeOK
<1>2. t.data \in [Parts(i) -> Values] /\ known[i].data \in [Parts(i) -> Values]
  BY <1>1 DEF Tab, Known, Contents
<1>3. known' = [known EXCEPT ![i] = [known[i] EXCEPT !.data = t.data]]
  BY DEF Write, KInv, TypeOK
<1>4. known'[i].id = known[i].id /\ known'[i].data = t.data /\ known'[i] # None
  <2>1. [known[i] EXCEPT !.data = t.data] \in Known(i)
    BY <1>1, <1>2 DEF Known, Contents
  <2>2. known'[i] = [known[i] EXCEPT !.data = t.data]  BY <1>3 DEF KInv, TypeOK
  <2>3. known[i].id = [known[i] EXCEPT !.data = t.data].id  BY <1>1 DEF Known
  <2>4. t.data = [known[i] EXCEPT !.data = t.data].data  BY <1>1 DEF Known
  <2>5. QED  BY <2>1, <2>2, <2>3, <2>4
<1>5. \E p : p \in Parts(i)  BY DEF Parts
<1>6. ASSUME parts # {}
      PROVE  disk'[i].id = disk[i].id /\ disk'[i].data = content /\ disk'[i] # None
  <2>1. disk[i] \in File(i)  BY <1>1, <1>6
  <2>2. disk' = [disk EXCEPT ![i] = [disk[i] EXCEPT !.data = content]]
    BY <1>6 DEF Write, KInv, TypeOK
  <2>3. content \in Contents(i)  BY <1>2, <2>1 DEF Contents, File
  <2>4. [disk[i] EXCEPT !.data = content] \in File(i)  BY <2>1, <2>3 DEF File
  <2>5. disk'[i] = [disk[i] EXCEPT !.data = content]  BY <2>2 DEF KInv, TypeOK
  <2>6. /\ [disk[i] EXCEPT !.data = content].id = disk[i].id
        /\ [disk[i] EXCEPT !.data = content].data = content
    BY <2>1 DEF File
  <2>7. QED  BY <2>4, <2>5, <2>6
<1>7. ASSUME i \in fresh' PROVE Agree(known'[i], disk'[i])
  <2>1. CASE parts = Parts(i)
    <3>1. parts # {}  BY <1>5, <2>1
    <3>2. content = t.data  BY <1>2, <2>1
    <3>3. QED  BY <1>4, <1>6, <2>1, <3>1, <3>2 DEF Agree
  <2>2. CASE parts # Parts(i)
    <3>1. fresh' = fresh  BY <2>2 DEF Write
    <3>2. Agree(known[i], disk[i])  BY <1>7, <3>1 DEF KInv, OwnChangesStay
    <3>3. disk[i] # None /\ known[i].id = disk[i].id /\ known[i].data = disk[i].data
      BY <3>2 DEF Agree
    <3>4. content = t.data
      <4>1. \A p \in Parts(i) : content[p] = t.data[p]  BY <3>3
      <4>2. QED  BY <1>2, <4>1
    <3>5. CASE parts = {}
      <4>1. disk' = disk  BY <3>5 DEF Write
      <4>2. \A p \in Parts(i) : known[i].data[p] = t.data[p]  BY <3>5
      <4>3. known[i].data = t.data  BY <1>2, <4>2
      <4>4. QED  BY <1>4, <3>3, <4>1, <4>3 DEF Agree
    <3>6. CASE parts # {}
      BY <1>4, <1>6, <3>3, <3>4, <3>6 DEF Agree
    <3>7. QED  BY <3>5, <3>6
  <2>3. QED  BY <2>1, <2>2
<1>8. \A j \in Items \ {i} : disk'[j] = disk[j] /\ known'[j] = known[j]
  BY <1>3 DEF Write, KInv, TypeOK
<1>9. fresh' \subseteq fresh \union {i}  BY DEF Write
<1>10. UNCHANGED <<reading, unread, read, seen>>  BY DEF Write
<1>11. QED  BY <1>7, <1>8, <1>9, <1>10, ChangeAgrees

LEMMA SaveAgrees ==
  ASSUME KInv, NEW i \in Items,
         \/ i \in Requests /\ (SaveRequest(i) \/ OverwriteRequest(i))
         \/ i \in Flows /\ (SaveFlow(i) \/ OverwriteFlow(i))
  PROVE  ReadsFit' /\ OwnChangesStay'
<1>1. tabs[i] # None
  BY DEF SaveRequest, OverwriteRequest, SaveFlow, OverwriteFlow, KInv, TypeOK, Items
<1>2. /\ i \in Requests => StoreOf(i) = "collections"
      /\ i \in Flows => StoreOf(i) = "flows"
  BY DEF StoreOf
<1>3. CASE (Ask(i) \/ Fail) /\ (changed' = changed \/ \E s \in Stores : OwnChange(s))
  BY <1>3, StillAgrees DEF Ask, Fail, ghosts
<1>4. ASSUME NEW overwrite \in BOOLEAN, Expected(i), Write(i, Parts(i), overwrite),
             OwnChange(StoreOf(i))
      PROVE  ReadsFit' /\ OwnChangesStay'
  <2>1. known[i] # None /\ disk[i] # None /\ disk[i].id = known[i].id
    BY <1>4 DEF Expected, Is
  <2>2. QED  BY <1>1, <1>4, <2>1, WriteAgrees
<1>5. "collections" \in Stores /\ "flows" \in Stores  BY DEF Stores
<1>6. CASE i \in Requests /\ (SaveRequest(i) \/ OverwriteRequest(i))
  BY <1>2, <1>3, <1>4, <1>5, <1>6 DEF SaveRequest, OverwriteRequest
<1>7. CASE i \in Flows /\ (SaveFlow(i) \/ OverwriteFlow(i))
  BY <1>2, <1>3, <1>4, <1>5, <1>7 DEF SaveFlow, OverwriteFlow
<1>8. QED  BY <1>6, <1>7

LEMMA SavePageAgrees ==
  ASSUME KInv, NEW i \in Pages, SavePage(i) \/ OverwritePage(i)
  PROVE  ReadsFit' /\ OwnChangesStay'
<1>1. i \in Items /\ StoreOf(i) = "collections"  BY DEF Items, StoreOf
<1>2. tabs[i] # None  BY <1>1 DEF SavePage, OverwritePage, KInv, TypeOK
<1>3. CASE (Ask(i) \/ Fail) /\ UNCHANGED changed
  BY <1>3, StillAgrees DEF Ask, Fail, ghosts
<1>4. CASE WriteHalf(i)
  BY <1>1, <1>4, HiddenChangeAgrees DEF WriteHalf, reads, KInv, TypeOK
<1>5. ASSUME NEW overwrite \in BOOLEAN, known[i] # None,
             Written(i) = {} \/ disk[i] # None,
             Write(i, Written(i), overwrite), OwnChange("collections")
      PROVE  ReadsFit' /\ OwnChangesStay'
  <2>1. Written(i) \in SUBSET Parts(i)  BY DEF Written
  <2>2. \A p \in Parts(i) \ Written(i) : tabs[i].data[p] = known[i].data[p]
    BY DEF Written
  <2>3. Written(i) = Parts(i) => disk[i].id = known[i].id
    <3>1. \E p : p \in Parts(i)  BY DEF Parts
    <3>2. QED  BY <1>1, <1>5, <3>1 DEF KInv, TypeOK, File, Known, IdsOf
  <2>4. QED  BY <1>1, <1>2, <1>5, <2>1, <2>2, <2>3, WriteAgrees
<1>6. QED  BY <1>3, <1>4, <1>5 DEF SavePage, OverwritePage

\* The app looked at one item's file.
LEMMA LookAgrees ==
  ASSUME KInv, NEW i \in Items, NEW k, Looked(i, k),
         disk'[i] # None /\ k # None => Agree(k, disk'[i]),
         \A j \in Items \ {i} : disk'[j] = disk[j],
         UNCHANGED <<reading, unread, read, seen>>
  PROVE  ReadsFit' /\ OwnChangesStay'
<1>1. /\ known'[i] = k
      /\ \A j \in Items \ {i} : known'[j] = known[j]
  BY DEF Looked, KInv, TypeOK
<1>2. i \in fresh' => Agree(known'[i], disk'[i])
  <2>1. SUFFICES ASSUME i \in fresh' PROVE Agree(k, disk'[i])  BY <1>1
  <2>2. (k = None) = (disk'[i] = None)  BY <2>1 DEF Looked
  <2>3. QED  BY <2>2 DEF Agree
<1>3. fresh' \subseteq fresh \union {i}  BY DEF Looked
<1>4. OwnChange(StoreOf(i))  BY DEF Looked
<1>5. QED  BY <1>1, <1>2, <1>3, <1>4, ChangeAgrees

LEMMA TakeTheirsAgrees ==
  ASSUME KInv, NEW i \in Items, TakeTheirs(i)
  PROVE  ReadsFit' /\ OwnChangesStay'
<1>1. UNCHANGED <<disk, reading, unread, read, seen>>  BY DEF TakeTheirs
<1>2. CASE i \notin Pages /\ Expected(i) /\ Looked(i, Latest(known[i], disk[i]))
  <2>1. Agree(Latest(known[i], disk[i]), disk[i])
    BY <1>2, LatestAgrees DEF KInv, TypeOK, Expected, Is
  <2>2. QED  BY <1>1, <1>2, <2>1, LookAgrees
<1>3. CASE /\ i \in Pages /\ known[i] # None
           /\ LET files == [id |-> PageId, data |-> [p \in Parts(i) |-> OnDisk(i, p)]]
              IN  Looked(i, Latest(known[i], files))
  <2> DEFINE files == [id |-> PageId, data |-> [p \in Parts(i) |-> OnDisk(i, p)]]
  <2>1. Agree(Latest(known[i], files), files)
    BY <1>3, LatestAgrees, PageFileType DEF KInv, TypeOK
  <2>2. ASSUME disk[i] # None PROVE Agree(Latest(known[i], files), disk[i])
    <3>1. disk[i] \in [id : {PageId}, data : [Parts(i) -> Values]]
      BY <1>3, <2>2 DEF KInv, TypeOK, File, IdsOf, Contents
    <3>2. \A p \in Parts(i) : OnDisk(i, p) = disk[i].data[p]  BY <2>2 DEF OnDisk
    <3>3. files.data = disk[i].data  BY <3>1, <3>2
    <3>4. files.id = disk[i].id  BY <3>1
    <3>5. files \in File(i)  BY <1>3, PageFileType DEF KInv
    <3>6. QED  BY <2>1, <2>2, <3>3, <3>4, <3>5 DEF Agree
  <2>3. QED  BY <1>1, <1>3, <2>2, LookAgrees
<1>4. CASE /\ UNCHANGED <<known, tabs, fresh, wanted>>
           /\ IF i \in Flows THEN OwnChange("flows") ELSE UNCHANGED changed
  BY <1>1, <1>4, StillAgrees DEF Stores
<1>5. QED  BY <1>2, <1>3, <1>4 DEF TakeTheirs

LEMMA RenameAgrees ==
  ASSUME KInv, NEW i \in Items, Rename(i)
  PROVE  ReadsFit' /\ OwnChangesStay'
<1>1. CASE Renamed(i)
  <2>1. Agree(Latest(known[i], disk[i]), disk[i])
    BY <1>1, LatestAgrees DEF Renamed, KInv, TypeOK
  <2>2. QED  BY <1>1, <2>1, LookAgrees DEF Renamed, Rename
<1>2. CASE FlowUnchanged(i)
  BY <1>2, StillAgrees DEF FlowUnchanged, Rename, Stores
<1>3. QED  BY <1>1, <1>2 DEF Rename

LEMMA DeleteAgrees ==
  ASSUME KInv, NEW i \in Items, Delete(i)
  PROVE  ReadsFit' /\ OwnChangesStay'
BY LookAgrees DEF Delete, KInv, TypeOK

\* A read that begins came by nothing yet.
LEMMA BeginAgrees ==
  ASSUME KInv, NEW s \in Stores, Begin(s), UNCHANGED <<disk, known, fresh>>
  PROVE  ReadsFit' /\ OwnChangesStay'
<1>1. OwnChangesStay'  BY DEF KInv, OwnChangesStay
<1>2. ASSUME NEW i \in unread' \union seen' PROVE reading'[StoreOf(i)]
  <2>1. i \in Items /\ StoreOf(i) \in Stores
    BY StoreOfType DEF Begin, Held, KInv, TypeOK
  <2>2. StoreOf(i) = s \/ i \in unread \union seen  BY DEF Begin, Held
  <2>3. QED  BY <2>1, <2>2 DEF Begin, KInv, TypeOK, ReadsFit
<1>3. ASSUME NEW i \in seen', ~changed'[StoreOf(i)] PROVE read'[i] = disk'[i]
  <2>1. i \in Items /\ i \in seen /\ StoreOf(i) # s /\ StoreOf(i) \in Stores
    BY StoreOfType DEF Begin, Held, KInv, TypeOK
  <2>2. ~changed[StoreOf(i)] /\ read'[i] = read[i]
    BY <1>3, <2>1 DEF Begin, Held, KInv, TypeOK
  <2>3. QED  BY <2>1, <2>2 DEF KInv, ReadsFit
<1>4. ReadsFit'  BY <1>2, <1>3 DEF ReadsFit
<1>5. QED  BY <1>1, <1>4

LEMMA AskToReadAgrees ==
  ASSUME KInv, NEW s \in Stores, AskToRead(s)
  PROVE  ReadsFit' /\ OwnChangesStay'
<1>1. CASE reading[s]  BY <1>1, StillAgrees DEF AskToRead, app
<1>2. CASE ~reading[s]  BY <1>2, BeginAgrees DEF AskToRead, app
<1>3. QED  BY <1>1, <1>2

LEMMA ReadItemAgrees ==
  ASSUME KInv, NEW i \in Items, ReadItem(i)
  PROVE  ReadsFit' /\ OwnChangesStay'
<1>1. OwnChangesStay'  BY DEF KInv, OwnChangesStay, ReadItem, app
<1>2. read' = [read EXCEPT ![i] = disk[i]]  BY DEF ReadItem
<1>3. ReadsFit'  BY <1>2 DEF KInv, TypeOK, ReadsFit, ReadItem
<1>4. QED  BY <1>1, <1>3

LEMMA TakeAgrees ==
  ASSUME KInv, NEW s \in Stores, AllRead(s), ~changed[s], Take(s)
  PROVE  ReadsFit' /\ OwnChangesStay'
<1>1. ASSUME NEW i \in fresh' PROVE Agree(known'[i], disk'[i])
  <2>1. i \in Items /\ disk'[i] = disk[i]  BY DEF Take, KInv, TypeOK
  <2>2. CASE i \in Held(s)
    <3>1. i \in seen /\ StoreOf(i) = s  BY <2>2 DEF Take, Held
    <3>2. read[i] = disk[i]  BY <3>1 DEF KInv, ReadsFit
    <3>3. known'[i] = Reloaded(known[i], disk[i])  BY <2>1, <2>2, <3>2 DEF Take
    <3>4. QED  BY <2>1, <3>3, ReloadedAgrees DEF KInv, TypeOK
  <2>3. CASE i \notin Held(s)
    <3>1. i \in fresh /\ known'[i] = known[i]  BY <2>1, <2>3 DEF Take
    <3>2. QED  BY <2>1, <3>1 DEF KInv, OwnChangesStay
  <2>4. QED  BY <2>2, <2>3
<1>2. ASSUME NEW i \in unread' \union seen' PROVE reading'[StoreOf(i)]
  <2>1. i \in Items /\ StoreOf(i) \in Stores
    BY StoreOfType DEF Take, KInv, TypeOK
  <2>2. i \in unread \union seen /\ StoreOf(i) # s
    BY <2>1 DEF Take, AllRead, Held
  <2>3. QED  BY <2>1, <2>2 DEF Take, KInv, TypeOK, ReadsFit
<1>3. ASSUME NEW i \in seen', ~changed'[StoreOf(i)] PROVE read'[i] = disk'[i]
  <2>1. i \in Items /\ i \in seen /\ StoreOf(i) # s /\ StoreOf(i) \in Stores
    BY StoreOfType DEF Take, Held, KInv, TypeOK
  <2>2. ~changed[StoreOf(i)] /\ read'[i] = read[i]
    BY <1>3, <2>1 DEF Take, Held, KInv, TypeOK
  <2>3. QED  BY <2>1, <2>2 DEF Take, KInv, ReadsFit
<1>4. QED  BY <1>1, <1>2, <1>3 DEF ReadsFit, OwnChangesStay

LEMMA NextAgrees == KInv /\ [Next]_vars => KInv'
<1> SUFFICES ASSUME KInv, [Next]_vars PROVE KInv'  OBVIOUS
<1>1. TypeOK'  BY NextType DEF KInv
<1>2. ReadsFit' /\ OwnChangesStay'
  <2>1. CASE Cancel \/ \E i \in Items : Open(i) \/ Edit(i) \/ Close(i)
    BY <2>1, StillAgrees DEF Cancel, Open, Edit, Close, reads, ghosts
  <2>2. ASSUME NEW i \in Items, TakeTheirs(i) \/ Rename(i) \/ Delete(i)
        PROVE  ReadsFit' /\ OwnChangesStay'
    BY <2>2, TakeTheirsAgrees, RenameAgrees, DeleteAgrees
  <2>3. CASE \/ \E i \in Requests : SaveRequest(i) \/ OverwriteRequest(i)
             \/ \E i \in Flows : SaveFlow(i) \/ OverwriteFlow(i)
    BY <2>3, SaveAgrees DEF Items
  <2>4. CASE \E i \in Pages : SavePage(i) \/ OverwritePage(i)
    BY <2>4, SavePageAgrees
  <2>5. CASE \E i \in Items : ReadItem(i)  BY <2>5, ReadItemAgrees
  <2>6. CASE \E i \in Items : Outside(i)
    <3>1. PICK i \in Items : Outside(i)  BY <2>6
    <3>2. QED
      BY <3>1, HiddenChangeAgrees DEF Outside, app, reads, KInv, TypeOK
  <2>7. CASE CollectionsRead \/ FlowsRead
    <3>1. \E s \in Stores : ReadAgain(s) \/ (AllRead(s) /\ ~changed[s] /\ Take(s))
      BY <2>7 DEF CollectionsRead, FlowsRead, Stores
    <3>2. ASSUME NEW s \in Stores, ReadAgain(s) PROVE ReadsFit' /\ OwnChangesStay'
      BY <3>2, BeginAgrees DEF ReadAgain, app
    <3>3. QED  BY <3>1, <3>2, TakeAgrees
  <2>8. CASE ReloadCollections \/ RefreshFlows
    BY <2>8, AskToReadAgrees DEF ReloadCollections, RefreshFlows, Stores
  <2>9. CASE UNCHANGED vars  BY <2>9, StillAgrees DEF vars
  <2>10. QED
    BY <2>1, <2>2, <2>3, <2>4, <2>5, <2>6, <2>7, <2>8, <2>9
    DEF Next, User, Background
<1>3. QED  BY <1>1, <1>2 DEF KInv

(***************************************************************************)
(* A read in the background never undoes what the app did meanwhile        *)
(* (store.rs:276, flow_panel.rs:53): what is known of a file that nobody   *)
(* else touched since the app looked at it is what it holds.               *)
(***************************************************************************)
THEOREM OwnChangesAreKept == Spec => []OwnChangesStay
<1>1. Init => KInv
  <2> SUFFICES ASSUME Init PROVE KInv  OBVIOUS
  <2>1. TypeOK  BY InitType
  <2>2. ASSUME NEW i \in Items PROVE Agree(known[i], disk[i])
    <3>1. known[i] = Reloaded(None, disk[i])  BY DEF Init
    <3>2. QED  BY <2>1, <3>1, ReloadedAgrees DEF TypeOK
  <2>3. OwnChangesStay  BY <2>2 DEF OwnChangesStay, Init
  <2>4. ReadsFit  BY DEF ReadsFit, Init
  <2>5. QED  BY <2>1, <2>3, <2>4 DEF KInv
<1>2. KInv /\ [Next]_vars => KInv'  BY NextAgrees
<1>3. KInv => OwnChangesStay  BY DEF KInv
<1>4. QED  BY <1>1, <1>2, <1>3, PTL DEF Spec

-----------------------------------------------------------------------------
(***************************************************************************)
(* What taking a read does to the tabs of its store.                       *)
(***************************************************************************)
\* Only taking a read ends it.
LEMMA TakenByTake ==
  ASSUME TypeOK, [Next]_vars, NEW s \in Stores, Taken(s)
  PROVE  Take(s)
<1>1. reading[s] /\ ~reading'[s]  BY DEF Taken
<1>2. ASSUME NEW z \in Stores, Begin(z) PROVE FALSE
  BY <1>1, <1>2 DEF Begin, TypeOK
<1>3. ASSUME reading' = reading PROVE FALSE  BY <1>1, <1>3
<1>4. CASE User
  <2>1. ASSUME NEW i, SaveRequest(i) \/ OverwriteRequest(i) \/ SaveFlow(i) \/ OverwriteFlow(i)
        PROVE  FALSE
    BY <1>3, <2>1
    DEF SaveRequest, OverwriteRequest, SaveFlow, OverwriteFlow, Ask, Fail, Write
  <2>2. ASSUME NEW i, SavePage(i) \/ OverwritePage(i) PROVE FALSE
    BY <1>3, <2>2 DEF SavePage, OverwritePage, Ask, Fail, Write, WriteHalf, reads
  <2>3. ASSUME NEW i, Open(i) \/ Edit(i) \/ Close(i) PROVE FALSE
    BY <1>3, <2>3 DEF Open, Edit, Close, reads
  <2>4. ASSUME NEW i, TakeTheirs(i) \/ Rename(i) \/ Delete(i) PROVE FALSE
    BY <1>3, <2>4 DEF TakeTheirs, Rename, Delete
  <2>5. ~Cancel  BY <1>3 DEF Cancel, reads
  <2>6. QED  BY <1>4, <2>1, <2>2, <2>3, <2>4, <2>5 DEF User
<1>5. CASE Background
  <2>1. \A i \in Items : ~ReadItem(i)  BY <1>3 DEF ReadItem
  <2>2. \A z \in Stores : ~ReadAgain(z)  BY <1>2 DEF ReadAgain
  <2>3. \E z \in Stores : Take(z)
    BY <1>5, <2>1, <2>2 DEF Background, CollectionsRead, FlowsRead, Stores
  <2>4. PICK z \in Stores : Take(z)  BY <2>3
  <2>5. z = s  BY <1>1, <2>4 DEF Take, TypeOK
  <2>6. QED  BY <2>4, <2>5
<1>6. CASE ReloadCollections \/ RefreshFlows
  <2>1. \E z \in Stores : AskToRead(z)
    BY <1>6 DEF ReloadCollections, RefreshFlows, Stores
  <2>2. QED  BY <1>2, <1>3, <2>1 DEF AskToRead
<1>7. CASE \E i \in Items : Outside(i)
  BY <1>3, <1>7 DEF Outside, reads
<1>8. CASE UNCHANGED vars  BY <1>3, <1>8 DEF vars
<1>9. QED  BY <1>4, <1>5, <1>6, <1>7, <1>8 DEF Next

\* What a tab without edits shows when a read of its store is taken.
Follows ==
  \A s \in Stores : Taken(s) => \A i \in Held(s) :
    (tabs'[i] # None /\ ~Dirty(tabs'[i]) /\ ~tabs'[i].stray)
       => known'[i] # None /\ tabs'[i].data = known'[i].data

LEMMA FollowsNext == ASSUME IInv, [Next]_vars PROVE Follows
<1> SUFFICES ASSUME NEW s \in Stores, Taken(s), NEW i \in Held(s),
                    tabs'[i] # None, ~Dirty(tabs'[i]), ~tabs'[i].stray
             PROVE  known'[i] # None /\ tabs'[i].data = known'[i].data
  BY DEF Follows
<1> DEFINE k == Reloaded(known[i], read[i])
           t == tabs[i]
<1>1. Take(s) /\ i \in Items  BY TakenByTake DEF IInv, Held
<1>2. known'[i] = k  BY <1>1 DEF Take
<1>3. tabs'[i] = Followed(i, k)  BY <1>1, <1>2 DEF Take
<1>4. k \in Known(i) \union {None} /\ t \in Tab(i) \union {None}
  BY <1>1, ReloadedType DEF IInv, TypeOK
<1>5. t # None  BY <1>3 DEF Followed
<1>6. CASE Is(k, t) /\ ~Dirty(t) /\ k.outside # t.outside
  <2>1. tabs'[i] = OpenedFrom(k) /\ k # None
    BY <1>3, <1>5, <1>6 DEF Followed, Is
  <2>2. QED  BY <1>2, <2>1 DEF OpenedFrom
<1>7. CASE ~(Is(k, t) /\ ~Dirty(t) /\ k.outside # t.outside)
  <2> DEFINE u == Strayed(t, k)
  <2>1. tabs'[i] = u  BY <1>3, <1>5, <1>7 DEF Followed
  <2>2. Shown(known[i], t)  BY <1>1 DEF IInv, AllShown
  <2>3. Shown(k, u)
    BY <1>1, <1>4, <1>5, <2>2, ReloadedShown DEF IInv, TypeOK
  <2>4. u.outside = t.outside /\ u.base = t.base /\ u.data = t.data
    BY <1>4, <1>5 DEF Strayed, Tab
  <2>5. Is(k, t)  BY <1>4, <1>5, <2>1 DEF Strayed, Tab, Is
  <2>6. ~Dirty(t)  BY <2>1, <2>4 DEF Dirty
  <2>7. k.outside = t.outside  BY <1>7, <2>5, <2>6
  <2>8. t.base = k.data  BY <2>1, <2>3, <2>4, <2>7, <1>5, <1>4 DEF Shown
  <2>9. QED  BY <1>2, <2>1, <2>4, <2>5, <2>6, <2>8 DEF Dirty, Is
<1>8. QED  BY <1>6, <1>7

(***************************************************************************)
(* main_view.rs:1831: after a read is taken, a tab of its store without    *)
(* edits shows what memory holds, unless it lost its item while it stayed  *)
(* open.  It rests on what the counts mean (AllShown): a clean tab whose   *)
(* count is the known one shows the known content.                         *)
(***************************************************************************)
THEOREM CleanTabsAlwaysFollow == Spec => CleanTabsFollow
<1>1. Init => IInv
  <2>1. Init => TypeOK  BY InitType
  <2>2. Init => AllShown /\ NoSilentOverwrite
    BY DEF Init, AllShown, Shown, NoSilentOverwrite
  <2>3. QED  BY <2>1, <2>2 DEF IInv
<1>2. IInv /\ [Next]_vars => IInv'  BY NextShown
<1>3. IInv /\ [Next]_vars => [Follows]_vars  BY FollowsNext
<1>4. QED  BY <1>1, <1>2, <1>3, PTL DEF Spec, Follows, CleanTabsFollow

\* Where edits are when a read of their store is taken.
Survives ==
  \A s \in Stores : Taken(s) => \A i \in Held(s) :
    (tabs[i] # None /\ Dirty(tabs[i]))
       => \/ tabs'[i] # None /\ tabs'[i].data = tabs[i].data
          \/ tabs[i].data \in copies'

LEMMA SurvivesNext == ASSUME TypeOK, [Next]_vars PROVE Survives
<1> SUFFICES ASSUME NEW s \in Stores, Taken(s), NEW i \in Held(s),
                    tabs[i] # None, Dirty(tabs[i])
             PROVE  \/ tabs'[i] # None /\ tabs'[i].data = tabs[i].data
                    \/ tabs[i].data \in copies'
  BY DEF Survives
<1> DEFINE k == known'[i]
           t == tabs[i]
<1>1. Take(s) /\ i \in Items /\ t \in Tab(i)
  BY TakenByTake DEF TypeOK, Held
<1>2. tabs'[i] = Followed(i, k)  BY <1>1 DEF Take
<1>3. CASE ~Is(k, t) /\ i \in Requests
  <2>1. Gone(i, k) /\ Unsaved(i) = {t.data}  BY <1>3 DEF Gone, Unsaved
  <2>2. QED  BY <1>1, <2>1 DEF Take
<1>4. CASE ~(~Is(k, t) /\ i \in Requests)
  <2>1. tabs'[i] = Strayed(t, k)  BY <1>2, <1>4 DEF Followed
  <2>2. k \in Known(i) \union {None}  BY NextType, <1>1 DEF TypeOK
  <2>3. Strayed(t, k) \in Tab(i)  BY <1>1, <2>2, StrayedType
  <2>4. Strayed(t, k).data = t.data  BY <1>1 DEF Strayed, Tab
  <2>5. QED  BY <1>1, <2>1, <2>3, <2>4
<1>5. QED  BY <1>3, <1>4

(***************************************************************************)
(* main_view.rs:926: taking a read loses no edits.  They stay in their     *)
(* tab, or in an unsaved copy of a request whose file is gone.             *)
(***************************************************************************)
THEOREM EditsAlwaysSurvive == Spec => EditsSurvive
<1>1. Init => TypeOK  BY InitType
<1>2. TypeOK /\ [Next]_vars => TypeOK'  BY NextType
<1>3. TypeOK /\ [Next]_vars => [Survives]_vars  BY SurvivesNext
<1>4. QED  BY <1>1, <1>2, <1>3, PTL DEF Spec, Survives, EditsSurvive
-----------------------------------------------------------------------------
(***************************************************************************)
(* The parts in one run.  A behavior of TabsSpec is one of a single part,  *)
(* so what the specification of each part keeps holds of it: QP is what is *)
(* proved of the queries and of the call, which MCTabs names otherwise.    *)
(***************************************************************************)
QP == INSTANCE ScriptQueueProofs WITH pending <- queue, current <- query, held <- call

LEMMA QueriesAreSame ==
  /\ Q!Init <=> QP!Init
  /\ Q!Next <=> QP!Next
  /\ Q!TypeOK <=> QP!TypeOK
  /\ Q!RoomIsPassedOn <=> QP!RoomIsPassedOn
  /\ UNCHANGED Q!vars <=> UNCHANGED QP!vars
BY DEF
     Q!Answer, Q!Ask, Q!Continue, Q!Dropped, Q!FindsFull, Q!GivesUp, Q!HasRoom, Q!Init, Q!Left,
     Q!Listen, Q!Live, Q!Min, Q!Moves, Q!Next, Q!Notified, Q!Pop, Q!Push, Q!Pushed, Q!RemoveAt,
     Q!RemoveFirst, Q!RoomIsPassedOn, Q!SelectInSeq, Q!Skip, Q!Start, Q!ToSet, Q!TriesAgain,
     Q!TypeOK, Q!Unload, Q!WakesWhenIdle, Q!Work, Q!vars, QP!Answer, QP!Ask, QP!Continue,
     QP!Dropped, QP!FindsFull, QP!GivesUp, QP!HasRoom, QP!Init, QP!Left, QP!Listen, QP!Live,
     QP!Min, QP!Moves, QP!Next, QP!Notified, QP!Pop, QP!Push, QP!Pushed, QP!RemoveAt,
     QP!RemoveFirst, QP!RoomIsPassedOn, QP!SelectInSeq, QP!Skip, QP!Start, QP!ToSet, QP!TriesAgain,
     QP!TypeOK, QP!Unload, QP!WakesWhenIdle, QP!Work, QP!vars

LEMMA CallIsSame ==
  /\ C!Init <=> QP!C!Init
  /\ C!Next <=> QP!C!Next
  /\ C!TypeOK <=> QP!C!TypeOK
  /\ C!ReceivedAreShown <=> QP!C!ReceivedAreShown
  /\ C!ScriptsAreInPlace <=> QP!C!ScriptsAreInPlace
  /\ UNCHANGED C!vars <=> UNCHANGED QP!C!vars
BY DEF
     C!AfterResponse, C!Cancel, C!Drops, C!Emits, C!EndStream, C!Ends, C!Event, C!Follows, C!Goes,
     C!Init, C!IsFree, C!LogsSent, C!Next, C!OnMessage, C!Passes, C!Pipeline, C!Receive,
     C!ReceivedAreShown, C!Receives, C!ReportThenStatus, C!Responds, C!Rest, C!ScriptsAreInPlace,
     C!SendMessage, C!Shown, C!ShowsBatch, C!Streams, C!Takes, C!TypeOK, C!vars,
     QP!C!AfterResponse, QP!C!Cancel, QP!C!Drops, QP!C!Emits, QP!C!EndStream, QP!C!Ends,
     QP!C!Event, QP!C!Follows, QP!C!Goes, QP!C!Init, QP!C!IsFree, QP!C!LogsSent, QP!C!Next,
     QP!C!OnMessage, QP!C!Passes, QP!C!Pipeline, QP!C!Receive, QP!C!ReceivedAreShown,
     QP!C!Receives, QP!C!ReportThenStatus, QP!C!Responds, QP!C!Rest, QP!C!ScriptsAreInPlace,
     QP!C!SendMessage, QP!C!Shown, QP!C!ShowsBatch, QP!C!Streams, QP!C!Takes, QP!C!TypeOK,
     QP!C!vars

\* A step is one of the part that the behavior is of, and leaves the part.
LEMMA StepsOfAPart ==
  ASSUME [TabsNext]_tabsVars
  PROVE  /\ part' = part
         /\ [Next]_vars
         /\ part = "queries" => [Q!Next]_(Q!vars)
         /\ part = "grpc_call" => [C!Next]_(C!vars)
         /\ part = "files" => [F!Next]_(F!vars)
<1>1. CASE TabsNext  BY <1>1 DEF TabsNext, Goes, OthersStay, MCNext, savedVars
<1>2. CASE UNCHANGED tabsVars
  BY <1>2 DEF tabsVars, savedVars, queriesVars, callVars, filesVars, Q!vars, C!vars, F!vars
<1>3. QED  BY <1>1, <1>2

LEMMA SavedStart == ASSUME TabsInit PROVE Init
BY DEF TabsInit, MCInit, NothingSaved

(***************************************************************************)
(* main_view.rs:1831 and :926: in a window with any requests, pages and    *)
(* flows, a tab without edits shows what memory holds after a reload, and  *)
(* no reload takes the edits of another.                                   *)
(***************************************************************************)
THEOREM TabsAlwaysFollow == TabsSpec => TabsFollow
<1>1. TabsInit => IInv
  <2> SUFFICES ASSUME Init PROVE IInv  BY SavedStart
  <2>1. TypeOK  BY InitType
  <2>2. AllShown /\ NoSilentOverwrite  BY DEF Init, AllShown, Shown, NoSilentOverwrite
  <2>3. QED  BY <2>1, <2>2 DEF IInv
<1>2. IInv /\ [TabsNext]_tabsVars => IInv' /\ [Follows]_vars /\ [Survives]_vars
  <2> SUFFICES ASSUME IInv, [TabsNext]_tabsVars PROVE IInv' /\ Follows /\ Survives  OBVIOUS
  <2>1. [Next]_vars  BY StepsOfAPart
  <2>2. QED  BY <2>1, NextShown, FollowsNext, SurvivesNext DEF IInv
<1>3. TabsSpec => [][Follows]_vars /\ [][Survives]_vars  BY <1>1, <1>2, PTL DEF TabsSpec
<1>4. QED  BY <1>3 DEF TabsFollow, CleanTabsFollow, EditsSurvive, Follows, Survives

(***************************************************************************)
(* worker.rs:61: with any editors and any limit of the queue, an editor    *)
(* that waits for room in a queue that has some is told of it by another.  *)
(***************************************************************************)
THEOREM RoomStaysPassedOn == ASSUME QP!Assumed PROVE TabsSpec => []RoomIsPassedOn
<1> DEFINE Kept == part = "queries" => QP!IInv
<1>1. TabsInit => Kept  BY QueriesAreSame, QP!InitFits DEF TabsInit
<1>2. Kept /\ [TabsNext]_tabsVars => Kept'
  <2> SUFFICES ASSUME Kept, [TabsNext]_tabsVars PROVE Kept'  OBVIOUS
  <2>1. part' = part /\ (part = "queries" => [Q!Next]_(Q!vars))  BY StepsOfAPart
  <2>2. ASSUME part = "queries" PROVE QP!IInv'
    <3>1. [QP!Next]_(QP!vars)  BY <2>1, <2>2, QueriesAreSame
    <3>2. QED  BY <2>2, <3>1, QP!NextKeeps
  <2>3. QED  BY <2>1, <2>2
<1>3. Kept => RoomIsPassedOn  BY QueriesAreSame DEF QP!IInv, RoomIsPassedOn
<1>4. QED  BY <1>1, <1>2, <1>3, PTL DEF TabsSpec

(***************************************************************************)
(* invocation.rs:311: a call of any number of messages shows each that it  *)
(* received once and in order, all of them when the server ended it, and   *)
(* the reports of scripts where their events are.                          *)
(***************************************************************************)
THEOREM ReceivedStayShown == TabsSpec => []ReceivedAreShown
<1> DEFINE Kept == part = "grpc_call" => QP!CallInv
<1>1. TabsInit => Kept  BY CallIsSame, QP!CallStarts DEF TabsInit
<1>2. Kept /\ [TabsNext]_tabsVars => Kept'
  <2> SUFFICES ASSUME Kept, [TabsNext]_tabsVars PROVE Kept'  OBVIOUS
  <2>1. part' = part /\ (part = "grpc_call" => [C!Next]_(C!vars))  BY StepsOfAPart
  <2>2. ASSUME part = "grpc_call" PROVE QP!CallInv'
    <3>1. [QP!C!Next]_(QP!C!vars)  BY <2>1, <2>2, CallIsSame
    <3>2. QED  BY <2>2, <3>1, QP!CallStepKeeps
  <2>3. QED  BY <2>1, <2>2
<1>3. Kept => ReceivedAreShown
  BY CallIsSame, QP!CallIsTyped, QP!ReportsInPlace, QP!NumbersShown DEF ReceivedAreShown
<1>4. QED  BY <1>1, <1>2, <1>3, PTL DEF TabsSpec

-----------------------------------------------------------------------------
(***************************************************************************)
(* CollectionFiles, for any names, any files to begin with and any number  *)
(* of changes.  The tree is sound: every item is in a folder, no request   *)
(* is in two files, and those nobody deleted are there.  That the change   *)
(* under way can be undone, and that an import has written what it meant   *)
(* to, holds as long as nothing else is at work in their collections; so   *)
(* what is kept of them speaks of the part of the files that is there, and *)
(* a step elsewhere leaves that part as it is.                             *)
(***************************************************************************)
\* Names are numbers, no request is called what a folder is, the requests of
\* an import differ, and neither of the two signs is an order.
Paths == Seq(Nat) \ {<<>>}
FilesAssumed ==
  /\ Collections \subseteq Nat /\ Folders \subseteq Nat /\ Files \subseteq Nat /\ Reserved \in Nat
  /\ F!Folder \notin FileRequests
  /\ ImportedItems \in Seq([name : Nat, request : FileRequests])
  /\ \A i, j \in DOMAIN ImportedItems :
       ImportedItems[i].request = ImportedItems[j].request => i = j
  /\ Nothing # Unreadable /\ Nothing \notin Seq(Nat) /\ Unreadable \notin Seq(Nat)

\* Of a set of numbers: the induction over the length of a path.
LEMMA Smallest ==
  ASSUME NEW T, T \subseteq Nat, T # {}
  PROVE  \E n \in T : \A m \in T : n <= m
<1>1. PICK n \in T : \A m \in T : ~(<<m, n>> \in OpToRel(<, Nat))
  BY NatLessThanWellFounded, WFMin
<1>2. \A m \in T : ~(m < n)  BY <1>1 DEF OpToRel
<1>3. QED  BY <1>2

\* Under, pointwise.
LEMMA UnderIs ==
  ASSUME NEW p \in Seq(Nat), NEW q \in Seq(Nat)
  PROVE  F!Under(p, q) <=> Len(p) <= Len(q) /\ \A i \in 1 .. Len(p) : p[i] = q[i]
<1>1. CASE Len(p) <= Len(q)
  <2>1. /\ SubSeq(p, 1, Len(p)) \in Seq(Nat) /\ SubSeq(q, 1, Len(p)) \in Seq(Nat)
        /\ Len(SubSeq(p, 1, Len(p))) = Len(p) /\ Len(SubSeq(q, 1, Len(p))) = Len(p)
        /\ \A i \in 1 .. Len(p) : SubSeq(p, 1, Len(p))[i] = p[i]
        /\ \A i \in 1 .. Len(p) : SubSeq(q, 1, Len(p))[i] = q[i]
    BY <1>1
  <2>2. (\A i \in 1 .. Len(p) : p[i] = q[i]) => SubSeq(p, 1, Len(p)) = SubSeq(q, 1, Len(p))
    BY <2>1
  <2>3. SubSeq(p, 1, Len(p)) = SubSeq(q, 1, Len(p)) => \A i \in 1 .. Len(p) : p[i] = q[i]
    BY <2>1
  <2>4. QED  BY <1>1, <2>2, <2>3 DEF F!Under, F!IsPrefix
<1>2. CASE ~(Len(p) <= Len(q))  BY <1>2 DEF F!Under, F!IsPrefix
<1>3. QED  BY <1>1, <1>2

LEMMA StartIs ==
  ASSUME NEW p \in Seq(Nat), NEW n \in Nat, n <= Len(p)
  PROVE  /\ SubSeq(p, 1, n) \in Seq(Nat) /\ Len(SubSeq(p, 1, n)) = n
         /\ \A i \in 1 .. n : SubSeq(p, 1, n)[i] = p[i]
OBVIOUS

LEMMA PathIs ==
  ASSUME NEW p \in Paths
  PROVE  /\ p \in Seq(Nat) /\ Len(p) \in Nat /\ Len(p) >= 1
         /\ F!Root(p) = p[1] /\ p[1] \in Nat /\ F!Name(p) = p[Len(p)] /\ F!Name(p) \in Nat
         /\ DOMAIN p = 1 .. Len(p)
<1>1. p \in Seq(Nat) /\ p # <<>>  BY DEF Paths
<1>2. Len(p) \in Nat /\ Len(p) >= 1 /\ DOMAIN p = 1 .. Len(p) BY <1>1
<1>3. p[1] \in Nat /\ p[Len(p)] \in Nat  BY <1>1, <1>2
<1>4. Head(p) = p[1]  BY <1>1
<1>5. QED  BY <1>1, <1>2, <1>3, <1>4 DEF F!Root, F!Name, F!Last

LEMMA ParentIs ==
  ASSUME NEW p \in Paths
  PROVE  /\ F!Parent(p) \in Seq(Nat) /\ Len(F!Parent(p)) = Len(p) - 1
         /\ \A i \in 1 .. Len(p) - 1 : F!Parent(p)[i] = p[i]
         /\ Len(p) > 1 => F!Parent(p) \in Paths /\ F!Root(F!Parent(p)) = F!Root(p)
         /\ Len(p) = 1 => F!Parent(p) = <<>>
<1>1. F!Parent(p) = SubSeq(p, 1, Len(p) - 1)  BY DEF F!Parent, F!Front
<1>2. /\ F!Parent(p) \in Seq(Nat) /\ Len(F!Parent(p)) = Len(p) - 1
      /\ \A i \in 1 .. Len(p) - 1 : F!Parent(p)[i] = p[i]
  <2>1. p \in Seq(Nat) /\ Len(p) \in Nat /\ Len(p) >= 1  BY PathIs
  <2>2. Len(p) - 1 \in Nat /\ Len(p) - 1 <= Len(p)  BY <2>1
  <2>3. /\ SubSeq(p, 1, Len(p) - 1) \in Seq(Nat) /\ Len(SubSeq(p, 1, Len(p) - 1)) = Len(p) - 1
        /\ \A i \in 1 .. Len(p) - 1 : SubSeq(p, 1, Len(p) - 1)[i] = p[i]
    BY <2>1, <2>2, StartIs
  <2>4. QED  BY <1>1, <2>3
<1>3. ASSUME Len(p) > 1 PROVE F!Parent(p) \in Paths /\ F!Root(F!Parent(p)) = F!Root(p)
  <2>0. Len(p) \in Nat  BY PathIs
  <2>1. F!Parent(p) \in Paths  BY <1>2, <1>3, <2>0 DEF Paths
  <2>2. F!Root(F!Parent(p)) = F!Parent(p)[1] /\ F!Root(p) = p[1]  BY <2>1, PathIs
  <2>3. 1 \in 1 .. Len(p) - 1  BY <1>3, <2>0
  <2>4. F!Parent(p)[1] = p[1]  BY <1>2, <2>3
  <2>5. QED  BY <2>1, <2>2, <2>4
<1>4. Len(p) = 1 => F!Parent(p) = <<>>  BY <1>2
<1>5. QED  BY <1>2, <1>3, <1>4

LEMMA ChildIs ==
  ASSUME NEW d \in Seq(Nat), NEW n \in Nat
  PROVE  /\ Append(d, n) \in Paths /\ Len(Append(d, n)) = Len(d) + 1
         /\ F!Parent(Append(d, n)) = d /\ F!Name(Append(d, n)) = n
         /\ d \in Paths => F!Root(Append(d, n)) = F!Root(d) /\ Len(Append(d, n)) > 1
<1> DEFINE p == Append(d, n)
<1>1. p \in Seq(Nat) /\ Len(p) = Len(d) + 1 /\ p[Len(p)] = n /\ \A i \in 1 .. Len(d) : p[i] = d[i]
  OBVIOUS
<1>2. p \in Paths  BY <1>1 DEF Paths
<1> HIDE DEF p
<1>3. /\ F!Parent(p) \in Seq(Nat) /\ Len(F!Parent(p)) = Len(d)
      /\ \A i \in 1 .. Len(d) : F!Parent(p)[i] = d[i]
  <2>1. /\ F!Parent(p) \in Seq(Nat) /\ Len(F!Parent(p)) = Len(p) - 1
        /\ \A i \in 1 .. Len(p) - 1 : F!Parent(p)[i] = p[i]
    BY <1>2, ParentIs
  <2>2. Len(p) - 1 = Len(d)  BY <1>1
  <2>3. QED  BY <1>1, <2>1, <2>2
<1>4. F!Parent(p) = d  BY <1>3
<1>5. d \in Paths => F!Root(p) = F!Root(d) /\ Len(p) > 1
  <2>1. ASSUME d \in Paths PROVE F!Root(p) = F!Root(d) /\ Len(p) > 1
    <3>1. Len(d) >= 1 /\ F!Root(d) = d[1] /\ F!Root(p) = p[1] /\ Len(d) \in Nat  BY <1>2, <2>1, PathIs
    <3>2. p[1] = d[1]  BY <1>1, <3>1
    <3>3. QED  BY <1>1, <3>1, <3>2
  <2>2. QED  BY <2>1
<1>6. F!Name(p) = n  BY <1>1, <1>2, PathIs
<1>7. QED  BY <1>1, <1>2, <1>4, <1>5, <1>6 DEF p

\* The paths under a path, and what is between.
LEMMA UnderOrder ==
  ASSUME NEW p \in Paths, NEW q \in Paths, NEW r \in Paths
  PROVE  /\ F!Under(p, p)
         /\ F!Under(p, q) /\ F!Under(q, r) => F!Under(p, r)
         /\ F!Under(p, q) /\ F!Under(q, p) => p = q
         /\ F!Under(p, q) => F!Root(q) = F!Root(p) /\ Len(p) <= Len(q)
         /\ Len(p) > 1 => F!Under(F!Parent(p), p) /\ F!Parent(p) # p
<1>0. p \in Seq(Nat) /\ q \in Seq(Nat) /\ r \in Seq(Nat)  BY DEF Paths
<1>1. F!Under(p, p)  BY <1>0, UnderIs
<1>2. F!Under(p, q) /\ F!Under(q, r) => F!Under(p, r)
  BY <1>0, UnderIs
<1>3. F!Under(p, q) /\ F!Under(q, p) => p = q
  <2> SUFFICES ASSUME F!Under(p, q), F!Under(q, p) PROVE p = q  OBVIOUS
  <2>1. Len(p) = Len(q) /\ \A i \in 1 .. Len(p) : p[i] = q[i]  BY <1>0, UnderIs
  <2>2. QED  BY <1>0, <2>1
<1>4. F!Under(p, q) => F!Root(q) = F!Root(p) /\ Len(p) <= Len(q)
  <2>1. /\ Len(p) \in Nat /\ Len(p) >= 1 /\ F!Root(p) = p[1] /\ F!Root(q) = q[1]
    BY PathIs
  <2>2. QED  BY <1>0, <2>1, UnderIs
<1>5. Len(p) > 1 => F!Under(F!Parent(p), p) /\ F!Parent(p) # p
  <2> SUFFICES ASSUME Len(p) > 1 PROVE F!Under(F!Parent(p), p) /\ F!Parent(p) # p  OBVIOUS
  <2>1. /\ F!Parent(p) \in Seq(Nat) /\ Len(F!Parent(p)) = Len(p) - 1
        /\ \A i \in 1 .. Len(p) - 1 : F!Parent(p)[i] = p[i]
    BY ParentIs
  <2>2. F!Under(F!Parent(p), p)
    <3>1. F!Under(F!Parent(p), p) <=> /\ Len(F!Parent(p)) <= Len(p)
                                      /\ \A i \in 1 .. Len(F!Parent(p)) : F!Parent(p)[i] = p[i]
      BY <1>0, <2>1, UnderIs
    <3>2. Len(p) - 1 <= Len(p)  BY <1>0
    <3>3. QED  BY <2>1, <3>1, <3>2
  <2>3. QED  BY <1>0, <2>1, <2>2
<1>6. QED  BY <1>1, <1>2, <1>3, <1>4, <1>5

LEMMA UnderParent ==
  ASSUME NEW q \in Paths, NEW p \in Paths, F!Under(q, p), q # p
  PROVE  Len(p) > 1 /\ F!Parent(p) \in Paths /\ F!Under(q, F!Parent(p))
<1>0. p \in Seq(Nat) /\ q \in Seq(Nat) /\ Len(q) \in Nat /\ Len(p) \in Nat /\ Len(q) >= 1  BY PathIs
<1>1. Len(q) <= Len(p) /\ \A i \in 1 .. Len(q) : q[i] = p[i]  BY <1>0, UnderIs
<1>2. Len(q) # Len(p)  BY <1>0, <1>1
<1>3. Len(q) <= Len(p) - 1 /\ Len(p) > 1  BY <1>0, <1>1, <1>2
<1>4. /\ F!Parent(p) \in Paths /\ F!Parent(p) \in Seq(Nat) /\ Len(F!Parent(p)) = Len(p) - 1
      /\ \A i \in 1 .. Len(p) - 1 : F!Parent(p)[i] = p[i]
  BY <1>3, ParentIs
<1>5. F!Under(q, F!Parent(p))
  <2>1. \A i \in 1 .. Len(q) : q[i] = F!Parent(p)[i]  BY <1>0, <1>1, <1>3, <1>4
  <2>2. QED  BY <1>0, <1>3, <1>4, <2>1, UnderIs
<1>6. QED  BY <1>3, <1>4, <1>5

\* Where what is under a path is once that path moved.
LEMMA EndIs ==
  ASSUME NEW q \in Seq(Nat), NEW m \in Nat, m <= Len(q)
  PROVE  /\ SubSeq(q, m + 1, Len(q)) \in Seq(Nat) /\ Len(SubSeq(q, m + 1, Len(q))) = Len(q) - m
         /\ \A i \in 1 .. Len(q) - m : SubSeq(q, m + 1, Len(q))[i] = q[m + i]
OBVIOUS

LEMMA JoinIs ==
  ASSUME NEW p \in Seq(Nat), NEW q \in Seq(Nat)
  PROVE  /\ p \o q \in Seq(Nat) /\ Len(p \o q) = Len(p) + Len(q)
         /\ \A i \in 1 .. Len(p) : (p \o q)[i] = p[i]
         /\ \A i \in 1 .. Len(q) : (p \o q)[Len(p) + i] = q[i]
OBVIOUS

LEMMA RebasedIs ==
  ASSUME NEW old \in Paths, NEW new \in Paths, NEW q \in Paths, F!Under(old, q)
  PROVE  /\ F!Rebased(q, old, new) \in Paths
         /\ Len(F!Rebased(q, old, new)) = Len(new) + (Len(q) - Len(old)) /\ Len(old) <= Len(q)
         /\ \A i \in 1 .. Len(new) : F!Rebased(q, old, new)[i] = new[i]
         /\ \A i \in 1 .. Len(q) - Len(old) : F!Rebased(q, old, new)[Len(new) + i] = q[Len(old) + i]
<1> DEFINE rest == SubSeq(q, Len(old) + 1, Len(q))
<1>0. /\ old \in Seq(Nat) /\ new \in Seq(Nat) /\ q \in Seq(Nat)
      /\ Len(old) \in Nat /\ Len(new) \in Nat /\ Len(q) \in Nat /\ Len(new) >= 1
  BY PathIs
<1>1. Len(old) <= Len(q)  BY UnderOrder
<1>2. F!Rebased(q, old, new) = new \o rest  BY DEF F!Rebased
<1>3. /\ rest \in Seq(Nat) /\ Len(rest) = Len(q) - Len(old)
      /\ \A i \in 1 .. Len(q) - Len(old) : rest[i] = q[Len(old) + i]
  BY <1>0, <1>1, EndIs
<1> HIDE DEF rest
<1>4. /\ new \o rest \in Seq(Nat) /\ Len(new \o rest) = Len(new) + Len(rest)
      /\ \A i \in 1 .. Len(new) : (new \o rest)[i] = new[i]
      /\ \A i \in 1 .. Len(rest) : (new \o rest)[Len(new) + i] = rest[i]
  BY <1>0, <1>3, JoinIs
<1>5. Len(new \o rest) >= 1  BY <1>0, <1>1, <1>3, <1>4
<1>6. new \o rest \in Paths  BY <1>4, <1>5 DEF Paths
<1>7. \A i \in 1 .. Len(q) - Len(old) : (new \o rest)[Len(new) + i] = q[Len(old) + i]
  BY <1>3, <1>4
<1>8. QED  BY <1>1, <1>2, <1>3, <1>4, <1>6, <1>7

LEMMA SamePath ==
  ASSUME NEW p \in Seq(Nat), NEW q \in Seq(Nat), Len(p) = Len(q), \A i \in 1 .. Len(p) : p[i] = q[i]
  PROVE  p = q
OBVIOUS

LEMMA RebasedOrder ==
  ASSUME NEW old \in Paths, NEW new \in Paths, NEW q \in Paths, F!Under(old, q)
  PROVE  /\ F!Under(new, F!Rebased(q, old, new))
         /\ F!Rebased(old, old, new) = new
         /\ \A r \in Paths : F!Under(old, r) /\ F!Rebased(r, old, new) = F!Rebased(q, old, new) => r = q
<1> DEFINE R(x) == F!Rebased(x, old, new)
<1>0. /\ old \in Seq(Nat) /\ new \in Seq(Nat) /\ q \in Seq(Nat)
      /\ Len(old) \in Nat /\ Len(new) \in Nat /\ Len(q) \in Nat /\ Len(new) >= 1
  BY PathIs
<1>1. /\ R(q) \in Paths /\ Len(R(q)) = Len(new) + (Len(q) - Len(old)) /\ Len(old) <= Len(q)
      /\ \A i \in 1 .. Len(new) : R(q)[i] = new[i]
      /\ \A i \in 1 .. Len(q) - Len(old) : R(q)[Len(new) + i] = q[Len(old) + i]
  BY RebasedIs
<1>2. F!Under(old, old)  BY UnderOrder
<1>3. /\ R(old) \in Paths /\ Len(R(old)) = Len(new) + (Len(old) - Len(old))
      /\ \A i \in 1 .. Len(new) : R(old)[i] = new[i]
  BY <1>2, RebasedIs
<1> HIDE DEF R
<1>4. R(old) = new
  <2>1. R(old) \in Seq(Nat) /\ Len(R(old)) = Len(new)  BY <1>0, <1>3 DEF Paths
  <2>2. QED  BY <1>0, <1>3, <2>1, SamePath
<1>5. F!Under(new, R(q))
  <2>1. R(q) \in Seq(Nat) /\ Len(new) <= Len(R(q))  BY <1>0, <1>1 DEF Paths
  <2>2. QED  BY <1>0, <1>1, <2>1, UnderIs
<1>6. ASSUME NEW r \in Paths, F!Under(old, r), R(r) = R(q)  PROVE r = q
  <2>0. r \in Seq(Nat) /\ Len(r) \in Nat  BY PathIs
  <2>1. /\ Len(R(r)) = Len(new) + (Len(r) - Len(old))
        /\ \A i \in 1 .. Len(r) - Len(old) : R(r)[Len(new) + i] = r[Len(old) + i]
    BY <1>6, RebasedIs DEF R
  <2>2. Len(r) = Len(q)  BY <1>0, <1>1, <1>6, <2>0, <2>1
  <2>3. \A i \in 1 .. Len(old) : r[i] = q[i]
    <3>1. /\ \A i \in 1 .. Len(old) : old[i] = q[i]
          /\ \A i \in 1 .. Len(old) : old[i] = r[i]
      BY <1>0, <1>6, <2>0, UnderIs
    <3>2. QED  BY <3>1
  <2>4. \A i \in 1 .. Len(q) - Len(old) : r[Len(old) + i] = q[Len(old) + i]
    BY <1>1, <1>6, <2>1, <2>2
  <2>5. ASSUME NEW i \in 1 .. Len(q) PROVE r[i] = q[i]
    <3>1. CASE i <= Len(old)  BY <1>0, <2>3, <3>1
    <3>2. CASE i > Len(old)
      <4>1. i - Len(old) \in 1 .. Len(q) - Len(old) /\ Len(old) + (i - Len(old)) = i
        BY <1>0, <3>2
      <4>2. r[Len(old) + (i - Len(old))] = q[Len(old) + (i - Len(old))]  BY <2>4, <4>1
      <4>3. QED  BY <4>1, <4>2
    <3>3. QED  BY <1>0, <3>1, <3>2
  <2>6. QED  BY <1>0, <2>0, <2>2, <2>5, SamePath
<1>7. QED  BY <1>4, <1>5, <1>6 DEF R

LEMMA RebasedParent ==
  ASSUME NEW old \in Paths, NEW new \in Paths, NEW q \in Paths, F!Under(old, q), q # old
  PROVE  /\ Len(F!Rebased(q, old, new)) > 1 /\ F!Under(old, F!Parent(q)) /\ F!Parent(q) \in Paths
         /\ F!Parent(F!Rebased(q, old, new)) = F!Rebased(F!Parent(q), old, new)
<1> DEFINE R(x) == F!Rebased(x, old, new)
           d == F!Parent(q)
<1>0. /\ old \in Seq(Nat) /\ new \in Seq(Nat) /\ q \in Seq(Nat)
      /\ Len(old) \in Nat /\ Len(new) \in Nat /\ Len(q) \in Nat /\ Len(new) >= 1 /\ Len(old) >= 1
  BY PathIs
<1>1. Len(q) > 1 /\ d \in Paths /\ F!Under(old, d)  BY UnderParent
<1>2. d \in Seq(Nat) /\ Len(d) = Len(q) - 1 /\ \A i \in 1 .. Len(q) - 1 : d[i] = q[i]  BY ParentIs
<1>3. /\ R(q) \in Paths /\ Len(R(q)) = Len(new) + (Len(q) - Len(old)) /\ Len(old) <= Len(q)
      /\ \A i \in 1 .. Len(new) : R(q)[i] = new[i]
      /\ \A i \in 1 .. Len(q) - Len(old) : R(q)[Len(new) + i] = q[Len(old) + i]
  BY RebasedIs
<1>4. /\ R(d) \in Paths /\ Len(R(d)) = Len(new) + (Len(d) - Len(old)) /\ Len(old) <= Len(d)
      /\ \A i \in 1 .. Len(new) : R(d)[i] = new[i]
      /\ \A i \in 1 .. Len(d) - Len(old) : R(d)[Len(new) + i] = d[Len(old) + i]
  BY <1>1, RebasedIs
<1>5. /\ F!Parent(R(q)) \in Seq(Nat) /\ Len(F!Parent(R(q))) = Len(R(q)) - 1
      /\ \A i \in 1 .. Len(R(q)) - 1 : F!Parent(R(q))[i] = R(q)[i]
  BY <1>3, ParentIs
<1> HIDE DEF R, d
<1>6. Len(R(q)) > 1 /\ Len(R(d)) = Len(R(q)) - 1  BY <1>0, <1>2, <1>3, <1>4
<1>7. ASSUME NEW i \in 1 .. Len(R(d)) PROVE R(q)[i] = R(d)[i]
  <2>1. CASE i <= Len(new)  BY <1>0, <1>3, <1>4, <2>1
  <2>2. CASE i > Len(new)
    <3> DEFINE j == i - Len(new)
    <3>1. /\ j \in 1 .. Len(d) - Len(old) /\ j \in 1 .. Len(q) - Len(old) /\ Len(new) + j = i
          /\ Len(old) + j \in 1 .. Len(q) - 1
      <4>1. Len(R(d)) = Len(new) + (Len(d) - Len(old)) /\ Len(d) = Len(q) - 1  BY <1>2, <1>4
      <4>2. i \in Nat /\ i >= 1 /\ i <= Len(new) + ((Len(q) - 1) - Len(old))  BY <1>0, <4>1
      <4>3. j \in Nat /\ j >= 1 /\ j <= (Len(q) - 1) - Len(old)  BY <1>0, <2>2, <4>2
      <4>4. QED  BY <1>0, <4>1, <4>2, <4>3
    <3> HIDE DEF j
    <3>2. R(q)[Len(new) + j] = q[Len(old) + j] /\ R(d)[Len(new) + j] = d[Len(old) + j]
      BY <1>3, <1>4, <3>1
    <3>3. d[Len(old) + j] = q[Len(old) + j]  BY <1>2, <3>1
    <3>4. QED  BY <3>1, <3>2, <3>3
  <2>3. QED  BY <1>0, <2>1, <2>2
<1>8. F!Parent(R(q)) = R(d)
  <2>1. R(d) \in Seq(Nat)  BY <1>4 DEF Paths
  <2>2. QED  BY <1>5, <1>6, <1>7, <2>1, SamePath
<1>9. QED  BY <1>1, <1>6, <1>8 DEF R, d

-----------------------------------------------------------------------------
LEMMA WithIs ==
  ASSUME NEW t, NEW p, NEW x
  PROVE  /\ DOMAIN F!With(t, p, x) = DOMAIN t \union {p}
         /\ F!With(t, p, x)[p] = x
         /\ \A q \in DOMAIN t : q # p => F!With(t, p, x)[q] = t[q]
BY DEF F!With

LEMMA WithoutIs ==
  ASSUME NEW t, NEW p
  PROVE  /\ DOMAIN F!Without(t, p) = {q \in DOMAIN t : ~F!Under(p, q)}
         /\ \A q \in DOMAIN F!Without(t, p) : F!Without(t, p)[q] = t[q]
BY DEF F!Without

\* What changed only in some collections.
SameBut(f, g, roots) ==
  \A p : F!Root(p) \notin roots =>
           (p \in DOMAIN f <=> p \in DOMAIN g) /\ (p \in DOMAIN f => f[p] = g[p])

LEMMA PartIs ==
  ASSUME NEW f, NEW roots
  PROVE  /\ \A q : q \in DOMAIN F!Part(f, roots) <=> q \in DOMAIN f /\ F!Root(q) \in roots
         /\ \A q \in DOMAIN F!Part(f, roots) : F!Part(f, roots)[q] = f[q]
BY DEF F!Part

LEMMA PartSame ==
  ASSUME NEW f, NEW g, NEW roots, NEW others, SameBut(f, g, others), roots \intersect others = {}
  PROVE  F!Part(g, roots) = F!Part(f, roots)
<1>1. \A p : F!Root(p) \in roots =>
               (p \in DOMAIN f <=> p \in DOMAIN g) /\ (p \in DOMAIN f => f[p] = g[p])
  BY DEF SameBut
<1>2. {q \in DOMAIN f : F!Root(q) \in roots} = {q \in DOMAIN g : F!Root(q) \in roots}  BY <1>1
<1> DEFINE S == {q \in DOMAIN f : F!Root(q) \in roots}
<1>3. \A p \in S : f[p] = g[p]  BY <1>1
<1>4. F!Part(f, roots) = [p \in S |-> f[p]] /\ F!Part(g, roots) = [p \in S |-> g[p]]
  BY <1>2 DEF F!Part
<1> HIDE DEF S
<1>5. QED  BY <1>3, <1>4

LEMMA ButNothing ==
  ASSUME NEW f, NEW roots
  PROVE  SameBut(f, f, roots)
BY DEF SameBut

LEMMA ButMore ==
  ASSUME NEW f, NEW g, NEW a, NEW b, SameBut(f, g, a), a \subseteq b
  PROVE  SameBut(f, g, b)
BY DEF SameBut

LEMMA ButWith ==
  ASSUME NEW f, NEW p, NEW x
  PROVE  SameBut(f, F!With(f, p, x), {F!Root(p)})
<1> DEFINE g == F!With(f, p, x)
<1>1. /\ DOMAIN g = DOMAIN f \union {p} /\ \A q \in DOMAIN f : q # p => g[q] = f[q]
  BY DEF F!With
<1> HIDE DEF g
<1>2. \A q : F!Root(q) \notin {F!Root(p)} => q # p  OBVIOUS
<1>3. QED  BY <1>1, <1>2 DEF SameBut, g

LEMMA ButWithout ==
  ASSUME NEW f, NEW p \in Paths, \A q \in DOMAIN f : q \in Paths
  PROVE  SameBut(f, F!Without(f, p), {F!Root(p)})
<1> DEFINE g == F!Without(f, p)
<1>1. /\ DOMAIN g = {q \in DOMAIN f : ~F!Under(p, q)} /\ \A q \in DOMAIN g : g[q] = f[q]
  BY WithoutIs
<1> HIDE DEF g
<1>2. \A q \in DOMAIN f : F!Root(q) # F!Root(p) => ~F!Under(p, q)  BY UnderOrder
<1>3. QED  BY <1>1, <1>2 DEF SameBut, g

\* The folders lead to every item, and a request is in one file.
IsTree(t) ==
  \A p \in DOMAIN t : p \in Paths /\ (Len(p) > 1 => F!Parent(p) \in F!Dirs(t))
IsOnce(t) ==
  \A p, q \in DOMAIN t : t[p] = t[q] /\ t[p] # F!Folder => p = q
HasAll(t, k) == \A r \in k : r # F!Folder /\ \E p \in DOMAIN t : t[p] = r
IsSound(t, o, k) == IsTree(t) /\ IsOnce(t) /\ HasAll(t, k) /\ DOMAIN o \subseteq F!Dirs(t)

LEMMA DirsAre ==
  ASSUME NEW t, NEW p
  PROVE  p \in F!Dirs(t) <=> p \in DOMAIN t /\ t[p] = F!Folder
BY DEF F!Dirs

\* Above an item of the tree are folders, each with an item.
LEMMA FoldersAbove ==
  ASSUME NEW t, IsTree(t), NEW q \in Paths, NEW p \in DOMAIN t, F!Under(q, p), q # p
  PROVE  q \in F!Dirs(t) /\ F!Children(t, q) # {}
<1> DEFINE X == {x \in DOMAIN t : F!Under(q, x) /\ x # q}
           N == {Len(x) : x \in X}
<1>1. X # {} /\ X \subseteq Paths  BY DEF IsTree
<1>2. N \subseteq Nat /\ N # {}
  <2>1. \A x \in X : Len(x) \in Nat  BY <1>1, PathIs
  <2>2. QED  BY <1>1, <2>1
<1>3. PICK n \in N : \A m \in N : n <= m
  <2> HIDE DEF N
  <2>1. QED  BY <1>2, Smallest
<1>4. PICK x \in X : n = Len(x)  OBVIOUS
<1>5. Len(x) > 1 /\ F!Parent(x) \in Paths /\ F!Under(q, F!Parent(x))  BY <1>1, UnderParent
<1>6. F!Parent(x) \in F!Dirs(t)  BY <1>5 DEF IsTree
<1>7. F!Parent(x) = q
  <2> SUFFICES ASSUME F!Parent(x) # q PROVE FALSE  OBVIOUS
  <2>1. F!Parent(x) \in X  BY <1>5, <1>6, DirsAre
  <2>2. Len(F!Parent(x)) \in N  BY <2>1
  <2>3. Len(x) <= Len(F!Parent(x))  BY <1>3, <1>4, <2>2
  <2>4. Len(x) \in Nat /\ Len(F!Parent(x)) = Len(x) - 1  BY <1>1, PathIs, ParentIs
  <2>5. QED  BY <2>3, <2>4
<1>8. x \in F!Children(t, q)  BY <1>5, <1>7 DEF F!Children
<1>9. QED  BY <1>6, <1>7, <1>8

LEMMA NothingUnder ==
  ASSUME NEW t, IsTree(t), NEW q \in Paths, NEW p \in DOMAIN t, q \notin DOMAIN t
  PROVE  ~F!Under(q, p)
BY FoldersAbove, DirsAre

\* A new item, and one that is taken away.
LEMMA WithTree ==
  ASSUME NEW t, NEW o, NEW k, IsSound(t, o, k), NEW p \in Paths, p \notin DOMAIN t,
         Len(p) > 1 => F!Parent(p) \in F!Dirs(t),
         NEW x, x = F!Folder \/ \A q \in DOMAIN t : t[q] # x
  PROVE  /\ IsSound(F!With(t, p, x), o, k)
         /\ x # F!Folder => IsSound(F!With(t, p, x), o, k \union {x})
<1> DEFINE u == F!With(t, p, x)
<1>1. /\ DOMAIN u = DOMAIN t \union {p} /\ u[p] = x /\ \A q \in DOMAIN t : u[q] = t[q]
  <2>1. \A q \in DOMAIN t : q # p  OBVIOUS
  <2>2. DOMAIN u = DOMAIN t \union {p} /\ u[p] = x  BY DEF F!With
  <2>3. \A q \in DOMAIN t : q # p => u[q] = t[q]  BY DEF F!With
  <2> HIDE DEF u
  <2>4. QED  BY <2>1, <2>2, <2>3
<1> HIDE DEF u
<1>2. \A d \in F!Dirs(t) : d \in F!Dirs(u)  BY <1>1, DirsAre
<1>3. IsTree(u)  BY <1>1, <1>2 DEF IsTree, IsSound
<1>4. IsOnce(u)  BY <1>1 DEF IsOnce, IsSound
<1>5. HasAll(u, k)
  <2>1. ASSUME NEW r \in k PROVE r # F!Folder /\ \E q \in DOMAIN u : u[q] = r
    BY <1>1 DEF HasAll, IsSound
  <2>2. QED  BY <2>1 DEF HasAll
<1>6. x # F!Folder => HasAll(u, k \union {x})  BY <1>1, <1>5 DEF HasAll
<1>7. DOMAIN o \subseteq F!Dirs(u)  BY <1>2 DEF IsSound
<1>8. QED  BY <1>3, <1>4, <1>5, <1>6, <1>7 DEF IsSound, u

LEMMA WithoutTree ==
  ASSUME NEW t, NEW o, NEW k, IsSound(t, o, k), NEW p \in Paths
  PROVE  /\ IsSound(F!Without(t, p), F!Without(o, p), k \ F!IdsUnder(t, p))
         /\ \A q \in DOMAIN F!Without(t, p) : q \in DOMAIN t /\ F!Without(t, p)[q] = t[q]
<1> DEFINE u == F!Without(t, p)
           w == F!Without(o, p)
<1>1. /\ \A q : q \in DOMAIN u <=> q \in DOMAIN t /\ ~F!Under(p, q)
      /\ \A q \in DOMAIN u : u[q] = t[q]
      /\ \A q : q \in DOMAIN w <=> q \in DOMAIN o /\ ~F!Under(p, q)
  BY WithoutIs
<1>2. \A q \in DOMAIN t : q \in Paths  BY DEF IsSound, IsTree
<1> HIDE DEF u, w
<1>3. \A q \in F!Dirs(t) : ~F!Under(p, q) => q \in F!Dirs(u)  BY <1>1, DirsAre
<1>4. IsTree(u)
  <2>1. ASSUME NEW q \in DOMAIN u, Len(q) > 1 PROVE F!Parent(q) \in F!Dirs(u)
    <3>1. q \in DOMAIN t /\ q \in Paths /\ ~F!Under(p, q)  BY <1>1, <1>2
    <3>2. F!Parent(q) \in F!Dirs(t) /\ F!Parent(q) \in Paths  BY <2>1, <3>1, ParentIs DEF IsSound, IsTree
    <3>3. ~F!Under(p, F!Parent(q))  BY <2>1, <3>1, <3>2, UnderOrder
    <3>4. QED  BY <1>3, <3>2, <3>3
  <2>2. QED  BY <1>1, <1>2, <2>1 DEF IsTree
<1>5. IsOnce(u)  BY <1>1 DEF IsSound, IsOnce
<1>6. HasAll(u, k \ F!IdsUnder(t, p))
  <2>1. ASSUME NEW r \in k \ F!IdsUnder(t, p) PROVE r # F!Folder /\ \E q \in DOMAIN u : u[q] = r
    <3>1. r # F!Folder /\ \E q \in DOMAIN t : t[q] = r  BY DEF IsSound, HasAll
    <3>2. PICK q \in DOMAIN t : t[q] = r  BY <3>1
    <3>3. ~F!Under(p, q)  BY <2>1, <3>1, <3>2 DEF F!IdsUnder
    <3>4. QED  BY <1>1, <3>1, <3>2, <3>3
  <2>2. QED  BY <2>1 DEF HasAll
<1>7. DOMAIN w \subseteq F!Dirs(u)  BY <1>1, <1>3 DEF IsSound
<1>8. QED  BY <1>1, <1>4, <1>5, <1>6, <1>7 DEF IsSound, u, w

\* What moves to another place.
LEMMA MovedValue ==
  ASSUME NEW f, NEW old, NEW new,
         \A p, q \in DOMAIN f : F!Rebased(p, old, new) = F!Rebased(q, old, new) => p = q,
         NEW r \in DOMAIN f
  PROVE  F!Moved(f, old, new)[F!Rebased(r, old, new)] = f[r]
<1> DEFINE R(x) == F!Rebased(x, old, new)
<1>1. F!Moved(f, old, new) = [q \in {R(x) : x \in DOMAIN f} |-> f[CHOOSE x \in DOMAIN f : R(x) = q]]
  BY DEF F!Moved
<1>2. \A p, q \in DOMAIN f : R(p) = R(q) => p = q  OBVIOUS
<1> HIDE DEF R
<1>3. (CHOOSE x \in DOMAIN f : R(x) = R(r)) = r
  <2>1. \E x \in DOMAIN f : R(x) = R(r)  OBVIOUS
  <2> DEFINE c == CHOOSE x \in DOMAIN f : R(x) = R(r)
  <2>2. c \in DOMAIN f /\ R(c) = R(r)  BY <2>1
  <2> HIDE DEF c
  <2>3. c = r  BY <1>2, <2>2
  <2>4. QED  BY <2>3 DEF c
<1>4. R(r) \in {R(x) : x \in DOMAIN f}  OBVIOUS
<1>5. QED  BY <1>1, <1>3, <1>4 DEF R

LEMMA MovedDomain ==
  ASSUME NEW f, NEW old, NEW new, NEW q
  PROVE  q \in DOMAIN F!Moved(f, old, new) <=> \E r \in DOMAIN f : q = F!Rebased(r, old, new)
BY DEF F!Moved

Replaces(t, o, old, new) ==
  /\ old # new /\ ~F!Under(old, new) /\ old \in DOMAIN t
  /\ Len(new) > 1 => F!Parent(new) \in F!Dirs(t)
  /\ new \in DOMAIN t =>
       IF t[new] = F!Folder
       THEN t[old] = F!Folder /\ F!Children(t, new) = {} /\ new \notin DOMAIN o
       ELSE t[old] # F!Folder

LEMMA MovedTree ==
  ASSUME NEW t, NEW o, NEW k, IsSound(t, o, k), NEW old \in Paths, NEW new \in Paths,
         Replaces(t, o, old, new),
         NEW j, j = k \/ (new \in DOMAIN t /\ j = k \ {t[new]}), new \in DOMAIN t => t[new] \notin j
  PROVE  /\ IsSound(F!Moved(F!Without(t, new), old, new), F!Moved(o, old, new), j)
         /\ \A q \in DOMAIN F!Moved(F!Without(t, new), old, new) :
              \E p \in DOMAIN t : F!Moved(F!Without(t, new), old, new)[q] = t[p]
         /\ SameBut(t, F!Moved(F!Without(t, new), old, new), {F!Root(old), F!Root(new)})
         /\ SameBut(o, F!Moved(o, old, new), {F!Root(old), F!Root(new)})
<1> DEFINE D == F!Without(t, new)
           R(r) == F!Rebased(r, old, new)
           m == F!Moved(D, old, new)
           w == F!Moved(o, old, new)
<1>0. \A p \in DOMAIN t : p \in Paths  BY DEF IsSound, IsTree
<1>1. \A r \in DOMAIN t : F!Under(new, r) => r = new
  <2> SUFFICES ASSUME NEW r \in DOMAIN t, F!Under(new, r), r # new PROVE FALSE  OBVIOUS
  <2>1. new \in F!Dirs(t) /\ F!Children(t, new) # {}  BY FoldersAbove DEF IsSound
  <2>2. QED  BY <2>1, DirsAre DEF Replaces
<1>2. /\ \A q : q \in DOMAIN D <=> q \in DOMAIN t /\ q # new
      /\ \A q \in DOMAIN D : D[q] = t[q]
      /\ old \in DOMAIN D
  <2>1. F!Under(new, new)  BY UnderOrder
  <2>2. \A q : q \in DOMAIN D <=> q \in DOMAIN t /\ ~F!Under(new, q)  BY WithoutIs
  <2>3. \A q \in DOMAIN D : D[q] = t[q]  BY WithoutIs
  <2> HIDE DEF D
  <2>4. QED  BY <1>1, <2>1, <2>2, <2>3 DEF Replaces
<1>3. /\ \A r : ~F!Under(old, r) => R(r) = r
      /\ \A r \in Paths : F!Under(old, r) => R(r) \in Paths /\ F!Under(new, R(r))
      /\ R(old) = new /\ F!Under(old, old)
      /\ \A p, q \in Paths : F!Under(old, p) /\ F!Under(old, q) /\ R(p) = R(q) => p = q
      /\ \A r \in Paths : F!Under(old, r) /\ r # old =>
           /\ Len(R(r)) > 1 /\ F!Under(old, F!Parent(r)) /\ F!Parent(r) \in Paths
           /\ F!Parent(R(r)) = R(F!Parent(r))
  <2>1. \A r : ~F!Under(old, r) => R(r) = r  BY DEF F!Rebased
  <2>2. F!Under(old, old)  BY UnderOrder
  <2>3. \A r \in Paths : F!Under(old, r) => R(r) \in Paths /\ F!Under(new, R(r))
    BY RebasedIs, RebasedOrder
  <2>4. R(old) = new  BY <2>2, RebasedOrder
  <2>5. \A p, q \in Paths : F!Under(old, p) /\ F!Under(old, q) /\ R(p) = R(q) => p = q
    BY RebasedOrder
  <2>6. \A r \in Paths : F!Under(old, r) /\ r # old =>
           /\ Len(R(r)) > 1 /\ F!Under(old, F!Parent(r)) /\ F!Parent(r) \in Paths
           /\ F!Parent(R(r)) = R(F!Parent(r))
    BY RebasedParent
  <2>7. QED  BY <2>1, <2>2, <2>3, <2>4, <2>5, <2>6
<1>4. \A p, q \in DOMAIN D : R(p) = R(q) => p = q
  <2> SUFFICES ASSUME NEW p \in DOMAIN D, NEW q \in DOMAIN D, R(p) = R(q) PROVE p = q  OBVIOUS
  <2> HIDE DEF R, D
  <2>1. p \in Paths /\ q \in Paths /\ p \in DOMAIN t /\ q \in DOMAIN t /\ p # new /\ q # new
    BY <1>0, <1>2
  <2>2. CASE F!Under(old, p) /\ F!Under(old, q)  BY <1>3, <2>1, <2>2
  <2>3. CASE ~F!Under(old, p) /\ ~F!Under(old, q)  BY <1>3, <2>3
  <2>4. CASE F!Under(old, p) /\ ~F!Under(old, q)
    <3>1. F!Under(new, q)  BY <1>3, <2>1, <2>4
    <3>2. QED  BY <1>1, <2>1, <3>1
  <2>5. CASE ~F!Under(old, p) /\ F!Under(old, q)
    <3>1. F!Under(new, p)  BY <1>3, <2>1, <2>5
    <3>2. QED  BY <1>1, <2>1, <3>1
  <2>6. QED  BY <2>2, <2>3, <2>4, <2>5
<1>5. /\ \A q : q \in DOMAIN m <=> \E r \in DOMAIN D : q = R(r)
      /\ \A r \in DOMAIN D : m[R(r)] = D[r]
  <2> HIDE DEF D
  <2>1. \A p, q \in DOMAIN D : F!Rebased(p, old, new) = F!Rebased(q, old, new) => p = q  BY <1>4
  <2>2. \A q : q \in DOMAIN F!Moved(D, old, new) <=> \E r \in DOMAIN D : q = F!Rebased(r, old, new)
    BY MovedDomain
  <2>3. ASSUME NEW r \in DOMAIN D PROVE F!Moved(D, old, new)[F!Rebased(r, old, new)] = D[r]
    BY <2>1, <2>3, MovedValue
  <2>4. QED  BY <2>2, <2>3
<1>6. \A d \in DOMAIN o : d \in DOMAIN D /\ D[d] = F!Folder
  <2>1. ASSUME NEW d \in DOMAIN o PROVE d \in DOMAIN D /\ D[d] = F!Folder
    <3> HIDE DEF D
    <3>1. d \in DOMAIN t /\ t[d] = F!Folder  BY DirsAre DEF IsSound
    <3>2. d # new  BY <3>1 DEF Replaces
    <3>3. QED  BY <1>2, <3>1, <3>2
  <2>2. QED  BY <2>1
<1>7. /\ \A q : q \in DOMAIN w <=> \E r \in DOMAIN o : q = R(r)
      /\ \A r \in DOMAIN o : w[R(r)] = o[r]
  <2>1. \A q : q \in DOMAIN w <=> \E r \in DOMAIN o : q = R(r)  BY MovedDomain
  <2>2. \A p, q \in DOMAIN o : F!Rebased(p, old, new) = F!Rebased(q, old, new) => p = q
    <3> HIDE DEF D
    <3>1. QED  BY <1>4, <1>6
  <2>3. ASSUME NEW r \in DOMAIN o PROVE w[R(r)] = o[r]  BY <2>2, MovedValue
  <2>4. QED  BY <2>1, <2>3
<1> HIDE DEF D, R, m, w
<1>8. \A r \in DOMAIN D : R(r) \in DOMAIN m /\ m[R(r)] = t[r]  BY <1>2, <1>5
<1>9. \A q \in DOMAIN m : \E r \in DOMAIN D : q = R(r) /\ m[q] = t[r]  BY <1>2, <1>5
<1>10. DOMAIN w \subseteq F!Dirs(m)
  <2>1. ASSUME NEW q \in DOMAIN w PROVE q \in F!Dirs(m)
    <3>1. PICK r \in DOMAIN o : q = R(r)  BY <1>7
    <3>2. QED  BY <1>2, <1>6, <1>8, <3>1, DirsAre
  <2>2. QED  BY <2>1
<1>11. IsOnce(m)
  <2>1. ASSUME NEW p \in DOMAIN m, NEW q \in DOMAIN m, m[p] = m[q], m[p] # F!Folder PROVE p = q
    <3>1. PICK x \in DOMAIN D : p = R(x) /\ m[p] = t[x]  BY <1>9
    <3>2. PICK y \in DOMAIN D : q = R(y) /\ m[q] = t[y]  BY <1>9
    <3>3. x = y  BY <1>2, <2>1, <3>1, <3>2 DEF IsSound, IsOnce
    <3>4. QED  BY <3>1, <3>2, <3>3
  <2>2. QED  BY <2>1 DEF IsOnce
<1>12. HasAll(m, j)
  <2>1. ASSUME NEW r \in j PROVE r # F!Folder /\ \E q \in DOMAIN m : m[q] = r
    <3>1. r \in k  OBVIOUS
    <3>2. r # F!Folder  BY <3>1 DEF IsSound, HasAll
    <3>3. PICK p \in DOMAIN t : t[p] = r  BY <3>1 DEF IsSound, HasAll
    <3>4. p # new  BY <3>3
    <3>5. p \in DOMAIN D  BY <1>2, <3>4
    <3>6. QED  BY <1>8, <3>2, <3>3, <3>5
  <2>2. QED  BY <2>1 DEF HasAll
<1>13. IsTree(m)
  <2>1. ASSUME NEW d \in DOMAIN t, t[d] = F!Folder, d # new PROVE R(d) \in F!Dirs(m)
    <3>1. d \in DOMAIN D  BY <1>2, <2>1
    <3>2. QED  BY <1>8, <2>1, <3>1, DirsAre
  <2>2. ASSUME NEW r \in DOMAIN D
        PROVE  R(r) \in Paths /\ (Len(R(r)) > 1 => F!Parent(R(r)) \in F!Dirs(m))
    <3>1. r \in DOMAIN t /\ r # new /\ r \in Paths  BY <1>0, <1>2
    <3>2. Len(r) > 1 => /\ F!Parent(r) \in DOMAIN t /\ t[F!Parent(r)] = F!Folder
                        /\ F!Parent(r) \in Paths /\ F!Under(F!Parent(r), r)
      BY <1>0, <3>1, DirsAre, UnderOrder DEF IsSound, IsTree
    <3>3. CASE F!Under(old, r) /\ r = old
      <4>1. R(r) = new  BY <1>3, <3>3
      <4>2. ASSUME Len(new) > 1 PROVE F!Parent(new) \in F!Dirs(m)
        <5>1. F!Parent(new) \in DOMAIN t /\ t[F!Parent(new)] = F!Folder /\ F!Parent(new) \in Paths
          BY <1>0, <4>2, DirsAre DEF Replaces
        <5>2. F!Under(F!Parent(new), new) /\ F!Parent(new) # new  BY <4>2, UnderOrder
        <5>3. ~F!Under(old, F!Parent(new))  BY <5>1, <5>2, UnderOrder DEF Replaces
        <5>4. R(F!Parent(new)) = F!Parent(new)  BY <1>3, <5>3
        <5>5. QED  BY <2>1, <5>1, <5>2, <5>4
      <4>3. QED  BY <4>1, <4>2
    <3>4. CASE F!Under(old, r) /\ r # old
      <4>1. /\ R(r) \in Paths /\ F!Under(old, F!Parent(r)) /\ F!Parent(r) \in Paths
            /\ F!Parent(R(r)) = R(F!Parent(r))
        BY <1>3, <3>1, <3>4
      <4>2. Len(r) > 1  BY <3>1, <3>4, UnderParent
      <4>3. F!Parent(r) # new  BY <4>1 DEF Replaces
      <4>4. QED  BY <2>1, <3>2, <4>1, <4>2, <4>3
    <3>5. CASE ~F!Under(old, r)
      <4>1. R(r) = r  BY <1>3, <3>5
      <4>2. ASSUME Len(r) > 1 PROVE F!Parent(r) \in F!Dirs(m)
        <5>1. F!Parent(r) # new  BY <1>1, <3>1, <3>2, <4>2
        <5>2. ~F!Under(old, F!Parent(r))  BY <3>1, <3>2, <3>5, <4>2, UnderOrder
        <5>3. R(F!Parent(r)) = F!Parent(r)  BY <1>3, <5>2
        <5>4. QED  BY <2>1, <3>2, <4>2, <5>1, <5>3
      <4>3. QED  BY <3>1, <4>1, <4>2
    <3>6. QED  BY <3>3, <3>4, <3>5
  <2>3. QED  BY <1>9, <2>2 DEF IsTree
<1>14. \A q \in DOMAIN m : \E p \in DOMAIN t : m[q] = t[p]  BY <1>2, <1>9
<1>15. ASSUME NEW p, F!Root(p) \notin {F!Root(old), F!Root(new)}
       PROVE  /\ \A r \in Paths : R(r) = p => r = p
              /\ p \in Paths => R(p) = p /\ p # new
  <2>1. ASSUME NEW r \in Paths, R(r) = p PROVE r = p
    <3>1. CASE F!Under(old, r)
      <4>1. p \in Paths /\ F!Under(new, p)  BY <1>3, <2>1, <3>1
      <4>2. F!Root(p) = F!Root(new)  BY <4>1, UnderOrder
      <4>3. QED  BY <1>15, <4>2
    <3>2. CASE ~F!Under(old, r)  BY <1>3, <2>1, <3>2
    <3>3. QED  BY <3>1, <3>2
  <2>2. ASSUME p \in Paths PROVE R(p) = p /\ p # new
    <3>1. ~F!Under(old, p)  BY <1>15, <2>2, UnderOrder
    <3>2. QED  BY <1>3, <1>15, <3>1
  <2>3. QED  BY <2>1, <2>2
<1>16. SameBut(t, m, {F!Root(old), F!Root(new)})
  <2> SUFFICES ASSUME NEW p, F!Root(p) \notin {F!Root(old), F!Root(new)}
               PROVE  (p \in DOMAIN t <=> p \in DOMAIN m) /\ (p \in DOMAIN t => t[p] = m[p])
    BY DEF SameBut
  <2>1. ASSUME p \in DOMAIN m PROVE p \in DOMAIN t
    <3>1. PICK r \in DOMAIN D : p = R(r)  BY <1>9, <2>1
    <3>2. r \in Paths /\ r \in DOMAIN t  BY <1>0, <1>2
    <3>3. QED  BY <1>15, <3>1, <3>2
  <2>2. ASSUME p \in DOMAIN t PROVE p \in DOMAIN m /\ t[p] = m[p]
    <3>1. R(p) = p /\ p # new  BY <1>0, <1>15, <2>2
    <3>2. QED  BY <1>2, <1>8, <2>2, <3>1
  <2>3. QED  BY <2>1, <2>2
<1>17. SameBut(o, w, {F!Root(old), F!Root(new)})
  <2> SUFFICES ASSUME NEW p, F!Root(p) \notin {F!Root(old), F!Root(new)}
               PROVE  (p \in DOMAIN o <=> p \in DOMAIN w) /\ (p \in DOMAIN o => o[p] = w[p])
    BY DEF SameBut
  <2>0. \A d \in DOMAIN o : d \in Paths  BY <1>0, <1>2, <1>6
  <2>1. ASSUME p \in DOMAIN w PROVE p \in DOMAIN o
    <3>1. PICK r \in DOMAIN o : p = R(r)  BY <1>7, <2>1
    <3>2. QED  BY <1>15, <2>0, <3>1
  <2>2. ASSUME p \in DOMAIN o PROVE p \in DOMAIN w /\ o[p] = w[p]
    <3>1. R(p) = p  BY <1>15, <2>0, <2>2
    <3>2. QED  BY <1>7, <2>2, <3>1
  <2>3. QED  BY <2>1, <2>2
<1>18. QED  BY <1>10, <1>11, <1>12, <1>13, <1>14, <1>16, <1>17 DEF IsSound, m, w, D
-----------------------------------------------------------------------------
\* Every change of the files that is under way can be undone, unless others
\* are at work there.
Roots(op) == {F!Root(op.old), F!Root(op.new)}
RestoredIn(op, o) ==
  IF ~op.saves THEN o
  ELSE [q \in (DOMAIN o \ {F!Parent(op.new)}) \union DOMAIN op.had |->
          IF q = F!Parent(op.new) THEN op.had[q] ELSE o[q]]
CreationUndoes(op, t, o, k) ==
  /\ op.new \in DOMAIN t /\ t[op.new] = op.what /\ op.what \notin k
  /\ \A p \in DOMAIN t : F!Under(op.new, p) => p = op.new
  /\ op.new \notin DOMAIN o
  /\ op.before = <<F!Without(t, op.new), o>>
MoveUndoes(op, t, o) ==
  /\ op.saves => F!Parent(op.new) \in F!Dirs(t)
  /\ op.before = <<t, RestoredIn(op, o)>>
OpFields(op) ==
  /\ "does" \in DOMAIN op /\ "old" \in DOMAIN op /\ "new" \in DOMAIN op
  /\ "alone" \in DOMAIN op /\ "before" \in DOMAIN op
  /\ op.does = "create" => "what" \in DOMAIN op
  /\ op.does = "relocate" => "saves" \in DOMAIN op /\ "had" \in DOMAIN op
CreationFits(op) == op.old = op.new /\ op.new \in Paths /\ Len(op.new) > 1
MoveFits(op) ==
  /\ op.old \in Paths => op.new \in Paths /\ (op.old # op.new => ~F!Under(op.old, op.new))
  /\ op.saves => op.new \in Paths /\ Len(op.new) > 1 /\ DOMAIN op.had \subseteq {F!Parent(op.new)}
OpShape(op) ==
  /\ OpFields(op)
  /\ op.does = "create" => CreationFits(op)
  /\ op.does = "relocate" => MoveFits(op)
Undoes(op, t, o, k) ==
  /\ op.does = "create" => CreationUndoes(op, t, o, k)
  /\ op.does = "relocate" => MoveUndoes(op, t, o)
OpFits(op, t, o, k) ==
  op # Idle =>
    /\ OpShape(op)
    /\ op.alone => Undoes(op, F!Part(t, Roots(op)), F!Part(o, Roots(op)), k)

\* An import that is alone in its folder has there what it wrote.
Imported(i) == ImportedItems[i].request
ImpHas(imp, t) ==
  /\ \A i \in DOMAIN imp.names :
       /\ Append(<<imp.root>>, imp.names[i]) \in DOMAIN t
       /\ t[Append(<<imp.root>>, imp.names[i])] = Imported(i)
  /\ \A p \in F!Children(t, <<imp.root>>) :
       \E i \in DOMAIN imp.names : p = Append(<<imp.root>>, imp.names[i])
ImpGot(imp) ==
  LET entries == imp.got.entries[<<imp.root>>]
  IN  [i \in DOMAIN entries |-> entries[i].what]
        = [i \in DOMAIN ImportedItems |-> ImportedItems[i].request]
ImpRight(imp, t, o) ==
  /\ <<imp.root>> \in DOMAIN t
  /\ \A i, j \in DOMAIN imp.names : imp.names[i] = imp.names[j] => i = j
  /\ \A i \in DOMAIN imp.names : imp.names[i] # Reserved
  /\ imp.step \in {"items", "read"} => ImpHas(imp, t)
  /\ imp.step = "items" => <<imp.root>> \notin DOMAIN o
  /\ imp.step = "read" => /\ Len(imp.names) = Len(ImportedItems)
                          /\ <<imp.root>> \in DOMAIN o /\ o[<<imp.root>>] = imp.names
  /\ imp.step = "done" => ImpGot(imp)
ImpShape(imp) ==
  /\ "root" \in DOMAIN imp /\ "names" \in DOMAIN imp /\ "step" \in DOMAIN imp
  /\ "got" \in DOMAIN imp /\ "alone" \in DOMAIN imp
  /\ imp.root \in Collections /\ imp.names \in Seq(Nat) /\ Len(imp.names) <= Len(ImportedItems)
Unwritten(imp, t) ==
  \A i \in Len(imp.names) + 1 .. Len(ImportedItems) : \A p \in DOMAIN t : t[p] # Imported(i)
ImpFits(imp, op, t, o) ==
  imp # Idle =>
    /\ ImpShape(imp) /\ Unwritten(imp, t)
    /\ imp.alone => /\ op # Idle => imp.root \notin Roots(op)
                    /\ ImpRight(imp, F!Part(t, {imp.root}), F!Part(o, {imp.root}))

FilesInv ==
  /\ IsSound(tree, orders, kept) /\ ~spoiled
  /\ OpFits(operation, tree, orders, kept)
  /\ ImpFits(import, operation, tree, orders)

\* What others change leaves a change under way as it is, or beside them.
LEMMA OpBeside ==
  ASSUME NEW op, OpShape(op), NEW op1, op1 = [op EXCEPT !.alone = FALSE]
  PROVE  OpShape(op1) /\ ~op1.alone /\ Roots(op1) = Roots(op)
<1>0. OpFields(op)  BY DEF OpShape
<1>1. /\ DOMAIN op1 = DOMAIN op /\ op1.alone = FALSE
      /\ \A x \in DOMAIN op : x # "alone" => op1[x] = op[x]
  BY <1>0 DEF OpFields
<1>2. op1.does = op.does /\ op1.old = op.old /\ op1.new = op.new  BY <1>0, <1>1 DEF OpFields
<1>3. op.does = "relocate" => op1.saves = op.saves /\ op1.had = op.had
  BY <1>0, <1>1 DEF OpFields
<1>4. OpFields(op1)  BY <1>0, <1>1, <1>2 DEF OpFields
<1>5. op1.does = "create" => CreationFits(op1)  BY <1>2 DEF OpShape, CreationFits
<1>6. op1.does = "relocate" => MoveFits(op1)
  <2>1. op.does = "relocate" => MoveFits(op)  BY DEF OpShape
  <2>2. QED  BY <1>2, <1>3, <2>1 DEF MoveFits
<1>7. OpShape(op1)  BY <1>4, <1>5, <1>6 DEF OpShape
<1>8. Roots(op1) = Roots(op)  BY <1>2 DEF Roots
<1>9. QED  BY <1>1, <1>7, <1>8

LEMMA UndoesStill ==
  ASSUME NEW op, NEW t, NEW o, NEW k, NEW k1, Undoes(op, t, o, k),
         \A r \in k1 : r \in k \/ \A p \in DOMAIN t : t[p] # r
  PROVE  Undoes(op, t, o, k1)
<1>1. ASSUME op.does = "create" PROVE CreationUndoes(op, t, o, k1)
  <2>1. CreationUndoes(op, t, o, k)  BY <1>1 DEF Undoes
  <2>2. op.what \notin k1  BY <2>1 DEF CreationUndoes
  <2>3. QED  BY <2>1, <2>2 DEF CreationUndoes
<1>2. QED  BY <1>1 DEF Undoes

\* The change as it is once others are at work in the collection c.
Aside(op, c) == IF op # Idle /\ c \in Roots(op) THEN [op EXCEPT !.alone = FALSE] ELSE op
\* No request that is on the disk comes to be one of those nobody deleted.
NoneKept(t, k, k1) == \A r \in k1 : r \in k \/ \A p \in DOMAIN t : t[p] # r

LEMMA OpStays ==
  ASSUME NEW op, NEW t, NEW o, NEW k, NEW t1, NEW o1, NEW k1, NEW c,
         OpFits(op, t, o, k), SameBut(t, t1, {c}), SameBut(o, o1, {c}), NoneKept(t, k, k1)
  PROVE  /\ OpFits(Aside(op, c), t1, o1, k1)
         /\ Aside(op, c) # Idle => op # Idle /\ Roots(Aside(op, c)) = Roots(op)
<1> DEFINE op1 == Aside(op, c)
<1>0. op1 = IF op # Idle /\ c \in Roots(op) THEN [op EXCEPT !.alone = FALSE] ELSE op  BY DEF Aside
<1> HIDE DEF op1
<1> SUFFICES OpFits(op1, t1, o1, k1) /\ (op1 # Idle => op # Idle /\ Roots(op1) = Roots(op))
  BY DEF op1
<1>1. CASE op # Idle /\ c \in Roots(op)
  <2>1. OpShape(op) /\ op1 = [op EXCEPT !.alone = FALSE]  BY <1>0, <1>1 DEF OpFits
  <2>2. OpShape(op1) /\ ~op1.alone /\ Roots(op1) = Roots(op)  BY <2>1, OpBeside
  <2>3. QED  BY <1>1, <2>2 DEF OpFits
<1>2. CASE op # Idle /\ c \notin Roots(op)
  <2>1. op1 = op /\ Roots(op) \intersect {c} = {}  BY <1>0, <1>2
  <2>2. F!Part(t1, Roots(op)) = F!Part(t, Roots(op)) /\ F!Part(o1, Roots(op)) = F!Part(o, Roots(op))
    BY <2>1, PartSame
  <2>3. ASSUME op.alone PROVE Undoes(op, F!Part(t, Roots(op)), F!Part(o, Roots(op)), k1)
    <3> DEFINE T == F!Part(t, Roots(op))
               O == F!Part(o, Roots(op))
    <3>1. Undoes(op, T, O, k)  BY <1>2, <2>3 DEF OpFits
    <3>2. \A r \in k1 : r \in k \/ \A p \in DOMAIN T : T[p] # r
      <4>1. \A p \in DOMAIN T : p \in DOMAIN t /\ T[p] = t[p]  BY PartIs
      <4> HIDE DEF T
      <4>2. QED  BY <4>1 DEF NoneKept
    <3> HIDE DEF T, O
    <3>3. Undoes(op, T, O, k1)  BY <3>1, <3>2, UndoesStill
    <3>4. QED  BY <3>3 DEF T, O
  <2>4. QED  BY <1>2, <2>1, <2>2, <2>3 DEF OpFits
<1>3. CASE op = Idle  BY <1>0, <1>3 DEF OpFits
<1>4. QED  BY <1>1, <1>2, <1>3

\* No file comes to hold a request of an import that is not yet written.
NoneOf(t, t1) ==
  \A q \in DOMAIN t1 : \/ \E p \in DOMAIN t : t1[q] = t[p]
                       \/ \A i \in DOMAIN ImportedItems : t1[q] # Imported(i)

LEMMA ImpBeside ==
  ASSUME NEW imp, ImpShape(imp), NEW imp1, imp1 = [imp EXCEPT !.alone = FALSE]
  PROVE  ImpShape(imp1) /\ ~imp1.alone /\ imp1.names = imp.names
<1>1. /\ DOMAIN imp1 = DOMAIN imp /\ imp1.alone = FALSE
      /\ \A x \in DOMAIN imp : x # "alone" => imp1[x] = imp[x]
  BY DEF ImpShape
<1>2. imp1.root = imp.root /\ imp1.names = imp.names  BY <1>1 DEF ImpShape
<1>3. QED  BY <1>1, <1>2 DEF ImpShape

LEMMA ImpStays ==
  ASSUME FilesAssumed, NEW imp, NEW op, NEW t, NEW o, NEW t1, NEW o1, NEW op1, NEW roots,
         ImpFits(imp, op, t, o), SameBut(t, t1, roots), SameBut(o, o1, roots), NoneOf(t, t1),
         op1 # Idle => (op # Idle /\ Roots(op1) = Roots(op)) \/ Roots(op1) \subseteq roots,
         NEW imp1,
         \/ imp1 = imp /\ (imp # Idle /\ imp.alone => imp.root \notin roots)
         \/ imp1 = IF imp # Idle /\ imp.root \in roots THEN [imp EXCEPT !.alone = FALSE] ELSE imp
  PROVE  ImpFits(imp1, op1, t1, o1)
<1>1. imp # Idle => Unwritten(imp, t1)
  <2> SUFFICES ASSUME imp # Idle,
                      NEW i \in Len(imp.names) + 1 .. Len(ImportedItems), NEW q \in DOMAIN t1
               PROVE  t1[q] # Imported(i)
    BY DEF Unwritten
  <2>1. ImpShape(imp) /\ Unwritten(imp, t)  BY DEF ImpFits
  <2>2. i \in DOMAIN ImportedItems
    <3>1. ImportedItems \in Seq([name : Nat, request : FileRequests])  BY DEF FilesAssumed
    <3>2. Len(imp.names) \in Nat  BY <2>1 DEF ImpShape
    <3>3. DOMAIN ImportedItems = 1 .. Len(ImportedItems) /\ Len(ImportedItems) \in Nat  BY <3>1
    <3>4. QED  BY <3>2, <3>3
  <2>3. QED  BY <2>1, <2>2 DEF Unwritten, NoneOf
<1>2. CASE imp1 = imp /\ imp # Idle /\ (imp.alone => imp.root \notin roots)
  <2>1. ASSUME imp.alone
        PROVE  /\ op1 # Idle => imp.root \notin Roots(op1)
               /\ ImpRight(imp, F!Part(t1, {imp.root}), F!Part(o1, {imp.root}))
    <3>1. /\ op # Idle => imp.root \notin Roots(op)
          /\ ImpRight(imp, F!Part(t, {imp.root}), F!Part(o, {imp.root}))
      BY <1>2, <2>1 DEF ImpFits
    <3>2. imp.root \notin roots  BY <1>2, <2>1
    <3>3. {imp.root} \intersect roots = {}  BY <3>2
    <3>4. /\ F!Part(t1, {imp.root}) = F!Part(t, {imp.root})
          /\ F!Part(o1, {imp.root}) = F!Part(o, {imp.root})
      BY <3>3, PartSame
    <3>5. op1 # Idle => imp.root \notin Roots(op1)  BY <3>1, <3>2
    <3>6. QED  BY <3>1, <3>4, <3>5
  <2>2. QED  BY <1>1, <1>2, <2>1 DEF ImpFits
<1>3. CASE imp # Idle /\ imp.root \in roots /\ imp1 = [imp EXCEPT !.alone = FALSE]
  <2>1. ImpShape(imp)  BY <1>3 DEF ImpFits
  <2>2. ImpShape(imp1) /\ ~imp1.alone /\ imp1.names = imp.names  BY <1>3, <2>1, ImpBeside
  <2>3. Unwritten(imp1, t1)  BY <1>1, <1>3, <2>2 DEF Unwritten
  <2>4. QED  BY <2>2, <2>3 DEF ImpFits
<1>4. CASE imp1 = imp /\ imp = Idle  BY <1>4 DEF ImpFits
<1>5. QED  BY <1>2, <1>3, <1>4

LEMMA NoneSame ==
  ASSUME NEW t
  PROVE  NoneOf(t, t)
BY DEF NoneOf

LEMMA NoneWithout ==
  ASSUME NEW t, NEW p
  PROVE  NoneOf(t, F!Without(t, p))
<1>1. \A q \in DOMAIN F!Without(t, p) : q \in DOMAIN t /\ F!Without(t, p)[q] = t[q]  BY WithoutIs
<1>2. QED  BY <1>1 DEF NoneOf

LEMMA NoneWith ==
  ASSUME NEW t, NEW p, NEW x, \A i \in DOMAIN ImportedItems : x # Imported(i)
  PROVE  NoneOf(t, F!With(t, p, x))
<1> DEFINE g == F!With(t, p, x)
<1>1. DOMAIN g = DOMAIN t \union {p} /\ g[p] = x /\ \A q \in DOMAIN t : q # p => g[q] = t[q]
  BY DEF F!With
<1> HIDE DEF g
<1>2. QED  BY <1>1 DEF NoneOf, g

\* What a new item holds is no request of an import, and nobody else's.
LEMMA NewItem ==
  ASSUME FilesAssumed, NEW x, x = F!Folder \/ x \in F!FreshIds
  PROVE  /\ \A i \in DOMAIN ImportedItems : x # Imported(i)
         /\ x = F!Folder \/ \A q \in DOMAIN tree : tree[q] # x
         /\ HasAll(tree, kept) => x \notin kept
<1>1. ASSUME NEW i \in DOMAIN ImportedItems
      PROVE  Imported(i) # F!Folder /\ Imported(i) \in F!ImportedIds
  <2> DEFINE S == [name : Nat, request : FileRequests]
  <2>0. ImportedItems \in Seq(S)  BY DEF FilesAssumed
  <2>1. ImportedItems[i] \in S
    <3> HIDE DEF S
    <3>1. QED  BY <1>1, <2>0
  <2>2. ImportedItems[i].request \in FileRequests  BY <2>1
  <2>3. QED  BY <2>2 DEF FilesAssumed, Imported, F!ImportedIds
<1>2. CASE x = F!Folder  BY <1>1, <1>2 DEF HasAll
<1>3. CASE x \in F!FreshIds
  <2>1. /\ x \notin kept /\ x \notin F!ImportedIds
        /\ \A q \in DOMAIN tree : tree[q] # x
    BY <1>3 DEF F!FreshIds
  <2>2. QED  BY <1>1, <2>1
<1>4. QED  BY <1>2, <1>3

\* A step after which no change is under way.
LEMMA QuietStep ==
  ASSUME FilesAssumed, FilesInv, operation' = Idle, ~spoiled',
         NEW roots, SameBut(tree, tree', roots), SameBut(orders, orders', roots),
         NoneOf(tree, tree'), IsSound(tree', orders', kept'),
         \/ import' = import /\ (import # Idle /\ import.alone => import.root \notin roots)
         \/ F!Disturbs(roots)
  PROVE  FilesInv'
<1>1. ImpFits(import, operation, tree, orders)  BY DEF FilesInv
<1>2. ImpFits(import', operation', tree', orders')
  BY <1>1, ImpStays DEF F!Disturbs
<1>3. OpFits(operation', tree', orders', kept')  BY DEF OpFits
<1>4. QED  BY <1>2, <1>3 DEF FilesInv

LEMMA SameStep ==
  ASSUME FilesInv, UNCHANGED <<tree, orders, kept, spoiled, operation, import>>
  PROVE  FilesInv'
<1>1. /\ tree' = tree /\ orders' = orders /\ kept' = kept /\ spoiled' = spoiled
      /\ operation' = operation /\ import' = import
  OBVIOUS
<1>2. QED  BY <1>1 DEF FilesInv

LEMMA CreateCollectionSafe ==
  ASSUME FilesAssumed, FilesInv, NEW c \in Collections, F!CreateCollection(c)
  PROVE  FilesInv'
<1>1. /\ operation = Idle /\ operation' = Idle /\ orders' = orders /\ kept' = kept
      /\ spoiled' = spoiled /\ import' = import
      /\ Append(<<>>, c) \notin DOMAIN tree /\ tree' = F!With(tree, <<c>>, F!Folder)
  BY DEF F!CreateCollection, F!Ready, F!IsFirstFree, F!Free, F!ghosts
<1>2. c \in Nat /\ <<c>> \in Seq(Nat) /\ <<c>> # <<>> /\ Append(<<>>, c) = <<c>> /\ Len(<<c>>) = 1
  BY DEF FilesAssumed
<1>3. <<c>> \in Paths  BY <1>2 DEF Paths
<1>4. IsSound(tree, orders, kept)  BY DEF FilesInv
<1>5. IsSound(tree', orders', kept')
  <2>1. ~(Len(<<c>>) > 1)  BY <1>2
  <2>2. IsSound(F!With(tree, <<c>>, F!Folder), orders, kept)
    BY <1>1, <1>2, <1>3, <1>4, <2>1, WithTree
  <2>3. QED  BY <1>1, <2>2
<1>6. SameBut(tree, tree', {F!Root(<<c>>)}) /\ SameBut(orders, orders', {F!Root(<<c>>)})
  BY <1>1, ButWith, ButNothing
<1>7. NoneOf(tree, tree')
  BY <1>1, NoneWith, NewItem
<1>8. F!Root(<<c>>) = c  BY <1>2 DEF F!Root
<1>9. import # Idle /\ import.alone => import.root # c
  <2> SUFFICES ASSUME import # Idle, import.alone, import.root = c PROVE FALSE  OBVIOUS
  <2>1. <<c>> \in DOMAIN F!Part(tree, {c})  BY DEF FilesInv, ImpFits, ImpRight
  <2>2. QED  BY <1>1, <1>2, <2>1, PartIs
<1>10. ~spoiled'  BY <1>1 DEF FilesInv
<1>11. QED  BY <1>1, <1>5, <1>6, <1>7, <1>8, <1>9, <1>10, QuietStep

\* What is taken away again leaves a folder as it was.
LEMMA NewCanGo ==
  ASSUME NEW t, IsTree(t), NEW p \in Paths, p \notin DOMAIN t, NEW x, NEW roots
  PROVE  F!Without(F!Part(F!With(t, p, x), roots), p) = F!Part(t, roots)
<1> DEFINE u == F!With(t, p, x)
           v == F!Part(u, roots)
           w == F!Without(v, p)
           s == F!Part(t, roots)
<1>1. DOMAIN u = DOMAIN t \union {p} /\ \A q \in DOMAIN t : q # p => u[q] = t[q]
  BY DEF F!With
<1>2. /\ \A q : q \in DOMAIN v <=> q \in DOMAIN u /\ F!Root(q) \in roots
      /\ \A q \in DOMAIN v : v[q] = u[q]
  <2> HIDE DEF u
  <2>1. QED  BY PartIs
<1>3. /\ \A q : q \in DOMAIN s <=> q \in DOMAIN t /\ F!Root(q) \in roots
      /\ \A q \in DOMAIN s : s[q] = t[q]
  BY PartIs
<1>4. F!Under(p, p) /\ \A q \in DOMAIN t : ~F!Under(p, q) /\ q # p
  <2>1. \A q \in DOMAIN t : ~F!Under(p, q)  BY NothingUnder
  <2>2. F!Under(p, p)  BY UnderOrder
  <2>3. QED  BY <2>1, <2>2
<1>5. /\ DOMAIN w = {q \in DOMAIN v : ~F!Under(p, q)} /\ \A q \in DOMAIN w : w[q] = v[q]
  <2> HIDE DEF v
  <2>1. QED  BY WithoutIs
<1>6. w = [q \in {r \in DOMAIN v : ~F!Under(p, r)} |-> v[q]]  BY DEF F!Without
<1>7. s = [q \in {r \in DOMAIN t : F!Root(r) \in roots} |-> t[q]]  BY DEF F!Part
<1> HIDE DEF u, v, w, s
<1>8. {r \in DOMAIN v : ~F!Under(p, r)} = {r \in DOMAIN t : F!Root(r) \in roots}
  BY <1>1, <1>2, <1>4
<1>9. \A q \in {r \in DOMAIN t : F!Root(r) \in roots} : v[q] = t[q]
  BY <1>1, <1>2, <1>4
<1>10. w = s  BY <1>6, <1>7, <1>8, <1>9
<1>11. QED  BY <1>10 DEF w, s, v, u

LEMMA PartWithout ==
  ASSUME NEW f, NEW p, NEW roots
  PROVE  F!Part(F!Without(f, p), roots) = F!Without(F!Part(f, roots), p)
<1> DEFINE u == F!Without(f, p)
           v == F!Part(f, roots)
<1>1. /\ \A q : q \in DOMAIN u <=> q \in DOMAIN f /\ ~F!Under(p, q)
      /\ \A q \in DOMAIN u : u[q] = f[q]
  BY WithoutIs
<1>2. /\ \A q : q \in DOMAIN v <=> q \in DOMAIN f /\ F!Root(q) \in roots
      /\ \A q \in DOMAIN v : v[q] = f[q]
  BY PartIs
<1>3. F!Part(u, roots) = [q \in {r \in DOMAIN u : F!Root(r) \in roots} |-> u[q]]  BY DEF F!Part
<1>4. F!Without(v, p) = [q \in {r \in DOMAIN v : ~F!Under(p, r)} |-> v[q]]  BY DEF F!Without
<1> HIDE DEF u, v
<1> DEFINE S == {r \in DOMAIN f : ~F!Under(p, r) /\ F!Root(r) \in roots}
<1>5. {r \in DOMAIN u : F!Root(r) \in roots} = S /\ {r \in DOMAIN v : ~F!Under(p, r)} = S
  BY <1>1, <1>2
<1>6. \A q \in S : u[q] = v[q]  BY <1>1, <1>2
<1> HIDE DEF S
<1>7. F!Part(u, roots) = F!Without(v, p)  BY <1>3, <1>4, <1>5, <1>6
<1>8. QED  BY <1>7 DEF u, v

LEMMA CreateSafe ==
  ASSUME FilesAssumed, FilesInv, NEW d, NEW names, names \subseteq Nat,
         NEW what, what = F!Folder \/ what \in F!FreshIds, F!Create(d, names, what)
  PROVE  FilesInv'
<1>1. PICK n \in names :
        /\ F!IsFirstFree(d, n, names)
        /\ tree' = F!With(tree, Append(d, n), what)
        /\ F!Begins([does |-> "create", old |-> Append(d, n), new |-> Append(d, n), what |-> what,
                     names |-> Append(F!Names(F!EntriesOf(d)), n),
                     alone |-> TRUE, before |-> F!Parts(Append(d, n), Append(d, n))])
  BY DEF F!Create
<1> DEFINE p == Append(d, n)
           op == [does |-> "create", old |-> p, new |-> p, what |-> what,
                  names |-> Append(F!Names(F!EntriesOf(d)), n),
                  alone |-> TRUE, before |-> F!Parts(p, p)]
<1>2. /\ d \in F!Dirs(tree) /\ orders' = orders /\ kept' = kept /\ spoiled' = spoiled
      /\ operation = Idle
  BY DEF F!Create, F!Ready, F!ghosts
<1>3. IsSound(tree, orders, kept) /\ IsTree(tree) /\ HasAll(tree, kept) /\ ~spoiled
  BY DEF FilesInv, IsSound
<1>4. n \in Nat /\ d \in Paths /\ d \in Seq(Nat)
  BY <1>2, <1>3, DirsAre DEF IsTree, Paths
<1>5. p \in Paths /\ F!Parent(p) = d /\ F!Root(p) = F!Root(d) /\ Len(p) > 1
  BY <1>4, ChildIs
<1>6. p \notin DOMAIN tree  BY <1>1 DEF F!IsFirstFree, F!Free
<1>7. /\ \A i \in DOMAIN ImportedItems : what # Imported(i)
      /\ what = F!Folder \/ \A q \in DOMAIN tree : tree[q] # what
      /\ what \notin kept
  BY <1>3, NewItem
<1>8. operation' = op /\ F!Disturbs({F!Root(p)})
  <2>1. operation' = op /\ F!Disturbs({F!Root(op.old), F!Root(op.new)})  BY <1>1 DEF F!Begins
  <2>2. {F!Root(op.old), F!Root(op.new)} = {F!Root(p)}  OBVIOUS
  <2> HIDE DEF op
  <2>3. QED  BY <2>1, <2>2
<1>9. IsSound(tree', orders', kept')
  <2> HIDE DEF p
  <2>1. IsSound(F!With(tree, p, what), orders, kept)
    BY <1>2, <1>3, <1>5, <1>6, <1>7, WithTree
  <2>2. QED  BY <1>1, <1>2, <2>1 DEF p
<1>10. /\ op.does = "create" /\ op.old = p /\ op.new = p /\ op.what = what
       /\ op.before = F!Parts(p, p) /\ OpFields(op)
  BY DEF OpFields
<1> DEFINE roots == {F!Root(p)}
           T == F!Part(tree', roots)
           O == F!Part(orders', roots)
<1>11. Roots(op) = roots  BY <1>10 DEF Roots
<1>12. op.before = <<F!Part(tree, roots), F!Part(orders, roots)>>
  BY <1>10 DEF F!Parts
<1>13. OpShape(op)  BY <1>5, <1>10 DEF OpShape, CreationFits
<1> HIDE DEF op, p
<1>14. CreationUndoes(op, T, O, kept')
  <2>1. /\ \A q : q \in DOMAIN T <=> (q \in DOMAIN tree \/ q = p) /\ F!Root(q) \in roots
        /\ p \in DOMAIN T => T[p] = what
    <3>1. /\ \A q : q \in DOMAIN T <=> q \in DOMAIN tree' /\ F!Root(q) \in roots
          /\ \A q \in DOMAIN T : T[q] = tree'[q]
      BY PartIs
    <3>2. DOMAIN tree' = DOMAIN tree \union {p} /\ tree'[p] = what
      BY <1>1 DEF F!With, p
    <3> HIDE DEF T
    <3>3. QED  BY <3>1, <3>2
  <2>2. p \in DOMAIN T  BY <2>1
  <2>3. \A q \in DOMAIN T : F!Under(p, q) => q = p
    <3>1. \A q \in DOMAIN tree : ~F!Under(p, q)  BY <1>3, <1>5, <1>6, NothingUnder
    <3> HIDE DEF T
    <3>2. QED  BY <2>1, <3>1
  <2>4. p \notin DOMAIN O
    <3>1. \A q \in DOMAIN O : q \in DOMAIN orders'  BY PartIs
    <3>2. \A q \in DOMAIN orders : q \in DOMAIN tree  BY <1>3, DirsAre DEF IsSound
    <3> HIDE DEF O
    <3>3. QED  BY <1>2, <1>6, <3>1, <3>2
  <2>5. F!Without(T, p) = F!Part(tree, roots)
    <3>1. tree' = F!With(tree, p, what)  BY <1>1 DEF p
    <3>2. QED  BY <1>3, <1>5, <1>6, <3>1, NewCanGo
  <2>6. O = F!Part(orders, roots)  BY <1>2
  <2> HIDE DEF T, O, roots
  <2>7. QED  BY <1>2, <1>7, <1>10, <1>12, <2>1, <2>2, <2>3, <2>4, <2>5, <2>6 DEF CreationUndoes
<1>15. OpFits(operation', tree', orders', kept')
  <2>1. Undoes(op, T, O, kept')  BY <1>10, <1>14 DEF Undoes
  <2>2. QED  BY <1>8, <1>11, <1>13, <2>1 DEF OpFits
<1>16. ImpFits(import', operation', tree', orders')
  <2>1. ImpFits(import, operation, tree, orders)  BY DEF FilesInv
  <2>2. SameBut(tree, tree', roots) /\ SameBut(orders, orders', roots)
    BY <1>1, <1>2, ButWith, ButNothing DEF p
  <2>3. NoneOf(tree, tree')  BY <1>1, <1>7, NoneWith DEF p
  <2>4. operation' # Idle => Roots(operation') \subseteq roots  BY <1>8, <1>11
  <2>5. import' = IF import # Idle /\ import.root \in roots THEN [import EXCEPT !.alone = FALSE] ELSE import
    BY <1>8 DEF F!Disturbs
  <2>6. QED  BY <2>1, <2>2, <2>3, <2>4, <2>5, ImpStays
<1>17. QED  BY <1>2, <1>3, <1>9, <1>15, <1>16 DEF FilesInv

LEMMA CreatedSafe ==
  ASSUME FilesAssumed, FilesInv, F!Created
  PROVE  FilesInv'
<1> DEFINE d == F!Parent(operation.new)
           n == F!Name(operation.new)
           now == {operation.what} \intersect {tree[p] : p \in DOMAIN tree \ F!Dirs(tree)}
<1>1. /\ d \in F!Dirs(tree) \/ ~F!CanSave(d)
      /\ orders' = IF F!CanSave(d) THEN F!With(orders, d, operation.names) ELSE orders
      /\ kept' = kept \union now /\ tree' = tree /\ spoiled' = spoiled /\ operation' = Idle
      /\ F!Disturbs({F!Root(d)})
  BY DEF F!Created, F!Ends
<1>2. IsSound(tree, orders, kept) /\ ~spoiled  BY DEF FilesInv
<1>3. \A r \in now : r # F!Folder /\ \E p \in DOMAIN tree : tree[p] = r  BY DEF F!Dirs
<1>4. DOMAIN orders' \subseteq F!Dirs(tree)
  <2> HIDE DEF d
  <2>1. CASE F!CanSave(d)
    <3>1. DOMAIN orders' = DOMAIN orders \union {d}  BY <1>1, <2>1 DEF F!With
    <3>2. QED  BY <1>1, <1>2, <2>1, <3>1 DEF IsSound
  <2>2. CASE ~F!CanSave(d)  BY <1>1, <1>2, <2>2 DEF IsSound
  <2>3. QED  BY <2>1, <2>2
<1> HIDE DEF now
<1>5. IsSound(tree', orders', kept')
  <2>1. HasAll(tree, kept \union now)  BY <1>2, <1>3 DEF IsSound, HasAll
  <2>2. QED  BY <1>1, <1>2, <1>4, <2>1 DEF IsSound
<1>6. SameBut(tree, tree', {F!Root(d)}) /\ NoneOf(tree, tree')  BY <1>1, ButNothing, NoneSame
<1>7. SameBut(orders, orders', {F!Root(d)})
  BY <1>1, ButWith, ButNothing
<1>8. QED  BY <1>1, <1>2, <1>5, <1>6, <1>7, QuietStep

\* What follows of a change that ends with an error.
LEMMA FailsIs ==
  ASSUME FilesInv, operation # Idle, NEW undone, F!Fails(undone)
  PROVE  /\ operation' = Idle /\ import' = import /\ OpShape(operation)
         /\ import # Idle /\ import.alone => import.root \notin Roots(operation)
         /\ \/ ~undone \/ ~operation.alone
            \/ operation.before = <<F!Part(tree', Roots(operation)), F!Part(orders', Roots(operation))>>
            => ~spoiled'
         /\ operation.alone => Undoes(operation, F!Part(tree, Roots(operation)),
                                      F!Part(orders, Roots(operation)), kept)
<1>1. /\ operation' = Idle /\ import' = import
      /\ spoiled' = (spoiled \/ (/\ undone /\ operation.alone
                                 /\ operation.before # <<F!Part(tree', Roots(operation)),
                                                         F!Part(orders', Roots(operation))>>))
  BY DEF F!Fails, F!Ends, F!background, Roots
<1>2. OpFits(operation, tree, orders, kept) /\ ImpFits(import, operation, tree, orders) /\ ~spoiled
  BY DEF FilesInv
<1>3. import # Idle /\ import.alone => import.root \notin Roots(operation)  BY <1>2 DEF ImpFits
<1>4. /\ OpShape(operation)
      /\ operation.alone => Undoes(operation, F!Part(tree, Roots(operation)),
                                   F!Part(orders, Roots(operation)), kept)
  BY <1>2 DEF OpFits
<1>5. QED  BY <1>1, <1>2, <1>3, <1>4

LEMMA CreationFailsSafe ==
  ASSUME FilesAssumed, FilesInv, NEW undone, F!CreationFails(undone)
  PROVE  FilesInv'
<1> DEFINE new == operation.new
           roots == Roots(operation)
           T == F!Part(tree, roots)
           O == F!Part(orders, roots)
           removed == /\ undone /\ new \in DOMAIN tree
                      /\ tree[new] = F!Folder <=> operation.what = F!Folder
                      /\ F!Children(tree, new) = {} /\ new \notin DOMAIN orders
<1>1. /\ operation # Idle /\ operation.does = "create"
      /\ tree' = IF removed THEN F!Without(tree, new) ELSE tree
      /\ kept' = IF removed /\ ~operation.alone THEN kept \ F!IdsUnder(tree, new) ELSE kept
      /\ orders' = orders /\ F!Fails(undone)
  BY DEF F!CreationFails, F!Creating
<1>2. /\ operation' = Idle /\ import' = import /\ OpShape(operation)
      /\ import # Idle /\ import.alone => import.root \notin roots
      /\ \/ ~undone \/ ~operation.alone
         \/ operation.before = <<F!Part(tree', roots), F!Part(orders', roots)>>
         => ~spoiled'
      /\ operation.alone => Undoes(operation, T, O, kept)
  BY <1>1, FailsIs
<1>3. IsSound(tree, orders, kept) /\ IsTree(tree) /\ ~spoiled  BY DEF FilesInv, IsSound
<1>4. /\ new \in Paths /\ Len(new) > 1 /\ F!Root(new) \in roots
      /\ \A q \in DOMAIN tree : q \in Paths
  BY <1>1, <1>2, <1>3 DEF OpShape, CreationFits, Roots, IsTree
<1> HIDE DEF new, roots
<1>5. ASSUME operation.alone
      PROVE  /\ new \in DOMAIN tree /\ tree[new] = operation.what /\ operation.what \notin kept
             /\ F!Children(tree, new) = {} /\ new \notin DOMAIN orders
             /\ operation.before = <<F!Without(T, new), O>>
  <2>1. CreationUndoes(operation, T, O, kept)  BY <1>1, <1>2, <1>5 DEF Undoes
  <2>2. /\ \A q : q \in DOMAIN T <=> q \in DOMAIN tree /\ F!Root(q) \in roots
        /\ \A q \in DOMAIN T : T[q] = tree[q]
        /\ \A q : q \in DOMAIN O <=> q \in DOMAIN orders /\ F!Root(q) \in roots
    BY PartIs
  <2> HIDE DEF T, O
  <2>3. /\ new \in DOMAIN T /\ T[new] = operation.what /\ operation.what \notin kept
        /\ \A p \in DOMAIN T : F!Under(new, p) => p = new
        /\ new \notin DOMAIN O /\ operation.before = <<F!Without(T, new), O>>
    BY <2>1 DEF CreationUndoes, new
  <2>4. ASSUME NEW q \in F!Children(tree, new) PROVE FALSE
    <3>1. q \in DOMAIN tree /\ q \in Paths /\ Len(q) > 1 /\ F!Parent(q) = new
      BY <1>4 DEF F!Children
    <3>2. F!Under(new, q) /\ new # q  BY <3>1, UnderOrder
    <3>3. F!Root(q) = F!Root(new)  BY <1>4, <3>1, <3>2, UnderOrder
    <3>4. QED  BY <1>4, <2>2, <2>3, <3>1, <3>2, <3>3
  <2>5. QED  BY <1>4, <2>2, <2>3, <2>4
<1>6. operation.alone /\ undone => removed  BY <1>5
<1>7. SameBut(tree, tree', roots) /\ SameBut(orders, orders', roots) /\ NoneOf(tree, tree')
  <2>1. SameBut(tree, F!Without(tree, new), {F!Root(new)})  BY <1>4, ButWithout
  <2>2. SameBut(tree, F!Without(tree, new), roots)  BY <1>4, <2>1, ButMore
  <2>3. QED  BY <1>1, <2>2, ButNothing, NoneSame, NoneWithout
<1>8. ~spoiled'
  <2>1. ASSUME undone, operation.alone
        PROVE  operation.before = <<F!Part(tree', roots), F!Part(orders', roots)>>
    <3>1. tree' = F!Without(tree, new) /\ orders' = orders  BY <1>1, <1>6, <2>1
    <3>2. F!Part(F!Without(tree, new), roots) = F!Without(T, new)  BY PartWithout
    <3>3. QED  BY <1>5, <2>1, <3>1, <3>2
  <2>2. QED  BY <1>2, <2>1
<1>9. IsSound(tree', orders', kept')
  <2>1. CASE ~removed  BY <1>1, <1>3, <2>1
  <2>2. CASE removed
    <3>1. tree' = F!Without(tree, new) /\ orders' = orders  BY <1>1, <2>2
    <3>2. \A q \in DOMAIN tree : F!Under(new, q) => q = new
      <4>1. F!Children(tree, new) = {}  BY <2>2
      <4>2. QED  BY <1>3, <1>4, <4>1, FoldersAbove
    <3>3. \A q \in DOMAIN orders : q \in DOMAIN F!Without(orders, new)
      <4>1. \A q \in DOMAIN orders : q \in DOMAIN tree  BY <1>3, DirsAre DEF IsSound
      <4>2. new \notin DOMAIN orders  BY <2>2
      <4>3. \A q \in DOMAIN orders : ~F!Under(new, q)  BY <3>2, <4>1, <4>2
      <4>4. QED  BY <4>3, WithoutIs
    <3>4. IsSound(F!Without(tree, new), F!Without(orders, new), kept \ F!IdsUnder(tree, new))
      BY <1>3, <1>4, WithoutTree
    <3>5. IsSound(F!Without(tree, new), orders, kept \ F!IdsUnder(tree, new))
      BY <3>3, <3>4 DEF IsSound
    <3>6. CASE ~operation.alone  BY <1>1, <2>2, <3>1, <3>5, <3>6
    <3>7. CASE operation.alone
      <4>1. kept' = kept  BY <1>1, <3>7
      <4>2. ASSUME NEW r \in kept PROVE r \notin F!IdsUnder(tree, new)
        <5>1. \A q \in DOMAIN tree : F!Under(new, q) => tree[q] = operation.what
          BY <1>5, <3>2, <3>7
        <5>2. QED  BY <1>5, <3>7, <5>1 DEF F!IdsUnder
      <4>3. kept \ F!IdsUnder(tree, new) = kept  BY <4>2
      <4>4. QED  BY <3>1, <3>5, <4>1, <4>3
    <3>8. QED  BY <3>6, <3>7
  <2>3. QED  BY <2>1, <2>2
<1>10. QED  BY <1>2, <1>7, <1>8, <1>9, QuietStep

\* The order of a folder, saved and written again as it was.
WrittenAgain(o, d, had) ==
  [q \in (DOMAIN o \ {d}) \union DOMAIN had |-> IF q = d THEN had[q] ELSE o[q]]

LEMMA OrderComesBack ==
  ASSUME NEW o, NEW d, NEW names, NEW roots, F!Root(d) \in roots
  PROVE  WrittenAgain(F!Part(F!With(o, d, names), roots), d, [q \in DOMAIN o \intersect {d} |-> o[q]])
           = F!Part(o, roots)
<1> DEFINE had == [q \in DOMAIN o \intersect {d} |-> o[q]]
           u == F!With(o, d, names)
           v == F!Part(u, roots)
           S == {r \in DOMAIN o : F!Root(r) \in roots}
<1>1. DOMAIN u = DOMAIN o \union {d} /\ \A q \in DOMAIN o : q # d => u[q] = o[q]
  BY DEF F!With
<1>2. /\ \A q : q \in DOMAIN v <=> q \in DOMAIN u /\ F!Root(q) \in roots
      /\ \A q \in DOMAIN v : v[q] = u[q]
  <2> HIDE DEF u
  <2>1. QED  BY PartIs
<1>3. DOMAIN had = DOMAIN o \intersect {d} /\ \A q \in DOMAIN had : had[q] = o[q]  OBVIOUS
<1>4. F!Part(o, roots) = [q \in S |-> o[q]]  BY DEF F!Part
<1> HIDE DEF had, u, v
<1>5. (DOMAIN v \ {d}) \union DOMAIN had = S  BY <1>1, <1>2, <1>3
<1>6. \A q \in S : (IF q = d THEN had[q] ELSE v[q]) = o[q]
  BY <1>1, <1>2, <1>3
<1> HIDE DEF S
<1>7. WrittenAgain(v, d, had) = [q \in S |-> o[q]]  BY <1>5, <1>6 DEF WrittenAgain
<1>8. QED  BY <1>4, <1>7 DEF had, u, v

LEMMA PartWritten ==
  ASSUME NEW o, NEW d, NEW had, NEW roots, F!Root(d) \in roots, DOMAIN had \subseteq {d}
  PROVE  F!Part(WrittenAgain(o, d, had), roots) = WrittenAgain(F!Part(o, roots), d, had)
<1> DEFINE u == WrittenAgain(o, d, had)
           v == F!Part(o, roots)
           S == {r \in DOMAIN u : F!Root(r) \in roots}
<1>1. /\ DOMAIN u = (DOMAIN o \ {d}) \union DOMAIN had
      /\ \A q \in DOMAIN u : u[q] = IF q = d THEN had[q] ELSE o[q]
  BY DEF WrittenAgain
<1>2. /\ \A q : q \in DOMAIN v <=> q \in DOMAIN o /\ F!Root(q) \in roots
      /\ \A q \in DOMAIN v : v[q] = o[q]
  BY PartIs
<1>3. F!Part(u, roots) = [q \in S |-> u[q]]  BY DEF F!Part
<1>4. WrittenAgain(v, d, had) =
        [q \in (DOMAIN v \ {d}) \union DOMAIN had |-> IF q = d THEN had[q] ELSE v[q]]
  BY DEF WrittenAgain
<1> HIDE DEF u, v
<1>5. (DOMAIN v \ {d}) \union DOMAIN had = S  BY <1>1, <1>2
<1>6. \A q \in S : u[q] = IF q = d THEN had[q] ELSE v[q]  BY <1>1, <1>2
<1> HIDE DEF S
<1>7. F!Part(u, roots) = WrittenAgain(v, d, had)  BY <1>3, <1>4, <1>5, <1>6
<1>8. QED  BY <1>7 DEF u, v

LEMMA RelocateSafe ==
  ASSUME FilesAssumed, FilesInv, NEW old, NEW d, NEW n \in Nat, NEW index, NEW names,
         NEW saves \in BOOLEAN, F!Ready, F!Relocate(old, d, n, index, names, saves),
         old \in Paths => /\ Append(d, n) \in Paths
                          /\ old # Append(d, n) => ~F!Under(old, Append(d, n))
  PROVE  FilesInv'
<1> DEFINE new == Append(d, n)
           op == [does |-> "relocate", old |-> old, new |-> new, index |-> index,
                  saves |-> saves, had |-> F!OrderFile(d), step |-> "files",
                  alone |-> TRUE, before |-> F!Parts(old, new)]
           roots == {F!Root(old), F!Root(new)}
<1>1. /\ saves => d \in F!Dirs(tree)
      /\ orders' = IF saves THEN F!With(orders, d, names) ELSE orders
      /\ F!Begins(op)
      /\ tree' = tree /\ kept' = kept /\ spoiled' = spoiled
  BY DEF F!Relocate, F!ghosts
<1>2. IsSound(tree, orders, kept) /\ IsTree(tree) /\ ~spoiled /\ operation = Idle
  BY DEF FilesInv, IsSound, F!Ready
<1>3. saves => /\ d \in F!Dirs(tree) /\ new \in Paths /\ Len(new) > 1
               /\ F!Parent(new) = d /\ F!Root(d) = F!Root(new)
  <2>1. ASSUME saves
        PROVE  /\ d \in F!Dirs(tree) /\ new \in Paths /\ Len(new) > 1
               /\ F!Parent(new) = d /\ F!Root(d) = F!Root(new)
    <3>1. d \in F!Dirs(tree) /\ d \in Paths /\ d \in Seq(Nat)
      BY <1>1, <1>2, <2>1, DirsAre DEF IsTree, Paths
    <3>2. QED  BY <3>1, ChildIs
  <2>2. QED  BY <2>1
<1>4. /\ op.does = "relocate" /\ op.old = old /\ op.new = new /\ op.saves = saves
      /\ op.had = F!OrderFile(d) /\ op.before = F!Parts(old, new) /\ OpFields(op)
  BY DEF OpFields
<1>5. operation' = op /\ F!Disturbs({F!Root(op.old), F!Root(op.new)})  BY <1>1 DEF F!Begins
<1> HIDE DEF op, new
<1>6. F!Disturbs(roots) /\ Roots(op) = roots  BY <1>4, <1>5 DEF Roots
<1>7. F!OrderFile(d) = [q \in DOMAIN orders \intersect {d} |-> orders[q]]  BY DEF F!OrderFile
<1>8. OpShape(op)
  <2>1. old \in Paths => new \in Paths /\ (old # new => ~F!Under(old, new))  BY DEF new
  <2>2. DOMAIN F!OrderFile(d) \subseteq {d}  BY <1>7
  <2>3. MoveFits(op)  BY <1>3, <1>4, <2>1, <2>2 DEF MoveFits
  <2>4. QED  BY <1>4, <2>3 DEF OpShape
<1>9. DOMAIN orders' \subseteq F!Dirs(tree)
  <2>1. CASE saves
    <3>1. DOMAIN orders' = DOMAIN orders \union {d}  BY <1>1, <2>1 DEF F!With
    <3>2. QED  BY <1>1, <1>2, <2>1, <3>1 DEF IsSound
  <2>2. CASE ~saves  BY <1>1, <1>2, <2>2 DEF IsSound
  <2>3. QED  BY <2>1, <2>2
<1>10. IsSound(tree', orders', kept')  BY <1>1, <1>2, <1>9 DEF IsSound
<1>11. MoveUndoes(op, F!Part(tree', roots), F!Part(orders', roots))
  <2> DEFINE T == F!Part(tree', roots)
             O == F!Part(orders', roots)
  <2>1. op.before = <<F!Part(tree, roots), F!Part(orders, roots)>>  BY <1>4 DEF F!Parts
  <2>2. T = F!Part(tree, roots)  BY <1>1
  <2>3. RestoredIn(op, O) = F!Part(orders, roots)
    <3>1. CASE saves
      <4>1. F!Root(d) \in roots /\ F!Parent(new) = d  BY <1>3, <3>1
      <4>2. WrittenAgain(F!Part(F!With(orders, d, names), roots), d,
                         [q \in DOMAIN orders \intersect {d} |-> orders[q]]) = F!Part(orders, roots)
        BY <4>1, OrderComesBack
      <4>3. O = F!Part(F!With(orders, d, names), roots)  BY <1>1, <3>1
      <4> HIDE DEF O, roots
      <4>4. RestoredIn(op, O) = WrittenAgain(O, d, F!OrderFile(d))
        BY <1>4, <3>1, <4>1 DEF RestoredIn, WrittenAgain
      <4>5. QED  BY <1>7, <4>2, <4>3, <4>4
    <3>2. CASE ~saves
      <4>1. RestoredIn(op, O) = O  BY <1>4, <3>2 DEF RestoredIn
      <4>2. O = F!Part(orders, roots)  BY <1>1, <3>2
      <4>3. QED  BY <4>1, <4>2
    <3>3. QED  BY <3>1, <3>2
  <2>4. saves => d \in F!Dirs(T)
    <3>1. ASSUME saves PROVE d \in F!Dirs(T)
      <4>1. d \in DOMAIN tree /\ tree[d] = F!Folder /\ F!Root(d) \in roots  BY <1>3, <3>1, DirsAre
      <4>2. /\ \A q : q \in DOMAIN T <=> q \in DOMAIN tree' /\ F!Root(q) \in roots
            /\ \A q \in DOMAIN T : T[q] = tree'[q]
        BY PartIs
      <4> HIDE DEF T, roots
      <4>3. QED  BY <1>1, <4>1, <4>2, DirsAre
    <3>2. QED  BY <3>1
  <2> HIDE DEF T, O, roots
  <2>5. op.saves => F!Parent(op.new) \in F!Dirs(T)  BY <1>3, <1>4, <2>4
  <2>6. MoveUndoes(op, T, O)  BY <2>1, <2>2, <2>3, <2>5 DEF MoveUndoes
  <2>7. QED  BY <2>6 DEF T, O
<1>12. OpFits(operation', tree', orders', kept')
  <2>1. Undoes(op, F!Part(tree', roots), F!Part(orders', roots), kept')  BY <1>4, <1>11 DEF Undoes
  <2>2. QED  BY <1>5, <1>6, <1>8, <2>1 DEF OpFits
<1>13. ImpFits(import', operation', tree', orders')
  <2>1. ImpFits(import, operation, tree, orders)  BY DEF FilesInv
  <2>2. SameBut(tree, tree', roots) /\ NoneOf(tree, tree')  BY <1>1, ButNothing, NoneSame
  <2>3. SameBut(orders, orders', roots)
    <3>1. CASE saves
      <4>1. SameBut(orders, F!With(orders, d, names), {F!Root(d)})  BY ButWith
      <4>2. {F!Root(d)} \subseteq roots  BY <1>3, <3>1
      <4>3. QED  BY <1>1, <3>1, <4>1, <4>2, ButMore
    <3>2. CASE ~saves  BY <1>1, <3>2, ButNothing
    <3>3. QED  BY <3>1, <3>2
  <2>4. operation' # Idle => Roots(operation') \subseteq roots  BY <1>5, <1>6
  <2>5. import' = IF import # Idle /\ import.root \in roots THEN [import EXCEPT !.alone = FALSE] ELSE import
    BY <1>6 DEF F!Disturbs
  <2>6. QED  BY <2>1, <2>2, <2>3, <2>4, <2>5, ImpStays
<1>14. QED  BY <1>1, <1>2, <1>10, <1>12, <1>13 DEF FilesInv

LEMMA MoveSafe ==
  ASSUME FilesAssumed, FilesInv, NEW p, NEW d, F!Move(p, d)
  PROVE  FilesInv'
<1>1. /\ F!Ready /\ ~F!Under(p, d) /\ p \in DOMAIN tree
      /\ \E index, names : F!Relocate(p, d, F!Name(p), index, names, F!CanSave(d))
  BY DEF F!Move
<1>2. PICK index, names : F!Relocate(p, d, F!Name(p), index, names, F!CanSave(d))  BY <1>1
<1>3. IsSound(tree, orders, kept) /\ IsTree(tree)  BY DEF FilesInv, IsSound
<1>4. p \in Paths /\ F!Name(p) \in Nat  BY <1>1, <1>3, PathIs DEF IsTree
<1>5. d \in F!Dirs(tree)
  <2>1. F!CanSave(d) => d \in F!Dirs(tree)  BY <1>2 DEF F!Relocate
  <2>2. ~F!CanSave(d) => d \in DOMAIN orders
    BY DEF F!CanSave, F!OrderOf, FilesAssumed
  <2>3. QED  BY <1>3, <2>1, <2>2 DEF IsSound
<1>6. d \in Paths /\ d \in Seq(Nat)  BY <1>3, <1>5, DirsAre DEF IsTree, Paths
<1> DEFINE new == Append(d, F!Name(p))
<1>7. new \in Paths /\ F!Parent(new) = d  BY <1>4, <1>6, ChildIs
<1>8. p # new => ~F!Under(p, new)
  <2> HIDE DEF new
  <2>1. QED  BY <1>1, <1>4, <1>7, UnderParent
<1>9. F!CanSave(d) \in BOOLEAN  BY DEF F!CanSave
<1>10. QED  BY <1>1, <1>2, <1>4, <1>7, <1>8, <1>9, RelocateSafe

LEMMA RenameSafe ==
  ASSUME FilesAssumed, FilesInv, NEW p, NEW n \in F!FolderNames \union Collections, F!Rename(p, n)
  PROVE  FilesInv'
<1> DEFINE d == F!Parent(p)
           new == Append(d, n)
<1>1. /\ F!Ready /\ n # F!Name(p)
      /\ \E index, names : F!Relocate(p, d, n, index, names, F!Readable(d))
  BY DEF F!Rename
<1>2. PICK index, names : F!Relocate(p, d, n, index, names, F!Readable(d))  BY <1>1
<1>3. n \in Nat  BY DEF FilesAssumed, F!FolderNames
<1>4. ASSUME p \in Paths PROVE new \in Paths /\ ~F!Under(p, new)
  <2>1. d \in Seq(Nat) /\ Len(d) = Len(p) - 1  BY <1>4, ParentIs
  <2>2. /\ new \in Paths /\ Len(new) = Len(d) + 1 /\ F!Name(new) = n
    BY <1>3, <2>1, ChildIs
  <2>3. p \in Seq(Nat) /\ Len(p) \in Nat /\ new \in Seq(Nat)  BY <1>4, <2>2 DEF Paths
  <2>4. Len(new) = Len(p)  BY <2>1, <2>2, <2>3
  <2> HIDE DEF new, d
  <2>5. ASSUME F!Under(p, new) PROVE FALSE
    <3>1. \A i \in 1 .. Len(p) : p[i] = new[i]  BY <2>3, <2>5, UnderIs
    <3>2. p = new  BY <2>3, <2>4, <3>1, SamePath
    <3>3. QED  BY <1>1, <2>2, <3>2
  <2>6. QED  BY <2>2, <2>5
<1>5. F!Readable(d) \in BOOLEAN  BY DEF F!Readable
<1>6. QED  BY <1>1, <1>2, <1>3, <1>4, <1>5, RelocateSafe

LEMMA FilesMoveSafe ==
  ASSUME FilesAssumed, FilesInv, F!FilesMove
  PROVE  FilesInv'
<1> DEFINE old == operation.old
           new == operation.new
           roots == {F!Root(old), F!Root(new)}
<1>1. /\ operation # Idle /\ operation.does = "relocate"
      /\ old # new => F!CanTake(old, new)
      /\ tree' = IF old = new THEN tree ELSE F!Moved(F!Without(tree, new), old, new)
      /\ orders' = IF old = new THEN orders ELSE F!Moved(orders, old, new)
      /\ kept' = IF old # new /\ new \in DOMAIN tree THEN kept \ {tree[new]} ELSE kept
      /\ operation' = Idle /\ spoiled' = spoiled /\ F!Disturbs(roots)
  BY DEF F!FilesMove, F!Relocating, F!Ends
<1>2. IsSound(tree, orders, kept) /\ IsTree(tree) /\ ~spoiled  BY DEF FilesInv, IsSound
<1>3. MoveFits(operation)  BY <1>1 DEF FilesInv, OpFits, OpShape
<1> HIDE DEF old, new
<1>4. CASE old = new
  <2>1. tree' = tree /\ orders' = orders /\ kept' = kept  BY <1>1, <1>4
  <2>2. QED  BY <1>1, <1>2, <2>1, ButNothing, NoneSame, QuietStep
<1>5. CASE old # new
  <2>1. F!CanTake(old, new) /\ old \in DOMAIN tree  BY <1>1, <1>5 DEF F!CanTake
  <2>2. old \in Paths  BY <1>2, <2>1 DEF IsTree
  <2>3. new \in Paths /\ ~F!Under(old, new)  BY <1>3, <1>5, <2>2 DEF MoveFits, old, new
  <2>4. Replaces(tree, orders, old, new)
    BY <1>5, <2>1, <2>3 DEF Replaces, F!CanTake
  <2>5. /\ tree' = F!Moved(F!Without(tree, new), old, new) /\ orders' = F!Moved(orders, old, new)
        /\ kept' = IF new \in DOMAIN tree THEN kept \ {tree[new]} ELSE kept
    BY <1>1, <1>5
  <2>6. /\ kept' = kept \/ (new \in DOMAIN tree /\ kept' = kept \ {tree[new]})
        /\ new \in DOMAIN tree => tree[new] \notin kept'
    BY <2>5
  <2>7. /\ IsSound(tree', orders', kept')
        /\ \A q \in DOMAIN tree' : \E p \in DOMAIN tree : tree'[q] = tree[p]
        /\ SameBut(tree, tree', roots) /\ SameBut(orders, orders', roots)
    BY <1>2, <2>2, <2>3, <2>4, <2>5, <2>6, MovedTree
  <2>8. NoneOf(tree, tree')  BY <2>7 DEF NoneOf
  <2>9. QED  BY <1>1, <1>2, <2>7, <2>8, QuietStep
<1>6. QED  BY <1>4, <1>5

LEMMA FilesStaySafe ==
  ASSUME FilesAssumed, FilesInv, NEW undone, F!FilesStay(undone)
  PROVE  FilesInv'
<1> DEFINE d == F!Parent(operation.new)
           roots == Roots(operation)
           T == F!Part(tree, roots)
           O == F!Part(orders, roots)
<1>1. /\ operation # Idle /\ operation.does = "relocate"
      /\ orders' = IF undone THEN F!Restored ELSE orders
      /\ tree' = tree /\ kept' = kept /\ F!Fails(undone)
  BY DEF F!FilesStay, F!Relocating
<1>2. /\ operation' = Idle /\ import' = import /\ OpShape(operation)
      /\ import # Idle /\ import.alone => import.root \notin roots
      /\ \/ ~undone \/ ~operation.alone
         \/ operation.before = <<F!Part(tree', roots), F!Part(orders', roots)>>
         => ~spoiled'
      /\ operation.alone => Undoes(operation, T, O, kept)
  BY <1>1, FailsIs
<1>3. IsSound(tree, orders, kept) /\ IsTree(tree) /\ ~spoiled  BY DEF FilesInv, IsSound
<1>4. MoveFits(operation)  BY <1>1, <1>2 DEF OpShape
<1>5. operation.saves => F!Root(d) \in roots /\ DOMAIN operation.had \subseteq {d}
  BY <1>4, ParentIs DEF MoveFits, Roots
<1>6. F!Restored = IF ~operation.saves \/ d \notin F!Dirs(tree) THEN orders
                   ELSE WrittenAgain(orders, d, operation.had)
  BY DEF F!Restored, WrittenAgain
<1> HIDE DEF d, roots
<1>7. DOMAIN orders' \subseteq F!Dirs(tree) /\ SameBut(orders, orders', roots)
  <2>1. CASE orders' = orders  BY <1>3, <2>1, ButNothing DEF IsSound
  <2>2. CASE operation.saves /\ d \in F!Dirs(tree) /\ orders' = WrittenAgain(orders, d, operation.had)
    <3>1. /\ DOMAIN orders' = (DOMAIN orders \ {d}) \union DOMAIN operation.had
          /\ \A q \in DOMAIN orders' : q # d => orders'[q] = orders[q]
      BY <2>2 DEF WrittenAgain
    <3>2. DOMAIN operation.had \subseteq {d} /\ F!Root(d) \in roots  BY <1>5, <2>2
    <3>3. DOMAIN orders' \subseteq F!Dirs(tree)  BY <1>3, <2>2, <3>1, <3>2 DEF IsSound
    <3>4. \A q : F!Root(q) \notin roots => q # d  BY <3>2
    <3>5. SameBut(orders, orders', roots)  BY <3>1, <3>2, <3>4 DEF SameBut
    <3>6. QED  BY <3>3, <3>5
  <2>3. QED  BY <1>1, <1>6, <2>1, <2>2
<1>8. ~spoiled'
  <2>1. ASSUME undone, operation.alone
        PROVE  operation.before = <<F!Part(tree', roots), F!Part(orders', roots)>>
    <3>1. MoveUndoes(operation, T, O)  BY <1>1, <1>2, <2>1 DEF Undoes
    <3>2. operation.before = <<T, RestoredIn(operation, O)>>  BY <3>1 DEF MoveUndoes
    <3>3. T = F!Part(tree', roots)  BY <1>1
    <3>4. F!Part(orders', roots) = RestoredIn(operation, O)
      <4>1. CASE operation.saves
        <5>1. d \in F!Dirs(T)  BY <3>1, <4>1 DEF MoveUndoes, d
        <5>2. d \in F!Dirs(tree)
          <6>1. \A q \in DOMAIN T : q \in DOMAIN tree /\ T[q] = tree[q]  BY PartIs
          <6> HIDE DEF T
          <6>2. QED  BY <5>1, <6>1, DirsAre
        <5>3. orders' = WrittenAgain(orders, d, operation.had)
          BY <1>1, <1>6, <2>1, <4>1, <5>2
        <5>4. F!Part(WrittenAgain(orders, d, operation.had), roots) = WrittenAgain(O, d, operation.had)
          BY <1>5, <4>1, PartWritten
        <5>5. RestoredIn(operation, O) = WrittenAgain(O, d, operation.had)
          BY <4>1 DEF RestoredIn, WrittenAgain, d
        <5>6. QED  BY <5>3, <5>4, <5>5
      <4>2. CASE ~operation.saves
        <5>1. orders' = orders  BY <1>1, <1>6, <2>1, <4>2
        <5>2. RestoredIn(operation, O) = O  BY <4>2 DEF RestoredIn
        <5>3. QED  BY <5>1, <5>2
      <4>3. QED  BY <4>1, <4>2
    <3>5. QED  BY <3>2, <3>3, <3>4
  <2>2. QED  BY <1>2, <2>1
<1>9. IsSound(tree', orders', kept')  BY <1>1, <1>3, <1>7 DEF IsSound
<1>10. SameBut(tree, tree', roots) /\ NoneOf(tree, tree')  BY <1>1, ButNothing, NoneSame
<1>11. QED  BY <1>2, <1>7, <1>8, <1>9, <1>10, QuietStep

LEMMA DeleteSafe ==
  ASSUME FilesAssumed, FilesInv, NEW p, F!Delete(p)
  PROVE  FilesInv'
<1>1. /\ operation = Idle /\ operation' = Idle /\ spoiled' = spoiled /\ p \in DOMAIN tree
      /\ tree' = F!Without(tree, p) /\ orders' = F!Without(orders, p)
      /\ kept' = kept \ F!IdsUnder(tree, p) /\ F!Disturbs({F!Root(p)})
  BY DEF F!Delete, F!Ready
<1>2. IsSound(tree, orders, kept) /\ IsTree(tree) /\ ~spoiled  BY DEF FilesInv, IsSound
<1>3. /\ p \in Paths /\ \A q \in DOMAIN tree : q \in Paths
      /\ \A q \in DOMAIN orders : q \in Paths
  BY <1>1, <1>2, DirsAre DEF IsTree, IsSound
<1>4. IsSound(tree', orders', kept')  BY <1>1, <1>2, <1>3, WithoutTree
<1>5. /\ SameBut(tree, tree', {F!Root(p)}) /\ SameBut(orders, orders', {F!Root(p)})
      /\ NoneOf(tree, tree')
  BY <1>1, <1>3, ButWithout, NoneWithout
<1>6. QED  BY <1>1, <1>2, <1>4, <1>5, QuietStep

LEMMA DeletePartlySafe ==
  ASSUME FilesAssumed, FilesInv, NEW p, F!DeletePartly(p)
  PROVE  FilesInv'
<1>1. /\ operation = Idle /\ operation' = Idle /\ spoiled' = spoiled /\ F!Disturbs({F!Root(p)})
      /\ \E q \in F!Children(tree, p) :
           /\ tree' = F!Without(tree, q) /\ orders' = F!Without(orders, q)
           /\ kept' = kept \ F!IdsUnder(tree, q)
  BY DEF F!DeletePartly, F!Ready
<1>2. PICK q \in F!Children(tree, p) :
           /\ tree' = F!Without(tree, q) /\ orders' = F!Without(orders, q)
           /\ kept' = kept \ F!IdsUnder(tree, q)
  BY <1>1
<1>3. IsSound(tree, orders, kept) /\ IsTree(tree) /\ ~spoiled  BY DEF FilesInv, IsSound
<1>4. /\ q \in Paths /\ \A r \in DOMAIN tree : r \in Paths
      /\ \A r \in DOMAIN orders : r \in Paths
  BY <1>2, <1>3, DirsAre DEF IsTree, IsSound, F!Children
<1>5. F!Root(q) = F!Root(p)  BY <1>2, <1>4, ParentIs DEF F!Children
<1>6. IsSound(tree', orders', kept')  BY <1>2, <1>3, <1>4, WithoutTree
<1>7. /\ SameBut(tree, tree', {F!Root(p)}) /\ SameBut(orders, orders', {F!Root(p)})
      /\ NoneOf(tree, tree')
  <2>1. SameBut(tree, tree', {F!Root(q)}) /\ SameBut(orders, orders', {F!Root(q)})
    BY <1>2, <1>4, ButWithout
  <2>2. QED  BY <1>2, <1>5, <2>1, NoneWithout
<1>8. QED  BY <1>1, <1>3, <1>6, <1>7, QuietStep

-----------------------------------------------------------------------------
\* What others do, and the import among them.
LEMMA BesideStep ==
  ASSUME FilesInv, NEW c, SameBut(tree, tree', {c}), SameBut(orders, orders', {c}),
         NoneKept(tree, kept, kept'), operation' = F!Beside(c)
  PROVE  /\ OpFits(operation', tree', orders', kept')
         /\ operation' # Idle => operation # Idle /\ Roots(operation') = Roots(operation)
<1>1. operation' = Aside(operation, c)  BY DEF F!Beside, Roots, Aside
<1>2. OpFits(operation, tree, orders, kept)  BY DEF FilesInv
<1>3. /\ OpFits(Aside(operation, c), tree', orders', kept')
      /\ Aside(operation, c) # Idle => operation # Idle /\ Roots(Aside(operation, c)) = Roots(operation)
  BY <1>2, OpStays
<1>4. QED  BY <1>1, <1>3

LEMMA OutsideStep ==
  ASSUME FilesAssumed, FilesInv, NEW c, F!Touches(c),
         SameBut(tree, tree', {c}), SameBut(orders, orders', {c}), NoneOf(tree, tree'),
         NoneKept(tree, kept, kept'),
         IsSound(tree', orders', kept')
  PROVE  FilesInv'
<1>1. operation' = F!Beside(c) /\ spoiled' = spoiled /\ F!Disturbs({c})  BY DEF F!Touches
<1>2. /\ OpFits(operation', tree', orders', kept')
      /\ operation' # Idle => operation # Idle /\ Roots(operation') = Roots(operation)
  BY <1>1, BesideStep
<1>3. ImpFits(import, operation, tree, orders) /\ ~spoiled  BY DEF FilesInv
<1>4. ImpFits(import', operation', tree', orders')
  BY <1>1, <1>2, <1>3, ImpStays DEF F!Disturbs
<1>5. QED  BY <1>1, <1>2, <1>3, <1>4 DEF FilesInv

LEMMA OutsideAddSafe ==
  ASSUME FilesAssumed, FilesInv, NEW d, NEW n \in Files, F!OutsideAdd(d, n)
  PROVE  FilesInv'
<1> DEFINE p == Append(d, n)
<1>1. /\ d \in F!Dirs(tree) /\ p \notin DOMAIN tree /\ orders' = orders /\ F!Touches(F!Root(d))
      /\ \E r \in F!FreshIds : tree' = F!With(tree, p, r) /\ kept' = kept \union {r}
  BY DEF F!OutsideAdd
<1>2. PICK r \in F!FreshIds : tree' = F!With(tree, p, r) /\ kept' = kept \union {r}  BY <1>1
<1>3. IsSound(tree, orders, kept) /\ IsTree(tree) /\ HasAll(tree, kept)
  BY DEF FilesInv, IsSound
<1>4. n \in Nat /\ d \in Paths /\ d \in Seq(Nat)
  BY <1>1, <1>3, DirsAre DEF IsTree, Paths, FilesAssumed
<1>5. p \in Paths /\ F!Parent(p) = d /\ F!Root(p) = F!Root(d)  BY <1>4, ChildIs
<1>6. /\ \A i \in DOMAIN ImportedItems : r # Imported(i)
      /\ r = F!Folder \/ \A q \in DOMAIN tree : tree[q] # r
  BY NewItem
<1> HIDE DEF p
<1>7. r # F!Folder => /\ IsSound(tree', orders', kept')
                      /\ NoneKept(tree, kept, kept')
  <2>1. r # F!Folder => IsSound(F!With(tree, p, r), orders, kept \union {r})
    BY <1>1, <1>3, <1>5, <1>6, WithTree
  <2>2. r # F!Folder => NoneKept(tree, kept, kept')  BY <1>2, <1>6 DEF NoneKept
  <2>3. QED  BY <1>1, <1>2, <2>1, <2>2
<1>8. r # F!Folder  BY DEF F!FreshIds, FilesAssumed
<1>9. /\ SameBut(tree, tree', {F!Root(d)}) /\ SameBut(orders, orders', {F!Root(d)})
      /\ NoneOf(tree, tree')
  <2>1. SameBut(tree, tree', {F!Root(p)})  BY <1>2, ButWith
  <2>2. QED  BY <1>1, <1>2, <1>5, <1>6, <2>1, ButNothing, NoneWith
<1>10. QED  BY <1>1, <1>7, <1>8, <1>9, OutsideStep

LEMMA OutsideRemoveSafe ==
  ASSUME FilesAssumed, FilesInv, NEW p, F!OutsideRemove(p)
  PROVE  FilesInv'
<1>1. /\ p \in DOMAIN tree /\ tree' = F!Without(tree, p) /\ orders' = F!Without(orders, p)
      /\ kept' = kept \ F!IdsUnder(tree, p) /\ F!Touches(F!Root(p))
  BY DEF F!OutsideRemove
<1>2. IsSound(tree, orders, kept) /\ IsTree(tree)  BY DEF FilesInv, IsSound
<1>3. /\ p \in Paths /\ \A q \in DOMAIN tree : q \in Paths
      /\ \A q \in DOMAIN orders : q \in Paths
  BY <1>1, <1>2, DirsAre DEF IsTree, IsSound
<1>4. IsSound(tree', orders', kept')  BY <1>1, <1>2, <1>3, WithoutTree
<1>5. /\ SameBut(tree, tree', {F!Root(p)}) /\ SameBut(orders, orders', {F!Root(p)})
      /\ NoneOf(tree, tree')
  BY <1>1, <1>3, ButWithout, NoneWithout
<1>6. NoneKept(tree, kept, kept')  BY <1>1 DEF NoneKept
<1>7. QED  BY <1>1, <1>4, <1>5, <1>6, OutsideStep

LEMMA OutsideOrderSafe ==
  ASSUME FilesAssumed, FilesInv, NEW d, F!OutsideOrder(d)
  PROVE  FilesInv'
<1>1. /\ d \in F!Dirs(tree) /\ tree' = tree /\ kept' = kept /\ F!Touches(F!Root(d))
      /\ orders' = F!With(orders, d, Unreadable) \/ orders' = F!Dropped(orders, d)
  BY DEF F!OutsideOrder
<1>2. IsSound(tree, orders, kept)  BY DEF FilesInv
<1>3. DOMAIN orders' \subseteq F!Dirs(tree) /\ SameBut(orders, orders', {F!Root(d)})
  <2>1. CASE orders' = F!With(orders, d, Unreadable)
    <3>1. DOMAIN orders' = DOMAIN orders \union {d}  BY <2>1 DEF F!With
    <3>2. QED  BY <1>1, <1>2, <2>1, <3>1, ButWith DEF IsSound
  <2>2. CASE orders' = F!Dropped(orders, d)
    <3>1. /\ DOMAIN orders' = DOMAIN orders \ {d}
          /\ \A q \in DOMAIN orders' : orders'[q] = orders[q]
      BY <2>2 DEF F!Dropped
    <3>2. \A q : F!Root(q) \notin {F!Root(d)} => q # d  OBVIOUS
    <3>3. QED  BY <1>2, <3>1, <3>2 DEF IsSound, SameBut
  <2>3. QED  BY <1>1, <2>1, <2>2
<1>4. IsSound(tree', orders', kept')  BY <1>1, <1>2, <1>3 DEF IsSound
<1>5. SameBut(tree, tree', {F!Root(d)}) /\ NoneOf(tree, tree')  BY <1>1, ButNothing, NoneSame
<1>6. NoneKept(tree, kept, kept')  BY <1>1 DEF NoneKept
<1>7. QED  BY <1>1, <1>3, <1>4, <1>5, <1>6, OutsideStep

-----------------------------------------------------------------------------
\* What an import's items are.
LEMMA ItemsAre ==
  ASSUME FilesAssumed
  PROVE  /\ Len(ImportedItems) \in Nat /\ DOMAIN ImportedItems = 1 .. Len(ImportedItems)
         /\ \A i \in DOMAIN ImportedItems :
              /\ ImportedItems[i].name \in Nat /\ Imported(i) # F!Folder
              /\ Imported(i) \in F!ImportedIds
         /\ \A i, j \in DOMAIN ImportedItems : Imported(i) = Imported(j) => i = j
<1> DEFINE S == [name : Nat, request : FileRequests]
<1>0. ImportedItems \in Seq(S)  BY DEF FilesAssumed
<1>1. /\ Len(ImportedItems) \in Nat /\ DOMAIN ImportedItems = 1 .. Len(ImportedItems)
      /\ \A i \in DOMAIN ImportedItems : ImportedItems[i] \in S
  <2> HIDE DEF S
  <2>1. QED  BY <1>0
<1>2. ASSUME NEW i \in DOMAIN ImportedItems
      PROVE  /\ ImportedItems[i].name \in Nat /\ Imported(i) # F!Folder
             /\ Imported(i) \in F!ImportedIds
  <2>1. ImportedItems[i] \in S  BY <1>1
  <2>2. ImportedItems[i].name \in Nat /\ ImportedItems[i].request \in FileRequests  BY <2>1
  <2>3. QED  BY <2>2 DEF FilesAssumed, Imported, F!ImportedIds
<1>3. QED  BY <1>1, <1>2 DEF FilesAssumed, Imported

LEMMA RootPath ==
  ASSUME FilesAssumed, NEW c \in Collections
  PROVE  /\ c \in Nat /\ <<c>> \in Paths /\ <<c>> \in Seq(Nat) /\ Append(<<>>, c) = <<c>>
         /\ Len(<<c>>) = 1 /\ F!Root(<<c>>) = c
<1>1. c \in Nat  BY DEF FilesAssumed
<1>2. /\ <<c>> \in Seq(Nat) /\ <<c>> # <<>> /\ Append(<<>>, c) = <<c>> /\ Len(<<c>>) = 1
      /\ Head(<<c>>) = c
  BY <1>1
<1>3. QED  BY <1>1, <1>2 DEF Paths, F!Root

LEMMA StartImportSafe ==
  ASSUME FilesAssumed, FilesInv, NEW c \in Collections, F!StartImport(c)
  PROVE  FilesInv'
<1> DEFINE imp == [root |-> c, names |-> <<>>, step |-> "items", got |-> <<>>, alone |-> TRUE]
           T == F!Part(tree', {c})
           O == F!Part(orders', {c})
<1>1. /\ operation = Idle /\ orders' = orders /\ kept' = kept /\ spoiled' = spoiled
      /\ Append(<<>>, c) \notin DOMAIN tree /\ tree' = F!With(tree, <<c>>, F!Folder)
      /\ operation' = F!Beside(c) /\ import' = imp
      /\ F!ImportedIds \intersect (kept \union {tree[p] : p \in DOMAIN tree}) = {}
  BY DEF F!StartImport, F!Ready, F!IsFirstFree, F!Free, F!Writes, F!ImportUnchanged
<1>2. /\ c \in Nat /\ <<c>> \in Paths /\ <<c>> \in Seq(Nat) /\ Append(<<>>, c) = <<c>>
      /\ ~(Len(<<c>>) > 1) /\ F!Root(<<c>>) = c
  BY RootPath
<1>3. IsSound(tree, orders, kept) /\ IsTree(tree) /\ ~spoiled  BY DEF FilesInv, IsSound
<1>4. IsSound(tree', orders', kept')
  <2>1. IsSound(F!With(tree, <<c>>, F!Folder), orders, kept)
    BY <1>1, <1>2, <1>3, WithTree
  <2>2. QED  BY <1>1, <2>1
<1>5. operation' = Idle  BY <1>1 DEF F!Beside
<1>6. /\ DOMAIN tree' = DOMAIN tree \union {<<c>>} /\ tree'[<<c>>] = F!Folder
      /\ \A q \in DOMAIN tree : q # <<c>> => tree'[q] = tree[q]
  BY <1>1 DEF F!With
<1>7. /\ imp.root = c /\ imp.names = <<>> /\ imp.step = "items" /\ imp.alone = TRUE
      /\ "root" \in DOMAIN imp /\ "names" \in DOMAIN imp /\ "step" \in DOMAIN imp
      /\ "got" \in DOMAIN imp /\ "alone" \in DOMAIN imp
  OBVIOUS
<1> HIDE DEF imp
<1>8. <<>> \in Seq(Nat) /\ Len(<<>>) = 0 /\ DOMAIN <<>> = {}  OBVIOUS
<1>9. ImpShape(imp)  BY <1>7, <1>8, ItemsAre DEF ImpShape
<1>10. Unwritten(imp, tree')
  <2>1. \A i \in DOMAIN ImportedItems : \A p \in DOMAIN tree' : tree'[p] # Imported(i)
    BY <1>1, <1>6, ItemsAre
  <2>2. Len(imp.names) + 1 .. Len(ImportedItems) = DOMAIN ImportedItems  BY <1>7, <1>8, ItemsAre
  <2>3. QED  BY <2>1, <2>2 DEF Unwritten
<1>11. /\ \A q : q \in DOMAIN T <=> q \in DOMAIN tree' /\ F!Root(q) \in {c}
       /\ \A q : q \in DOMAIN O <=> q \in DOMAIN orders' /\ F!Root(q) \in {c}
  BY PartIs
<1> HIDE DEF T, O
<1>12. <<c>> \in DOMAIN T  BY <1>2, <1>6, <1>11
<1>13. <<c>> \notin DOMAIN O
  <2>1. \A q \in DOMAIN orders : q \in DOMAIN tree  BY <1>3, DirsAre DEF IsSound
  <2>2. QED  BY <1>1, <1>2, <1>11, <2>1
<1>14. ImpHas(imp, T)
  <2>1. ASSUME NEW q \in F!Children(T, <<c>>) PROVE FALSE
    <3>1. q \in DOMAIN tree' /\ Len(q) > 1 /\ F!Parent(q) = <<c>>  BY <1>11 DEF F!Children
    <3>2. q # <<c>>  BY <1>2, <3>1
    <3>3. q \in DOMAIN tree  BY <1>6, <3>1, <3>2
    <3>4. <<c>> \in DOMAIN tree  BY <1>3, <3>1, <3>3, DirsAre DEF IsTree
    <3>5. QED  BY <1>1, <1>2, <3>4
  <2>2. QED  BY <1>7, <1>8, <2>1 DEF ImpHas
<1>15. ImpRight(imp, T, O)  BY <1>7, <1>8, <1>12, <1>13, <1>14 DEF ImpRight
<1>16. ImpFits(import', operation', tree', orders')
  BY <1>1, <1>5, <1>7, <1>9, <1>10, <1>15 DEF ImpFits, T, O
<1>17. OpFits(operation', tree', orders', kept')  BY <1>5 DEF OpFits
<1>18. QED  BY <1>1, <1>3, <1>4, <1>16, <1>17 DEF FilesInv

LEMMA WriteItemSafe ==
  ASSUME FilesAssumed, FilesInv, F!WriteItem
  PROVE  FilesInv'
<1> DEFINE c == import.root
           k == Len(import.names)
           x == Imported(k + 1)
<1>0. /\ import # Idle /\ import.step = "items" /\ <<c>> \in F!Dirs(tree)
      /\ k < Len(ImportedItems)
  BY DEF F!WriteItem, F!Importing, F!ImportDir
<1>1. \E n \in Files :
        /\ Append(<<c>>, n) \notin DOMAIN tree /\ ~F!Excluded(Append(<<c>>, n))
        /\ tree' = F!With(tree, Append(<<c>>, n), x)
        /\ import' = [import EXCEPT !.names = Append(@, n)]
        /\ kept' = kept \union {x}
  BY DEF F!WriteItem, F!ImportDir, F!IsFirstFree, F!Free, Imported
<1>2. PICK n \in Files :
        /\ Append(<<c>>, n) \notin DOMAIN tree /\ ~F!Excluded(Append(<<c>>, n))
        /\ tree' = F!With(tree, Append(<<c>>, n), x)
        /\ import' = [import EXCEPT !.names = Append(@, n)]
        /\ kept' = kept \union {x}
  BY <1>1
<1>3. operation' = F!Beside(c) /\ orders' = orders /\ spoiled' = spoiled
  BY DEF F!WriteItem, F!Writes, F!ImportUnchanged
<1>4. /\ IsSound(tree, orders, kept) /\ IsTree(tree) /\ ~spoiled
      /\ ImpShape(import) /\ Unwritten(import, tree)
  BY <1>0 DEF FilesInv, IsSound, ImpFits
<1>5. import.names \in Seq(Nat) /\ k \in Nat /\ DOMAIN import.names = 1 .. k /\ c \in Collections
  BY <1>4 DEF ImpShape
<1>6. /\ c \in Nat /\ <<c>> \in Paths /\ <<c>> \in Seq(Nat) /\ Len(<<c>>) = 1 /\ F!Root(<<c>>) = c
  BY <1>5, RootPath
<1> DEFINE p == Append(<<c>>, n)
           names == Append(import.names, n)
<1>7. n \in Nat  BY DEF FilesAssumed
<1>8. /\ p \in Paths /\ Len(p) = 2 /\ F!Parent(p) = <<c>> /\ F!Name(p) = n /\ F!Root(p) = c
      /\ Len(p) > 1
  <2>1. /\ p \in Paths /\ Len(p) = Len(<<c>>) + 1 /\ F!Parent(p) = <<c>> /\ F!Name(p) = n
        /\ F!Root(p) = F!Root(<<c>>)
    BY <1>6, <1>7, ChildIs
  <2> HIDE DEF p
  <2>2. QED  BY <1>6, <2>1
<1>9. n # Reserved  BY <1>2, <1>8 DEF F!Excluded
<1>10. /\ names \in Seq(Nat) /\ Len(names) = k + 1 /\ DOMAIN names = 1 .. k + 1
       /\ names[k + 1] = n /\ \A i \in 1 .. k : names[i] = import.names[i]
  BY <1>5, <1>7
<1>11. /\ Len(ImportedItems) \in Nat /\ DOMAIN ImportedItems = 1 .. Len(ImportedItems)
       /\ \A i \in DOMAIN ImportedItems : Imported(i) # F!Folder
       /\ \A i, j \in DOMAIN ImportedItems : Imported(i) = Imported(j) => i = j
  BY ItemsAre
<1> HIDE DEF names, p, k, c
<1>12. /\ x # F!Folder /\ \A q \in DOMAIN tree : tree[q] # x
       /\ \A i \in k + 2 .. Len(ImportedItems) : Imported(i) # x
  <2>1. k + 1 \in DOMAIN ImportedItems /\ k + 1 \in Len(import.names) + 1 .. Len(ImportedItems)
    BY <1>0, <1>5, <1>11 DEF k
  <2>2. \A q \in DOMAIN tree : tree[q] # x  BY <1>4, <2>1 DEF Unwritten
  <2>3. \A i \in k + 2 .. Len(ImportedItems) : i \in DOMAIN ImportedItems /\ i # k + 1
    BY <1>5, <1>11
  <2>4. QED  BY <1>11, <2>1, <2>2, <2>3
<1>13. tree' = F!With(tree, p, x) /\ p \notin DOMAIN tree  BY <1>2 DEF p
<1> HIDE DEF x
<1>14. IsSound(tree', orders', kept')
  <2>1. IsSound(F!With(tree, p, x), orders, kept \union {x})
    BY <1>0, <1>4, <1>8, <1>12, <1>13, WithTree
  <2>2. QED  BY <1>2, <1>3, <1>13, <2>1
<1>15. SameBut(tree, tree', {c}) /\ SameBut(orders, orders', {c})
  <2>1. SameBut(tree, tree', {F!Root(p)})  BY <1>13, ButWith
  <2>2. QED  BY <1>3, <1>8, <2>1, ButNothing
<1>16. /\ OpFits(operation', tree', orders', kept')
       /\ operation' # Idle => operation # Idle /\ Roots(operation') = Roots(operation)
  <2>1. NoneKept(tree, kept, kept')  BY <1>2, <1>12 DEF NoneKept
  <2>2. QED  BY <1>3, <1>15, <2>1, BesideStep
<1>17. /\ import'.root = c /\ import'.names = names /\ import'.step = "items"
       /\ import'.alone = import.alone /\ DOMAIN import' = DOMAIN import
  BY <1>0, <1>2, <1>4 DEF ImpShape, names, c
<1>18. ImpShape(import')
  BY <1>0, <1>4, <1>5, <1>10, <1>11, <1>17 DEF ImpShape
<1>19. /\ DOMAIN tree' = DOMAIN tree \union {p} /\ tree'[p] = x
       /\ \A q \in DOMAIN tree : tree'[q] = tree[q]
  <2>1. /\ DOMAIN tree' = DOMAIN tree \union {p} /\ tree'[p] = x
        /\ \A q \in DOMAIN tree : q # p => tree'[q] = tree[q]
    BY <1>13 DEF F!With
  <2>2. QED  BY <1>13, <2>1
<1>20. Unwritten(import', tree')
  <2> SUFFICES ASSUME NEW i \in Len(import'.names) + 1 .. Len(ImportedItems), NEW q \in DOMAIN tree'
               PROVE  tree'[q] # Imported(i)
    BY DEF Unwritten
  <2>1. Len(import'.names) = k + 1  BY <1>10, <1>17
  <2>2. i \in k + 2 .. Len(ImportedItems) /\ i \in Len(import.names) + 1 .. Len(ImportedItems)
    BY <1>5, <1>11, <2>1 DEF k
  <2>3. CASE q \in DOMAIN tree  BY <1>4, <1>19, <2>2, <2>3 DEF Unwritten
  <2>4. CASE q = p  BY <1>12, <1>19, <2>2, <2>4
  <2>5. QED  BY <1>19, <2>3, <2>4
<1>21. ASSUME import.alone
       PROVE  /\ operation # Idle => c \notin Roots(operation)
              /\ ImpRight(import', F!Part(tree', {c}), F!Part(orders', {c}))
  <2> DEFINE T == F!Part(tree, {c})
             O == F!Part(orders, {c})
             U == F!Part(tree', {c})
  <2>1. /\ operation # Idle => c \notin Roots(operation)
        /\ ImpRight(import, T, O)
    BY <1>0, <1>21 DEF FilesInv, ImpFits, c
  <2>2. /\ \A q : q \in DOMAIN T <=> q \in DOMAIN tree /\ F!Root(q) \in {c}
        /\ \A q \in DOMAIN T : T[q] = tree[q]
        /\ \A q : q \in DOMAIN U <=> q \in DOMAIN tree' /\ F!Root(q) \in {c}
        /\ \A q \in DOMAIN U : U[q] = tree'[q]
    BY PartIs
  <2> HIDE DEF T, O, U
  <2>3. /\ \A q : q \in DOMAIN U <=> q \in DOMAIN T \/ q = p
        /\ U[p] = x /\ \A q \in DOMAIN T : U[q] = T[q]
    BY <1>8, <1>19, <2>2
  <2>4. /\ <<c>> \in DOMAIN T /\ ImpHas(import, T) /\ <<c>> \notin DOMAIN O
        /\ \A i, j \in DOMAIN import.names : import.names[i] = import.names[j] => i = j
        /\ \A i \in DOMAIN import.names : import.names[i] # Reserved
    BY <1>0, <2>1 DEF ImpRight, c
  <2>5. \A i \in 1 .. k : /\ Append(<<c>>, import.names[i]) \in DOMAIN T
                          /\ T[Append(<<c>>, import.names[i])] = Imported(i)
    BY <1>5, <2>4 DEF ImpHas, c
  <2>6. \A i \in 1 .. k : import.names[i] # n
    BY <1>13, <2>2, <2>5 DEF p
  <2>7. \A i \in 1 .. k + 1 : i \in 1 .. k \/ i = k + 1  BY <1>5
  <2>8. \A i, j \in DOMAIN names : names[i] = names[j] => i = j
    BY <1>5, <1>10, <2>4, <2>6, <2>7
  <2>9. \A i \in DOMAIN names : names[i] # Reserved
    BY <1>5, <1>9, <1>10, <2>4, <2>7
  <2>10. \A i \in DOMAIN names : /\ Append(<<c>>, names[i]) \in DOMAIN U
                                 /\ U[Append(<<c>>, names[i])] = Imported(i)
    <3>1. ASSUME NEW i \in 1 .. k
          PROVE  /\ Append(<<c>>, names[i]) \in DOMAIN U
                 /\ U[Append(<<c>>, names[i])] = Imported(i)
      BY <1>10, <2>3, <2>5
    <3>2. /\ Append(<<c>>, names[k + 1]) \in DOMAIN U
          /\ U[Append(<<c>>, names[k + 1])] = Imported(k + 1)
      BY <1>10, <2>3 DEF p, x
    <3>3. QED  BY <1>10, <2>7, <3>1, <3>2
  <2>11. ASSUME NEW q \in F!Children(U, <<c>>)
         PROVE  \E i \in DOMAIN names : q = Append(<<c>>, names[i])
    <3>1. CASE q = p
      <4>1. k + 1 \in DOMAIN names /\ names[k + 1] = n  BY <1>5, <1>10
      <4>2. QED  BY <3>1, <4>1 DEF p
    <3>2. CASE q # p
      <4>1. q \in F!Children(T, <<c>>)  BY <2>3, <2>11, <3>2 DEF F!Children
      <4>2. PICK i \in DOMAIN import.names : q = Append(<<c>>, import.names[i])
        BY <2>4, <4>1 DEF ImpHas, c
      <4>3. i \in DOMAIN names /\ names[i] = import.names[i]  BY <1>5, <1>10
      <4>4. QED  BY <4>2, <4>3
    <3>3. QED  BY <3>1, <3>2
  <2>12. ImpHas(import', U)  BY <1>17, <2>10, <2>11 DEF ImpHas
  <2>13. ImpRight(import', U, O)
    BY <1>17, <2>3, <2>4, <2>8, <2>9, <2>12 DEF ImpRight
  <2>14. QED  BY <1>3, <2>1, <2>13 DEF U, O
<1>22. ImpFits(import', operation', tree', orders')
  BY <1>16, <1>17, <1>18, <1>20, <1>21 DEF ImpFits
<1>23. QED  BY <1>3, <1>4, <1>14, <1>16, <1>22 DEF FilesInv

LEMMA SaveImportedOrderSafe ==
  ASSUME FilesAssumed, FilesInv, F!SaveImportedOrder
  PROVE  FilesInv'
<1> DEFINE c == import.root
<1>1. /\ import # Idle /\ import.step = "items" /\ <<c>> \in F!Dirs(tree)
      /\ Len(import.names) = Len(ImportedItems)
      /\ orders' = IF F!CanSave(<<c>>) THEN F!With(orders, <<c>>, import.names) ELSE orders
      /\ import' = [import EXCEPT !.step = "read"]
      /\ operation' = F!Beside(c) /\ tree' = tree /\ kept' = kept /\ spoiled' = spoiled
  BY DEF F!SaveImportedOrder, F!Importing, F!ImportDir, F!Writes, F!ImportUnchanged
<1>2. /\ IsSound(tree, orders, kept) /\ IsTree(tree) /\ ~spoiled
      /\ ImpShape(import) /\ Unwritten(import, tree)
  BY <1>1 DEF FilesInv, IsSound, ImpFits
<1>3. c \in Collections  BY <1>2 DEF ImpShape
<1>4. F!Root(<<c>>) = c  BY <1>3, RootPath
<1>5. SameBut(tree, tree', {c}) /\ SameBut(orders, orders', {c})
  <2>1. SameBut(orders, F!With(orders, <<c>>, import.names), {F!Root(<<c>>)})  BY ButWith
  <2>2. QED  BY <1>1, <1>4, <2>1, ButNothing
<1>6. DOMAIN orders' \subseteq F!Dirs(tree)
  <2>1. DOMAIN F!With(orders, <<c>>, import.names) = DOMAIN orders \union {<<c>>}  BY DEF F!With
  <2>2. QED  BY <1>1, <1>2, <2>1 DEF IsSound
<1>7. IsSound(tree', orders', kept')  BY <1>1, <1>2, <1>6 DEF IsSound
<1>8. /\ OpFits(operation', tree', orders', kept')
      /\ operation' # Idle => operation # Idle /\ Roots(operation') = Roots(operation)
  <2>1. NoneKept(tree, kept, kept')  BY <1>1 DEF NoneKept
  <2>2. QED  BY <1>1, <1>5, <2>1, BesideStep
<1>9. /\ import'.root = c /\ import'.names = import.names /\ import'.step = "read"
      /\ import'.alone = import.alone /\ DOMAIN import' = DOMAIN import
  BY <1>1, <1>2 DEF ImpShape
<1>10. ImpShape(import') /\ Unwritten(import', tree')
  BY <1>1, <1>2, <1>9 DEF ImpShape, Unwritten
<1>11. ASSUME import.alone
       PROVE  /\ operation # Idle => c \notin Roots(operation)
              /\ ImpRight(import', F!Part(tree', {c}), F!Part(orders', {c}))
  <2> DEFINE T == F!Part(tree, {c})
             O == F!Part(orders, {c})
             V == F!Part(orders', {c})
  <2>1. /\ operation # Idle => c \notin Roots(operation)
        /\ ImpRight(import, T, O)
    BY <1>1, <1>11 DEF FilesInv, ImpFits
  <2>2. /\ \A q : q \in DOMAIN O <=> q \in DOMAIN orders /\ F!Root(q) \in {c}
        /\ \A q : q \in DOMAIN V <=> q \in DOMAIN orders' /\ F!Root(q) \in {c}
        /\ \A q \in DOMAIN V : V[q] = orders'[q]
    BY PartIs
  <2> HIDE DEF T, O, V
  <2>3. /\ <<c>> \in DOMAIN T /\ ImpHas(import, T) /\ <<c>> \notin DOMAIN O
        /\ \A i, j \in DOMAIN import.names : import.names[i] = import.names[j] => i = j
        /\ \A i \in DOMAIN import.names : import.names[i] # Reserved
    BY <1>1, <2>1 DEF ImpRight
  <2>4. F!CanSave(<<c>>)
    <3>1. <<c>> \notin DOMAIN orders  BY <1>4, <2>2, <2>3
    <3>2. QED  BY <3>1 DEF F!CanSave, F!OrderOf, FilesAssumed
  <2>5. <<c>> \in DOMAIN orders' /\ orders'[<<c>>] = import.names
    BY <1>1, <2>4 DEF F!With
  <2>6. <<c>> \in DOMAIN V /\ V[<<c>>] = import.names  BY <1>4, <2>2, <2>5
  <2>7. ImpHas(import', T)  BY <1>9, <2>3 DEF ImpHas
  <2>8. ImpRight(import', T, V)
    BY <1>1, <1>9, <2>3, <2>6, <2>7 DEF ImpRight
  <2>9. QED  BY <1>1, <2>1, <2>8 DEF T, V
<1>12. ImpFits(import', operation', tree', orders')
  BY <1>8, <1>9, <1>10, <1>11 DEF ImpFits
<1>13. QED  BY <1>1, <1>2, <1>7, <1>8, <1>12 DEF FilesInv

-----------------------------------------------------------------------------
\* A folder that is listed in full is shown as it is listed.
LEMMA CardinalityIs ==
  ASSUME NEW S
  PROVE  F!Cardinality(S) = Cardinality(S)
BY DEF F!Cardinality, Cardinality

LEMMA StartsCount ==
  ASSUME NEW s \in Seq(Nat), \A i, j \in DOMAIN s : s[i] = s[j] => i = j, NEW k \in 0 .. Len(s)
  PROVE  Cardinality({s[j] : j \in 1 .. k}) = k
<1> DEFINE T == {s[j] : j \in 1 .. k}
           f == [j \in 1 .. k |-> s[j]]
<1>1. DOMAIN s = 1 .. Len(s) /\ Len(s) \in Nat /\ k \in Nat  OBVIOUS
<1>2. 1 .. k \subseteq DOMAIN s  BY <1>1
<1>3. f \in [1 .. k -> T]  OBVIOUS
<1>4. \A i, j \in 1 .. k : f[i] = f[j] => i = j  BY <1>2
<1>5. \A y \in T : \E j \in 1 .. k : f[j] = y  OBVIOUS
<1> HIDE DEF f, T
<1>6. f \in Injection(1 .. k, T)  BY <1>3, <1>4 DEF Injection, IsInjective
<1>7. f \in Surjection(1 .. k, T)  BY <1>3, <1>5 DEF Surjection
<1>8. f \in Bijection(1 .. k, T)  BY <1>6, <1>7 DEF Bijection
<1>9. ExistsBijection(1 .. k, T)  BY <1>8 DEF ExistsBijection
<1>10. Cardinality(T) = k  BY <1>1, <1>9, FS_CountingElements
<1>11. QED  BY <1>10 DEF T

LEMMA PositionIs ==
  ASSUME NEW s \in Seq(Nat), \A i, j \in DOMAIN s : s[i] = s[j] => i = j, NEW i \in DOMAIN s
  PROVE  F!Position(s, s[i]) = i
<1> DEFINE P(x) == s[x] = s[i] /\ \A j \in DOMAIN s : s[j] = s[i] => j <= x
<1>1. i \in Nat /\ P(i) /\ \A x \in DOMAIN s : P(x) => x = i  OBVIOUS
<1>2. F!Position(s, s[i]) = CHOOSE x \in DOMAIN s : P(x)  BY DEF F!Position
<1> HIDE DEF P
<1>3. QED  BY <1>1, <1>2

LEMMA ApplyIs ==
  ASSUME NEW s \in Seq(Nat), \A i, j \in DOMAIN s : s[i] = s[j] => i = j,
         NEW S, S = {s[i] : i \in DOMAIN s}
  PROVE  F!Apply(S, s) = s
<1> DEFINE Before(a, b) == \/ F!Position(s, a) < F!Position(s, b)
                           \/ F!Position(s, a) = F!Position(s, b) /\ a < b
           Place(i) == CHOOSE n \in S : F!Cardinality({m \in S : Before(m, n)}) = i - 1
<1>1. DOMAIN s = 1 .. Len(s) /\ Len(s) \in Nat /\ \A i \in DOMAIN s : s[i] \in Nat /\ i \in Nat
  OBVIOUS
<1>2. F!Apply(S, s) = [i \in 1 .. F!Cardinality(S) |-> Place(i)]  BY DEF F!Apply
<1>3. \A i, j \in DOMAIN s : Before(s[j], s[i]) <=> j < i
  <2>1. \A i \in DOMAIN s : F!Position(s, s[i]) = i  BY PositionIs
  <2>2. QED  BY <1>1, <2>1
<1> HIDE DEF Before
<1>4. F!Cardinality(S) = Len(s)
  <2>1. Len(s) \in 0 .. Len(s)  BY <1>1
  <2>2. Cardinality({s[j] : j \in 1 .. Len(s)}) = Len(s)  BY <2>1, StartsCount
  <2>3. QED  BY <1>1, <2>2, CardinalityIs
<1>5. ASSUME NEW i \in DOMAIN s PROVE F!Cardinality({m \in S : Before(m, s[i])}) = i - 1
  <2>1. i - 1 \in 0 .. Len(s)  BY <1>1
  <2>2. {m \in S : Before(m, s[i])} = {s[j] : j \in 1 .. i - 1}
    <3>1. ASSUME NEW m \in S, Before(m, s[i]) PROVE m \in {s[j] : j \in 1 .. i - 1}
      <4>1. PICK j \in DOMAIN s : m = s[j]  OBVIOUS
      <4>2. j < i  BY <1>3, <3>1, <4>1
      <4>3. j \in 1 .. i - 1  BY <1>1, <4>2
      <4>4. QED  BY <4>1, <4>3
    <3>2. ASSUME NEW j \in 1 .. i - 1 PROVE s[j] \in S /\ Before(s[j], s[i])
      <4>1. j \in DOMAIN s /\ j < i  BY <1>1
      <4>2. QED  BY <1>3, <4>1
    <3>3. QED  BY <3>1, <3>2
  <2>3. Cardinality({s[j] : j \in 1 .. i - 1}) = i - 1  BY <2>1, StartsCount
  <2>4. QED  BY <2>2, <2>3, CardinalityIs
<1>6. ASSUME NEW i \in DOMAIN s PROVE Place(i) = s[i]
  <2>1. s[i] \in S /\ F!Cardinality({m \in S : Before(m, s[i])}) = i - 1  BY <1>5
  <2>2. Place(i) \in S /\ F!Cardinality({m \in S : Before(m, Place(i))}) = i - 1  BY <2>1
  <2> HIDE DEF Place
  <2>3. PICK j \in DOMAIN s : Place(i) = s[j]  BY <2>2
  <2>4. F!Cardinality({m \in S : Before(m, s[j])}) = j - 1  BY <1>5
  <2>5. j - 1 = i - 1  BY <2>2, <2>3, <2>4
  <2>6. QED  BY <1>1, <2>3, <2>5
<1> HIDE DEF Place
<1>7. [i \in 1 .. Len(s) |-> Place(i)] = [i \in 1 .. Len(s) |-> s[i]]  BY <1>1, <1>6
<1>8. s = [i \in 1 .. Len(s) |-> s[i]]  OBVIOUS
<1>9. QED  BY <1>2, <1>4, <1>7, <1>8

LEMMA ReadImportedSafe ==
  ASSUME FilesAssumed, FilesInv, F!ReadImported
  PROVE  FilesInv'
<1> DEFINE c == import.root
           s == import.names
<1>1. /\ import # Idle /\ import.step = "read" /\ <<c>> \in F!Dirs(tree)
      /\ import' = [import EXCEPT !.step = "done", !.got = F!Loaded(c)]
      /\ operation' = operation /\ tree' = tree /\ orders' = orders /\ kept' = kept
      /\ spoiled' = spoiled
  BY DEF F!ReadImported, F!Importing, F!ImportDir, F!files, F!ImportUnchanged
<1>2. /\ IsSound(tree, orders, kept) /\ IsTree(tree) /\ ~spoiled
      /\ ImpShape(import) /\ Unwritten(import, tree)
      /\ OpFits(operation, tree, orders, kept)
  BY <1>1 DEF FilesInv, IsSound, ImpFits
<1>3. /\ c \in Collections /\ s \in Seq(Nat) /\ DOMAIN s = 1 .. Len(s)
      /\ \A i \in DOMAIN s : s[i] \in Nat
  <2>1. c \in Collections /\ s \in Seq(Nat)  BY <1>2 DEF ImpShape
  <2> HIDE DEF s
  <2>2. QED  BY <2>1
<1>4. <<c>> \in Paths /\ <<c>> \in Seq(Nat) /\ Len(<<c>>) = 1 /\ F!Root(<<c>>) = c
  BY <1>3, RootPath
<1>5. /\ import'.root = c /\ import'.names = s /\ import'.step = "done"
      /\ import'.got = F!Loaded(c)
      /\ import'.alone = import.alone /\ DOMAIN import' = DOMAIN import
  BY <1>1, <1>2 DEF ImpShape
<1>6. ImpShape(import') /\ Unwritten(import', tree')
  BY <1>1, <1>2, <1>5 DEF ImpShape, Unwritten
<1>7. ASSUME import.alone
      PROVE  /\ operation # Idle => c \notin Roots(operation)
             /\ ImpRight(import', F!Part(tree', {c}), F!Part(orders', {c}))
  <2> DEFINE T == F!Part(tree, {c})
             O == F!Part(orders, {c})
             d == <<c>>
             S == {F!Name(p) : p \in {q \in F!Children(tree, d) : ~F!Excluded(q)}}
  <2>1. /\ operation # Idle => c \notin Roots(operation)
        /\ ImpRight(import, T, O)
    BY <1>1, <1>7 DEF FilesInv, ImpFits
  <2>2. /\ \A q : q \in DOMAIN T <=> q \in DOMAIN tree /\ F!Root(q) \in {c}
        /\ \A q \in DOMAIN T : T[q] = tree[q]
        /\ \A q : q \in DOMAIN O <=> q \in DOMAIN orders /\ F!Root(q) \in {c}
        /\ \A q \in DOMAIN O : O[q] = orders[q]
    BY PartIs
  <2> HIDE DEF T, O
  <2>3. /\ d \in DOMAIN T /\ ImpHas(import, T)
        /\ Len(s) = Len(ImportedItems) /\ d \in DOMAIN O /\ O[d] = s
        /\ \A i, j \in DOMAIN s : s[i] = s[j] => i = j
        /\ \A i \in DOMAIN s : s[i] # Reserved
    BY <1>1, <2>1 DEF ImpRight
  <2>4. F!OrderOf(d) = s /\ F!Readable(d)
    <3>1. d \in DOMAIN orders /\ orders[d] = s  BY <2>2, <2>3
    <3>2. QED  BY <1>3, <3>1 DEF F!OrderOf, F!Readable, FilesAssumed
  <2> HIDE DEF s, d
  <2>5. \A i \in DOMAIN s : /\ Append(d, s[i]) \in DOMAIN tree
                            /\ tree[Append(d, s[i])] = Imported(i)
                            /\ F!Name(Append(d, s[i])) = s[i]
                            /\ Append(d, s[i]) \in F!Children(tree, d)
                            /\ ~F!Excluded(Append(d, s[i]))
    <3> SUFFICES ASSUME NEW i \in DOMAIN s
                 PROVE  /\ Append(d, s[i]) \in DOMAIN tree
                        /\ tree[Append(d, s[i])] = Imported(i)
                        /\ F!Name(Append(d, s[i])) = s[i]
                        /\ Append(d, s[i]) \in F!Children(tree, d)
                        /\ ~F!Excluded(Append(d, s[i]))
      OBVIOUS
    <3>1. Append(d, s[i]) \in DOMAIN T /\ T[Append(d, s[i])] = Imported(i)
      BY <2>3 DEF ImpHas, d, s
    <3>2. Append(d, s[i]) \in DOMAIN tree /\ tree[Append(d, s[i])] = Imported(i)
      BY <2>2, <3>1
    <3>3. s[i] \in Nat /\ d \in Paths /\ d \in Seq(Nat)  BY <1>3, <1>4 DEF d
    <3>4. /\ F!Name(Append(d, s[i])) = s[i] /\ F!Parent(Append(d, s[i])) = d
          /\ Len(Append(d, s[i])) > 1
      BY <3>3, ChildIs
    <3>5. ~F!Excluded(Append(d, s[i]))  BY <2>3, <3>4 DEF F!Excluded
    <3>6. Append(d, s[i]) \in F!Children(tree, d)  BY <3>2, <3>4 DEF F!Children
    <3>7. QED  BY <3>2, <3>4, <3>5, <3>6
  <2>6. S = {s[i] : i \in DOMAIN s}
    <3>1. \A i \in DOMAIN s : s[i] \in S  BY <2>5
    <3>2. ASSUME NEW q \in F!Children(tree, d) PROVE \E i \in DOMAIN s : F!Name(q) = s[i]
      <4>1. q \in DOMAIN tree /\ q \in Paths /\ Len(q) > 1 /\ F!Parent(q) = d
        BY <1>2 DEF F!Children, IsTree
      <4>2. F!Root(q) = c  BY <1>4, <4>1, ParentIs DEF d
      <4>3. q \in DOMAIN T  BY <2>2, <4>1, <4>2
      <4>4. q \in F!Children(T, d)  BY <4>1, <4>3 DEF F!Children
      <4>5. PICK i \in DOMAIN s : q = Append(d, s[i])  BY <2>3, <4>4 DEF ImpHas, d, s
      <4>6. QED  BY <2>5, <4>5
    <3>3. QED  BY <3>1, <3>2
  <2> HIDE DEF S
  <2>7. F!Apply(S, s) = s  BY <1>3, <2>3, <2>6, ApplyIs
  <2>8. F!LoadedEntries(d) = [i \in DOMAIN s |-> [name |-> s[i], what |-> tree[Append(d, s[i])]]]
    BY <2>4, <2>7 DEF F!LoadedEntries, S
  <2>9. F!Loaded(c).entries[d] = F!LoadedEntries(d)
    <3>1. d \in {p \in F!Dirs(tree) : F!Root(p) = c}  BY <1>1, <1>4 DEF d
    <3>2. F!Loaded(c).entries = [e \in {p \in F!Dirs(tree) : F!Root(p) = c} |-> F!LoadedEntries(e)]
      BY DEF F!Loaded
    <3>3. QED  BY <3>1, <3>2
  <2> DEFINE entries == F!LoadedEntries(d)
  <2>10. /\ DOMAIN entries = DOMAIN s
         /\ \A i \in DOMAIN s : entries[i].what = ImportedItems[i].request
    BY <2>5, <2>8 DEF Imported
  <2>11. DOMAIN s = DOMAIN ImportedItems  BY <1>3, <2>3, ItemsAre
  <2> HIDE DEF entries
  <2>12. [i \in DOMAIN entries |-> entries[i].what]
           = [i \in DOMAIN ImportedItems |-> ImportedItems[i].request]
    BY <2>10, <2>11
  <2>13. ImpGot(import')
    BY <1>5, <2>9, <2>12 DEF ImpGot, entries, d
  <2>14. ImpRight(import', T, O)
    <3>1. import'.step \notin {"items", "read"}  BY <1>5
    <3>2. QED  BY <1>5, <2>3, <2>13, <3>1 DEF ImpRight, d, s
  <2>15. QED  BY <1>1, <2>1, <2>14 DEF T, O
<1>8. ImpFits(import', operation', tree', orders')
  BY <1>1, <1>5, <1>6, <1>7 DEF ImpFits
<1>9. QED  BY <1>1, <1>2, <1>8 DEF FilesInv

LEMMA ImportFailsSafe ==
  ASSUME FilesAssumed, FilesInv, F!ImportFails
  PROVE  FilesInv'
<1> DEFINE c == import.root
<1>1. /\ import # Idle /\ import' = Idle /\ spoiled' = spoiled
      /\ tree' = F!Without(tree, <<c>>) /\ orders' = F!Without(orders, <<c>>)
      /\ kept' = kept \ F!IdsUnder(tree, <<c>>) /\ operation' = F!Beside(c)
  BY DEF F!ImportFails, F!ImportDir, F!Writes, F!ImportUnchanged
<1>2. /\ IsSound(tree, orders, kept) /\ IsTree(tree) /\ ~spoiled /\ ImpShape(import)
  BY <1>1 DEF FilesInv, IsSound, ImpFits
<1>3. <<c>> \in Paths /\ F!Root(<<c>>) = c  BY <1>2, RootPath DEF ImpShape
<1>4. /\ \A q \in DOMAIN tree : q \in Paths
      /\ \A q \in DOMAIN orders : q \in Paths
  BY <1>2, DirsAre DEF IsTree, IsSound
<1>5. IsSound(tree', orders', kept')  BY <1>1, <1>2, <1>3, WithoutTree
<1>6. SameBut(tree, tree', {c}) /\ SameBut(orders, orders', {c})
  <2>1. /\ SameBut(tree, tree', {F!Root(<<c>>)}) /\ SameBut(orders, orders', {F!Root(<<c>>)})
    BY <1>1, <1>3, <1>4, ButWithout
  <2>2. QED  BY <1>3, <2>1
<1>7. OpFits(operation', tree', orders', kept')
  <2>1. NoneKept(tree, kept, kept')  BY <1>1 DEF NoneKept
  <2>2. QED  BY <1>1, <1>6, <2>1, BesideStep
<1>8. ImpFits(import', operation', tree', orders')  BY <1>1 DEF ImpFits
<1>9. QED  BY <1>1, <1>2, <1>5, <1>7, <1>8 DEF FilesInv

LEMMA AddImportedSafe ==
  ASSUME FilesInv, F!AddImported
  PROVE  FilesInv'
<1>1. /\ import' = Idle /\ tree' = tree /\ orders' = orders /\ operation' = operation
      /\ kept' = kept /\ spoiled' = spoiled
  BY DEF F!AddImported, F!files
<1>2. ImpFits(import', operation', tree', orders')  BY <1>1 DEF ImpFits
<1>3. QED  BY <1>1, <1>2 DEF FilesInv

LEMMA RestartSafe ==
  ASSUME FilesInv, F!Restart
  PROVE  FilesInv'
<1>1. /\ import' = Idle /\ tree' = tree /\ orders' = orders /\ operation' = Idle
      /\ kept' = kept /\ spoiled' = spoiled
  BY DEF F!Restart, F!files
<1>2. ImpFits(import', operation', tree', orders')  BY <1>1 DEF ImpFits
<1>3. OpFits(operation', tree', orders', kept')  BY <1>1 DEF OpFits
<1>4. QED  BY <1>1, <1>2, <1>3 DEF FilesInv

-----------------------------------------------------------------------------
LEMMA EditSafe ==
  ASSUME FilesAssumed, FilesInv, F!Edit
  PROVE  FilesInv'
<1>1. ASSUME NEW c \in Collections, F!CreateCollection(c) PROVE FilesInv'
  BY <1>1, CreateCollectionSafe
<1>2. ASSUME NEW d, F!CreateFolder(d) PROVE FilesInv'
  <2>1. Folders \subseteq Nat  BY DEF FilesAssumed
  <2>2. QED  BY <1>2, <2>1, CreateSafe DEF F!CreateFolder
<1>3. ASSUME NEW d, F!CreateRequest(d) PROVE FilesInv'
  <2>1. PICK r \in F!FreshIds : F!Create(d, Files, r)  BY <1>3 DEF F!CreateRequest
  <2>2. Files \subseteq Nat  BY DEF FilesAssumed
  <2>3. QED  BY <2>1, <2>2, CreateSafe
<1>4. ASSUME NEW p, NEW d, F!Move(p, d) PROVE FilesInv'  BY <1>4, MoveSafe
<1>5. ASSUME NEW p, NEW n \in F!FolderNames \union Collections, F!Rename(p, n) PROVE FilesInv'
  BY <1>5, RenameSafe
<1>6. ASSUME NEW p, F!Delete(p) PROVE FilesInv'  BY <1>6, DeleteSafe
<1>7. ASSUME NEW p, F!DeletePartly(p) PROVE FilesInv'  BY <1>7, DeletePartlySafe
<1>8. ASSUME NEW p, F!Open(p) PROVE FilesInv'
  <2>1. UNCHANGED <<tree, orders, kept, spoiled, operation, import>>
    BY <1>8 DEF F!Open, F!files, F!background, F!ghosts
  <2>2. QED  BY <2>1, SameStep
<1>9. QED  BY <1>1, <1>2, <1>3, <1>4, <1>5, <1>6, <1>7, <1>8 DEF F!Edit

LEMMA ImportsSafe ==
  ASSUME FilesAssumed, FilesInv, F!Imports
  PROVE  FilesInv'
BY WriteItemSafe, SaveImportedOrderSafe, ReadImportedSafe, ImportFailsSafe, AddImportedSafe
   DEF F!Imports

LEMMA FilesNextSafe ==
  ASSUME FilesAssumed, FilesInv, [F!Next]_(F!vars)
  PROVE  FilesInv'
<1>1. CASE F!Edit  BY <1>1, EditSafe
<1>2. CASE F!Works
  BY <1>2, CreatedSafe, FilesMoveSafe, CreationFailsSafe, FilesStaySafe DEF F!Works
<1>3. CASE F!Outside
  BY <1>3, OutsideAddSafe, OutsideRemoveSafe, OutsideOrderSafe DEF F!Outside
<1>4. CASE F!Background
  <2>1. CASE F!ReadCollection
    <3>1. UNCHANGED <<tree, orders, kept, spoiled, operation, import>>
      BY <2>1 DEF F!ReadCollection, F!files
    <3>2. QED  BY <3>1, SameStep
  <2>2. CASE F!FinishReload
    <3>1. UNCHANGED <<tree, orders, kept, spoiled, operation, import>>
      BY <2>2 DEF F!FinishReload, F!files
    <3>2. QED  BY <3>1, SameStep
  <2>3. QED  BY <1>4, <2>1, <2>2, ImportsSafe DEF F!Background
<1>5. CASE F!Reload
  <2>1. UNCHANGED <<tree, orders, kept, spoiled, operation, import>>
    BY <1>5 DEF F!Reload, F!files
  <2>2. QED  BY <2>1, SameStep
<1>6. CASE F!Restart  BY <1>6, RestartSafe
<1>7. ASSUME NEW c \in Collections, F!StartImport(c) PROVE FilesInv'  BY <1>7, StartImportSafe
<1>8. CASE UNCHANGED F!vars
  <2>1. UNCHANGED <<tree, orders, kept, spoiled, operation, import>>  BY <1>8 DEF F!vars
  <2>2. QED  BY <2>1, SameStep
<1>9. QED  BY <1>1, <1>2, <1>3, <1>4, <1>5, <1>6, <1>7, <1>8 DEF F!Next

\* The files an app may begin with.
Files0 == IsTree(tree) /\ IsOnce(tree) /\ DOMAIN orders \subseteq F!Dirs(tree)

LEMMA FilesStart ==
  ASSUME Files0, F!Init
  PROVE  FilesInv
<1>1. /\ kept = {tree[p] : p \in DOMAIN tree \ F!Dirs(tree)} /\ operation = Idle /\ import = Idle
      /\ spoiled = FALSE
  BY DEF F!Init
<1>2. HasAll(tree, kept)  BY <1>1 DEF HasAll, F!Dirs
<1>3. QED  BY <1>1, <1>2 DEF FilesInv, IsSound, Files0, OpFits, ImpFits

LEMMA FilesAreSafe ==
  ASSUME FilesInv
  PROVE  F!ItemsStay /\ F!FailuresChangeNothing /\ F!ImportsKeepTheirOrder
<1>1. IsSound(tree, orders, kept) /\ ~spoiled  BY DEF FilesInv
<1>2. F!ItemsStay
  <2> SUFFICES ASSUME NEW r \in kept
               PROVE  \E p \in DOMAIN tree : tree[p] = r /\ \A q \in DOMAIN tree : tree[q] = r => q = p
    BY DEF F!ItemsStay
  <2>1. r # F!Folder /\ \E p \in DOMAIN tree : tree[p] = r  BY <1>1 DEF IsSound, HasAll
  <2>2. QED  BY <1>1, <2>1 DEF IsSound, IsOnce
<1>3. F!FailuresChangeNothing  BY <1>1 DEF F!FailuresChangeNothing
<1>4. F!ImportsKeepTheirOrder
  <2>1. import # Idle /\ import.step = "done" /\ import.alone => ImpGot(import)
    BY DEF FilesInv, ImpFits, ImpRight
  <2>2. QED  BY <2>1 DEF F!ImportsKeepTheirOrder, ImpGot, F!ImportDir
<1>5. QED  BY <1>2, <1>3, <1>4

(***************************************************************************)
(* movement.rs:66, order.rs:48 and importing.rs:175: whatever folders and  *)
(* files there are at first, with any names and any number of changes, a   *)
(* request that nobody deleted is in one file, an operation that failed    *)
(* changed nothing, and an import keeps the order of its source.           *)
(***************************************************************************)
THEOREM FilesAlwaysSafe ==
  ASSUME FilesAssumed
  PROVE  Files0 /\ F!Spec => [](F!ItemsStay /\ F!FailuresChangeNothing /\ F!ImportsKeepTheirOrder)
<1>1. Files0 /\ F!Init => FilesInv  BY FilesStart
<1>2. FilesInv /\ [F!Next]_(F!vars) => FilesInv'  BY FilesNextSafe
<1>3. FilesInv => F!ItemsStay /\ F!FailuresChangeNothing /\ F!ImportsKeepTheirOrder  BY FilesAreSafe
<1>4. QED  BY <1>1, <1>2, <1>3, PTL DEF F!Spec

LEMMA SmallIsSound ==
  /\ IsTree(Small) /\ IsOnce(Small) /\ <<1>> \in F!Dirs(Small)
  /\ IsTree(TwoCollections) /\ IsOnce(TwoCollections) /\ <<1>> \in F!Dirs(TwoCollections)
<1>1. /\ <<1>> \in Paths /\ <<2>> \in Paths /\ Len(<<1>>) = 1 /\ Len(<<2>>) = 1
      /\ <<1, 5>> \in Paths /\ <<1, 8>> \in Paths /\ <<1, 5, 9>> \in Paths
      /\ <<1>> \in Seq(Nat) /\ <<1, 5>> \in Seq(Nat)
  BY DEF Paths
<1>2. F!Parent(<<1, 5>>) = <<1>> /\ F!Parent(<<1, 8>>) = <<1>> /\ F!Parent(<<1, 5, 9>>) = <<1, 5>>
  <2>1. F!Parent(<<1, 5>>) \in Seq(Nat) /\ F!Parent(<<1, 5>>) = <<1>>
    <3>1. Len(<<1, 5>>) = 2 /\ <<1, 5>>[1] = 1  OBVIOUS
    <3>2. /\ F!Parent(<<1, 5>>) \in Seq(Nat) /\ Len(F!Parent(<<1, 5>>)) = Len(<<1, 5>>) - 1
          /\ \A i \in 1 .. Len(<<1, 5>>) - 1 : F!Parent(<<1, 5>>)[i] = <<1, 5>>[i]
      BY <1>1, ParentIs
    <3>3. QED  BY <1>1, <3>1, <3>2
  <2>2. F!Parent(<<1, 8>>) = <<1>>
    <3>1. Len(<<1, 8>>) = 2 /\ <<1, 8>>[1] = 1  OBVIOUS
    <3>2. /\ F!Parent(<<1, 8>>) \in Seq(Nat) /\ Len(F!Parent(<<1, 8>>)) = Len(<<1, 8>>) - 1
          /\ \A i \in 1 .. Len(<<1, 8>>) - 1 : F!Parent(<<1, 8>>)[i] = <<1, 8>>[i]
      BY <1>1, ParentIs
    <3>3. QED  BY <1>1, <3>1, <3>2
  <2>3. F!Parent(<<1, 5, 9>>) = <<1, 5>>
    <3> DEFINE p == <<1, 5, 9>>
               d == <<1, 5>>
    <3>1. /\ p \in Paths /\ Len(p) = 3 /\ p[1] = 1 /\ p[2] = 5
          /\ d \in Seq(Nat) /\ Len(d) = 2 /\ d[1] = 1 /\ d[2] = 5
      BY <1>1
    <3> HIDE DEF p, d
    <3>2. /\ F!Parent(p) \in Seq(Nat) /\ Len(F!Parent(p)) = Len(p) - 1
          /\ \A i \in 1 .. Len(p) - 1 : F!Parent(p)[i] = p[i]
      BY <3>1, ParentIs
    <3>3. Len(F!Parent(p)) = Len(d) /\ \A i \in 1 .. Len(F!Parent(p)) : F!Parent(p)[i] = d[i]
      BY <3>1, <3>2
    <3>4. F!Parent(p) = d  BY <3>1, <3>2, <3>3, SamePath
    <3>5. QED  BY <3>4 DEF p, d
  <2>4. QED  BY <2>1, <2>2, <2>3
<1>3. /\ DOMAIN Small = {<<1>>, <<1, 5>>, <<1, 8>>, <<1, 5, 9>>}
      /\ Small[<<1>>] = F!Folder /\ Small[<<1, 5>>] = F!Folder /\ Small[<<1, 8>>] = "a"
      /\ Small[<<1, 5, 9>>] = "b" /\ "a" # F!Folder /\ "b" # F!Folder
  <2>1. /\ <<1>> # <<1, 8>> /\ <<1>> # <<1, 5, 9>> /\ <<1, 5>> # <<1, 8>> /\ <<1, 5>> # <<1, 5, 9>>
        /\ <<1, 8>> # <<1, 5, 9>>
    OBVIOUS
  <2>2. QED  BY <2>1 DEF Small, F!Folder
<1>4. /\ DOMAIN TwoCollections = DOMAIN Small \union {<<2>>}
      /\ \A p \in DOMAIN Small : TwoCollections[p] = Small[p]
      /\ TwoCollections[<<2>>] = F!Folder
  <2>1. <<2>> \notin DOMAIN Small  BY <1>3
  <2>2. QED  BY <2>1 DEF TwoCollections, F!Folder
<1> HIDE DEF Small, TwoCollections
<1>5. IsTree(Small) /\ <<1>> \in F!Dirs(Small)
  BY <1>1, <1>2, <1>3, DirsAre DEF IsTree
<1>6. IsOnce(Small)  BY <1>3 DEF IsOnce
<1>7. IsTree(TwoCollections) /\ <<1>> \in F!Dirs(TwoCollections)
  BY <1>1, <1>3, <1>4, <1>5, DirsAre DEF IsTree
<1>8. IsOnce(TwoCollections)  BY <1>4, <1>6 DEF IsOnce
<1>9. QED  BY <1>5, <1>6, <1>7, <1>8

(***************************************************************************)
(* movement.rs:66, order.rs:48 and importing.rs:175: in the window of all  *)
(* the parts, a request that nobody deleted is in one file, an operation   *)
(* that failed changed nothing, and an import keeps the order of its       *)
(* source.                                                                 *)
(***************************************************************************)
THEOREM ItemsStaySafe == ASSUME FilesAssumed PROVE TabsSpec => []ItemsAreSafe
<1> DEFINE Kept == part = "files" => FilesInv
<1>1. TabsInit => Kept
  <2> SUFFICES ASSUME SomeFiles PROVE FilesInv  BY DEF TabsInit
  <2>1. DOMAIN [d \in {<<1>>} |-> <<8, 6, 5>>] = {<<1>>} /\ DOMAIN <<>> = {}  OBVIOUS
  <2>2. Files0  BY <2>1, SmallIsSound DEF SomeFiles, Files0
  <2>3. QED  BY <2>2, FilesStart DEF SomeFiles
<1>2. Kept /\ [TabsNext]_tabsVars => Kept'
  <2> SUFFICES ASSUME Kept, [TabsNext]_tabsVars PROVE Kept'  OBVIOUS
  <2>1. part' = part /\ (part = "files" => [F!Next]_(F!vars))  BY StepsOfAPart
  <2>2. ASSUME part = "files" PROVE FilesInv'  BY <2>1, <2>2, FilesNextSafe
  <2>3. QED  BY <2>1, <2>2
<1>3. Kept => ItemsAreSafe  BY FilesAreSafe DEF ItemsAreSafe
<1>4. QED  BY <1>1, <1>2, <1>3, PTL DEF TabsSpec
=============================================================================
