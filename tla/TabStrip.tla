------------------------------ MODULE TabStrip ------------------------------
(***************************************************************************)
(* The open tabs of the window: MainView of                                *)
(* crates/workspace/src/main_view.rs.  The user opens, selects, edits,     *)
(* saves and closes them; the sidebar deletes what they show; reads in the *)
(* background replace them or close them; and the next launch opens them   *)
(* again.                                                                  *)
(*                                                                         *)
(* A file's content is a number for what other programs put there.  A tab  *)
(* is its page, the count of outside changes it took (seen), its unsaved   *)
(* edit, or 0, and, as a ghost, the content it was opened with.  Which     *)
(* file holds which id, and items that come back, are SavedTabs.           *)
(***************************************************************************)
EXTENDS Naturals, Sequences, FiniteSets, SequencesExt

CONSTANTS Requests, Flows,
          Collection,     \* the collection that holds the requests
          Gone, NoItem,
          MaxTabs, MaxEdits, MaxChanges   \* bounds

Saved == Requests \union {Collection}        \* the store of collections
Items == Saved \union Flows

VARIABLES
  disk,      \* what each item's file holds, or Gone
  known,     \* what the app read last: [content, count], or Gone
  view,      \* MainView: tabs, and the places of the selected one, of the
             \* one that asks before it closes (pending_close) and of the one
             \* that asks whose changes stay (changed_on_disk); 0 is None
  dialog,    \* whether the Save dialog of the selected tab is open
  changes,   \* bound
  work       \* ghost: the edits that were neither saved nor given up

vars == <<disk, known, view, dialog, changes, work>>
files == <<disk, known>>

Page(kind, item) == [kind |-> kind, item |-> item]
Unsaved == Page("unsaved", NoItem)
PageOf(i) ==
  Page(IF i \in Requests THEN "request" ELSE IF i \in Flows THEN "flow" ELSE "collection", i)
Runner == Page("runner", Collection)
Cookies == Page("cookies", NoItem)
Editable == {"unsaved", "request", "flow", "collection"}

Count(k, i) == IF i = NoItem \/ k[i] = Gone THEN 0 ELSE k[i].count
Content(k, i) == IF i = NoItem \/ k[i] = Gone THEN 0 ELSE k[i].content
Tab(k, page, edit, base) ==
  [page |-> page, seen |-> IF page.kind = "runner" THEN 0 ELSE Count(k, page.item),
   edit |-> edit, base |-> base]
Opened(k, page) == Tab(k, page, 0, Content(k, page.item))
Dirty(t) == t.edit # 0

Positions(v) == DOMAIN v.tabs
Placed(v, f) == [v EXCEPT !.tabs = [j \in 1..Len(v.tabs) |-> IF j \in DOMAIN f THEN f[j] ELSE v.tabs[j]]]
Put(v, j, t) == [v EXCEPT !.tabs = ReplaceAt(v.tabs, j, t)]
EditsOf(v) == {v.tabs[j].edit : j \in Positions(v)}

Init ==
  /\ disk = [i \in Items |-> 0]
  /\ known = [i \in Items |-> [content |-> 0, count |-> 0]]
  /\ view = [tabs |-> <<>>, selected |-> 0, closing |-> 0, changed |-> 0]
  /\ dialog = FALSE /\ changes = 0 /\ work = {}

-----------------------------------------------------------------------------
(***************************************************************************)
(* What the operations of the view do to it.                               *)
(***************************************************************************)
\* mutant: the questions of a tab stay when another is selected
KeepsQuestions(v) == v
Quiet(v) == [v EXCEPT !.closing = 0, !.changed = 0]

\* select_tab()
Select(v, j) == [(IF v.selected = j THEN v ELSE Quiet(v)) EXCEPT !.selected = j]

\* open_tab()
OpenTab(k, v, page, edit) ==
  LET opened == [v EXCEPT !.tabs = Append(@, Tab(k, page, edit, Content(k, page.item)))]
  IN  Select(opened, Len(opened.tabs))

\* open_request(), open_flow(), open_collection(), open_runner(), open_cookies(): an open tab is reused.
Show(k, v, page) ==
  IF \E j \in Positions(v) : v.tabs[j].page = page
  THEN Select(v, CHOOSE j \in Positions(v) : v.tabs[j].page = page)
  ELSE OpenTab(k, v, page, 0)

\* mutant: the selected place stays the same when a tab before it goes
KeepsThePlace(v, kept, P) ==
  IF v.selected = 0 \/ kept = <<>> THEN 0
  ELSE IF v.selected <= Len(kept) THEN v.selected ELSE Len(kept)

\* remove_tab() of each: the next tab takes the place of the selected one, or the last does.
SelectedAfter(v, kept, P) ==
  LET before == Cardinality(1..(v.selected - 1) \ P)
  IN  IF v.selected = 0 THEN 0
      ELSE IF before < Len(kept) THEN before + 1 ELSE Len(kept)

RemoveTabs(v, P) ==
  LET places == SetToSortSeq(Positions(v) \ P, <)
      kept == [j \in DOMAIN places |-> v.tabs[places[j]]]
  IN  IF P = {} THEN v
      ELSE [Quiet(v) EXCEPT !.tabs = kept, !.selected = SelectedAfter(v, kept, P)]

\* reopen_tab() of each, from what is saved now.
Reopen(k, v, P) ==
  IF P = {} THEN v
  ELSE Placed(Quiet(v), [j \in P |-> Opened(k, v.tabs[j].page)])

\* open_unsaved_copy() of each, in its place.
Copy(k, v, P) ==
  IF P = {} THEN v
  ELSE Placed(Quiet(v), [j \in P |-> Tab(k, Unsaved, v.tabs[j].edit, 0)])

\* mutant: the tabs of deleted requests close with their edits
ClosesDirty(k, v, gone) ==
  RemoveTabs(v, {j \in Positions(v) : v.tabs[j].page.item \in gone})

\* close_deleted() of each path in gone; what a collection holds goes with it.
CloseDeleted(k, v, gone) ==
  LET P == {j \in Positions(v) : v.tabs[j].page.item \in gone}
      copied == {j \in P : v.tabs[j].page.kind = "request" /\ Dirty(v.tabs[j])}
  IN  RemoveTabs(Copy(k, v, copied), P \ copied)

With(i) == IF i = Collection THEN Saved ELSE {i}

\* take_latest(): a content that differs from the known one is counted.
Taken(i) ==
  IF disk[i] = Gone THEN Gone
  ELSE IF known[i] = Gone THEN [content |-> disk[i], count |-> 0]
  ELSE [content |-> disk[i],
        count |-> IF known[i].content = disk[i] THEN known[i].count ELSE known[i].count + 1]

\* The clean tabs whose item changed outside since they were opened.
Stale(k, v) ==
  {j \in Positions(v) :
     LET t == v.tabs[j] IN
     /\ t.page.item # NoItem /\ t.page.kind # "runner" /\ ~Dirty(t)
     /\ k[t.page.item] # Gone /\ Count(k, t.page.item) # t.seen}

-----------------------------------------------------------------------------
(***************************************************************************)
(* The user.  While the Save dialog is open, nothing else takes clicks.    *)
(***************************************************************************)
HasRoom == Len(view.tabs) < MaxTabs
Busy == dialog

\* A number for an edit that no tab has.
NewEdits == (1..MaxEdits) \ (work \union EditsOf(view))
Edited(e) == \A other \in NewEdits : e <= other

\* new_tab(), open_unsaved_request(): an import is work to be saved.
New(e) ==
  /\ ~Busy /\ HasRoom
  /\ view' = OpenTab(known, view, Unsaved, e)
  /\ work' = work \union ({e} \ {0})
  /\ UNCHANGED <<files, dialog, changes>>

Open(page) ==
  /\ ~Busy /\ HasRoom
  /\ page.item # NoItem => known[page.item] # Gone
  /\ view' = Show(known, view, page)
  /\ UNCHANGED <<files, dialog, changes, work>>

\* A click, cycle_tab() or select_last_tab().
Choose(j) ==
  /\ ~Busy
  /\ view' = Select(view, j)
  /\ UNCHANGED <<files, dialog, changes, work>>

Current == view.tabs[view.selected]

Edit(e) ==
  /\ ~Busy /\ view.selected # 0 /\ Current.page.kind \in Editable /\ ~Dirty(Current)
  /\ work' = work \union {e}
  /\ view' = Put(view, view.selected, [Current EXCEPT !.edit = e])
  /\ UNCHANGED <<files, dialog, changes>>

\* The user takes the edit back in the page.
Undo ==
  /\ ~Busy /\ view.selected # 0 /\ Dirty(Current)
  /\ work' = work \ {Current.edit}
  /\ view' = Put(view, view.selected, [Current EXCEPT !.edit = 0])
  /\ UNCHANGED <<files, dialog, changes>>

Discards(j) ==
  /\ view' = RemoveTabs(view, {j})
  /\ work' = work \ {view.tabs[j].edit}

\* mutant: the tab is closed without a question
ClosesAtOnce(j) == view' = RemoveTabs(view, {j}) /\ UNCHANGED work

\* close_tab()
AsksFirst(j) ==
  /\ view' = [Select(view, j) EXCEPT !.closing = j]
  /\ UNCHANGED work

Close(j) ==
  /\ ~Busy
  /\ IF Dirty(view.tabs[j]) THEN AsksFirst(j) ELSE Discards(j)
  /\ UNCHANGED <<files, dialog, changes>>

\* Discard in the question, or close_active_tab() once more.
Discard(j) ==
  /\ ~Busy /\ view.closing = j
  /\ Discards(j)
  /\ UNCHANGED <<files, dialog, changes>>

CancelClose(j) ==
  /\ ~Busy /\ view.closing = j /\ view.changed = 0
  /\ view' = [view EXCEPT !.closing = 0]
  /\ UNCHANGED <<files, dialog, changes, work>>

Unasked(v) == [v EXCEPT !.changed = 0]

CancelChanged(j) ==
  /\ ~Busy /\ view.changed = j
  /\ view' = Unasked(view)
  /\ UNCHANGED <<files, dialog, changes, work>>

-----------------------------------------------------------------------------
(***************************************************************************)
(* Saving.                                                                 *)
(***************************************************************************)
\* close_saved_tab(): a tab that was being closed goes once it is saved.
Finished(v, j) == IF v.closing = j THEN RemoveTabs(v, {j}) ELSE v

\* commit_rename() of a name typed in the tab reads what the file holds.
Named(i) == [known EXCEPT ![i] = Taken(i)]

Asks(k, t) == Count(k, t.page.item) # t.seen
IsSaved(v, k, j) ==
  LET t == v.tabs[j] IN
  /\ view' = Finished(Put(v, j, [t EXCEPT !.edit = 0, !.seen = Count(k, t.page.item),
                                        !.base = disk[t.page.item]]), j)
  /\ work' = work \ {t.edit}

\* A page counts as changed when its folder is gone, and writes only what was edited.
IsPage(i) == i = Collection
Differs(i, k) == disk[i] # k[i].content /\ (disk[i] # Gone \/ IsPage(i))

\* save_tab() without overwrite, of a tab that has a file.
Save(named) ==
  LET t == Current
      i == t.page.item
      k == IF named THEN Named(i) ELSE known
      v == Unasked(view)
      writes == Dirty(t) \/ ~IsPage(i)
  IN
  /\ ~Busy /\ view.selected # 0
  /\ t.page.kind \in {"request", "flow", "collection"}
  /\ named => ~IsPage(i) /\ known[i] # Gone /\ disk[i] # Gone
  /\ known' = k
  /\ \/ /\ k[i] = Gone \/ (~Asks(k, t) /\ writes /\ disk[i] = Gone /\ ~IsPage(i))  \* save_error
        /\ view' = v /\ UNCHANGED work
     \/ /\ k[i] # Gone /\ (Asks(k, t) \/ (writes /\ Differs(i, k)))
        /\ view' = [v EXCEPT !.changed = view.selected] /\ UNCHANGED work
     \/ /\ k[i] # Gone /\ ~Asks(k, t) /\ writes /\ disk[i] = k[i].content
        /\ IsSaved(v, k, view.selected)
     \/ /\ k[i] # Gone /\ ~Asks(k, t) /\ ~writes
        /\ view' = Finished(v, view.selected) /\ UNCHANGED work
  /\ UNCHANGED <<disk, dialog, changes>>

\* Overwrite: what the file holds becomes known, and then the edit is in it.
Overwrite(j) ==
  LET t == view.tabs[j]
      i == t.page.item
      v == Unasked(view)
  IN
  /\ ~Busy /\ view.changed = j
  /\ IF known[i] = Gone \/ disk[i] = Gone
     THEN view' = v /\ UNCHANGED <<known, work>>
     ELSE /\ known' = [known EXCEPT ![i].content = disk[i]]
          /\ IsSaved(v, known', j)
  /\ UNCHANGED <<disk, dialog, changes>>

\* reload_tab(): the edits are given up for what the file holds.
TakeTheirs(j) ==
  LET t == view.tabs[j]
      i == t.page.item
      k == Named(i)
      v == Unasked(view)
  IN
  /\ ~Busy /\ view.changed = j
  /\ IF known[i] = Gone \/ disk[i] = Gone
     THEN view' = v /\ UNCHANGED <<known, work>>
     ELSE /\ known' = k
          /\ work' = work \ {t.edit}
          /\ view' = IF v.closing = j THEN RemoveTabs(v, {j})
                     ELSE Select(Reopen(k, v, {j}), j)
  /\ UNCHANGED <<disk, dialog, changes>>

\* commit_rename() by Enter or a click elsewhere.
Rename(j) ==
  LET i == view.tabs[j].page.item IN
  /\ ~Busy /\ view.tabs[j].page.kind \in {"request", "flow"}
  /\ known[i] # Gone /\ disk[i] # Gone /\ Taken(i) # known[i]
  /\ known' = Named(i)
  /\ UNCHANGED <<disk, view, dialog, changes, work>>

\* save_tab() of an unsaved request: save_request::open().
OpenDialog ==
  /\ ~Busy /\ view.selected # 0 /\ Current.page.kind = "unsaved"
  /\ dialog' = TRUE
  /\ view' = Unasked(view)
  /\ UNCHANGED <<files, changes, work>>

\* SaveRequestDialog::save() and attach_saved_request(): a new file in the collection.
DialogSaves(r) ==
  /\ Busy /\ disk[r] = Gone /\ known[r] = Gone
  /\ disk[Collection] # Gone /\ known[Collection] # Gone
  /\ disk' = [disk EXCEPT ![r] = 0]
  /\ known' = [known EXCEPT ![r] = [content |-> 0, count |-> 0]]
  /\ view' = Finished(Put(view, view.selected,
                           [Current EXCEPT !.page = PageOf(r), !.edit = 0, !.base = 0]),
                       view.selected)
  /\ work' = work \ {Current.edit}
  /\ dialog' = FALSE
  /\ UNCHANGED <<changes>>

DialogCloses ==
  /\ Busy /\ dialog' = FALSE
  /\ UNCHANGED <<files, view, changes, work>>

-----------------------------------------------------------------------------
(***************************************************************************)
(* What the tabs follow.                                                   *)
(***************************************************************************)
\* Another program changes or removes a file.
Outside(i) ==
  /\ changes < MaxChanges /\ disk[i] # Gone
  /\ changes' = changes + 1
  /\ \/ disk' = [disk EXCEPT ![i] = 1 - @]
     \/ disk' = [j \in Items |-> IF j \in With(i) THEN Gone ELSE disk[j]]
  /\ UNCHANGED <<known, view, dialog, work>>

Read(S) == [i \in Items |-> IF i \in S THEN Taken(i) ELSE known[i]]

\* on_collections_event(Deleted); the user gives up the settings edited in its page.
Delete(i) ==
  /\ ~Busy /\ known[i] # Gone /\ (disk[i] # Gone \/ i \in Flows)
  /\ disk' = [j \in Items |-> IF j \in With(i) THEN Gone ELSE disk[j]]
  /\ known' = [j \in Items |-> IF j \in With(i) THEN Gone ELSE known[j]]
  /\ view' = CloseDeleted(known', view, With(i))
  /\ work' = work \ {view.tabs[j].edit : j \in {q \in Positions(view) :
                       view.tabs[q].page \in {PageOf(Collection)} \union {PageOf(f) : f \in Flows}
                       /\ view.tabs[q].page.item = i}}
  /\ UNCHANGED <<dialog, changes>>

\* follow_reload(): a page with edits stays, as its collection can come back.
FollowReload ==
  LET k == Read(Saved)
      gone == {i \in Saved : k[i] = Gone /\ \E j \in Positions(view) :
                 LET t == view.tabs[j] IN
                 /\ t.page.item = i
                 /\ t.page.kind = "request" \/ (t.page.kind = "collection" /\ ~Dirty(t))}
      closed == CloseDeleted(k, view, UNION {With(i) : i \in gone})
  IN
  /\ known' = k
  /\ view' = Reopen(k, closed, {j \in Stale(k, closed) : closed.tabs[j].page.item \in Saved})
  /\ UNCHANGED <<disk, dialog, changes, work>>

\* follow_flows(): the tab to select is looked up before those of gone flows close.
FollowFlows ==
  LET k == Read(Flows)
      gone == {j \in Positions(view) :
                 LET t == view.tabs[j] IN t.page.kind = "flow" /\ ~Dirty(t) /\ k[t.page.item] = Gone}
      closed == RemoveTabs(view, gone)
      reopened == Reopen(k, closed, {j \in Stale(k, closed) : closed.tabs[j].page.item \in Flows})
  IN
  /\ known' = k
  /\ view' = [reopened EXCEPT !.selected =
                IF view.selected \in gone THEN 0 ELSE @]
  /\ UNCHANGED <<disk, dialog, changes, work>>

-----------------------------------------------------------------------------
(***************************************************************************)
(* The app quits, saving the session, and is launched again: saved_tabs(), *)
(* MainView::new() and restore_tab().                                      *)
(***************************************************************************)
Loaded == [i \in Items |-> IF disk[i] = Gone THEN Gone ELSE [content |-> disk[i], count |-> 0]]

\* What the session keeps of a tab's edit.
Kept(t) == IF t.page.kind = "collection" THEN 0 ELSE t.edit
Reopens(t) ==
  \/ t.page.item = NoItem
  \/ disk[t.page.item] # Gone
  \/ t.page.kind = "request" /\ Dirty(t)
Restored(t) ==
  LET gone == t.page.item # NoItem /\ disk[t.page.item] = Gone IN
  Tab(Loaded, IF gone THEN Unsaved ELSE t.page, Kept(t),
      IF Kept(t) = 0 THEN Content(Loaded, t.page.item) ELSE t.base)

\* mutant: the place of the selected tab among the saved ones is selected
SelectsThePlace(back) == IF view.selected <= Len(back) THEN view.selected ELSE Len(back)

\* Each tab that opens is selected, and in the end the one that was, if it opened.
SelectedAgain(back) ==
  LET before == Cardinality({j \in 1..(view.selected - 1) : Reopens(view.tabs[j])})
  IN  IF view.selected # 0 /\ Reopens(Current) THEN before + 1 ELSE Len(back)

Relaunch ==
  LET back == SelectSeq(view.tabs, Reopens) IN
  /\ known' = Loaded
  /\ view' = [tabs |-> [j \in DOMAIN back |-> Restored(back[j])],
              selected |-> SelectedAgain(back), closing |-> 0, changed |-> 0]
  \* The edits of a collection's page, and of a flow that is gone, are not kept.
  /\ work' = work \cap {Kept(back[j]) : j \in DOMAIN back}
  /\ dialog' = FALSE
  /\ UNCHANGED <<disk, changes>>

User ==
  \/ New(0) \/ Undo \/ OpenDialog \/ DialogCloses
  \/ \E e \in NewEdits : Edited(e) /\ (New(e) \/ Edit(e))
  \/ \E page \in {PageOf(i) : i \in Items} \union {Runner, Cookies} : Open(page)
  \/ \E j \in Positions(view) :
       \/ Choose(j) \/ Close(j) \/ Rename(j) \/ Discard(j)
       \/ CancelClose(j) \/ CancelChanged(j) \/ Overwrite(j) \/ TakeTheirs(j)
  \/ \E named \in BOOLEAN : Save(named)
  \/ \E r \in Requests : DialogSaves(r)

Follows == FollowReload \/ FollowFlows \/ \E i \in Items : Delete(i)

Next == User \/ Follows \/ Relaunch \/ \E i \in Items : Outside(i)
Spec == Init /\ [][Next]_vars

-----------------------------------------------------------------------------
TabSet == [page : [kind : Editable \union {"runner", "cookies"}, item : Items \union {NoItem}],
           seen : 0..MaxChanges, edit : 0..MaxEdits, base : 0..1]
\* Types; the places are of open tabs, and a dialog is that of the selected one.
TypeOK ==
  /\ disk \in [Items -> {0, 1, Gone}]
  /\ \A i \in Items : known[i] = Gone \/ known[i] \in [content : 0..1, count : 0..MaxChanges]
  /\ \A j \in Positions(view) : view.tabs[j] \in TabSet
  /\ {view.selected, view.closing, view.changed} \subseteq 0..Len(view.tabs)
  /\ dialog => view.selected # 0

\* main_view.rs:1104: whatever is deleted, read again or restored at a launch, an edit
\* that was neither saved nor given up by the user is still in a tab.
EditsSurvive == work \subseteq EditsOf(view)

\* main_view.rs:742: however a page is opened, saved or restored, it has a single tab.
OneTabEach ==
  \A j, q \in Positions(view) :
    view.tabs[j].page = view.tabs[q].page /\ view.tabs[j].page # Unsaved => j = q

\* main_view.rs:1380: Discard and Overwrite are asked about the tab that is shown, even
\* when tabs before it close: an answer reaches the tab the question was about.
QuestionsAreOfTheShown == {view.closing, view.changed} \subseteq {0, view.selected}

\* The tab of a later state that is the one of an earlier.
Same(t, u) ==
  \/ t.page.item # NoItem /\ t.page = u.page
  \/ t.edit # 0 /\ t.edit = u.edit

\* main_view.rs:1786: what happens in the background, a deletion and a relaunch leave the
\* tab selected that was, wherever it is now; a tab is selected while any is open, unless
\* the one that was showed a flow that is gone.
SelectionStep ==
  Follows \/ Relaunch =>
    /\ view.selected # 0 => \A j \in Positions(view)' :
         Same(Current, view'.tabs[j]) => view'.selected = j
    /\ view'.selected = 0 =>
         \/ view'.tabs = <<>> \/ view.selected = 0
         \/ Current.page.kind = "flow" /\ known'[Current.page.item] = Gone

\* docs/git.md:56: saving a tab with unsaved changes asks whose changes to keep, so it
\* replaces no content other than the one that the changes were made to.
SavingAsks ==
  [][\A named \in BOOLEAN :
       Save(named) /\ Dirty(Current) /\ Current.edit \notin work'
         => disk[Current.page.item] = Current.base]_vars
=============================================================================
