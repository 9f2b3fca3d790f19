---------------------------- MODULE Environments ----------------------------
(***************************************************************************)
(* The global environments: their files (GlobalEnvironments and            *)
(* Environment of crates/environment), the list with the active one        *)
(* (Environments of crates/tab_ui/src/environments.rs), the panel that     *)
(* lists them, and the tabs that edit them.  An import creates one in the  *)
(* background, and other programs write to the directory.  Which tab is    *)
(* selected, and the question before one with changes closes, are          *)
(* TabStrip's: a tab that closes once it is saved is saved, then closed.   *)
(*                                                                         *)
(* Names are numbers in the order create() tries them.  The variables of a *)
(* file are a number, 0 for none, or Unreadable; those of a tab may be     *)
(* refused for a bad or repeated name.  A ghost of each tab, follows, says *)
(* whether its name still leads to the file it opened or saved.            *)
(***************************************************************************)
EXTENDS Naturals, Sequences, FiniteSets, SequencesExt

CONSTANTS MaxNames, MaxFiles, MaxTabs, MaxVariables, MaxEvents,   \* bounds
          Gone, NoName, ImportDone, Unreadable

Names == 1..MaxNames
Variables == 0..MaxVariables
\* What may go wrong in an operation; variables are refused without a fault.
Outcomes == {"works", "refused", "list", "write", "remember", "removes"}

VARIABLES
  disk,      \* the variables in each name's file, or Gone
  names,     \* Environments.names
  active,    \* Environments.active (shown) and preferences.active_environment (saved)
  tabs,      \* the tabs of environments in their order
  asking,    \* the place of the one that asks whose changes stay, or 0
  import,    \* the name an import is about to write, ImportDone, or NoName
  events,    \* bound: of failures, imports and what other programs do
  astray     \* ghost: "files" once another program or a failed import removed one or the
             \* list could not be read, "choice" once the active one could not be saved

vars == <<disk, names, active, tabs, asking, import, events, astray>>
troubles == <<events, astray>>

Init ==
  /\ disk = [n \in Names |-> IF n = 1 THEN 0 ELSE Gone]
  /\ names = {1} /\ active = [shown |-> NoName, saved |-> NoName]
  /\ tabs = <<>> /\ asking = 0 /\ import = NoName
  /\ events = 0 /\ astray = {}

-----------------------------------------------------------------------------
(***************************************************************************)
(* Files.                                                                  *)
(***************************************************************************)
Listed(d) == {n \in Names : d[n] # Gone}

\* Environment::from_file(): a missing file has no variables.
Read(d, n) == IF d[n] = Gone THEN 0 ELSE d[n]

\* create() tries the names in turn.
HasSpace == Cardinality(Listed(disk)) < MaxFiles
FirstFree(n) == HasSpace /\ disk[n] = Gone /\ \A m \in 1..(n - 1) : disk[m] # Gone

\* mutant: a name that is not listed counts as free
ListedAlready(to) == to \in names
Taken(to) == disk[to] # Gone

\* rename() of GlobalEnvironments
CanRename(from, to) == ~Taken(to) /\ disk[from] # Gone
Renamed(from, to) == [disk EXCEPT ![to] = disk[from], ![from] = Gone]

Happens == events < MaxEvents /\ events' = events + 1
Strays(outcome) ==
  IF outcome \in {"list", "removes"} THEN {"files"}
  ELSE IF outcome = "remember" THEN {"choice"} ELSE {}
Fault(outcome) ==
  IF outcome \in {"works", "refused"} THEN UNCHANGED troubles
  ELSE Happens /\ astray' = astray \union Strays(outcome)

\* reload(): a directory that cannot be read keeps the names.
Reload(outcome) == names' = IF outcome = "list" THEN names ELSE Listed(disk')

\* persist_active(): a failure is shown, and the choice stays for this launch.
SetsActive(name, outcome) ==
  active' = [shown |-> name, saved |-> IF outcome = "remember" THEN active.saved ELSE name]

-----------------------------------------------------------------------------
(***************************************************************************)
(* Tabs.                                                                   *)
(***************************************************************************)
\* EnvironmentEditor::new()
Editor(d, n) ==
  LET broken == Read(d, n) = Unreadable
      value == IF broken THEN 0 ELSE Read(d, n)
  IN  [name |-> n, saved |-> value, variables |-> value, broken |-> broken, follows |-> d[n] # Gone]

\* environment_tab(): the first of that name.
TabsOf(n) == {j \in DOMAIN tabs : tabs[j].name = n}
First(P) == CHOOSE j \in P : \A q \in P : j <= q
Put(j, t) == [tabs EXCEPT ![j] = t]
\* The file of that name has gone, so other tabs of that name have lost it.
Lost(ts, n) == [j \in DOMAIN ts |-> [ts[j] EXCEPT !.follows = @ /\ ts[j].name # n]]

\* open_environment(): an open tab is reused.
Show(d, n) == tabs' = IF TabsOf(n) = {} THEN Append(tabs, Editor(d, n)) ELSE tabs
HasRoom == Len(tabs) < MaxTabs

Open(n) ==
  /\ n \in names /\ HasRoom /\ TabsOf(n) = {}
  /\ Show(disk, n) /\ asking' = 0
  /\ UNCHANGED <<disk, names, active, troubles, import>>

\* create_environment(): a new file, and its tab; a failure only reads the list again.
Create(n, outcome) ==
  /\ HasRoom /\ FirstFree(n) /\ outcome \in {"works", "list", "write"} /\ Fault(outcome)
  /\ IF outcome = "write" THEN UNCHANGED <<disk, tabs, asking>>
     ELSE disk' = [disk EXCEPT ![n] = 0] /\ Show(disk', n) /\ asking' = 0
  /\ Reload(outcome)
  /\ UNCHANGED <<active, import>>

Edit(j, value) ==
  /\ tabs[j].variables # value /\ asking \in {0, j}
  /\ tabs' = Put(j, [tabs[j] EXCEPT !.variables = value])
  /\ UNCHANGED <<disk, names, active, asking, troubles, import>>

\* close_tab(), or Discard.
Close(j) ==
  /\ tabs' = RemoveAt(tabs, j) /\ asking' = 0
  /\ UNCHANGED <<disk, names, active, troubles, import>>

\* Cancel, or another tab is selected.
Cancel ==
  /\ asking # 0 /\ asking' = 0
  /\ UNCHANGED <<disk, names, active, tabs, troubles, import>>

-----------------------------------------------------------------------------
(***************************************************************************)
(* Renaming and saving.                                                    *)
(***************************************************************************)
\* Environments::rename() once the file has its new name.
Follows(from, to, outcome) ==
  /\ Reload(outcome)
  /\ IF active.shown = from THEN SetsActive(to, outcome) ELSE UNCHANGED active

\* commit_name() by Enter or a click elsewhere.
Rename(j, to, outcome) ==
  LET from == tabs[j].name IN
  /\ to # from /\ CanRename(from, to) /\ asking \in {0, j}
  /\ outcome \in {"works", "list", "remember"} /\ (outcome = "remember" => active.shown = from)
  /\ Fault(outcome)
  /\ disk' = Renamed(from, to)
  /\ Follows(from, to, outcome)
  /\ tabs' = Lost(Put(j, [tabs[j] EXCEPT !.name = to]), from)
  /\ UNCHANGED <<asking, import>>

ChangedOutside(t) == ~t.broken /\ Read(disk, t.name) # t.saved

\* write(), after commit_name(): errors leave the variables in the tab.
Writes(j, t, d, without, outcome) ==
  IF t.broken \/ outcome \in {"refused", "write"}
  THEN disk' = d /\ tabs' = Lost(Put(j, t), without)
  ELSE /\ disk' = [d EXCEPT ![t.name] = t.variables]
       /\ tabs' = Lost(Put(j, [t EXCEPT !.saved = t.variables, !.follows = TRUE]), without)

Asks(j) ==
  /\ ChangedOutside(tabs[j])
  /\ asking' = j
  /\ UNCHANGED <<disk, names, active, tabs, troubles, import>>

\* save_tab() of a tab where the name to may have been typed.
Save(j, to, outcome) ==
  LET t == tabs[j] IN
  /\ ~ChangedOutside(t)
  /\ IF to = t.name
     THEN /\ outcome \in {"works", "refused", "write"} /\ Fault(outcome)
          /\ Writes(j, t, disk, NoName, outcome)
          /\ UNCHANGED <<names, active>>
     ELSE /\ CanRename(t.name, to) /\ outcome # "removes" /\ Fault(outcome)
          /\ Writes(j, [t EXCEPT !.name = to], Renamed(t.name, to), t.name, outcome)
          /\ Follows(t.name, to, outcome)
  /\ asking' = 0
  /\ UNCHANGED import

\* save_tab() with overwrite; the click committed the name before.
Overwrite(outcome) ==
  /\ asking # 0 /\ outcome \in {"works", "refused", "write"} /\ Fault(outcome)
  /\ Writes(asking, tabs[asking], disk, NoName, outcome)
  /\ asking' = 0
  /\ UNCHANGED <<names, active, import>>

\* reload_tab(): a file that cannot be read keeps the tab.
TakeTheirs ==
  /\ asking # 0 /\ asking' = 0
  /\ LET n == tabs[asking].name
     IN  tabs' = IF Read(disk, n) = Unreadable THEN tabs ELSE Put(asking, Editor(disk, n))
  /\ UNCHANGED <<disk, names, active, troubles, import>>

-----------------------------------------------------------------------------
(***************************************************************************)
(* The panel, the picker and the import.                                   *)
(***************************************************************************)
\* set_active() from the panel, the picker or a tab.
Activate(name, outcome) ==
  /\ name # active.shown /\ outcome \in {"works", "remember"} /\ Fault(outcome)
  /\ name \in names \union {NoName} \union {tabs[j].name : j \in DOMAIN tabs}
  /\ SetsActive(name, outcome)
  /\ UNCHANGED <<disk, names, tabs, asking, import>>

\* confirm_delete(), Environments::delete() and on_environments_event().  The name was
\* asked about when it was listed, and may have gone or come back since.
Delete(n, outcome) ==
  /\ outcome = "write" => disk[n] # Gone
  /\ outcome = "remember" => active.shown = n
  /\ outcome \notin {"removes", "refused"} /\ Fault(outcome)
  /\ IF outcome = "write" THEN UNCHANGED <<disk, active, tabs, asking>>
     ELSE /\ disk' = [disk EXCEPT ![n] = Gone]
          /\ IF active.shown = n THEN SetsActive(NoName, outcome) ELSE UNCHANGED active
          /\ IF TabsOf(n) = {} THEN UNCHANGED <<tabs, asking>>
             ELSE tabs' = Lost(RemoveAt(tabs, First(TabsOf(n))), n) /\ asking' = 0
  /\ Reload(outcome)
  /\ UNCHANGED import

\* import() creates the file, writes it, and refresh() follows.
ImportCreates(n) ==
  /\ import = NoName /\ FirstFree(n) /\ Happens
  /\ disk' = [disk EXCEPT ![n] = 0]
  /\ import' = n
  /\ UNCHANGED <<names, active, tabs, asking, astray>>

ImportWrites(outcome) ==
  /\ import \in Names /\ outcome \in {"works", "removes"} /\ Fault(outcome)
  /\ disk' = IF outcome = "removes" THEN [disk EXCEPT ![import] = Gone]
             ELSE [disk EXCEPT ![import] = 1]
  /\ import' = ImportDone
  /\ UNCHANGED <<names, active, tabs, asking>>

Refresh(outcome) ==
  /\ import = ImportDone /\ outcome \in {"works", "list"} /\ Fault(outcome)
  /\ import' = NoName
  /\ UNCHANGED <<disk, active, tabs, asking>>
  /\ Reload(outcome)

\* Another program writes, spoils, creates or removes a file.
Outside(n) ==
  /\ Happens
  /\ \/ \E value \in Variables \union {Unreadable} :
          value # disk[n] /\ (disk[n] # Gone \/ HasSpace)
          /\ disk' = [disk EXCEPT ![n] = value] /\ UNCHANGED astray
     \/ /\ disk[n] # Gone
        /\ disk' = [disk EXCEPT ![n] = Gone] /\ astray' = astray \union {"files"}
  /\ UNCHANGED <<names, active, tabs, asking, import>>

\* Environments::new() and restore_tab(), which reads the files again.
Relaunch(outcome) ==
  LET found == IF outcome = "list" THEN {} ELSE Listed(disk)
      back == {j \in DOMAIN tabs : tabs[j].name \in found}
  IN
  /\ outcome \in {"works", "list"} /\ Fault(outcome)
  /\ names' = found
  /\ active' = [active EXCEPT !.shown = IF active.saved \in found THEN active.saved ELSE NoName]
  /\ \E places \in [1..Cardinality(back) -> back] :
       /\ \A k, m \in DOMAIN places : k < m => places[k] < places[m]
       /\ tabs' = [k \in DOMAIN places |-> Editor(disk, tabs[places[k]].name)]
  /\ asking' = 0 /\ import' = NoName
  /\ UNCHANGED disk

User ==
  \/ \E n \in Names : Open(n) \/ \E outcome \in Outcomes : Create(n, outcome)
  \/ \E j \in DOMAIN tabs :
       \/ Close(j) \/ Asks(j)
       \/ \E value \in Variables : Edit(j, value)
       \/ \E to \in Names, outcome \in Outcomes : Rename(j, to, outcome) \/ Save(j, to, outcome)
  \/ Cancel \/ TakeTheirs
  \/ \E name \in Names \union {NoName}, outcome \in Outcomes : Activate(name, outcome)

Overwrites == \E outcome \in Outcomes : Overwrite(outcome)
Deletes == \E n \in Names, outcome \in Outcomes : Delete(n, outcome)
Imports ==
  \/ \E n \in Names : ImportCreates(n)
  \/ \E outcome \in Outcomes : ImportWrites(outcome) \/ Refresh(outcome)
Relaunches == \E outcome \in Outcomes : Relaunch(outcome)
Others == \E n \in Names : Outside(n)

Next ==
  User \/ Overwrites \/ Deletes \/ Imports \/ Relaunches \/ Others
Spec == Init /\ [][Next]_vars

-----------------------------------------------------------------------------
TabSet == [name : Names, saved : Variables, variables : Variables,
           broken : BOOLEAN, follows : BOOLEAN]
TypeOK ==
  /\ \A n \in Names : disk[n] \in Variables \union {Gone, Unreadable}
  /\ names \subseteq Names /\ {active.shown, active.saved} \subseteq Names \union {NoName}
  /\ \A j \in DOMAIN tabs : tabs[j] \in TabSet
  /\ asking \in 0..Len(tabs)
  /\ import \in Names \union {NoName, ImportDone}

\* A file of the one name before is under the other after.
Moved(n, m) == disk[n] # Gone /\ disk'[n] = Gone /\ disk[m] = Gone /\ disk'[m] # Gone

\* environment_editor.rs:66 and global.rs:132: whatever is created, renamed or saved, the
\* variables in a file stay in it, under its name or a new one, or are replaced by a tab
\* that showed them as saved.
KeepsVariables ==
  \/ \A n \in Listed(disk) :
       \E m \in Listed(disk') :
         /\ m = n \/ Moved(n, m)
         /\ \/ disk'[m] = disk[n]
            \/ \E j \in DOMAIN tabs : tabs[j].name = n /\ tabs[j].saved = disk[n]
  \/ Overwrites \/ Deletes \/ Imports \/ Others

\* main_view.rs:1407: while no file is removed behind the app's back and the list can be
\* read, each environment has one tab, and the name of the tab leads to the file it
\* opened, through renames in any order, deletions, and names that are used again.
TabsFollowTheirFiles ==
  "files" \notin astray =>
    \A j \in DOMAIN tabs : tabs[j].follows /\ TabsOf(tabs[j].name) = {j}

\* environments.rs:118: while its file is there, the active environment stays the same
\* through renames, imports, deletions, saves and relaunches, unless something failed;
\* only a choice of the user makes another one active.
ActiveStays ==
  LET name == active.shown IN
  \/ name = NoName \/ disk[name] = Gone
  \/ disk'[name] # Gone /\ active'.shown = name
  \/ disk'[name] = Gone /\ \A m \in Names : Moved(name, m) => active'.shown = m
  \/ \E n \in Names \union {NoName}, outcome \in Outcomes : Activate(n, outcome)
  \/ Relaunches /\ astray' # {}

\* The choice is saved, or the user was told that it is not.
ActiveIsSaved == active.shown # NoName /\ "choice" \notin astray => active.saved = active.shown
=============================================================================
