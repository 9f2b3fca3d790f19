---------------------------- MODULE MCSavedTabs ----------------------------
(***************************************************************************)
(* SavedTabs with a request, a page and a flow, one of which has a file:   *)
(* the three kinds save, compare and follow in their own ways, and share   *)
(* only the prompt.  The request and the page share their store's reads.   *)
(***************************************************************************)
EXTENDS SavedTabs

CONSTANT Kinds          \* the items that get a file, one at a time

VARIABLE focus

MCInit ==
  /\ Init
  /\ focus \in Kinds
  /\ \A i \in Items \ {focus} : disk[i] = None

\* The other items stay absent, and the other store is not read.
MCNext ==
  /\ Next
  /\ UNCHANGED focus
  /\ \A i \in Items \ {focus} : disk'[i] = None
  /\ reading' # reading => reading'[StoreOf(focus)] # reading[StoreOf(focus)]

MCSpec ==
  /\ MCInit /\ [][MCNext]_<<vars, focus>>
  /\ \A i \in Items : WF_<<vars, focus>>(ReadItem(i) /\ UNCHANGED focus)
  /\ WF_<<vars, focus>>(CollectionsRead /\ UNCHANGED focus)
  /\ WF_<<vars, focus>>(FlowsRead /\ UNCHANGED focus)

=============================================================================
