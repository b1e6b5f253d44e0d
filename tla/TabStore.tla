------------------------------ MODULE TabStore ------------------------------
(***************************************************************************)
(* The tab strip of the application shell (store/tabStore.ts).  Every       *)
(* operation is one synchronous update of the store, so each is one action. *)
(*                                                                         *)
(* A tab is its path and two flags; its id is computed from the path by     *)
(* dropping the first slash and turning the others into dashes, so that two *)
(* paths may have one id.  Titles and icons are left out.  The operations   *)
(* are called for tabs that are in the strip.                               *)
(***************************************************************************)
EXTENDS Toasts, Lists, SequencesExt

CONSTANTS
    Paths,        \* the paths the application opens tabs for
    HomePath,     \* "/"
    NewTabPaths,  \* those that start with "/new-tab"
    IdOf,         \* the id of a path
    MaxTabs,      \* MAX_TABS
    MaxRecent     \* length of the list of recent tabs

\* The application has no page "/home", whose id would be the home tab's.
ASSUME TabAssumption ==
    /\ HomePath \in Paths \ NewTabPaths /\ NewTabPaths \subseteq Paths
    /\ \A p \in Paths : IdOf[p] = IdOf[HomePath] => p = HomePath
    /\ MaxTabs \in Nat \ {0} /\ MaxRecent \in Nat \ {0}
    /\ {"pinLimit", "allPinned", "unpinFirst"} \subseteq Messages

VARIABLES
    tabs,       \* the strip, left to right
    active,     \* activeTabId
    recent      \* paths opened lately, newest first, in localStorage

tabVars == <<tabs, active, recent>>

Tab(p, closeable, pinned) ==
    [path |-> p, closeable |-> closeable, pinned |-> pinned]
Id(t)   == IdOf[t.path]
Ids     == {Id(tabs[i]) : i \in DOMAIN tabs}
HomeId  == IdOf[HomePath]

IsOpen(p)    == \E i \in DOMAIN tabs : tabs[i].path = p
Pinned       == {i \in DOMAIN tabs : tabs[i].pinned}
IsRealPage(t) == t.path \notin NewTabPaths
Without(s, id) == Keep(s, {i \in DOMAIN s : Id(s[i]) # id})

\* tabs.find(t => t.id === id)
Found(id) == Head(Keep(tabs, {i \in DOMAIN tabs : Id(tabs[i]) = id}))

\* The id of the last tab of s, or the home tab's.
LastId(s) == IF s = <<>> THEN HomeId ELSE Id(Last(s))

TabInit ==
    /\ tabs = <<Tab(HomePath, FALSE, FALSE)>>
    /\ active = HomeId
    /\ recent = <<>>

-----------------------------------------------------------------------------
\* Slip: any tab may be given up for a new one.
EvictableAny == tabs

\* The tabs that may be given up for a new one, oldest first.
Evictable == Keep(tabs, {i \in DOMAIN tabs : tabs[i].closeable /\ ~tabs[i].pinned})

OpenExisting(p) ==
    /\ IsOpen(p)
    /\ active' = IdOf[p]
    /\ UNCHANGED <<tabs, recent, toastVars>>

NoRoom == Len(tabs) >= MaxTabs /\ Evictable = <<>>

OpenRefused(p) ==
    /\ ~IsOpen(p)
    /\ Cardinality(Pinned) >= MaxTabs \/ NoRoom
    /\ Say(IF Cardinality(Pinned) >= MaxTabs THEN "pinLimit" ELSE "allPinned")
    /\ UNCHANGED tabVars

\* Slip: the limit is compared as if the new tab were not counted.
MadeRoomLate ==
    IF Len(tabs) > MaxTabs THEN Without(tabs, Id(Head(Evictable))) ELSE tabs

\* The strip with room for one more.
MadeRoom ==
    IF Len(tabs) >= MaxTabs THEN Without(tabs, Id(Head(Evictable))) ELSE tabs

Cut(list) == SubSeq(list, 1, IF Len(list) < MaxRecent THEN Len(list) ELSE MaxRecent)

\* The list with p moved or put in front.
Remembered(p) == Cut(<<p>> \o Keep(recent, {i \in DOMAIN recent : recent[i] # p}))

\* A new tab at the end; a real page replaces the new-tab pages.
OpenNew(p) ==
    /\ ~IsOpen(p)
    /\ Cardinality(Pinned) < MaxTabs /\ ~NoRoom
    /\ LET room == MadeRoom
           kept == IF p \in NewTabPaths THEN room
                   ELSE Keep(room, {i \in DOMAIN room : IsRealPage(room[i])})
       IN  tabs' = Append(kept, Tab(p, TRUE, FALSE))
    /\ active' = IdOf[p]
    /\ recent' = IF p \in NewTabPaths THEN recent ELSE Remembered(p)
    /\ UNCHANGED toastVars

OpenTab(p) == OpenExisting(p) \/ OpenRefused(p) \/ OpenNew(p)

-----------------------------------------------------------------------------
\* Slip: the tab next to the closed one is not made active.
CloseKeepingActive(id) ==
    /\ id \in Ids /\ Found(id).closeable /\ ~Found(id).pinned
    /\ tabs' = Without(tabs, id)
    /\ UNCHANGED <<active, recent, toastVars>>

\* All tabs with the id go, and the last one left becomes active.
CloseTab(id) ==
    /\ id \in Ids /\ Found(id).closeable /\ ~Found(id).pinned
    /\ tabs' = Without(tabs, id)
    /\ active' = IF active = id THEN LastId(tabs') ELSE active
    /\ UNCHANGED <<recent, toastVars>>

CloseRefused(id) ==
    /\ id \in Ids /\ Found(id).closeable /\ Found(id).pinned
    /\ Say("unpinFirst")
    /\ UNCHANGED tabVars

SetActiveTab(id) ==
    /\ id \in Ids
    /\ active' = id
    /\ UNCHANGED <<tabs, recent, toastVars>>

\* Slip: the home tab can be pinned.
TogglePinAny(id) ==
    /\ id \in Ids
    /\ tabs' = [i \in DOMAIN tabs |->
                   IF Id(tabs[i]) = id
                   THEN [tabs[i] EXCEPT !.pinned = ~@] ELSE tabs[i]]
    /\ UNCHANGED <<active, recent, toastVars>>

\* Every tab with the id is toggled; pinning one tab too many is refused.
TogglePin(id) ==
    /\ id \in Ids /\ Found(id).closeable
    /\ IF ~Found(id).pinned /\ Cardinality(Pinned) >= MaxTabs
       THEN Say("pinLimit") /\ UNCHANGED tabs
       ELSE /\ tabs' = [i \in DOMAIN tabs |->
                           IF Id(tabs[i]) = id
                           THEN [tabs[i] EXCEPT !.pinned = ~@] ELSE tabs[i]]
            /\ UNCHANGED toastVars
    /\ UNCHANGED <<active, recent>>

\* The tab at position i is dropped at position j.
MoveTab(i, j) ==
    /\ i # j
    /\ tabs' = InsertAt(RemoveAt(tabs, i), j, tabs[i])
    /\ UNCHANGED <<active, recent, toastVars>>

\* Slip: only the tab itself is spared.
CloseAllOthers(id) ==
    /\ id \in Ids
    /\ tabs' = Keep(tabs, {i \in DOMAIN tabs : Id(tabs[i]) = id})
    /\ active' = id
    /\ UNCHANGED <<recent, toastVars>>

CloseOthers(id) ==
    /\ id \in Ids
    /\ tabs' = Keep(tabs, {i \in DOMAIN tabs :
                            \/ Id(tabs[i]) = id
                            \/ ~tabs[i].closeable \/ tabs[i].pinned})
    /\ active' = id
    /\ UNCHANGED <<recent, toastVars>>

CloseAll ==
    /\ tabs' = Keep(tabs, {i \in DOMAIN tabs : ~tabs[i].closeable \/ tabs[i].pinned})
    /\ active' = LastId(tabs')
    /\ UNCHANGED <<recent, toastVars>>

TabNext ==
    \/ \E p \in Paths : OpenTab(p)
    \/ \E id \in Ids : \/ CloseTab(id) \/ CloseRefused(id)
                       \/ SetActiveTab(id) \/ TogglePin(id) \/ CloseOthers(id)
    \/ \E i, j \in DOMAIN tabs : MoveTab(i, j)
    \/ CloseAll

-----------------------------------------------------------------------------
(* Properties.                                                             *)

TabTypeOK ==
    /\ tabs \in Seq([path : Paths, closeable : BOOLEAN, pinned : BOOLEAN])
    /\ active \in {IdOf[p] : p \in Paths}
    /\ recent \in Seq(Paths) /\ IsInjective(recent) /\ Len(recent) <= MaxRecent

\* The home tab is always in the strip, and nothing closes, pins or evicts it.
HomeStays == Tab(HomePath, FALSE, FALSE) \in ToSet(tabs)

\* The active tab is one of the tabs: no sequence of openings, evictions,
\* moves and closings leaves the shell without a page to show, not even when
\* two tabs with one id are closed together.
ActiveExists == active \in Ids

\* The strip never holds more than MAX_TABS tabs, nor one path twice, although
\* a full strip gives up one tab for each new one.
StripIsBounded ==
    /\ Len(tabs) <= MaxTabs
    /\ \A i, j \in DOMAIN tabs : tabs[i].path = tabs[j].path => i = j

\* The refusals "Maximum 10 pinned tabs" never come: the home tab cannot be
\* pinned, so that at most MAX_TABS - 1 tabs are.
PinLimitNeverMet == Cardinality(Pinned) < MaxTabs /\ toast # "pinLimit"

\* A pinned tab stays until it is unpinned.  There are two exceptions: a pinned
\* new-tab page goes when a real page is opened, and a tab goes with an
\* unpinned one of the same id.
PinnedKept ==
    \A i \in DOMAIN tabs :
       \/ ~tabs[i].pinned
       \/ \E j \in DOMAIN tabs' : tabs'[j].path = tabs[i].path
       \/ tabs[i].path \in NewTabPaths
       \/ \E j \in DOMAIN tabs \ {i} : Id(tabs[j]) = Id(tabs[i])
PinnedStays == [][PinnedKept]_tabVars
=============================================================================
