---------------------------- MODULE ShellProofs -----------------------------
(***************************************************************************)
(* Proofs about the application shell, for any paths, limits, webhooks and  *)
(* number of timers: the toast that its parts share, and the tab strip.     *)
(***************************************************************************)
EXTENDS Shell, ListsProofs

ToastInv == ToastTypeOK /\ ToastHasTimer

\* What any part of the shell does to the toast: it sets one and starts its
\* timer, or leaves it, or the oldest timer fires.
ToastStep == (\E m \in Messages : Say(m)) \/ UNCHANGED toastVars \/ ClearToast

LEMMA TabsAndToast == TabNext => ToastStep
<1> SUFFICES ASSUME TabNext PROVE ToastStep
  OBVIOUS
<1> USE TabAssumption DEF ToastStep
<1>1. ASSUME NEW p \in Paths, OpenTab(p) PROVE ToastStep
  <2>1. \A m \in {"pinLimit", "allPinned"} : Say(m) => ToastStep
    OBVIOUS
  <2>2. QED
    BY <1>1, <2>1 DEF OpenTab, OpenExisting, OpenRefused, OpenNew
<1>2. ASSUME NEW id \in Ids, CloseTab(id) \/ CloseRefused(id) PROVE ToastStep
  BY <1>2 DEF CloseTab, CloseRefused
<1>3. ASSUME NEW id \in Ids, SetActiveTab(id) \/ TogglePin(id) \/ CloseOthers(id)
      PROVE  ToastStep
  BY <1>3 DEF SetActiveTab, TogglePin, CloseOthers
<1>4. ASSUME NEW i \in DOMAIN tabs, NEW j \in DOMAIN tabs, MoveTab(i, j) PROVE ToastStep
  BY <1>4 DEF MoveTab
<1>5. CloseAll => ToastStep
  BY DEF CloseAll
<1>6. QED
  BY <1>1, <1>2, <1>3, <1>4, <1>5 DEF TabNext

LEMMA SharesAndToast == ShareNext => ToastStep
  BY HookAssumption DEF ShareNext, ToastStep, ShareToDiscord, ShareToSquare, CloseShareModal,
     EnterKey, DiscordAnswers, DiscordRefuses, EnterHook

LEMMA StepsOfTheShell == [Next]_vars => ToastStep
  BY TabsAndToast, SharesAndToast DEF Next, vars, ToastStep

\* The youngest timer is the toast's: a new toast brings its own, and when the
\* oldest timer fires there is no toast any more.
LEMMA ToastStepInv == ToastInv /\ ToastStep => ToastInv'
<1> SUFFICES ASSUME ToastInv, ToastStep PROVE ToastInv'
  OBVIOUS
<1> USE DEF ToastInv, ToastTypeOK, ToastHasTimer
<1>1. ASSUME NEW m \in Messages, Say(m) PROVE ToastInv'
  <2>1. toast' = m /\ timers' = Append(timers, m)
    BY <1>1 DEF Say
  <2>2. timers' \in Seq(Messages) /\ Len(timers') = Len(timers) + 1
        /\ timers'[Len(timers')] = m
    BY <2>1
  <2>3. timers' # <<>>
    BY <2>2
  <2>4. QED
    BY <2>1, <2>2, <2>3
<1>2. CASE UNCHANGED toastVars
  BY <1>2 DEF toastVars
<1>3. CASE ClearToast
  <2>1. toast' = NoToast /\ timers' \in Seq(Messages)
    BY <1>3 DEF ClearToast
  <2>2. QED
    BY <2>1
<1>4. QED
  BY <1>1, <1>2, <1>3 DEF ToastStep

\* Whoever set the toast, and however many were set before: a toast that is
\* shown has a timer that will take it away.
THEOREM ToastEndsItself == Spec => []ToastHasTimer
<1>1. Init => ToastInv
  BY DEF Init, ToastInit, ToastInv, ToastTypeOK, ToastHasTimer
<1>2. ToastInv /\ [Next]_vars => ToastInv'
  BY StepsOfTheShell, ToastStepInv
<1>3. ToastInv => ToastHasTimer
  BY DEF ToastInv
<1>4. QED
  BY <1>1, <1>2, <1>3, PTL DEF Spec

-----------------------------------------------------------------------------
(* The tab strip.                                                          *)

TabType == [path : Paths, closeable : BOOLEAN, pinned : BOOLEAN]

\* No path twice; the home tab is there, as it was made, and every other tab
\* can be closed.
GoodStrip(s) ==
    /\ s \in Seq(TabType)
    /\ \A i, j \in DOMAIN s : s[i].path = s[j].path => i = j
    /\ \A i \in DOMAIN s : s[i].path = HomePath => s[i] = Tab(HomePath, FALSE, FALSE)
    /\ \A i \in DOMAIN s : s[i].path # HomePath => s[i].closeable
    /\ \E i \in DOMAIN s : s[i].path = HomePath

StripInv == GoodStrip(tabs) /\ Len(tabs) <= MaxTabs /\ ActiveExists

RecentInv == recent \in Seq(Paths) /\ IsInjective(recent) /\ Len(recent) <= MaxRecent

TabInv == StripInv /\ RecentInv /\ toast # "pinLimit"

\* A strip from which tabs other than the home tab are taken.
LEMMA KeepStrip ==
    ASSUME NEW s, GoodStrip(s), NEW I \in SUBSET DOMAIN s,
           \A i \in DOMAIN s : s[i].path = HomePath => i \in I
    PROVE  GoodStrip(Keep(s, I)) /\ Len(Keep(s, I)) <= Len(s)
<1> DEFINE r == Keep(s, I)
<1>1. s \in Seq(TabType)
  BY DEF GoodStrip
<1>2. /\ r \in Seq(TabType) /\ Len(r) <= Len(s) /\ DOMAIN r = 1 .. Len(r)
      /\ \A k \in DOMAIN r : \E i \in I : r[k] = s[i]
      /\ \A i \in I : \E k \in DOMAIN r : r[k] = s[i]
      /\ \A k, l \in DOMAIN r :
            k < l => \E i, j \in I : i < j /\ r[k] = s[i] /\ r[l] = s[j]
  BY <1>1, KeepIsFilter
<1> HIDE DEF r
<1>3. DOMAIN s \in SUBSET Int /\ DOMAIN r \in SUBSET Int
  BY <1>1, <1>2
<1>4. ASSUME NEW k \in DOMAIN r, NEW l \in DOMAIN r, k < l PROVE r[k].path # r[l].path
  <2>1. PICK i \in I, j \in I : i < j /\ r[k] = s[i] /\ r[l] = s[j]
    BY <1>2, <1>4
  <2>2. i # j
    BY <1>3, <2>1
  <2>3. QED
    BY <2>1, <2>2 DEF GoodStrip
<1>5. \A k, l \in DOMAIN r : r[k].path = r[l].path => k = l
  BY <1>3, <1>4
<1>6. ASSUME NEW k \in DOMAIN r
      PROVE  /\ r[k].path = HomePath => r[k] = Tab(HomePath, FALSE, FALSE)
             /\ r[k].path # HomePath => r[k].closeable
  <2>1. PICK i \in I : r[k] = s[i]
    BY <1>2
  <2>2. QED
    BY <2>1 DEF GoodStrip
<1>7. \E k \in DOMAIN r : r[k].path = HomePath
  BY <1>2 DEF GoodStrip
<1>8. GoodStrip(r)
  BY <1>2, <1>5, <1>6, <1>7 DEF GoodStrip
<1>9. QED
  BY <1>2, <1>8 DEF r

\* The first of the tabs that pass a test passes it.
LEMMA HeadOfKeep ==
    ASSUME NEW s, GoodStrip(s), NEW I \in SUBSET DOMAIN s, Keep(s, I) # <<>> \/ I # {}
    PROVE  \E i \in I : Head(Keep(s, I)) = s[i]
<1> DEFINE r == Keep(s, I)
<1>1. s \in Seq(TabType)
  BY DEF GoodStrip
<1>2. /\ r \in Seq(TabType) /\ DOMAIN r = 1 .. Len(r)
      /\ \A k \in DOMAIN r : \E i \in I : r[k] = s[i]
      /\ \A i \in I : \E k \in DOMAIN r : r[k] = s[i]
  BY <1>1, KeepIsFilter
<1> HIDE DEF r
<1>3. r # <<>>
  BY <1>2 DEF r
<1>4. 1 \in DOMAIN r /\ Head(r) = r[1]
  BY <1>2, <1>3
<1>5. QED
  BY <1>2, <1>4 DEF r

LEMMA FoundIsOpen ==
    ASSUME StripInv, NEW id \in Ids
    PROVE  \E i \in DOMAIN tabs : Found(id) = tabs[i] /\ Id(tabs[i]) = id
<1> DEFINE I == {i \in DOMAIN tabs : Id(tabs[i]) = id}
<1>1. I # {} /\ I \in SUBSET DOMAIN tabs
  BY DEF Ids
<1>2. \E i \in I : Head(Keep(tabs, I)) = tabs[i]
  BY <1>1, HeadOfKeep DEF StripInv
<1>3. QED
  BY <1>2 DEF Found

\* Only the home tab has the home tab's id.
LEMMA HomeIdIsHomes ==
    ASSUME StripInv, NEW i \in DOMAIN tabs, NEW j \in DOMAIN tabs,
           Id(tabs[i]) = Id(tabs[j]), tabs[i].path = HomePath
    PROVE  i = j
<1>1. tabs[j].path \in Paths
  <2>1. tabs[j] \in TabType
    BY DEF StripInv, GoodStrip
  <2>2. QED
    BY <2>1 DEF TabType
<1>2. tabs[j].path = HomePath
  BY <1>1, TabAssumption DEF Id
<1>3. QED
  BY <1>2 DEF StripInv, GoodStrip

\* The tabs with the id of a tab that can be closed may go.
LEMMA WithoutStrip ==
    ASSUME StripInv, NEW i \in DOMAIN tabs, tabs[i].closeable
    PROVE  LET r == Without(tabs, Id(tabs[i]))
           IN  GoodStrip(r) /\ Len(r) < Len(tabs)
<1> DEFINE I == {j \in DOMAIN tabs : Id(tabs[j]) # Id(tabs[i])}
<1>1. ASSUME NEW j \in DOMAIN tabs, tabs[j].path = HomePath PROVE j \in I
  <2>1. tabs[i].path # HomePath
    BY DEF StripInv, GoodStrip, Tab
  <2>2. Id(tabs[j]) # Id(tabs[i])
    BY <1>1, <2>1, HomeIdIsHomes
  <2>3. QED
    BY <2>2
<1>2. GoodStrip(Keep(tabs, I))
  BY <1>1, KeepStrip DEF StripInv
<1>3. I \in SUBSET DOMAIN tabs /\ I # DOMAIN tabs
  OBVIOUS
<1>4. Len(Keep(tabs, I)) < Len(tabs)
  BY <1>3, KeepIsFilter DEF StripInv, GoodStrip
<1>5. QED
  BY <1>2, <1>4 DEF Without

\* The strip with one more tab.
LEMMA AppendStrip ==
    ASSUME NEW s, GoodStrip(s), NEW p \in Paths,
           \A i \in DOMAIN s : s[i].path # p
    PROVE  LET r == Append(s, Tab(p, TRUE, FALSE))
           IN  /\ GoodStrip(r) /\ Len(r) = Len(s) + 1
               /\ r[Len(r)] = Tab(p, TRUE, FALSE) /\ Len(r) \in DOMAIN r
               /\ \A i \in DOMAIN s : i \in DOMAIN r /\ r[i] = s[i]
<1> DEFINE t == Tab(p, TRUE, FALSE)
           r == Append(s, t)
<1>1. s \in Seq(TabType) /\ t \in TabType /\ t.path = p /\ t.closeable
  BY DEF GoodStrip, TabType, Tab
<1> HIDE DEF t
<1>2. /\ r \in Seq(TabType) /\ Len(r) = Len(s) + 1 /\ DOMAIN r = DOMAIN s \cup {Len(r)}
      /\ r[Len(r)] = t /\ Len(r) \notin DOMAIN s
      /\ \A i \in DOMAIN s : r[i] = s[i]
  BY <1>1
<1> HIDE DEF r
<1>3. \A i, j \in DOMAIN r : r[i].path = r[j].path => i = j
  BY <1>1, <1>2 DEF GoodStrip
<1>4. p # HomePath
  BY DEF GoodStrip
<1>5. /\ \A i \in DOMAIN r : r[i].path = HomePath => r[i] = Tab(HomePath, FALSE, FALSE)
      /\ \A i \in DOMAIN r : r[i].path # HomePath => r[i].closeable
  BY <1>1, <1>2, <1>4 DEF GoodStrip
<1>6. \E i \in DOMAIN r : r[i].path = HomePath
  BY <1>2 DEF GoodStrip
<1>7. GoodStrip(r)
  BY <1>2, <1>3, <1>5, <1>6 DEF GoodStrip
<1>8. QED
  BY <1>2, <1>7 DEF r, t

\* Making room gives up an unpinned tab, with those of its id.
LEMMA MadeRoomStrip ==
    ASSUME StripInv, ~NoRoom
    PROVE  /\ GoodStrip(MadeRoom) /\ Len(MadeRoom) < MaxTabs
           /\ ToSet(MadeRoom) \subseteq ToSet(tabs)
           /\ \A i \in DOMAIN tabs :
                \/ ~tabs[i].pinned
                \/ tabs[i] \in ToSet(MadeRoom)
                \/ \E j \in DOMAIN tabs \ {i} : Id(tabs[j]) = Id(tabs[i])
<1>1. tabs \in Seq(TabType) /\ Len(tabs) \in Nat /\ MaxTabs \in Nat
  BY TabAssumption DEF StripInv, GoodStrip
<1>2. CASE Len(tabs) < MaxTabs
  <2>1. MadeRoom = tabs
    BY <1>1, <1>2 DEF MadeRoom
  <2>2. QED
    BY <1>2, <2>1 DEF StripInv, ToSet
<1>3. CASE ~(Len(tabs) < MaxTabs)
  <2> DEFINE I == {i \in DOMAIN tabs : tabs[i].closeable /\ ~tabs[i].pinned}
  <2>1. Evictable # <<>> /\ Len(tabs) >= MaxTabs
    BY <1>1, <1>3 DEF NoRoom
  <2>2. PICK h \in I : Head(Evictable) = tabs[h]
    BY <2>1, HeadOfKeep DEF Evictable, StripInv
  <2> DEFINE J == {j \in DOMAIN tabs : Id(tabs[j]) # Id(tabs[h])}
  <2>3. MadeRoom = Without(tabs, Id(tabs[h]))
    BY <2>1, <2>2 DEF MadeRoom
  <2>4. GoodStrip(MadeRoom) /\ Len(MadeRoom) < Len(tabs)
    BY <2>2, <2>3, WithoutStrip
  <2>5. Len(MadeRoom) < MaxTabs
    <3>1. Len(MadeRoom) \in Nat
      BY <2>4 DEF GoodStrip
    <3>2. QED
      BY <1>1, <2>4, <3>1 DEF StripInv
  <2>6. ToSet(MadeRoom) = {tabs[j] : j \in J}
    <3>1. MadeRoom = Keep(tabs, J)
      BY <2>3 DEF Without
    <3>2. J \in SUBSET DOMAIN tabs
      OBVIOUS
    <3> HIDE DEF J
    <3>3. LET r == Keep(tabs, J) IN {r[k] : k \in DOMAIN r} = {tabs[j] : j \in J}
      BY <1>1, <3>2, KeepElements
    <3>4. QED
      BY <3>1, <3>3 DEF ToSet
  <2>7. QED
    BY <2>2, <2>4, <2>5, <2>6 DEF ToSet
<1>4. QED
  BY <1>2, <1>3

LEMMA CutList ==
    ASSUME NEW s \in Seq(Paths), IsInjective(s)
    PROVE  Cut(s) \in Seq(Paths) /\ IsInjective(Cut(s)) /\ Len(Cut(s)) <= MaxRecent
<1> DEFINE n == IF Len(s) < MaxRecent THEN Len(s) ELSE MaxRecent
<1>1. n \in Nat /\ n <= Len(s) /\ n <= MaxRecent /\ DOMAIN s = 1 .. Len(s) /\ Len(s) \in Nat
  BY TabAssumption
<1> HIDE DEF n
<1>2. \A i \in 1 .. n : i \in DOMAIN s /\ s[i] \in Paths
  BY <1>1
<1>3. /\ SubSeq(s, 1, n) \in Seq(Paths)
      /\ Len(SubSeq(s, 1, n)) = n
      /\ \A i \in 1 .. n : SubSeq(s, 1, n)[i] = s[i]
  BY <1>1, <1>2
<1>4. IsInjective(SubSeq(s, 1, n))
  BY <1>2, <1>3 DEF IsInjective
<1>5. QED
  BY <1>1, <1>3, <1>4 DEF Cut, n

LEMMA RememberedList ==
    ASSUME RecentInv, NEW p \in Paths
    PROVE  LET r == Remembered(p)
           IN  r \in Seq(Paths) /\ IsInjective(r) /\ Len(r) <= MaxRecent
<1> DEFINE I == {i \in DOMAIN recent : recent[i] # p}
           k == Keep(recent, I)
           s == <<p>> \o k
<1>1. recent \in Seq(Paths) /\ I \in SUBSET DOMAIN recent /\ DOMAIN recent \in SUBSET Int
  BY DEF RecentInv
<1>2. /\ k \in Seq(Paths) /\ DOMAIN k = 1 .. Len(k)
      /\ \A a \in DOMAIN k : \E i \in I : k[a] = recent[i]
      /\ \A a, b \in DOMAIN k :
            a < b => \E i, j \in I : i < j /\ k[a] = recent[i] /\ k[b] = recent[j]
  BY <1>1, KeepIsFilter
<1>3. \A a \in DOMAIN k : k[a] # p
  BY <1>2
<1>4. ASSUME NEW a \in DOMAIN k, NEW b \in DOMAIN k, a < b PROVE k[a] # k[b]
  <2>1. PICK i \in I, j \in I : i < j /\ k[a] = recent[i] /\ k[b] = recent[j]
    BY <1>2, <1>4
  <2>2. i # j
    BY <1>1, <2>1
  <2>3. QED
    BY <2>1, <2>2 DEF RecentInv, IsInjective
<1> HIDE DEF k
<1>5. /\ s \in Seq(Paths) /\ DOMAIN s = 1 .. Len(k) + 1 /\ s[1] = p
      /\ \A i \in 2 .. Len(k) + 1 : s[i] = k[i - 1] /\ i - 1 \in DOMAIN k
  BY <1>2
<1> HIDE DEF s
<1>6. Len(k) \in Nat
  BY <1>2
<1>7. ASSUME NEW i \in DOMAIN s, NEW j \in DOMAIN s, i < j PROVE s[i] # s[j]
  <2>1. j \in 2 .. Len(k) + 1 /\ s[j] = k[j - 1] /\ j - 1 \in DOMAIN k
    BY <1>5, <1>6, <1>7
  <2>2. CASE i = 1
    BY <1>3, <1>5, <2>1, <2>2
  <2>3. CASE i # 1
    <3>1. s[i] = k[i - 1] /\ i - 1 \in DOMAIN k /\ i - 1 < j - 1
      BY <1>5, <1>6, <1>7, <2>3
    <3>2. QED
      BY <1>4, <2>1, <3>1
  <2>4. QED
    BY <2>2, <2>3
<1>8. IsInjective(s)
  <2>1. DOMAIN s \in SUBSET Int
    BY <1>5
  <2>2. QED
    BY <1>7, <2>1 DEF IsInjective
<1>9. QED
  BY <1>5, <1>8, CutList DEF Remembered, s, k

LEMMA OpenNewInv ==
    ASSUME TabInv, NEW p \in Paths, OpenNew(p)
    PROVE  TabInv' /\ PinnedKept
<1> DEFINE room == MadeRoom
           I == {i \in DOMAIN room : IsRealPage(room[i])}
           kept == IF p \in NewTabPaths THEN room ELSE Keep(room, I)
<1>1. /\ ~IsOpen(p) /\ ~NoRoom
      /\ tabs' = Append(kept, Tab(p, TRUE, FALSE))
      /\ active' = IdOf[p]
      /\ recent' = IF p \in NewTabPaths THEN recent ELSE Remembered(p)
      /\ toast' = toast
  BY DEF OpenNew, toastVars
<1>2. /\ GoodStrip(room) /\ Len(room) < MaxTabs
      /\ ToSet(room) \subseteq ToSet(tabs)
      /\ \A i \in DOMAIN tabs :
           \/ ~tabs[i].pinned
           \/ tabs[i] \in ToSet(room)
           \/ \E j \in DOMAIN tabs \ {i} : Id(tabs[j]) = Id(tabs[i])
  BY <1>1, MadeRoomStrip DEF TabInv
<1> HIDE DEF room
<1>3. /\ GoodStrip(kept) /\ Len(kept) <= Len(room)
      /\ ToSet(kept) \subseteq ToSet(room)
      /\ \A t \in ToSet(room) : t \in ToSet(kept) \/ t.path \in NewTabPaths
  <2>0. Len(room) \in Nat
    BY <1>2 DEF GoodStrip
  <2>1. CASE p \in NewTabPaths
    BY <1>2, <2>0, <2>1
  <2>2. CASE p \notin NewTabPaths
    <3>1. kept = Keep(room, I) /\ I \in SUBSET DOMAIN room
      BY <2>2
    <3>2. \A i \in DOMAIN room : room[i].path = HomePath => i \in I
      BY TabAssumption DEF IsRealPage
    <3>3. GoodStrip(Keep(room, I)) /\ Len(Keep(room, I)) <= Len(room)
      BY <1>2, <3>1, <3>2, KeepStrip
    <3>4. ToSet(Keep(room, I)) = {room[i] : i \in I}
      <4>1. LET r == Keep(room, I) IN {r[k] : k \in DOMAIN r} = {room[i] : i \in I}
        <5>1. room \in Seq(TabType)
          BY <1>2 DEF GoodStrip
        <5> HIDE DEF I
        <5>2. QED
          BY <3>1, <5>1, KeepElements
      <4>2. QED
        BY <4>1 DEF ToSet
    <3>5. QED
      BY <3>1, <3>3, <3>4 DEF ToSet, IsRealPage
  <2>3. QED
    BY <2>1, <2>2
<1> HIDE DEF kept
<1>4. \A t \in ToSet(tabs) : t.path # p
  BY <1>1 DEF IsOpen, ToSet
<1>5. \A i \in DOMAIN kept : kept[i].path # p
  BY <1>2, <1>3, <1>4 DEF ToSet
<1>6. /\ GoodStrip(tabs') /\ Len(tabs') = Len(kept) + 1
      /\ tabs'[Len(tabs')] = Tab(p, TRUE, FALSE) /\ Len(tabs') \in DOMAIN tabs'
      /\ \A i \in DOMAIN kept : i \in DOMAIN tabs' /\ tabs'[i] = kept[i]
  BY <1>1, <1>3, <1>5, AppendStrip
<1>7. Len(tabs') <= MaxTabs
  <2>1. Len(kept) \in Nat /\ Len(room) \in Nat /\ MaxTabs \in Nat
    BY <1>2, <1>3, TabAssumption DEF GoodStrip
  <2>2. QED
    BY <1>2, <1>3, <1>6, <2>1
<1>8. ActiveExists'
  BY <1>1, <1>6 DEF ActiveExists, Ids, Id, Tab
<1>9. RecentInv'
  BY <1>1, RememberedList DEF RecentInv, TabInv
<1>10. PinnedKept
  <2> SUFFICES ASSUME NEW i \in DOMAIN tabs, tabs[i] \in ToSet(room),
                      tabs[i].path \notin NewTabPaths
               PROVE  \E j \in DOMAIN tabs' : tabs'[j].path = tabs[i].path
    BY <1>2 DEF PinnedKept
  <2>1. tabs[i] \in ToSet(kept)
    BY <1>3
  <2>2. QED
    BY <1>6, <2>1 DEF ToSet
<1>11. QED
  BY <1>1, <1>6, <1>7, <1>8, <1>9, <1>10 DEF TabInv, StripInv

\* As many tabs as may be pinned are never pinned.
LEMMA PinnedAreFew ==
    ASSUME StripInv
    PROVE  Cardinality(Pinned) \in Nat /\ Cardinality(Pinned) < MaxTabs
<1>1. tabs \in Seq(TabType) /\ Len(tabs) \in Nat /\ DOMAIN tabs = 1 .. Len(tabs)
  BY DEF StripInv, GoodStrip
<1>2. PICK h \in DOMAIN tabs : tabs[h].path = HomePath
  BY DEF StripInv, GoodStrip
<1>3. ~tabs[h].pinned
  BY <1>2 DEF StripInv, GoodStrip, Tab
<1>4. Pinned \in SUBSET DOMAIN tabs /\ Pinned # DOMAIN tabs
  BY <1>2, <1>3 DEF Pinned
<1>5. IsFiniteSet(DOMAIN tabs) /\ Cardinality(DOMAIN tabs) = Len(tabs)
  BY <1>1, PositionsAreFinite
<1>6. /\ IsFiniteSet(Pinned) /\ Cardinality(Pinned) <= Len(tabs)
      /\ Cardinality(Pinned) # Len(tabs)
  BY <1>4, <1>5, FS_Subset
<1>7. Cardinality(Pinned) \in Nat
  BY <1>6, FS_CardinalityType
<1>8. QED
  BY <1>1, <1>6, <1>7, TabAssumption DEF StripInv

LEMMA OtherOpenInv ==
    ASSUME TabInv, NEW p \in Paths, OpenExisting(p) \/ OpenRefused(p)
    PROVE  TabInv' /\ PinnedKept
<1>1. tabs' = tabs /\ recent' = recent
  BY DEF OpenExisting, OpenRefused, tabVars
<1>2. toast' # "pinLimit" /\ ActiveExists'
  <2>1. CASE OpenExisting(p)
    BY <1>1, <2>1 DEF OpenExisting, IsOpen, ActiveExists, Ids, Id, toastVars, TabInv
  <2>2. CASE OpenRefused(p)
    <3>1. ~(Cardinality(Pinned) >= MaxTabs)
      BY PinnedAreFew, TabAssumption DEF TabInv
    <3>2. toast' = "allPinned" /\ active' = active
      BY <2>2, <3>1 DEF OpenRefused, Say, tabVars
    <3>3. QED
      BY <1>1, <3>2 DEF TabInv, StripInv, ActiveExists, Ids
  <2>3. QED
    BY <2>1, <2>2
<1>3. QED
  BY <1>1, <1>2 DEF TabInv, StripInv, RecentInv, PinnedKept

-----------------------------------------------------------------------------
(* Closing tabs.                                                           *)

\* What all closings have in common.
LEMMA KeepTabs ==
    ASSUME TabInv, NEW I \in SUBSET DOMAIN tabs,
           \A i \in DOMAIN tabs : tabs[i].path = HomePath => i \in I,
           tabs' = Keep(tabs, I), UNCHANGED <<recent, toastVars>>
    PROVE  /\ GoodStrip(tabs') /\ Len(tabs') <= MaxTabs
           /\ RecentInv' /\ toast' # "pinLimit"
           /\ LastId(tabs') \in Ids'
           /\ \A i \in I : \E k \in DOMAIN tabs' : tabs'[k] = tabs[i]
<1>1. tabs \in Seq(TabType) /\ Len(tabs) \in Nat /\ MaxTabs \in Nat
  BY TabAssumption DEF TabInv, StripInv, GoodStrip
<1>2. GoodStrip(tabs') /\ Len(tabs') <= Len(tabs)
  BY KeepStrip DEF TabInv, StripInv
<1>3. Len(tabs') \in Nat /\ DOMAIN tabs' = 1 .. Len(tabs') /\ tabs' # <<>>
  BY <1>2 DEF GoodStrip
<1>4. Len(tabs') <= MaxTabs
  BY <1>1, <1>2, <1>3 DEF TabInv, StripInv
<1>5. LastId(tabs') \in Ids'
  <2>1. Len(tabs') \in DOMAIN tabs'
    BY <1>2, <1>3 DEF GoodStrip
  <2>2. QED
    BY <1>3, <2>1 DEF LastId, Last, Ids, Id
<1>6. \A i \in I : \E k \in DOMAIN tabs' : tabs'[k] = tabs[i]
  BY <1>1, KeepIsFilter
<1>7. RecentInv' /\ toast' # "pinLimit"
  BY DEF RecentInv, TabInv, toastVars
<1>8. QED
  BY <1>2, <1>4, <1>5, <1>6, <1>7

LEMMA CloseTabInv ==
    ASSUME TabInv, NEW id \in Ids, CloseTab(id)
    PROVE  TabInv' /\ PinnedKept
<1> DEFINE I == {i \in DOMAIN tabs : Id(tabs[i]) # id}
<1>1. PICK f \in DOMAIN tabs : Found(id) = tabs[f] /\ Id(tabs[f]) = id
  BY FoundIsOpen DEF TabInv
<1>2. /\ tabs[f].closeable /\ ~tabs[f].pinned
      /\ tabs' = Keep(tabs, I)
      /\ active' = IF active = id THEN LastId(tabs') ELSE active
      /\ UNCHANGED <<recent, toastVars>>
  BY <1>1 DEF CloseTab, Without
<1>3. ASSUME NEW j \in DOMAIN tabs, tabs[j].path = HomePath PROVE j \in I
  <2>1. tabs[f].path # HomePath
    BY <1>2 DEF TabInv, StripInv, GoodStrip, Tab
  <2>2. Id(tabs[j]) # Id(tabs[f])
    BY <1>3, <2>1, HomeIdIsHomes DEF TabInv
  <2>3. QED
    BY <1>1, <2>2
<1>4. /\ GoodStrip(tabs') /\ Len(tabs') <= MaxTabs
      /\ RecentInv' /\ toast' # "pinLimit"
      /\ LastId(tabs') \in Ids'
      /\ \A i \in I : \E k \in DOMAIN tabs' : tabs'[k] = tabs[i]
  BY <1>2, <1>3, KeepTabs
<1>5. ActiveExists'
  <2>1. CASE active = id
    BY <1>2, <1>4, <2>1 DEF ActiveExists
  <2>2. CASE active # id
    <3>1. PICK a \in DOMAIN tabs : Id(tabs[a]) = active
      BY DEF TabInv, StripInv, ActiveExists, Ids
    <3>2. PICK k \in DOMAIN tabs' : tabs'[k] = tabs[a]
      BY <1>4, <2>2, <3>1
    <3>3. QED
      BY <1>2, <2>2, <3>1, <3>2 DEF ActiveExists, Ids, Id
  <2>3. QED
    BY <2>1, <2>2
<1>6. PinnedKept
  BY <1>1, <1>2, <1>4 DEF PinnedKept
<1>7. QED
  BY <1>4, <1>5, <1>6 DEF TabInv, StripInv

LEMMA CloseOthersInv ==
    ASSUME TabInv, NEW id \in Ids, CloseOthers(id)
    PROVE  TabInv' /\ PinnedKept
<1> DEFINE I == {i \in DOMAIN tabs :
                   \/ Id(tabs[i]) = id
                   \/ ~tabs[i].closeable \/ tabs[i].pinned}
<1>1. tabs' = Keep(tabs, I) /\ active' = id /\ UNCHANGED <<recent, toastVars>>
  BY DEF CloseOthers
<1>2. \A j \in DOMAIN tabs : tabs[j].path = HomePath => j \in I
  BY DEF TabInv, StripInv, GoodStrip, Tab
<1>3. /\ GoodStrip(tabs') /\ Len(tabs') <= MaxTabs
      /\ RecentInv' /\ toast' # "pinLimit"
      /\ \A i \in I : \E k \in DOMAIN tabs' : tabs'[k] = tabs[i]
  BY <1>1, <1>2, KeepTabs
<1>4. PICK a \in I : Id(tabs[a]) = id
  BY DEF Ids
<1>5. ActiveExists'
  BY <1>1, <1>3, <1>4 DEF ActiveExists, Ids, Id
<1>6. PinnedKept
  BY <1>3 DEF PinnedKept
<1>7. QED
  BY <1>3, <1>5, <1>6 DEF TabInv, StripInv

LEMMA CloseAllInv ==
    ASSUME TabInv, CloseAll
    PROVE  TabInv' /\ PinnedKept
<1> DEFINE I == {i \in DOMAIN tabs : ~tabs[i].closeable \/ tabs[i].pinned}
<1>1. tabs' = Keep(tabs, I) /\ active' = LastId(tabs') /\ UNCHANGED <<recent, toastVars>>
  BY DEF CloseAll
<1>2. \A j \in DOMAIN tabs : tabs[j].path = HomePath => j \in I
  BY DEF TabInv, StripInv, GoodStrip, Tab
<1>3. /\ GoodStrip(tabs') /\ Len(tabs') <= MaxTabs
      /\ RecentInv' /\ toast' # "pinLimit"
      /\ LastId(tabs') \in Ids'
      /\ \A i \in I : \E k \in DOMAIN tabs' : tabs'[k] = tabs[i]
  BY <1>1, <1>2, KeepTabs
<1>4. ActiveExists' /\ PinnedKept
  BY <1>1, <1>3 DEF ActiveExists, PinnedKept
<1>5. QED
  BY <1>3, <1>4 DEF TabInv, StripInv

-----------------------------------------------------------------------------
(* The other operations on the strip.                                      *)

\* Position k of r has the element of s at from[k], each once.
Reordered(r, s, from) ==
    /\ Len(r) = Len(s)
    /\ from \in [DOMAIN s -> DOMAIN s]
    /\ \A k \in DOMAIN s : r[k] = s[from[k]]
    /\ \A k, l \in DOMAIN s : from[k] = from[l] => k = l
    /\ \A i \in DOMAIN s : \E k \in DOMAIN s : from[k] = i

LEMMA ReorderedStrip ==
    ASSUME NEW s, GoodStrip(s), NEW r \in Seq(TabType), NEW from, Reordered(r, s, from)
    PROVE  GoodStrip(r) /\ \A i \in DOMAIN s : \E k \in DOMAIN r : r[k] = s[i]
<1>1. DOMAIN r = DOMAIN s
  BY DEF GoodStrip, Reordered
<1>2. ASSUME NEW i \in DOMAIN r
      PROVE  \E a \in DOMAIN s : from[i] = a /\ r[i] = s[a]
  BY <1>1 DEF Reordered
<1>3. ASSUME NEW i \in DOMAIN r, NEW j \in DOMAIN r, r[i].path = r[j].path PROVE i = j
  <2>1. PICK a \in DOMAIN s : from[i] = a /\ r[i] = s[a]
    BY <1>2
  <2>2. PICK b \in DOMAIN s : from[j] = b /\ r[j] = s[b]
    BY <1>2
  <2>3. a = b
    BY <1>3, <2>1, <2>2 DEF GoodStrip
  <2>4. QED
    BY <1>1, <2>1, <2>2, <2>3 DEF Reordered
<1>4. ASSUME NEW i \in DOMAIN r
      PROVE  /\ r[i].path = HomePath => r[i] = Tab(HomePath, FALSE, FALSE)
             /\ r[i].path # HomePath => r[i].closeable
  <2>1. PICK a \in DOMAIN s : r[i] = s[a]
    BY <1>2
  <2>2. QED
    BY <2>1 DEF GoodStrip
<1>5. ASSUME NEW i \in DOMAIN s PROVE \E k \in DOMAIN r : r[k] = s[i]
  BY <1>1 DEF Reordered
<1>6. \E k \in DOMAIN r : r[k].path = HomePath
  BY <1>5 DEF GoodStrip
<1>7. \A i, j \in DOMAIN r : r[i].path = r[j].path => i = j
  BY <1>3
<1>8. /\ \A i \in DOMAIN r : r[i].path = HomePath => r[i] = Tab(HomePath, FALSE, FALSE)
      /\ \A i \in DOMAIN r : r[i].path # HomePath => r[i].closeable
  BY <1>4
<1>9. QED
  BY <1>5, <1>6, <1>7, <1>8 DEF GoodStrip

LEMMA MoveTabInv ==
    ASSUME TabInv, NEW i \in DOMAIN tabs, NEW j \in DOMAIN tabs, MoveTab(i, j)
    PROVE  TabInv' /\ PinnedKept
<1> DEFINE n == Len(tabs)
           rest == RemoveAt(tabs, i)
           before == SubSeq(rest, 1, j - 1)
           after == SubSeq(rest, j, Len(rest))
           here(k) == IF k < i THEN k ELSE k + 1
           from == [k \in 1 .. n |->
                     IF k = j THEN i ELSE here(IF k < j THEN k ELSE k - 1)]
<1>1. /\ tabs \in Seq(TabType) /\ n \in Nat /\ DOMAIN tabs = 1 .. n
      /\ i \in 1 .. n /\ j \in 1 .. n /\ \A k \in 1 .. n : tabs[k] \in TabType
  BY DEF TabInv, StripInv, GoodStrip
<1>2. /\ rest \in Seq(TabType) /\ Len(rest) = n - 1
      /\ \A k \in 1 .. n - 1 : rest[k] = tabs[here(k)]
  <2> DEFINE a == SubSeq(tabs, 1, i - 1)
             b == SubSeq(tabs, i + 1, n)
  <2>1. /\ a \in Seq(TabType) /\ Len(a) = i - 1
        /\ \A k \in 1 .. i - 1 : a[k] = tabs[k]
    BY <1>1
  <2>2. /\ b \in Seq(TabType) /\ Len(b) = n - i
        /\ \A k \in 1 .. n - i : b[k] = tabs[k + i]
    BY <1>1
  <2>3. rest = a \o b
    BY DEF RemoveAt
  <2> HIDE DEF a, b, rest
  <2>4. /\ rest \in Seq(TabType) /\ Len(rest) = Len(a) + Len(b)
        /\ \A k \in 1 .. Len(a) + Len(b) :
              rest[k] = IF k <= Len(a) THEN a[k] ELSE b[k - Len(a)]
    BY <2>1, <2>2, <2>3, ConcatProperties
  <2> HIDE DEF n
  <2>5. ASSUME NEW k \in 1 .. n - 1 PROVE rest[k] = tabs[here(k)]
    <3>1. CASE k < i
      BY <1>1, <2>1, <2>2, <2>4, <3>1
    <3>2. CASE ~(k < i)
      <4>1. rest[k] = b[k - (i - 1)] /\ k - (i - 1) \in 1 .. n - i
        BY <1>1, <2>1, <2>2, <2>4, <3>2
      <4>2. b[k - (i - 1)] = tabs[k - (i - 1) + i] /\ k - (i - 1) + i = k + 1
        BY <1>1, <2>2, <4>1
      <4>3. QED
        BY <3>2, <4>1, <4>2
    <3>3. QED
      BY <3>1, <3>2
  <2>6. QED
    BY <1>1, <2>1, <2>2, <2>4, <2>5
<1> HIDE DEF rest
<1>3. /\ before \in Seq(TabType) /\ Len(before) = j - 1
      /\ \A k \in 1 .. j - 1 : before[k] = rest[k]
  BY <1>1, <1>2
<1>4. /\ after \in Seq(TabType) /\ Len(after) = n - j
      /\ \A k \in 1 .. n - j : after[k] = rest[k + j - 1]
  BY <1>1, <1>2
<1> HIDE DEF before, after
<1>5. /\ tabs' = before \o <<tabs[i]>> \o after
      /\ UNCHANGED <<active, recent, toastVars>>
  BY DEF MoveTab, InsertAt, rest, before, after
<1>6. /\ tabs' \in Seq(TabType) /\ Len(tabs') = n
      /\ \A k \in 1 .. n : tabs'[k] = IF k < j THEN rest[k]
                                      ELSE IF k = j THEN tabs[i] ELSE rest[k - 1]
  <2> DEFINE x == <<tabs[i]>>
             front == before \o x
  <2>1. x \in Seq(TabType) /\ Len(x) = 1 /\ x[1] = tabs[i]
    BY <1>1
  <2> HIDE DEF x
  <2>2. /\ front \in Seq(TabType) /\ Len(front) = Len(before) + Len(x)
        /\ \A k \in 1 .. Len(before) + Len(x) :
              front[k] = IF k <= Len(before) THEN before[k] ELSE x[k - Len(before)]
    BY <1>3, <2>1, ConcatProperties
  <2>3. tabs' = front \o after
    BY <1>5 DEF x
  <2> HIDE DEF front
  <2>4. /\ tabs' \in Seq(TabType) /\ Len(tabs') = Len(front) + Len(after)
        /\ \A k \in 1 .. Len(front) + Len(after) :
              tabs'[k] = IF k <= Len(front) THEN front[k] ELSE after[k - Len(front)]
    <3>1. /\ front \o after \in Seq(TabType)
          /\ Len(front \o after) = Len(front) + Len(after)
          /\ \A k \in 1 .. Len(front) + Len(after) : (front \o after)[k] =
                 IF k <= Len(front) THEN front[k] ELSE after[k - Len(front)]
      <4>1. front \in Seq(TabType) /\ after \in Seq(TabType)
        BY <1>4, <2>2
      <4>2. QED
        BY <4>1, ConcatProperties
    <3>2. QED
      BY <2>3, <3>1
  <2> HIDE DEF n
  <2>5. Len(front) = j /\ Len(tabs') = n
    <3>1. Len(front) = j
      BY <1>1, <1>3, <2>1, <2>2
    <3>2. QED
      BY <1>1, <1>4, <2>4, <3>1
  <2>6. ASSUME NEW k \in 1 .. n
        PROVE  tabs'[k] = IF k < j THEN rest[k]
                          ELSE IF k = j THEN tabs[i] ELSE rest[k - 1]
    <3>1. CASE k < j
      <4>1. tabs'[k] = front[k]
        BY <1>1, <1>3, <1>4, <2>4, <2>5, <3>1
      <4>2. front[k] = before[k] /\ before[k] = rest[k]
        BY <1>1, <1>3, <2>1, <2>2, <3>1
      <4>3. QED
        BY <3>1, <4>1, <4>2
    <3>2. CASE k = j
      <4>1. tabs'[k] = front[k]
        BY <1>1, <1>3, <1>4, <2>4, <2>5, <3>2
      <4>2. front[k] = x[k - (j - 1)] /\ k - (j - 1) = 1
        BY <1>1, <1>3, <2>1, <2>2, <3>2
      <4>3. QED
        BY <1>1, <2>1, <3>2, <4>1, <4>2
    <3>3. CASE k > j
      <4>1. tabs'[k] = after[k - j] /\ k - j \in 1 .. n - j
        BY <1>1, <1>3, <1>4, <2>4, <2>5, <3>3
      <4>2. after[k - j] = rest[k - j + j - 1] /\ k - j + j - 1 = k - 1
        BY <1>1, <1>4, <3>3, <4>1
      <4>3. QED
        BY <1>1, <3>3, <4>1, <4>2
    <3>4. QED
      BY <1>1, <3>1, <3>2, <3>3
  <2>7. QED
    BY <2>4, <2>5, <2>6
<1>7. from \in [DOMAIN tabs -> DOMAIN tabs]
  BY <1>1
<1>8. ASSUME NEW k \in DOMAIN tabs PROVE tabs'[k] = tabs[from[k]]
  <2> HIDE DEF n
  <2>1. CASE k = j
    BY <1>1, <1>6, <2>1
  <2>2. CASE k < j
    <3>1. tabs'[k] = rest[k] /\ k \in 1 .. n - 1
      BY <1>1, <1>6, <2>2
    <3>2. rest[k] = tabs[here(k)]
      BY <1>2, <3>1
    <3>3. QED
      BY <1>1, <2>2, <3>1, <3>2
  <2>3. CASE k > j
    <3>1. tabs'[k] = rest[k - 1] /\ k - 1 \in 1 .. n - 1
      BY <1>1, <1>6, <2>3
    <3>2. rest[k - 1] = tabs[here(k - 1)]
      BY <1>2, <3>1
    <3>3. QED
      BY <1>1, <2>3, <3>1, <3>2
  <2>4. QED
    BY <1>1, <2>1, <2>2, <2>3
<1>9. \A k, l \in DOMAIN tabs : from[k] = from[l] => k = l
  BY <1>1
<1>10. ASSUME NEW m \in DOMAIN tabs PROVE \E k \in DOMAIN tabs : from[k] = m
  <2>1. CASE m = i
    BY <1>1, <2>1
  <2>2. CASE m # i
    <3> DEFINE q == IF m < i THEN m ELSE m - 1
               k == IF q < j THEN q ELSE q + 1
    <3> HIDE DEF n
    <3>0. q \in 1 .. n - 1 /\ k \in 1 .. n /\ k # j
      BY <1>1, <2>2
    <3>1. k \in 1 .. n /\ from[k] = m
      <4>1. (IF k < j THEN k ELSE k - 1) = q
        BY <1>1, <3>0
      <4>2. here(q) = m
        BY <1>1, <2>2
      <4> HIDE DEF k, q
      <4>3. QED
        BY <3>0, <4>1, <4>2
    <3>2. QED
      BY <1>1, <3>1
  <2>3. QED
    BY <2>1, <2>2
<1> HIDE DEF from, n
<1>11. GoodStrip(tabs)
  BY DEF TabInv, StripInv
<1>12. GoodStrip(tabs') /\ \A m \in DOMAIN tabs : \E k \in DOMAIN tabs' : tabs'[k] = tabs[m]
  <2>1. Len(tabs') = Len(tabs)
    BY <1>6 DEF n
  <2>2. QED
    <3>1. tabs' \in Seq(TabType)
      BY <1>6
    <3>2. /\ \A k \in DOMAIN tabs : tabs'[k] = tabs[from[k]]
          /\ \A m \in DOMAIN tabs : \E k \in DOMAIN tabs : from[k] = m
      BY <1>8, <1>10
    <3>3. Reordered(tabs', tabs, from)
      BY <1>7, <1>9, <2>1, <3>2 DEF Reordered
    <3>4. QED
      BY <1>11, <3>1, <3>3, ReorderedStrip
<1>13. Len(tabs') <= MaxTabs
  BY <1>6 DEF n, TabInv, StripInv
<1>14. ActiveExists'
  <2>1. PICK a \in DOMAIN tabs : Id(tabs[a]) = active
    BY DEF TabInv, StripInv, ActiveExists, Ids
  <2>2. QED
    BY <1>5, <1>12, <2>1 DEF ActiveExists, Ids, Id
<1>15. RecentInv' /\ toast' # "pinLimit" /\ PinnedKept
  BY <1>5, <1>12 DEF RecentInv, TabInv, toastVars, PinnedKept
<1>16. QED
  BY <1>12, <1>13, <1>14, <1>15 DEF TabInv, StripInv

LEMMA TogglePinInv ==
    ASSUME TabInv, NEW id \in Ids, TogglePin(id)
    PROVE  TabInv' /\ PinnedKept
<1>1. PICK f \in DOMAIN tabs : Found(id) = tabs[f] /\ Id(tabs[f]) = id
  BY FoundIsOpen DEF TabInv
<1>2. tabs[f].path # HomePath
  BY <1>1 DEF TogglePin, TabInv, StripInv, GoodStrip, Tab
<1>3. ~(Cardinality(Pinned) >= MaxTabs)
  BY PinnedAreFew, TabAssumption DEF TabInv
<1>4. /\ tabs' = [i \in DOMAIN tabs |->
                     IF Id(tabs[i]) = id
                     THEN [tabs[i] EXCEPT !.pinned = ~@] ELSE tabs[i]]
      /\ UNCHANGED <<active, recent, toastVars>>
  BY <1>3 DEF TogglePin
<1>5. tabs \in Seq(TabType) /\ Len(tabs) \in Nat /\ DOMAIN tabs = 1 .. Len(tabs)
  BY DEF TabInv, StripInv, GoodStrip
<1>6. ASSUME NEW i \in DOMAIN tabs
      PROVE  /\ tabs'[i] \in TabType
             /\ tabs'[i].path = tabs[i].path /\ tabs'[i].closeable = tabs[i].closeable
             /\ tabs[i].path = HomePath => tabs'[i] = tabs[i]
  <2>1. tabs[i] \in TabType
    BY <1>5
  <2>2. tabs[i].path = HomePath => Id(tabs[i]) # id
    BY <1>1, <1>2, HomeIdIsHomes DEF TabInv
  <2>3. QED
    BY <1>4, <2>1, <2>2 DEF TabType
<1>7. tabs' \in Seq(TabType) /\ DOMAIN tabs' = DOMAIN tabs /\ Len(tabs') = Len(tabs)
  <2>1. tabs' \in [1 .. Len(tabs) -> TabType]
    BY <1>4, <1>5, <1>6
  <2>2. QED
    BY <1>5, <2>1
<1>8. GoodStrip(tabs')
  <2>1. \A i, j \in DOMAIN tabs' : tabs'[i].path = tabs'[j].path => i = j
    BY <1>6, <1>7 DEF TabInv, StripInv, GoodStrip
  <2>2. ASSUME NEW i \in DOMAIN tabs'
        PROVE  /\ tabs'[i].path = HomePath => tabs'[i] = Tab(HomePath, FALSE, FALSE)
               /\ tabs'[i].path # HomePath => tabs'[i].closeable
    <3>1. i \in DOMAIN tabs
      BY <1>7
    <3>2. CASE tabs[i].path = HomePath
      <4>1. tabs'[i] = Tab(HomePath, FALSE, FALSE)
        BY <1>6, <3>1, <3>2 DEF TabInv, StripInv, GoodStrip
      <4>2. tabs'[i].path = HomePath
        BY <1>6, <3>1, <3>2
      <4>3. QED
        BY <4>1, <4>2
    <3>3. CASE tabs[i].path # HomePath
      BY <1>6, <3>1, <3>3 DEF TabInv, StripInv, GoodStrip
    <3>4. QED
      BY <3>2, <3>3
  <2>3. \E i \in DOMAIN tabs' : tabs'[i].path = HomePath
    BY <1>6, <1>7 DEF TabInv, StripInv, GoodStrip
  <2>4. /\ \A i \in DOMAIN tabs' :
               tabs'[i].path = HomePath => tabs'[i] = Tab(HomePath, FALSE, FALSE)
        /\ \A i \in DOMAIN tabs' : tabs'[i].path # HomePath => tabs'[i].closeable
    BY <2>2
  <2>5. QED
    BY <1>7, <2>1, <2>3, <2>4 DEF GoodStrip
<1>9. ActiveExists'
  BY <1>4, <1>6, <1>7 DEF TabInv, StripInv, ActiveExists, Ids, Id
<1>10. PinnedKept
  BY <1>6, <1>7 DEF PinnedKept
<1>11. QED
  BY <1>4, <1>7, <1>8, <1>9, <1>10 DEF TabInv, StripInv, RecentInv, toastVars

LEMMA StandingInv ==
    ASSUME TabInv, NEW id \in Ids, CloseRefused(id) \/ SetActiveTab(id)
    PROVE  TabInv' /\ PinnedKept
<1>1. tabs' = tabs /\ recent' = recent /\ active' \in {active, id}
  BY DEF CloseRefused, SetActiveTab, tabVars
<1>2. toast' # "pinLimit"
  BY DEF CloseRefused, SetActiveTab, Say, toastVars, TabInv
<1>3. ActiveExists'
  BY <1>1 DEF TabInv, StripInv, ActiveExists, Ids
<1>4. QED
  BY <1>1, <1>2, <1>3 DEF TabInv, StripInv, RecentInv, PinnedKept

LEMMA TabNextInv ==
    ASSUME TabInv, TabNext
    PROVE  TabInv' /\ PinnedKept
<1>1. CASE \E p \in Paths : OpenTab(p)
  BY <1>1, OpenNewInv, OtherOpenInv DEF OpenTab
<1>2. CASE \E id \in Ids : \/ CloseTab(id) \/ CloseRefused(id)
                           \/ SetActiveTab(id) \/ TogglePin(id) \/ CloseOthers(id)
  BY <1>2, CloseTabInv, StandingInv, TogglePinInv, CloseOthersInv
<1>3. CASE \E i, j \in DOMAIN tabs : MoveTab(i, j)
  BY <1>3, MoveTabInv
<1>4. CASE CloseAll
  BY <1>4, CloseAllInv
<1>5. QED
  BY <1>1, <1>2, <1>3, <1>4 DEF TabNext

\* The share links and the timer set or clear the toast, and nothing else of
\* what the tab store keeps.
LEMMA OtherStepsInv ==
    ASSUME TabInv, UNCHANGED tabVars, ShareNext \/ ClearToast \/ UNCHANGED toastVars
    PROVE  TabInv' /\ PinnedKept
<1>1. toast' # "pinLimit"
  <2>1. NoToast # "pinLimit"
    BY ToastAssumption, TabAssumption
  <2>2. QED
    BY <2>1 DEF ShareNext, ShareToDiscord, ShareToSquare, CloseShareModal, EnterKey,
       DiscordAnswers, DiscordRefuses, EnterHook, ClearToast, Say, toastVars, TabInv
<1>2. tabs' = tabs /\ active' = active /\ recent' = recent
  BY DEF tabVars
<1>3. QED
  BY <1>1, <1>2 DEF TabInv, StripInv, RecentInv, ActiveExists, Ids, PinnedKept

LEMMA TabStep == TabInv /\ [Next]_vars => TabInv' /\ PinnedKept
<1> SUFFICES ASSUME TabInv, [Next]_vars PROVE TabInv' /\ PinnedKept
  OBVIOUS
<1>1. \/ TabNext
      \/ UNCHANGED tabVars /\ (ShareNext \/ ClearToast \/ UNCHANGED toastVars)
  BY DEF Next, vars
<1>2. QED
  BY <1>1, TabNextInv, OtherStepsInv

LEMMA TabInitInv == Init => TabInv
<1> SUFFICES ASSUME Init PROVE TabInv
  OBVIOUS
<1> DEFINE t == Tab(HomePath, FALSE, FALSE)
<1>1. tabs = <<t>> /\ active = HomeId /\ recent = <<>> /\ toast = NoToast
  BY DEF Init, TabInit, ToastInit
<1>2. t \in TabType /\ t.path = HomePath
  BY TabAssumption DEF TabType, Tab
<1> HIDE DEF t
<1>3. tabs \in Seq(TabType) /\ Len(tabs) = 1 /\ DOMAIN tabs = {1} /\ tabs[1] = t
  BY <1>1, <1>2
<1>4. GoodStrip(tabs)
  BY <1>2, <1>3 DEF GoodStrip, t
<1>5. Len(tabs) <= MaxTabs
  BY <1>3, TabAssumption
<1>6. ActiveExists
  BY <1>1, <1>2, <1>3 DEF ActiveExists, Ids, Id, HomeId
<1>7. RecentInv
  BY <1>1, TabAssumption DEF RecentInv, IsInjective
<1>8. toast # "pinLimit"
  BY <1>1, ToastAssumption, TabAssumption
<1>9. QED
  BY <1>4, <1>5, <1>6, <1>7, <1>8 DEF TabInv, StripInv

LEMMA TabInvariant == Spec => []TabInv
<1>1. QED
  BY TabInitInv, TabStep, PTL DEF Spec

-----------------------------------------------------------------------------
(* Theorems about the shell.                                               *)

\* No opening, eviction, move or closing takes or changes the home tab.
THEOREM HomeTabStays == Spec => []HomeStays
<1>1. TabInv => HomeStays
  BY DEF TabInv, StripInv, GoodStrip, HomeStays, ToSet
<1>2. QED
  BY <1>1, TabInvariant, PTL

\* There is always a page to show.
THEOREM ActiveTabExists == Spec => []ActiveExists
<1>1. TabInv => ActiveExists
  BY DEF TabInv, StripInv
<1>2. QED
  BY <1>1, TabInvariant, PTL

\* At most MAX_TABS tabs, and no path twice.
THEOREM StripBounded == Spec => []StripIsBounded
<1>1. TabInv => StripIsBounded
  BY DEF TabInv, StripInv, GoodStrip, StripIsBounded
<1>2. QED
  BY <1>1, TabInvariant, PTL

\* The refusal of one pinned tab too many is dead code.
THEOREM PinLimitIsDead == Spec => []PinLimitNeverMet
<1>1. TabInv => PinLimitNeverMet
  BY PinnedAreFew DEF TabInv, PinLimitNeverMet
<1>2. QED
  BY <1>1, TabInvariant, PTL

\* A pinned tab stays, but for the two exceptions.
THEOREM PinnedTabsStay == Spec => PinnedStays
<1>1. TabInv /\ [Next]_vars => [PinnedKept]_tabVars
  BY TabStep
<1>2. QED
  BY <1>1, TabInvariant, PTL DEF Spec, PinnedStays

-----------------------------------------------------------------------------
(* The share links, and the types.                                         *)

LEMMA ShareTypes == ShareTypeOK /\ [Next]_vars => ShareTypeOK'
  BY DEF ShareTypeOK, Next, vars, shareVars, ShareNext, ShareToDiscord, ShareToSquare,
     CloseShareModal, EnterKey, DiscordAnswers, DiscordRefuses, EnterHook

\* Every variable of the shell has its type.
THEOREM ShellTypes == Spec => []TypeOK
<1>1. Init => ShareTypeOK /\ ToastInv
  BY DEF Init, ShareInit, ShareTypeOK, ToastInit, ToastInv, ToastTypeOK, ToastHasTimer
<1>2. ToastInv /\ [Next]_vars => ToastInv'
  BY StepsOfTheShell, ToastStepInv
<1>3. TabInv => TabTypeOK
  <2> SUFFICES ASSUME TabInv PROVE TabTypeOK
    OBVIOUS
  <2>1. \A i \in DOMAIN tabs : tabs[i].path \in Paths
    <3>1. ASSUME NEW i \in DOMAIN tabs PROVE tabs[i].path \in Paths
      <4>1. tabs[i] \in TabType
        BY DEF TabInv, StripInv, GoodStrip
      <4>2. QED
        BY <4>1 DEF TabType
    <3>2. QED
      BY <3>1
  <2>2. active \in {IdOf[p] : p \in Paths}
    BY <2>1 DEF TabInv, StripInv, ActiveExists, Ids, Id
  <2>3. QED
    BY <2>2 DEF TabInv, StripInv, GoodStrip, TabType, RecentInv, TabTypeOK
<1>4. ToastInv /\ TabInv /\ ShareTypeOK => TypeOK
  BY <1>3 DEF ToastInv, TypeOK
<1>5. QED
  BY <1>1, <1>2, <1>4, ShareTypes, TabInvariant, PTL DEF Spec
=============================================================================
