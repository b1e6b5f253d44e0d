------------------------- MODULE HistoryPageProofs --------------------------
(***************************************************************************)
(* Proofs about HistoryPage, for any wallets, jobs, page size and number of *)
(* requests under way: first the session and what the page waits for, then *)
(* the list that is put together from the pages of GET /history.           *)
(***************************************************************************)
EXTENDS HistoryPage, ListsProofs

Calls == [pc : {"idle", "asking"}, hdr : WalletsOrNone, before : {0}]

\* The types, except those of the list.
CallsTypeOK ==
    /\ SessionTypeOK
    /\ session \in WalletsOrNone
    /\ first \in [Loads -> Calls]
    /\ del \in [Jobs -> {"none", "asking", "deleted", "failed"}]
    /\ busy \in {0} \cup Jobs

\* Whoever was asked to sign once is believed to be signing.
SignedMeansBusy == autoSigned => authBusy

HistoryInv ==
    /\ CallsTypeOK
    /\ SessionIsTheWallets
    /\ SignedMeansBusy
    /\ RetryNeverShown
    /\ WaitsForRequests

LEMMA CallsAreCalls ==
    ASSUME NEW h \in WalletsOrNone
    PROVE  /\ Asking(h, 0) \in Calls /\ Asking(h, 0).pc = "asking"
           /\ IdleCall \in Calls /\ IdleCall.pc = "idle"
  BY DEF Asking, IdleCall, Calls, WalletsOrNone

LEMMA InitInv == Init => HistoryInv
<1> SUFFICES ASSUME Init PROVE HistoryInv
  OBVIOUS
<1>1. PICK k \in Loads :
         first = [l \in Loads |-> IF l = k /\ loading THEN Asking(stored, 0) ELSE IdleCall]
  BY DEF Init
<1>2. SessionTypeOK /\ session \in WalletsOrNone
  BY DEF Init, SessionInit, SessionTypeOK, GetSessionFor, WalletsOrNone
<1>3. /\ busy = 0 /\ del = [j \in Jobs |-> "none"]
  BY DEF Init
<1>4. stored \in WalletsOrNone
  BY <1>2 DEF SessionTypeOK
<1>5. CallsTypeOK
  BY <1>1, <1>2, <1>3, <1>4, CallsAreCalls DEF CallsTypeOK
<1>6. loading => first[k].pc = "asking"
  BY <1>1, <1>4, CallsAreCalls
<1>7. WaitsForRequests
  BY <1>3, <1>6 DEF WaitsForRequests
<1>8. SessionIsTheWallets /\ SignedMeansBusy /\ RetryNeverShown
  BY
  DEF Init, GetSessionFor, SessionIsTheWallets, SignedMeansBusy, RetryNeverShown, RetryShown
<1>9. QED
  BY <1>5, <1>7, <1>8 DEF HistoryInv

-----------------------------------------------------------------------------
(* Sessions and signatures.                                                *)

LEMMA SessionAfterWallet ==
    ASSUME HistoryInv, NEW w \in WalletsOrNone
    PROVE  LET s == SessionAfter(session, w)
           IN  /\ s \in WalletsOrNone
               /\ w # None => s \in {None, w}
               /\ session # None => s \in {None, session}
  BY DEF SessionAfter, GetSessionFor, HistoryInv, CallsTypeOK, SessionTypeOK, WalletsOrNone

\* A session that is new loads a page, and the page says so.
LEMMA NewSessionWaits ==
    ASSUME HistoryInv, NEW s \in WalletsOrNone, stored' \in WalletsOrNone, NewSession(s)
    PROVE  /\ session' = s
           /\ first' \in [Loads -> Calls]
           /\ loading' => \E l \in Loads : first'[l].pc # "idle"
<1>1. CASE s \in {None, session}
  BY <1>1 DEF NewSession, HistoryInv, CallsTypeOK, WaitsForRequests
<1>2. CASE s \notin {None, session}
  <2>1. PICK l \in Loads : first' = [first EXCEPT ![l] = Asking(stored', 0)]
    BY <1>2 DEF NewSession
  <2>2. first' \in [Loads -> Calls] /\ first'[l].pc = "asking"
    BY <2>1, CallsAreCalls DEF HistoryInv, CallsTypeOK
  <2>3. QED
    BY <2>2 DEF NewSession
<1>3. QED
  BY <1>1, <1>2

LEMMA WalletChangesInv ==
    ASSUME HistoryInv, NEW w \in WalletsOrNone, WalletChanges(w)
    PROVE  HistoryInv'
<1> DEFINE s == SessionAfter(session, w)
           dropped == session # None /\ s = None
           starts == w # None /\ ~authBusy /\ (dropped \/ (session = None /\ ~autoSigned))
<1>1. /\ s \in WalletsOrNone /\ (w # None => s \in {None, w})
      /\ session # None => s \in {None, session}
  BY SessionAfterWallet
<1>2. /\ wallet' = w /\ NewSession(s)
      /\ stored' \in {None, stored}
      /\ authBusy' = (authBusy \/ starts)
      /\ autoSigned' = ((autoSigned /\ ~dropped) \/ starts)
      /\ UNCHANGED <<busy, del>>
  BY DEF WalletChanges, AutoSign, ClearSession
<1>3. stored' \in WalletsOrNone
  BY <1>2 DEF HistoryInv, CallsTypeOK, SessionTypeOK, WalletsOrNone
<1>4. /\ session' = s /\ first' \in [Loads -> Calls]
      /\ loading' => \E l \in Loads : first'[l].pc # "idle"
  BY <1>1, <1>2, <1>3, NewSessionWaits
<1>5. CallsTypeOK' /\ WaitsForRequests'
  BY <1>1, <1>2, <1>3, <1>4 DEF HistoryInv, CallsTypeOK, SessionTypeOK, WaitsForRequests
<1>6. SessionIsTheWallets'
  BY <1>1, <1>2, <1>4 DEF SessionIsTheWallets
<1>7. SignedMeansBusy'
  BY <1>2 DEF HistoryInv, SignedMeansBusy
<1>8. RetryNeverShown'
  BY <1>1, <1>2, <1>4 DEF HistoryInv, SignedMeansBusy, RetryNeverShown, RetryShown
<1>9. QED
  BY <1>5, <1>6, <1>7, <1>8 DEF HistoryInv

\* A session that is dropped leaves the page believing that a signature is
\* asked for, whether or not that is so.
LEMMA DropSessionInv ==
    ASSUME HistoryInv, NEW b \in BOOLEAN, b => autoSigned, DropSession(b), UNCHANGED wallet
    PROVE  /\ SessionTypeOK' /\ session' = None
           /\ SessionIsTheWallets' /\ SignedMeansBusy' /\ RetryNeverShown'
<1> DEFINE starts == wallet # None /\ ~authBusy /\ ~b
<1>1. /\ stored' = None /\ session' = None
      /\ authBusy' = (authBusy \/ starts)
      /\ autoSigned' = (b \/ starts)
  BY DEF DropSession, AutoSign, ClearSession
<1>2. b => authBusy
  BY DEF HistoryInv, SignedMeansBusy
<1>3. SessionTypeOK' /\ SessionIsTheWallets'
  BY <1>1 DEF HistoryInv, CallsTypeOK, SessionTypeOK, SessionIsTheWallets, WalletsOrNone
<1>4. SignedMeansBusy' /\ RetryNeverShown'
  BY <1>1, <1>2 DEF SignedMeansBusy, RetryNeverShown, RetryShown
<1>5. QED
  BY <1>1, <1>3, <1>4

LEMMA ResetSessionInv ==
    ASSUME HistoryInv, ResetSession
    PROVE  HistoryInv'
<1>1. DropSession(FALSE) /\ UNCHANGED <<wallet, loading, busy, first, del>>
  BY DEF ResetSession
<1>2. /\ SessionTypeOK' /\ session' = None
      /\ SessionIsTheWallets' /\ SignedMeansBusy' /\ RetryNeverShown'
  BY <1>1, DropSessionInv
<1>3. CallsTypeOK' /\ WaitsForRequests'
  BY <1>1, <1>2 DEF HistoryInv, CallsTypeOK, WaitsForRequests, WalletsOrNone
<1>4. QED
  BY <1>2, <1>3 DEF HistoryInv

-----------------------------------------------------------------------------
(* The list.                                                               *)

LEMMA LoadInv ==
    ASSUME HistoryInv, NEW l \in Loads, Load(l)
    PROVE  HistoryInv'
<1>1. /\ first' = [first EXCEPT ![l] = IdleCall]
      /\ loading' = FALSE /\ UNCHANGED <<wallet, busy, del>>
  BY DEF Load, FirstAnswered, FirstFails, sessionVars
<1>2. first' \in [Loads -> Calls]
  BY <1>1, CallsAreCalls DEF HistoryInv, CallsTypeOK, WalletsOrNone
<1>3. \/ DropSession(autoSigned)
      \/ UNCHANGED <<stored, session, authBusy, autoSigned>>
  BY DEF Load, FirstAnswered, FirstFails, sessionVars, authVars
<1>4. /\ SessionTypeOK' /\ session' \in WalletsOrNone
      /\ SessionIsTheWallets' /\ SignedMeansBusy' /\ RetryNeverShown'
  <2>1. CASE DropSession(autoSigned) /\ autoSigned
    <3>1. DropSession(TRUE)
      BY <2>1 DEF DropSession
    <3>2. QED
      BY <1>1, <2>1, <3>1, DropSessionInv DEF WalletsOrNone
  <2>2. CASE DropSession(autoSigned) /\ ~autoSigned
    <3>1. DropSession(FALSE)
      BY <2>2 DEF DropSession
    <3>2. QED
      BY <1>1, <3>1, DropSessionInv DEF WalletsOrNone
  <2>3. CASE UNCHANGED <<stored, session, authBusy, autoSigned>>
    BY <1>1, <2>3 DEF HistoryInv, CallsTypeOK, SessionTypeOK, SessionIsTheWallets,
       SignedMeansBusy, RetryNeverShown, RetryShown
  <2>4. QED
    BY <1>3, <2>1, <2>2, <2>3
<1>5. CallsTypeOK' /\ WaitsForRequests'
  BY <1>1, <1>2, <1>4 DEF HistoryInv, CallsTypeOK, WaitsForRequests
<1>6. QED
  BY <1>4, <1>5 DEF HistoryInv

LEMMA DeleteInv ==
    ASSUME HistoryInv, NEW j \in Jobs, Delete(j)
    PROVE  HistoryInv'
<1>1. UNCHANGED <<wallet, stored, session, loading, authBusy, autoSigned, first>>
  BY DEF Delete, OnDelete, DeleteServed, DeleteAnswered, DeleteFails, sessionVars,
     listVars, authVars
<1>2. \E p \in {"none", "asking", "deleted", "failed"} :
         /\ del' = [del EXCEPT ![j] = p]
         /\ \/ busy' = 0
            \/ p # "none" /\ busy' \in {j, busy}
  BY DEF Delete, OnDelete, DeleteServed, DeleteAnswered, DeleteFails
<1>3. CallsTypeOK'
  BY <1>1, <1>2 DEF HistoryInv, CallsTypeOK, SessionTypeOK
<1>4. busy' # 0 => del'[busy'] # "none"
  BY <1>2 DEF HistoryInv, CallsTypeOK, WaitsForRequests
<1>5. QED
  BY <1>1, <1>3, <1>4 DEF HistoryInv, SessionIsTheWallets, SignedMeansBusy,
     RetryNeverShown, RetryShown, WaitsForRequests

\* The steps that touch neither the session in use nor a request counted here.
LEMMA OtherInv ==
    ASSUME HistoryInv,
           (\E w \in Wallets : SignEnds(w)) \/ LoadMore \/ JobMade \/ OtherTab
    PROVE  HistoryInv'
<1>1. UNCHANGED <<wallet, session, loading, authBusy, autoSigned, first, busy, del>>
  BY DEF SignEnds, LoadMore, OnLoadMore, MoreAnswered, MoreFails, JobMade, OtherTab,
     StoredChanges, sessionVars, listVars, authVars
<1>2. stored' \in WalletsOrNone
  BY DEF SignEnds, Persist, LoadMore, OnLoadMore, MoreAnswered, MoreFails, JobMade,
     OtherTab, StoredChanges, sessionVars, HistoryInv, CallsTypeOK, SessionTypeOK,
     WalletsOrNone
<1>3. QED
  BY <1>1, <1>2 DEF HistoryInv, CallsTypeOK, SessionTypeOK, SessionIsTheWallets,
     SignedMeansBusy, RetryNeverShown, RetryShown, WaitsForRequests

LEMMA NextInv == HistoryInv /\ [Next]_vars => HistoryInv'
<1> SUFFICES ASSUME HistoryInv, [Next]_vars PROVE HistoryInv'
  OBVIOUS
<1>1. CASE Next
  BY <1>1, WalletChangesInv, ResetSessionInv, LoadInv, DeleteInv, OtherInv DEF Next
<1>2. CASE UNCHANGED vars
  BY <1>2 DEF vars, sessionVars, listVars, authVars, HistoryInv, CallsTypeOK,
     SessionTypeOK, SessionIsTheWallets, SignedMeansBusy, RetryNeverShown, RetryShown,
     WaitsForRequests
<1>3. QED
  BY <1>1, <1>2

LEMMA Invariant == Spec => []HistoryInv
<1>1. QED
  BY InitInv, NextInv, PTL DEF Spec

-----------------------------------------------------------------------------
(* Theorems.                                                               *)

\* A session in use is the connected wallet's own.
THEOREM SessionIsOwn == Spec => []SessionIsTheWallets
<1>1. HistoryInv => SessionIsTheWallets
  BY DEF HistoryInv
<1>2. QED
  BY <1>1, Invariant, PTL

\* While the page says that it loads the list a call of loadFirst is under way,
\* and while the button that deletes a job is disabled a deletion of it is.  The
\* sign that a signature is waited for is not among these: it may be false.
THEOREM WaitingIsTrue == Spec => []WaitsForRequests
<1>1. HistoryInv => WaitsForRequests
  BY DEF HistoryInv
<1>2. QED
  BY <1>1, Invariant, PTL

\* The button to retry the signature is dead code: it is never shown.
THEOREM NoRetry == Spec => []RetryNeverShown
<1>1. HistoryInv => RetryNeverShown
  BY DEF HistoryInv
<1>2. QED
  BY <1>1, Invariant, PTL

-----------------------------------------------------------------------------
(* What the list holds.                                                    *)

AuthTypes ==
    /\ loading \in BOOLEAN /\ authBusy \in BOOLEAN /\ autoSigned \in BOOLEAN
    /\ signing \subseteq Wallets

\* More is only asked for from a cursor.
MoreTypes == more \in CallType /\ (more.pc # "idle" => more.before # 0)

ListTypes ==
    /\ me \in WalletsOrNone /\ items \in Seq(Jobs) /\ cursor \in 0 .. MaxJobs
    /\ MoreTypes
    /\ made \subseteq Jobs /\ deleted \subseteq made /\ top \subseteq made
    /\ orderly \in BOOLEAN
    /\ \A i \in DOMAIN items : items[i] \in made

\* What the page takes for deleted is deleted, and only a job that is visible is
\* asked to be.
DeletionsAreTrue ==
    \A j \in Jobs : /\ del[j] \in {"asking", "deleted"} => j \in made
                    /\ del[j] = "deleted" => j \in deleted

\* The list is one wallet's, newest first, down to the cursor, with all that it
\* could have had when it was begun.
Whole(list, owner, end, newest, gone) ==
    /\ \A i \in DOMAIN list : Owner[list[i]] = owner
    /\ \A i, j \in DOMAIN list : i < j => list[i] > list[j]
    /\ end # 0 => \A i \in DOMAIN list : list[i] >= end
    /\ \A j \in newest : Owner[j] = owner
    /\ \A j \in newest :
          (end = 0 \/ j >= end) /\ j \notin gone => \E i \in DOMAIN list : list[i] = j

\* More is asked for with the session of the list, from where the list ends.
MoreFollows == more.pc = "asking" => more.hdr \in {None, me} /\ more.before = cursor

ListIsWhole == orderly => Whole(items, me, cursor, top, deleted) /\ MoreFollows

ListInv == AuthTypes /\ ListTypes /\ DeletionsAreTrue /\ ListIsWhole

\* A page has jobs that are listed, newest first, and leaves out none down to
\* the cursor it gives.
LEMMA PageOfList ==
    ASSUME made \subseteq Jobs, NEW hdr, NEW before
    PROVE  LET L == Listed(hdr, before)
               rows == Page(hdr, before).rows
               next == Page(hdr, before).next
           IN  /\ rows \in Seq(L) /\ L \subseteq made /\ next \in 0 .. MaxJobs
               /\ \A k, l \in DOMAIN rows : k < l => rows[k] > rows[l]
               /\ next # 0 => next \in L /\ \A k \in DOMAIN rows : rows[k] >= next
               /\ \A j \in L : next = 0 \/ j >= next => \E k \in DOMAIN rows : rows[k] = j
<1> DEFINE L == Listed(hdr, before)
           all == Descending(L)
           n == IF Len(all) < PageSize THEN Len(all) ELSE PageSize
           rows == SubSeq(all, 1, n)
           next == IF Len(all) > PageSize THEN Last(rows) ELSE 0
<1>1. L \subseteq made /\ L \subseteq 1 .. MaxJobs /\ PageSize \in Nat \ {0} /\ MaxJobs \in Nat
  BY HistoryAssumption DEF Listed, Jobs
<1>2. IsFiniteSet(L) /\ L \in SUBSET Int
  <2>1. IsFiniteSet(1 .. MaxJobs)
    BY <1>1, FS_Interval
  <2>2. QED
    BY <1>1, <2>1, FS_Subset
<1> HIDE DEF L
<1>3. /\ all \in Seq(L) /\ DOMAIN all = 1 .. Len(all) /\ Len(all) \in Nat
      /\ \A k, l \in DOMAIN all : k < l => all[k] > all[l]
      /\ \A i \in L : \E k \in DOMAIN all : all[k] = i
  BY <1>2, DescendingIsSorted
<1> HIDE DEF all
<1>4. /\ n \in Nat /\ n <= Len(all)
      /\ Len(all) > PageSize => n \in 1 .. Len(all)
      /\ Len(all) <= PageSize => n = Len(all)
  <2>1. Len(all) \in Nat /\ PageSize \in Nat /\ PageSize # 0
    BY <1>1, <1>3
  <2>2. CASE Len(all) < PageSize
    BY <2>1, <2>2
  <2>3. CASE ~(Len(all) < PageSize)
    BY <2>1, <2>3
  <2>4. QED
    BY <2>2, <2>3
<1> HIDE DEF n
<1>5. /\ rows \in Seq(L) /\ Len(rows) = n /\ DOMAIN rows = 1 .. n
      /\ \A k \in 1 .. n : rows[k] = all[k] /\ k \in DOMAIN all
  <2>1. \A k \in 1 .. n : k \in DOMAIN all
    <3>1. DOMAIN all = 1 .. Len(all) /\ Len(all) \in Nat
      BY <1>3
    <3>2. n \in Nat /\ n <= Len(all)
      BY <1>4
    <3>3. \A k \in 1 .. n : k \in 1 .. Len(all)
      BY <3>1, <3>2
    <3>4. QED
      BY <3>1, <3>3
  <2>2. \A k \in DOMAIN all : all[k] \in L
    BY <1>3
  <2>3. QED
    BY <1>4, <2>1, <2>2
<1> HIDE DEF rows
<1>6. Len(all) > PageSize => next = all[n] /\ n \in DOMAIN rows
  BY <1>4, <1>5 DEF Last
<1>7. \A k \in DOMAIN all : all[k] \in L /\ all[k] \in Int /\ all[k] \in 1 .. MaxJobs
  <2>1. \A k \in DOMAIN all : all[k] \in L
    BY <1>3
  <2>2. QED
    BY <1>1, <1>2, <2>1
<1>8. next \in 0 .. MaxJobs /\ (next # 0 => next \in L)
  BY <1>1, <1>4, <1>5, <1>6, <1>7
<1>9. \A k, l \in DOMAIN rows : k < l => rows[k] > rows[l]
  BY <1>3, <1>5
<1>10. ASSUME next # 0, NEW k \in DOMAIN rows PROVE rows[k] >= next
  <2>1. next = all[n] /\ n \in DOMAIN rows
    BY <1>6, <1>10
  <2>2. k = n \/ k < n
    BY <1>4, <1>5
  <2>3. QED
    BY <1>3, <1>5, <1>7, <2>1, <2>2
<1>11. ASSUME NEW j \in L, next = 0 \/ j >= next
       PROVE  \E k \in DOMAIN rows : rows[k] = j
  <2>1. PICK k \in DOMAIN all : all[k] = j
    BY <1>3
  <2>2. CASE k <= n
    <3>1. k \in 1 .. n
      <4>1. DOMAIN all = 1 .. Len(all) /\ Len(all) \in Nat
        BY <1>3
      <4>2. k \in 1 .. Len(all)
        BY <4>1
      <4>3. n \in Nat
        BY <1>4
      <4>4. QED
        BY <2>2, <4>2, <4>3
    <3>2. QED
      BY <1>5, <2>1, <3>1
  <2>3. CASE ~(k <= n)
    <3>1. Len(all) > PageSize /\ k > n
      <4>1. k \in 1 .. Len(all) /\ Len(all) \in Nat /\ PageSize \in Nat
        BY <1>1, <1>3
      <4>2. QED
        BY <1>4, <2>3, <4>1
    <3>2. next = all[n] /\ n \in DOMAIN all /\ n \in DOMAIN rows
      BY <1>5, <1>6, <3>1
    <3>3. all[n] > all[k] /\ all[n] \in 1 .. MaxJobs /\ all[k] \in 1 .. MaxJobs
      BY <1>3, <1>7, <3>1, <3>2
    <3>4. QED
      BY <1>11, <2>1, <3>2, <3>3
  <2>4. QED
    BY <2>2, <2>3
<1>12. Page(hdr, before).rows = rows /\ Page(hdr, before).next = next
  BY DEF Page, rows, next, n, all, L
<1> HIDE DEF next
<1>13. QED
  BY <1>1, <1>5, <1>8, <1>9, <1>10, <1>11, <1>12 DEF L

LEMMA FirstIsWhole ==
    ASSUME made \subseteq Jobs, NEW hdr \in Wallets
    PROVE  Whole(Page(hdr, 0).rows, hdr, Page(hdr, 0).next, Listed(hdr, 0), deleted)
<1> DEFINE L == Listed(hdr, 0)
           rows == Page(hdr, 0).rows
           next == Page(hdr, 0).next
<1>1. /\ rows \in Seq(L)
      /\ \A k, l \in DOMAIN rows : k < l => rows[k] > rows[l]
      /\ next # 0 => \A k \in DOMAIN rows : rows[k] >= next
      /\ \A j \in L : next = 0 \/ j >= next => \E k \in DOMAIN rows : rows[k] = j
  BY PageOfList
<1>3. \A j \in L : Owner[j] = hdr
  BY DEF Listed
<1> HIDE DEF L, rows, next
<1>4. \A k \in DOMAIN rows : rows[k] \in L
  BY <1>1
<1>5. Whole(rows, hdr, next, L, deleted)
  BY <1>1, <1>3, <1>4 DEF Whole
<1>6. QED
  BY <1>5 DEF L, rows, next

\* A page asked for from where a whole list ends makes it a longer whole list.
LEMMA MoreIsWhole ==
    ASSUME ListTypes, cursor # 0, Whole(items, me, cursor, top, deleted)
    PROVE  LET page == Page(me, cursor)
           IN  Whole(items \o page.rows, me, page.next, top, deleted)
<1> DEFINE L == Listed(me, cursor)
           rows == Page(me, cursor).rows
           next == Page(me, cursor).next
           list == items \o rows
           n == Len(items)
<1>1. /\ rows \in Seq(L) /\ L \subseteq made /\ next \in 0 .. MaxJobs
      /\ \A k, l \in DOMAIN rows : k < l => rows[k] > rows[l]
      /\ next # 0 => next \in L /\ \A k \in DOMAIN rows : rows[k] >= next
      /\ \A j \in L : next = 0 \/ j >= next => \E k \in DOMAIN rows : rows[k] = j
  BY PageOfList DEF ListTypes
<1>2. /\ items \in Seq(Int) /\ cursor \in Nat /\ made \subseteq Int /\ top \subseteq made
  BY HistoryAssumption DEF ListTypes, Jobs
<1>3. \A j \in L : Owner[j] = me /\ j < cursor /\ j \in Int
  BY <1>1, <1>2 DEF Listed
<1>4. \A j \in top : j \notin deleted /\ j < cursor => j \in L
  BY <1>2 DEF Listed, Whole
<1> HIDE DEF L, rows, next
<1>5. /\ DOMAIN rows = 1 .. Len(rows) /\ Len(rows) \in Nat /\ rows \in Seq(Int)
      /\ \A k \in DOMAIN rows : rows[k] \in L
  <2>1. \A k \in DOMAIN rows : rows[k] \in L /\ rows[k] \in Int
    <3>1. \A k \in DOMAIN rows : rows[k] \in L
      BY <1>1
    <3>2. QED
      BY <1>3, <3>1
  <2>2. DOMAIN rows = 1 .. Len(rows) /\ Len(rows) \in Nat
    BY <1>1
  <2>3. rows \in [1 .. Len(rows) -> Int]
    <3>1. rows \in [1 .. Len(rows) -> L]
      BY <1>1
    <3>2. QED
      BY <2>1, <2>2, <3>1
  <2>4. QED
    BY <2>1, <2>2, <2>3
<1>6. n \in Nat /\ DOMAIN items = 1 .. n
  BY <1>2
<1>7. /\ list \in Seq(Int) /\ Len(list) = n + Len(rows)
      /\ \A k \in 1 .. n + Len(rows) : list[k] = IF k <= n THEN items[k] ELSE rows[k - n]
  BY <1>2, <1>5, ConcatProperties
<1> HIDE DEF list, n
<1>8. DOMAIN list = 1 .. n + Len(rows)
  BY <1>7
\* An element of the list is an old one or one of the page.
<1>9. ASSUME NEW k \in DOMAIN list
      PROVE  \/ k \in DOMAIN items /\ list[k] = items[k]
             \/ k > n /\ k - n \in DOMAIN rows /\ list[k] = rows[k - n]
  BY <1>5, <1>6, <1>7, <1>8
<1>10. \A k \in DOMAIN items : k \in DOMAIN list /\ list[k] = items[k]
  BY <1>5, <1>6, <1>7, <1>8
<1>11. ASSUME NEW k \in DOMAIN rows PROVE k + n \in DOMAIN list /\ list[k + n] = rows[k]
  <2>1. k \in 1 .. Len(rows) /\ Len(rows) \in Nat
    BY <1>5
  <2>2. k + n \in 1 .. n + Len(rows) /\ ~(k + n <= n) /\ (k + n) - n = k
    BY <1>6, <2>1
  <2>3. QED
    BY <1>7, <1>8, <2>2
<1>12. /\ \A k \in DOMAIN items : Owner[items[k]] = me /\ items[k] >= cursor /\ items[k] \in Int
       /\ \A k, l \in DOMAIN items : k < l => items[k] > items[l]
       /\ \A j \in top : j >= cursor /\ j \notin deleted
                            => \E k \in DOMAIN items : items[k] = j
  <2>1. \A k \in DOMAIN items : items[k] \in Int
    BY <1>2
  <2>2. QED
    BY <2>1 DEF Whole
<1>13. ASSUME NEW k \in DOMAIN list PROVE Owner[list[k]] = me
  BY <1>3, <1>5, <1>9, <1>12
<1>14. ASSUME NEW k \in DOMAIN list, NEW l \in DOMAIN list, k < l PROVE list[k] > list[l]
  <2>1. CASE l \in DOMAIN items /\ list[l] = items[l]
    <3>1. k \in DOMAIN items
      BY <1>6, <1>8, <1>14, <2>1
    <3>2. QED
      BY <1>10, <1>12, <1>14, <2>1, <3>1
  <2>2. CASE l > n /\ l - n \in DOMAIN rows /\ list[l] = rows[l - n]
    <3>1. list[l] < cursor /\ list[l] \in Int
      BY <1>3, <1>5, <2>2
    <3>2. CASE k \in DOMAIN items /\ list[k] = items[k]
      BY <1>2, <1>12, <3>1, <3>2
    <3>3. CASE k > n /\ k - n \in DOMAIN rows /\ list[k] = rows[k - n]
      <4>1. k - n < l - n
        BY <1>6, <1>8, <1>14, <1>5
      <4>2. QED
        BY <1>1, <2>2, <3>3, <4>1
    <3>4. QED
      BY <1>9, <3>2, <3>3
  <2>3. QED
    BY <1>9, <2>1, <2>2
<1>15. ASSUME next # 0, NEW k \in DOMAIN list PROVE list[k] >= next
  <2>1. CASE k > n /\ k - n \in DOMAIN rows /\ list[k] = rows[k - n]
    BY <1>1, <1>15, <2>1
  <2>2. CASE k \in DOMAIN items /\ list[k] = items[k]
    <3>1. next < cursor
      BY <1>1, <1>3, <1>15
    <3>2. QED
      BY <1>1, <1>2, <1>12, <2>2, <3>1
  <2>3. QED
    BY <1>9, <2>1, <2>2
<1>16. ASSUME NEW j \in top, next = 0 \/ j >= next, j \notin deleted
       PROVE  \E k \in DOMAIN list : list[k] = j
  <2>1. CASE j >= cursor
    BY <1>10, <1>12, <1>16, <2>1
  <2>2. CASE ~(j >= cursor)
    <3>1. j \in L
      BY <1>2, <1>4, <1>16, <2>2
    <3>2. PICK k \in DOMAIN rows : rows[k] = j
      BY <1>1, <1>16, <3>1
    <3>3. QED
      BY <1>11, <3>2
  <2>3. QED
    BY <2>1, <2>2
<1>17. Whole(list, me, next, top, deleted)
  <2>1. \A j \in top : Owner[j] = me
    BY DEF Whole
  <2>2. QED
    BY <1>13, <1>14, <1>15, <1>16, <2>1 DEF Whole
<1>18. QED
  BY <1>17 DEF list, rows, next

\* A deleted job may be taken out of a whole list.
LEMMA LessIsWhole ==
    ASSUME NEW list \in Seq(Jobs), NEW owner, NEW end, NEW newest, NEW gone, NEW j \in gone,
           Whole(list, owner, end, newest, gone)
    PROVE  Whole(Keep(list, {i \in DOMAIN list : list[i] # j}), owner, end, newest, gone)
<1> DEFINE I == {i \in DOMAIN list : list[i] # j}
           r == Keep(list, I)
<1>1. /\ \A k \in DOMAIN r : \E i \in I : r[k] = list[i]
      /\ \A i \in I : \E k \in DOMAIN r : r[k] = list[i]
      /\ \A k, l \in DOMAIN r :
            k < l => \E a, b \in I : a < b /\ r[k] = list[a] /\ r[l] = list[b]
  <2>1. I \in SUBSET DOMAIN list
    OBVIOUS
  <2> HIDE DEF I
  <2>2. QED
    BY <2>1, KeepIsFilter
<1> HIDE DEF r
<1>2. \A k \in DOMAIN r : Owner[r[k]] = owner
  BY <1>1 DEF Whole
<1>3. \A k, l \in DOMAIN r : k < l => r[k] > r[l]
  BY <1>1 DEF Whole
<1>4. end # 0 => \A k \in DOMAIN r : r[k] >= end
  BY <1>1 DEF Whole
<1>5. ASSUME NEW m \in newest, end = 0 \/ m >= end, m \notin gone
      PROVE  \E k \in DOMAIN r : r[k] = m
  <2>1. PICK i \in DOMAIN list : list[i] = m
    BY <1>5 DEF Whole
  <2>2. i \in I
    BY <1>5, <2>1
  <2>3. QED
    BY <1>1, <2>1, <2>2
<1>6. Whole(r, owner, end, newest, gone)
  BY <1>2, <1>3, <1>4, <1>5 DEF Whole
<1>7. QED
  BY <1>6 DEF r

LEMMA PageTypes ==
    ASSUME ListTypes, NEW hdr, NEW before
    PROVE  LET page == Page(hdr, before)
           IN  /\ page.rows \in Seq(Jobs) /\ page.next \in 0 .. MaxJobs
               /\ \A k \in DOMAIN page.rows : page.rows[k] \in made
<1> DEFINE rows == Page(hdr, before).rows
           L == Listed(hdr, before)
<1>1. rows \in Seq(L) /\ L \subseteq made /\ Page(hdr, before).next \in 0 .. MaxJobs
  BY PageOfList DEF ListTypes
<1> HIDE DEF rows, L
<1>2. L \subseteq Jobs
  BY <1>1 DEF ListTypes
<1>3. rows \in Seq(Jobs)
  BY <1>1, <1>2, SeqMonotonic
<1>4. \A k \in DOMAIN rows : rows[k] \in L
  BY <1>1
<1>5. QED
  BY <1>1, <1>3, <1>4 DEF rows

\* The types of what the signature effect keeps.
LEMMA AuthTypesStep == AuthTypes /\ HistoryInv /\ [Next]_vars => AuthTypes'
<1> SUFFICES ASSUME AuthTypes, HistoryInv, [Next]_vars PROVE AuthTypes'
  OBVIOUS
<1> USE DEF AuthTypes
<1>1. ASSUME NEW w \in WalletsOrNone, NEW b \in BOOLEAN, AutoSign(w, b), b => w # None
      PROVE  authBusy' \in BOOLEAN /\ signing' \subseteq Wallets
  BY <1>1 DEF AutoSign, WalletsOrNone
<1>2. ASSUME NEW b \in BOOLEAN, DropSession(b)
      PROVE  authBusy' \in BOOLEAN /\ signing' \subseteq Wallets /\ autoSigned' \in BOOLEAN
  <2> DEFINE starts == wallet # None /\ ~authBusy /\ ~b
  <2>1. AutoSign(wallet, starts) /\ autoSigned' = (b \/ starts)
    BY <1>2 DEF DropSession
  <2>2. wallet \in WalletsOrNone
    BY DEF HistoryInv, CallsTypeOK, SessionTypeOK
  <2>3. QED
    BY <1>1, <2>1, <2>2
<1>3. ASSUME NEW w \in WalletsOrNone, WalletChanges(w) PROVE AuthTypes'
  <2> DEFINE s == SessionAfter(session, w)
             dropped == session # None /\ s = None
             starts == w # None /\ ~authBusy /\ (dropped \/ (session = None /\ ~autoSigned))
  <2>1. /\ AutoSign(w, starts) /\ NewSession(s)
        /\ autoSigned' = ((autoSigned /\ ~dropped) \/ starts)
    BY <1>3 DEF WalletChanges
  <2>2. loading' \in BOOLEAN
    BY <2>1 DEF NewSession
  <2>3. QED
    BY <1>1, <2>1, <2>2
<1>4. ASSUME NEW w \in Wallets, SignEnds(w) PROVE AuthTypes'
  BY <1>4 DEF SignEnds, listVars
<1>5. CASE ResetSession
  BY <1>2, <1>5 DEF ResetSession
<1>6. ASSUME NEW l \in Loads, Load(l) PROVE AuthTypes'
  BY <1>2, <1>6 DEF Load, FirstAnswered, FirstFails, authVars
<1>7. CASE LoadMore
  BY <1>7 DEF LoadMore, OnLoadMore, MoreAnswered, MoreFails, listVars, authVars
<1>8. ASSUME NEW j \in Jobs, Delete(j) PROVE AuthTypes'
  BY <1>8 DEF Delete, OnDelete, DeleteServed, DeleteAnswered, DeleteFails, listVars, authVars
<1>9. CASE JobMade \/ OtherTab
  BY <1>9 DEF JobMade, OtherTab, listVars, authVars
<1>10. CASE UNCHANGED vars
  BY <1>10 DEF vars, listVars, authVars
<1>11. QED
  BY <1>3, <1>4, <1>5, <1>6, <1>7, <1>8, <1>9, <1>10 DEF Next

LEMMA CallTypes ==
    ASSUME NEW h \in WalletsOrNone, NEW b \in 0 .. MaxJobs
    PROVE  /\ Asking(h, b) \in CallType /\ Asking(h, b).before = b
           /\ IdleCall \in CallType /\ IdleCall.pc = "idle"
<1>1. 0 \in 0 .. MaxJobs
  BY HistoryAssumption
<1>2. QED
  BY <1>1 DEF Asking, IdleCall, CallType, WalletsOrNone

\* A call of Load more that is begun, goes on or ends, jobs that become visible
\* and deletions at the API leave a whole list whole.
LEMMA ListStays ==
    ASSUME ListTypes, ListIsWhole, UNCHANGED <<me, items, cursor, top>>,
           MoreTypes', orderly' \in BOOLEAN, orderly' => orderly /\ MoreFollows',
           made \subseteq made', made' \subseteq Jobs,
           deleted \subseteq deleted', deleted' \subseteq made'
    PROVE  ListTypes' /\ ListIsWhole'
<1>1. ListTypes'
  BY DEF ListTypes
<1>2. Whole(items, me, cursor, top, deleted) => Whole(items, me, cursor, top, deleted')
  BY DEF Whole
<1>3. ListIsWhole'
  BY <1>2 DEF ListIsWhole
<1>4. QED
  BY <1>1, <1>3

\* A list is whole when it is begun, and no Load more that was asked for before
\* is still to be answered, or the list is not claimed to be whole.
LEMMA FirstAnsweredInv ==
    ASSUME ListInv, HistoryInv, NEW l \in Loads, FirstAnswered(l)
    PROVE  ListTypes' /\ DeletionsAreTrue' /\ ListIsWhole'
<1> DEFINE hdr == first[l].hdr
           page == Page(hdr, 0)
<1>1. /\ items' = page.rows /\ cursor' = page.next /\ me' = hdr /\ top' = Listed(hdr, 0)
      /\ orderly' = (more.pc = "idle")
      /\ UNCHANGED <<del, made, deleted, more>> /\ hdr # None
  BY DEF FirstAnswered, apiVars
<1>2. hdr \in Wallets
  <2>1. first[l] \in Calls
    BY DEF HistoryInv, CallsTypeOK
  <2>2. QED
    BY <1>1, <2>1 DEF Calls, WalletsOrNone
<1>3. ListTypes /\ made \subseteq Jobs
  BY DEF ListInv, ListTypes
<1>4. /\ page.rows \in Seq(Jobs) /\ page.next \in 0 .. MaxJobs
      /\ \A k \in DOMAIN page.rows : page.rows[k] \in made
  BY <1>3, PageTypes
<1>5. Whole(page.rows, hdr, page.next, Listed(hdr, 0), deleted)
  BY <1>2, <1>3, FirstIsWhole
<1>6. orderly' \in BOOLEAN /\ (orderly' => more'.pc # "asking")
  BY <1>1
<1>7. Listed(hdr, 0) \subseteq made
  BY DEF Listed
<1> HIDE DEF page, hdr
<1>8. ListTypes'
  BY <1>1, <1>2, <1>3, <1>4, <1>6, <1>7 DEF ListTypes, MoreTypes, WalletsOrNone
<1>9. ListIsWhole'
  BY <1>1, <1>5, <1>6 DEF ListIsWhole, MoreFollows
<1>10. DeletionsAreTrue'
  BY <1>1 DEF ListInv, DeletionsAreTrue
<1>11. QED
  BY <1>8, <1>9, <1>10

LEMMA MoreAnsweredInv ==
    ASSUME ListInv, MoreAnswered
    PROVE  ListTypes' /\ DeletionsAreTrue' /\ ListIsWhole'
<1> DEFINE page == Page(more.hdr, more.before)
<1>1. /\ items' = items \o page.rows /\ cursor' = page.next
      /\ more' = IdleCall
      /\ UNCHANGED <<me, top, del, made, deleted, orderly>>
      /\ more.hdr # None /\ more.pc = "asking"
  BY DEF MoreAnswered, apiVars
<1>2. ListTypes /\ items \in Seq(Jobs)
  BY DEF ListInv, ListTypes
<1>3. /\ page.rows \in Seq(Jobs) /\ page.next \in 0 .. MaxJobs
      /\ \A k \in DOMAIN page.rows : page.rows[k] \in made
  BY <1>2, PageTypes
<1>4. ASSUME orderly' PROVE Whole(items', me', cursor', top', deleted')
  <2>1. /\ Whole(items, me, cursor, top, deleted)
        /\ more.before = cursor /\ more.hdr = me /\ cursor # 0
    BY <1>1, <1>2, <1>4 DEF ListInv, ListIsWhole, MoreFollows, ListTypes, MoreTypes
  <2>2. Whole(items \o Page(me, cursor).rows, me, Page(me, cursor).next, top, deleted)
    BY <1>2, <2>1, MoreIsWhole
  <2>3. QED
    BY <1>1, <2>1, <2>2
<1> HIDE DEF page
<1>5. /\ items' \in Seq(Jobs) /\ Len(items') = Len(items) + Len(page.rows)
      /\ \A k \in 1 .. Len(items) + Len(page.rows) : items'[k] =
            IF k <= Len(items) THEN items[k] ELSE page.rows[k - Len(items)]
  BY <1>1, <1>2, <1>3, ConcatProperties
<1>6. ASSUME NEW k \in DOMAIN items' PROVE items'[k] \in made
  <2>1. /\ Len(items) \in Nat /\ DOMAIN items = 1 .. Len(items)
        /\ Len(page.rows) \in Nat /\ DOMAIN page.rows = 1 .. Len(page.rows)
        /\ k \in 1 .. Len(items) + Len(page.rows)
    BY <1>2, <1>3, <1>5
  <2>2. CASE k <= Len(items)
    <3>1. k \in DOMAIN items /\ items'[k] = items[k]
      BY <1>5, <2>1, <2>2
    <3>2. QED
      BY <1>2, <3>1 DEF ListTypes
  <2>3. CASE ~(k <= Len(items))
    <3>1. k - Len(items) \in DOMAIN page.rows /\ items'[k] = page.rows[k - Len(items)]
      BY <1>5, <2>1, <2>3
    <3>2. QED
      BY <1>3, <3>1
  <2>4. QED
    BY <2>2, <2>3
<1>7. MoreTypes' /\ more'.pc = "idle"
  BY <1>1, <1>3, CallTypes DEF MoreTypes, WalletsOrNone
<1>8. ListTypes'
  BY <1>1, <1>2, <1>3, <1>5, <1>6, <1>7 DEF ListTypes
<1>9. ListIsWhole'
  BY <1>4, <1>7 DEF ListIsWhole, MoreFollows
<1>10. DeletionsAreTrue'
  BY <1>1 DEF ListInv, DeletionsAreTrue
<1>11. QED
  BY <1>8, <1>9, <1>10

\* The list goes with its session.
LEMMA ResetSessionList ==
    ASSUME ListInv, ResetSession
    PROVE  ListTypes' /\ DeletionsAreTrue' /\ ListIsWhole'
<1>1. /\ items' = <<>> /\ me' = None /\ cursor' = 0 /\ top' = {}
      /\ orderly' = (more.pc = "idle")
      /\ UNCHANGED <<del, made, deleted, more>>
  BY DEF ResetSession, apiVars
<1>2. ListTypes
  BY DEF ListInv
<1>3. items' \in Seq(Jobs) /\ DOMAIN items' = {}
  BY <1>1
<1>4. cursor' \in 0 .. MaxJobs
  BY <1>1, HistoryAssumption
<1>5. ListTypes' /\ (orderly' => more'.pc # "asking")
  BY <1>1, <1>2, <1>3, <1>4 DEF ListTypes, MoreTypes, WalletsOrNone
<1>6. Whole(items', me', cursor', top', deleted')
  BY <1>1, <1>3 DEF Whole
<1>7. ListIsWhole'
  BY <1>5, <1>6 DEF ListIsWhole, MoreFollows
<1>8. DeletionsAreTrue'
  BY <1>1 DEF ListInv, DeletionsAreTrue
<1>9. QED
  BY <1>5, <1>7, <1>8

\* The page takes out of the list what is deleted, wherever the list has been
\* begun again since.
LEMMA DeleteAnsweredList ==
    ASSUME ListInv, NEW j \in Jobs, DeleteAnswered(j)
    PROVE  ListTypes' /\ DeletionsAreTrue' /\ ListIsWhole'
<1> DEFINE I == {i \in DOMAIN items : items[i] # j}
           r == Keep(items, I)
<1>1. /\ items' = r /\ del' = [del EXCEPT ![j] = "none"]
      /\ UNCHANGED <<me, cursor, more, made, deleted, top, orderly>>
  BY DEF DeleteAnswered, apiVars
<1>2. ListTypes /\ items \in Seq(Jobs)
  BY DEF ListInv, ListTypes
<1>3. j \in deleted
  BY DEF ListInv, DeletionsAreTrue, DeleteAnswered
<1>4. Whole(items, me, cursor, top, deleted) => Whole(r, me, cursor, top, deleted)
  BY <1>2, <1>3, LessIsWhole
<1>5. r \in Seq(Jobs) /\ \A k \in DOMAIN r : \E i \in DOMAIN items : r[k] = items[i]
  <2>1. I \in SUBSET DOMAIN items
    OBVIOUS
  <2> HIDE DEF I
  <2>2. QED
    BY <1>2, <2>1, KeepIsFilter
<1> HIDE DEF r
<1>6. \A k \in DOMAIN r : r[k] \in made
  BY <1>2, <1>5 DEF ListTypes
<1>7. ListTypes'
  BY <1>1, <1>2, <1>5, <1>6 DEF ListTypes, MoreTypes
<1>8. ListIsWhole'
  BY <1>1, <1>4 DEF ListInv, ListIsWhole, MoreFollows
<1>9. DeletionsAreTrue'
  BY <1>1 DEF ListInv, DeletionsAreTrue
<1>10. QED
  BY <1>7, <1>8, <1>9

\* The API knows of every job that a page has listed or a deletion asks for.
LEMMA DeleteList ==
    ASSUME ListInv, HistoryInv, NEW j \in Jobs,
           OnDelete(j) \/ DeleteServed(j) \/ DeleteFails(j)
    PROVE  ListTypes' /\ DeletionsAreTrue' /\ ListIsWhole'
<1>1. UNCHANGED <<me, items, cursor, top, orderly, more, made>>
  BY DEF OnDelete, DeleteServed, DeleteFails, listVars, apiVars
<1>2. /\ ListTypes /\ ListIsWhole /\ DeletionsAreTrue /\ made \subseteq Jobs
      /\ deleted \subseteq made /\ del \in [Jobs -> {"none", "asking", "deleted", "failed"}]
  BY DEF ListInv, ListTypes, HistoryInv, CallsTypeOK
<1>3. \E p \in {"none", "asking", "deleted", "failed"} :
         /\ del' = [del EXCEPT ![j] = p]
         /\ p \in {"asking", "deleted"} => j \in made
         /\ p = "deleted" => j \in deleted'
         /\ deleted' \in {deleted, deleted \cup {j}}
         /\ j \in deleted' => j \in made
  <2>1. CASE OnDelete(j)
    <3>1. PICK i \in DOMAIN items : items[i] = j
      BY <2>1 DEF OnDelete, ToSet
    <3>2. j \in made
      BY <1>2, <3>1 DEF ListTypes
    <3>3. QED
      BY <2>1, <3>2 DEF OnDelete, apiVars
  <2>2. CASE DeleteServed(j)
    BY <1>2, <2>2 DEF DeleteServed, DeletionsAreTrue
  <2>3. CASE DeleteFails(j)
    BY <1>2, <2>3 DEF DeleteFails, apiVars
  <2>4. QED
    BY <2>1, <2>2, <2>3
<1>4. deleted \subseteq deleted' /\ deleted' \subseteq made'
  BY <1>1, <1>2, <1>3
<1>5. MoreTypes' /\ orderly' \in BOOLEAN /\ (orderly' => orderly /\ MoreFollows')
  BY <1>1, <1>2 DEF ListTypes, MoreTypes, ListIsWhole, MoreFollows
<1>6. ListTypes' /\ ListIsWhole'
  BY <1>1, <1>2, <1>4, <1>5, ListStays
<1>7. DeletionsAreTrue'
  BY <1>1, <1>2, <1>3, <1>4 DEF DeletionsAreTrue
<1>8. QED
  BY <1>6, <1>7

\* More is asked for with the session of the list, or the list is not claimed to
\* be whole any more.
LEMMA OnLoadMoreFollows ==
    ASSUME ListInv, HistoryInv, OnLoadMore
    PROVE  MoreTypes' /\ orderly' \in BOOLEAN /\ (orderly' => orderly /\ MoreFollows')
<1>1. /\ cursor # 0 /\ more' = Asking(Header, cursor)
      /\ orderly' = (orderly /\ Header \in {None, me})
      /\ UNCHANGED <<me, cursor>>
  BY DEF OnLoadMore, listVars
<1>2. Header \in WalletsOrNone /\ cursor \in 0 .. MaxJobs
  BY DEF Header, HistoryInv, CallsTypeOK, SessionTypeOK, ListInv, ListTypes
<1>3. more' \in CallType /\ more'.hdr = Header /\ more'.before = cursor
  BY <1>1, <1>2, CallTypes DEF Asking
<1>4. QED
  BY <1>1, <1>3 DEF ListInv, ListTypes, MoreTypes, MoreFollows

\* The steps that leave the list, and what is deleted, alone.
LEMMA OtherList ==
    ASSUME ListInv, HistoryInv,
           \/ \E w \in WalletsOrNone : WalletChanges(w)
           \/ \E w \in Wallets : SignEnds(w)
           \/ \E l \in Loads : FirstFails(l)
           \/ OnLoadMore \/ MoreFails \/ OtherTab \/ JobMade
           \/ UNCHANGED vars
    PROVE  ListTypes' /\ DeletionsAreTrue' /\ ListIsWhole'
<1>1. UNCHANGED <<me, items, cursor, top, del, deleted>>
  BY DEF WalletChanges, SignEnds, FirstFails, OnLoadMore, MoreFails, OtherTab, JobMade, vars,
     listVars, apiVars
<1>2. made \subseteq made' /\ (made' = made \/ \E j \in Jobs : made' = made \cup {j})
  BY DEF WalletChanges, SignEnds, FirstFails, OnLoadMore, MoreFails, OtherTab, JobMade, vars,
     listVars, apiVars
<1>3. /\ ListTypes /\ ListIsWhole /\ DeletionsAreTrue /\ made \subseteq Jobs
      /\ deleted \subseteq made
  BY DEF ListInv, ListTypes
<1>4. MoreTypes' /\ orderly' \in BOOLEAN /\ (orderly' => orderly /\ MoreFollows')
  <2>1. CASE OnLoadMore
    BY <2>1, OnLoadMoreFollows
  <2>2. CASE MoreFails
    <3>1. more' = IdleCall /\ UNCHANGED orderly
      BY <2>2 DEF MoreFails
    <3>2. more' \in CallType /\ more'.pc = "idle"
      BY <1>3, <3>1, CallTypes DEF ListTypes, WalletsOrNone
    <3>3. QED
      BY <1>3, <3>1, <3>2 DEF ListTypes, MoreTypes, MoreFollows
  <2>3. CASE \/ \E w \in WalletsOrNone : WalletChanges(w)
             \/ \E w \in Wallets : SignEnds(w)
             \/ \E l \in Loads : FirstFails(l)
             \/ OtherTab \/ JobMade \/ UNCHANGED vars
    <3>1. UNCHANGED <<me, cursor, more, orderly>>
      BY <2>3 DEF WalletChanges, SignEnds, FirstFails, OtherTab, JobMade, vars, listVars
    <3>2. QED
      BY <1>3, <3>1 DEF ListTypes, MoreTypes, ListIsWhole, MoreFollows
  <2>4. QED
    BY <2>1, <2>2, <2>3
<1>5. ListTypes' /\ ListIsWhole'
  <2>1. made' \subseteq Jobs /\ deleted' \subseteq made'
    BY <1>1, <1>2, <1>3
  <2>2. QED
    BY <1>1, <1>2, <1>3, <1>4, <2>1, ListStays
<1>6. DeletionsAreTrue'
  BY <1>1, <1>2, <1>3 DEF DeletionsAreTrue
<1>7. QED
  BY <1>5, <1>6

LEMMA InitList == Init => ListInv
<1> SUFFICES ASSUME Init PROVE ListInv
  OBVIOUS
<1>1. /\ me = None /\ items = <<>> /\ cursor = 0 /\ more = IdleCall /\ orderly = TRUE
      /\ made \subseteq Jobs /\ deleted = {} /\ top = {} /\ del = [j \in Jobs |-> "none"]
  BY DEF Init
<1>2. AuthTypes
  BY DEF Init, SessionInit, WalletsOrNone, AuthTypes
<1>3. items \in Seq(Jobs) /\ DOMAIN items = {} /\ cursor \in 0 .. MaxJobs
  BY <1>1, HistoryAssumption
<1>4. MoreTypes /\ more.pc = "idle"
  BY <1>1, <1>3, CallTypes DEF MoreTypes, WalletsOrNone
<1>5. ListTypes
  BY <1>1, <1>3, <1>4 DEF ListTypes, WalletsOrNone
<1>6. ListIsWhole
  BY <1>1, <1>3, <1>4 DEF ListIsWhole, MoreFollows, Whole
<1>7. DeletionsAreTrue
  BY <1>1 DEF DeletionsAreTrue
<1>8. QED
  BY <1>2, <1>5, <1>6, <1>7 DEF ListInv

LEMMA NextList == ListInv /\ HistoryInv /\ [Next]_vars => ListInv'
<1> SUFFICES ASSUME ListInv, HistoryInv, [Next]_vars PROVE ListInv'
  OBVIOUS
<1>1. AuthTypes'
  BY AuthTypesStep DEF ListInv
<1>2. ListTypes' /\ DeletionsAreTrue' /\ ListIsWhole'
  BY FirstAnsweredInv, MoreAnsweredInv, ResetSessionList, DeleteAnsweredList, DeleteList,
     OtherList DEF Next, Load, LoadMore, Delete
<1>3. QED
  BY <1>1, <1>2 DEF ListInv

LEMMA ListInvariant == Spec => [](ListInv /\ HistoryInv)
<1>1. Init => ListInv /\ HistoryInv
  BY InitList, InitInv
<1>2. ListInv /\ HistoryInv /\ [Next]_vars => (ListInv /\ HistoryInv)'
  BY NextList, NextInv
<1>3. QED
  BY <1>1, <1>2, PTL DEF Spec

-----------------------------------------------------------------------------
(* Theorems about the list.                                                *)

\* If no Load more was under way when the list was begun, and each since was
\* asked for with the list's own session, the pages make up one wallet's list,
\* newest first, without a job twice and without a gap down to the cursor, however
\* many jobs become visible, in any order, and are deleted meanwhile, and whatever
\* lists there were before.
THEOREM Continuous == Spec => []ListIsContinuous
<1>1. ASSUME ListInv, orderly PROVE ListIsContinuous
  <2>1. Whole(items, me, cursor, top, deleted)
    BY <1>1 DEF ListInv, ListIsWhole
  <2>2. \A j : (\E i \in DOMAIN items : items[i] = j) => j \in ToSet(items)
    BY DEF ToSet
  <2>3. QED
    BY <2>1, <2>2 DEF Whole, ListIsContinuous
<1>2. ListInv => ListIsContinuous
  BY <1>1 DEF ListIsContinuous
<1>3. QED
  BY <1>2, ListInvariant, PTL

\* Every variable keeps its type: a list only has jobs there are, more is only
\* asked for from a cursor, and only jobs there are get deleted.
THEOREM HistoryTypes == Spec => []TypeOK
<1>1. ASSUME ListInv, HistoryInv PROVE TypeOK
  <2>1. 0 \in 0 .. MaxJobs /\ Jobs \subseteq 0 .. MaxJobs
    BY HistoryAssumption DEF Jobs
  <2>2. Calls \subseteq CallType
    BY <2>1 DEF Calls, CallType
  <2>3. first \in [Loads -> CallType] /\ busy \in 0 .. MaxJobs
    BY <1>1, <2>1, <2>2 DEF HistoryInv, CallsTypeOK
  <2>4. QED
    BY <1>1, <2>3 DEF ListInv, AuthTypes, ListTypes, MoreTypes, HistoryInv, CallsTypeOK, TypeOK
<1>2. QED
  BY <1>1, ListInvariant, PTL
=============================================================================
