------------------------- MODULE TokenPickerProofs --------------------------
(***************************************************************************)
(* Proofs about the account and the token search of the studio page, for   *)
(* any set of wallets, tiers and texts.                                    *)
(***************************************************************************)
EXTENDS TokenPicker, TLAPS

\* The panel's answer that will be used is the one for the connected wallet.
AskIsCurrent == \A w \in Wallets : tierAsks[w] = "asking" => w = wallet

\* Undisturbed, everything under way is about the connected wallet, or about the
\* session while none is connected, and the stored session is the one in use.
Undisturbed ==
    /\ wallet # None => /\ session \in {None, wallet} /\ me \in {None, wallet}
                       /\ asks \subseteq {None, wallet}
    /\ session # None => /\ stored \in {None, session} /\ me \in {None, session}
                        /\ asks \subseteq {None, session}
    /\ signing \subseteq {wallet}
    /\ TRUE \in calls => wallet # None /\ stored \in {None, wallet}

AccountInv == AccountTypeOK /\ (~disturbed => Undisturbed) /\ AskIsCurrent

\* As long as the text was not changed during a search: the pause and the
\* search are for the text in the field, unless the field has been emptied.
SearchIsForTheText ==
    ~typedOver => /\ searchTimer # None =>
                        searches = {} /\ (tokenSearch # "" => searchTimer = tokenSearch)
                  /\ tokenSearch # "" => searches \subseteq {tokenSearch}

PickerTypeOK ==
    /\ tokenSearch \in Texts /\ searchTimer \in Texts \cup {None}
    /\ searches \subseteq Queries
    /\ searchResults \in Queries \cup {None}
    /\ searchPending \in BOOLEAN /\ typedOver \in BOOLEAN

PickerInv ==
    PickerTypeOK /\ PendingMeansSearching /\ ResultsAreForTheText /\ SearchIsForTheText

-----------------------------------------------------------------------------
(* The account.                                                            *)

\* What the effect of a change of wallet makes of the session.
LEMMA SessionAfterWallet ==
    ASSUME AccountInv, NEW w \in WalletsOrNone
    PROVE  LET s == SessionAfter(session, w)
           IN  /\ s \in WalletsOrNone
               /\ w # None => s \in {None, w}
               /\ session # None => s \in {None, session}
  BY
  DEF SessionAfter, GetSessionFor, AccountInv, AccountTypeOK, SessionTypeOK, WalletsOrNone

LEMMA AskTierCurrent ==
    ASSUME AccountInv, NEW w \in WalletsOrNone, AskTier(w)
    PROVE  /\ tierAsks' \in [Wallets -> {"none", "asking", "cancelled"}]
           /\ \A v \in Wallets : tierAsks'[v] = "asking" => v = w
  BY DEF AskTier, AccountInv, AccountTypeOK

LEMMA AccountInitInv == AccountInit => AccountInv
<1> SUFFICES ASSUME AccountInit PROVE AccountInv
  OBVIOUS
<1> USE DEF AccountInit, SessionInit
<1>1. session \in WalletsOrNone /\ session \in {None, stored}
      /\ (wallet # None => session \in {None, wallet})
  BY DEF GetSessionFor, WalletsOrNone
<1>2. tierAsks \in [Wallets -> {"none", "asking", "cancelled"}]
  OBVIOUS
<1>3. disturbed \in BOOLEAN /\ asks \subseteq WalletsOrNone
  OBVIOUS
<1>4. AccountTypeOK
  BY <1>1, <1>2, <1>3 DEF AccountTypeOK, SessionTypeOK, WalletsOrNone
<1>5. Undisturbed /\ AskIsCurrent
  BY <1>1 DEF Undisturbed, AskIsCurrent
<1>6. QED
  BY <1>4, <1>5 DEF AccountInv

\* A change of wallet that interrupts nothing.
LEMMA QuietChange ==
    ASSUME AccountInv, NEW w \in WalletsOrNone, WalletChanges(w), ~disturbed, ~Interrupts
    PROVE  Undisturbed'
<1> DEFINE s == SessionAfter(session, w)
<1> USE DEF WalletChanges
<1>1. /\ asks = {} /\ signing' = {} /\ calls' = {}
      /\ session = None => me = None
      /\ session # None => stored \in {None, session} /\ me \in {None, session}
  BY DEF AccountInv, Undisturbed, Interrupts
<1>2. wallet' = w /\ stored' = IF session # None /\ s = None THEN None ELSE stored
  BY DEF ClearSession
<1>3. CASE s = session
  <2>1. session' = session /\ me' = me /\ asks' = {}
    BY <1>1, <1>3
  <2>2. w # None => session \in {None, w}
    BY <1>3, SessionAfterWallet
  <2>3. QED
    BY <1>1, <1>2, <1>3, <2>1, <2>2 DEF Undisturbed
<1>4. CASE s # session /\ s = None
  BY <1>1, <1>2, <1>4 DEF SetSession, Undisturbed
<1>5. CASE s # session /\ s # None
  <2>1. session = None /\ s = stored /\ (w # None => s = w)
    BY <1>5 DEF SessionAfter, GetSessionFor
  <2>2. session' = s /\ stored' = s /\ me' = None /\ asks' = {s}
    BY <1>1, <1>2, <1>5, <2>1 DEF SetSession
  <2>3. QED
    BY <1>1, <1>2, <1>5, <2>1, <2>2 DEF Undisturbed
<1>6. QED
  BY <1>3, <1>4, <1>5

LEMMA WalletChangesInv ==
    ASSUME AccountInv, NEW w \in WalletsOrNone, WalletChanges(w)
    PROVE  AccountInv'
<1> DEFINE s == SessionAfter(session, w)
<1>1. wallet' = w /\ UNCHANGED <<signing, calls>> /\ disturbed' = (disturbed \/ Interrupts)
  BY DEF WalletChanges
<1>2. stored' \in WalletsOrNone
  BY
  DEF WalletChanges, ClearSession, AccountInv, AccountTypeOK, SessionTypeOK, WalletsOrNone
<1>3. session' \in WalletsOrNone /\ me' \in WalletsOrNone /\ asks' \subseteq WalletsOrNone
  <2>1. CASE s = session
    BY <2>1 DEF WalletChanges, AccountInv, AccountTypeOK
  <2>2. CASE s # session
    BY <1>2, <2>2, SessionAfterWallet
    DEF WalletChanges, SetSession, AccountInv, AccountTypeOK, WalletsOrNone
  <2>3. QED
    BY <2>1, <2>2
<1>4. /\ tierAsks' \in [Wallets -> {"none", "asking", "cancelled"}]
      /\ AskIsCurrent'
  BY <1>1, AskTierCurrent DEF WalletChanges, AskIsCurrent
<1>5. walletTier' \in Tiers \cup {None} /\ disturbed' \in BOOLEAN
  BY <1>1 DEF WalletChanges, AccountInv, AccountTypeOK
<1>6. AccountTypeOK'
  BY <1>1, <1>2, <1>3, <1>4, <1>5 DEF AccountInv, AccountTypeOK, SessionTypeOK
<1>7. ~disturbed' => Undisturbed'
  BY <1>1, QuietChange
<1>8. QED
  BY <1>4, <1>6, <1>7 DEF AccountInv

LEMMA TierInv ==
    ASSUME AccountInv, NEW w \in Wallets, TierAnswered(w) \/ TierFails(w)
    PROVE  AccountInv'
<1> USE DEF AccountInv
<1>1. /\ UNCHANGED <<sessionVars, session, me, asks, signing, calls, disturbed>>
      /\ tierAsks' = [tierAsks EXCEPT ![w] = "none"]
  BY DEF TierAnswered, TierFails
<1>2. walletTier' \in Tiers \cup {None}
  BY TierAssumption DEF TierAnswered, TierFails, AccountTypeOK
<1>3. AccountTypeOK'
  BY <1>1, <1>2 DEF AccountTypeOK, SessionTypeOK, sessionVars
<1>4. (~disturbed => Undisturbed)'
  BY <1>1 DEF Undisturbed, sessionVars
<1>5. AskIsCurrent'
  BY <1>1 DEF AskIsCurrent, AccountTypeOK, sessionVars
<1>6. QED
  BY <1>3, <1>4, <1>5

LEMMA GenerateInv ==
    ASSUME AccountInv, Generate
    PROVE  AccountInv'
<1>1. /\ wallet \in Wallets /\ wallet # None
      /\ UNCHANGED <<wallet, stored, walletTier, tierAsks, disturbed>>
      /\ calls' = calls \cup {session # None}
      /\ calls' \subseteq BOOLEAN /\ signing' \subseteq Wallets
      /\ signing' \subseteq signing \cup {wallet}
  BY DEF Generate, AccountInv, AccountTypeOK, SessionTypeOK, WalletsOrNone
<1>2. \/ /\ stored = wallet /\ session' = wallet
         /\ me' = me /\ asks' = asks \cup {wallet}
      \/ UNCHANGED <<session, me, asks>>
  BY <1>1 DEF Generate, GetSessionFor, SetSession
<1>3. AccountTypeOK'
  BY <1>1, <1>2 DEF AccountInv, AccountTypeOK, SessionTypeOK, WalletsOrNone
<1>4. ASSUME ~disturbed PROVE Undisturbed'
  <2>1. Undisturbed
    BY <1>4 DEF AccountInv
  <2>2. TRUE \in calls' => stored \in {None, wallet}
    BY <1>1, <2>1 DEF Undisturbed
  <2>3. QED
    BY <1>1, <1>2, <2>1, <2>2 DEF Undisturbed
<1>5. AskIsCurrent'
  BY <1>1 DEF AccountInv, AskIsCurrent
<1>6. QED
  BY <1>1, <1>3, <1>4, <1>5 DEF AccountInv

LEMMA SignEndsInv ==
    ASSUME AccountInv, NEW w \in Wallets, SignEnds(w)
    PROVE  AccountInv'
<1>1. /\ stored' \in WalletsOrNone /\ signing' = signing \ {w} /\ w \in signing
      /\ UNCHANGED <<wallet, walletTier, tierAsks, calls>>
  BY DEF SignEnds, Persist, AccountInv, AccountTypeOK, SessionTypeOK, WalletsOrNone
<1>2. session' = w /\ me' = me /\ asks' = asks \cup {stored'} /\ w # None
  BY WalletAssumption DEF SignEnds, SetSession
<1>3. disturbed' \in BOOLEAN /\ disturbed' = (disturbed \/ stored' \notin {None, wallet})
  BY DEF SignEnds, Foreign, AccountInv, AccountTypeOK
<1>4. AccountTypeOK'
  BY <1>1, <1>2, <1>3 DEF AccountInv, AccountTypeOK, SessionTypeOK, WalletsOrNone
<1>5. ASSUME ~disturbed' PROVE Undisturbed'
  <2>1. Undisturbed /\ stored' \in {None, wallet}
    BY <1>3, <1>5 DEF AccountInv
  <2>2. w = wallet
    BY <1>1, <2>1 DEF Undisturbed
  <2>3. QED
    BY <1>1, <1>2, <2>1, <2>2 DEF Undisturbed
<1>6. AskIsCurrent'
  BY <1>1 DEF AccountInv, AskIsCurrent
<1>7. QED
  BY <1>4, <1>5, <1>6 DEF AccountInv

\* The steps that leave the wallet, the session and the tier alone.
LEMMA QuotaInv ==
    ASSUME AccountInv,
           \/ \E w \in Wallets : SignFails(w)
           \/ \E b \in BOOLEAN : RefreshMe(b)
           \/ \E h \in WalletsOrNone : MeAnswered(h)
           \/ OtherTab
    PROVE  AccountInv'
<1>1. /\ UNCHANGED <<wallet, session, walletTier, tierAsks>>
      /\ signing' \subseteq Wallets /\ calls' \subseteq BOOLEAN
  BY DEF SignFails, RefreshMe, MeAnswered, OtherTab, StoredChanges, sessionVars,
     AccountInv, AccountTypeOK
<1>2. stored' \in WalletsOrNone
  BY DEF SignFails, RefreshMe, MeAnswered, OtherTab, StoredChanges, sessionVars,
     AccountInv, AccountTypeOK, SessionTypeOK
<1>3. me' \in WalletsOrNone /\ asks' \subseteq WalletsOrNone
  BY DEF SignFails, RefreshMe, Header, MeAnswered, OtherTab, WalletsOrNone,
     AccountInv, AccountTypeOK, SessionTypeOK
<1>4. disturbed' \in BOOLEAN /\ (~disturbed' => ~disturbed)
  BY DEF SignFails, RefreshMe, MeAnswered, OtherTab, AccountInv, AccountTypeOK
<1>5. ASSUME ~disturbed' PROVE Undisturbed'
  <2>1. Undisturbed
    BY <1>4, <1>5 DEF AccountInv
  <2>2. CASE \E w \in Wallets : SignFails(w)
    BY <2>1, <2>2 DEF SignFails, Undisturbed, sessionVars
  <2>3. CASE \E b \in BOOLEAN : RefreshMe(b)
    <3>1. PICK b \in BOOLEAN : RefreshMe(b)
      BY <2>3
    <3>2. calls' \subseteq calls /\ UNCHANGED <<wallet, stored, session, signing>>
      BY <3>1 DEF RefreshMe, sessionVars
    <3>3. /\ me' \in {me, None} /\ asks' \subseteq asks \cup {stored}
          /\ asks' # asks => TRUE \in calls
      BY <3>1 DEF RefreshMe, Header
    <3>4. QED
      BY <2>1, <3>2, <3>3 DEF Undisturbed
  <2>4. CASE \E h \in WalletsOrNone : MeAnswered(h)
    BY <2>1, <2>4 DEF MeAnswered, Undisturbed, sessionVars
  <2>5. CASE OtherTab
    <3>1. stored' \in {None, wallet}
      BY <1>5, <2>5 DEF OtherTab, Foreign
    <3>2. session # None => wallet \in {None, session}
      BY <2>1 DEF Undisturbed
    <3>3. QED
      BY <2>1, <2>5, <3>1, <3>2 DEF OtherTab, StoredChanges, Undisturbed
  <2>6. QED
    BY <2>2, <2>3, <2>4, <2>5
<1>6. AccountTypeOK'
  BY <1>1, <1>2, <1>3, <1>4 DEF AccountInv, AccountTypeOK, SessionTypeOK
<1>7. AskIsCurrent'
  BY <1>1 DEF AccountInv, AskIsCurrent
<1>8. QED
  BY <1>5, <1>6, <1>7 DEF AccountInv

LEMMA MeFailsInv ==
    ASSUME AccountInv, NEW h \in WalletsOrNone, MeFails(h)
    PROVE  AccountInv'
<1> USE DEF AccountInv, MeFails, ClearSession
<1>1. AccountTypeOK'
  BY DEF AccountTypeOK, SessionTypeOK, WalletsOrNone
<1>2. (~disturbed => Undisturbed)' /\ AskIsCurrent'
  BY DEF Undisturbed, AskIsCurrent
<1>3. QED
  BY <1>1, <1>2

LEMMA AccountStepInv == AccountInv /\ [AccountNext]_accountVars => AccountInv'
<1> SUFFICES ASSUME AccountInv, [AccountNext]_accountVars PROVE AccountInv'
  OBVIOUS
<1>1. CASE AccountNext
  BY <1>1, WalletChangesInv, TierInv, GenerateInv, SignEndsInv, QuotaInv, MeFailsInv
  DEF AccountNext
<1>2. CASE UNCHANGED accountVars
  BY <1>2 DEF accountVars, sessionVars, AccountInv, AccountTypeOK, SessionTypeOK,
     Undisturbed, AskIsCurrent
<1>3. QED
  BY <1>1, <1>2

-----------------------------------------------------------------------------
(* The search.                                                             *)

LEMMA PickerInitInv == Init => PickerInv
  BY QueryAssumption DEF Init, PickerInv, PickerTypeOK, Texts, PendingMeansSearching,
     ResultsAreForTheText, SearchIsForTheText

LEMMA TypeInv ==
    ASSUME PickerInv, NEW q \in Texts, Type(q)
    PROVE  PickerInv'
<1> USE DEF PickerInv, Type
<1>1. typedOver' \in BOOLEAN /\ (~typedOver' => ~typedOver /\ searches = {})
  BY DEF PickerTypeOK
<1>2. PickerTypeOK' /\ PendingMeansSearching'
  BY <1>1 DEF PickerTypeOK, PendingMeansSearching
<1>3. q # None
  BY QueryAssumption DEF Texts
<1>4. ResultsAreForTheText' /\ SearchIsForTheText'
  BY <1>1, <1>3 DEF ResultsAreForTheText, SearchIsForTheText
<1>5. QED
  BY <1>2, <1>4

LEMMA SearchTokenInv ==
    ASSUME PickerInv, SearchToken
    PROVE  PickerInv'
<1> USE DEF PickerInv, SearchToken
<1>1. CASE searchTimer \in Short
  BY <1>1 DEF PickerTypeOK, PendingMeansSearching, ResultsAreForTheText, SearchIsForTheText
<1>2. CASE searchTimer \notin Short
  <2>1. searchTimer \in Queries
    BY <1>2 DEF PickerTypeOK, Texts
  <2>2. QED
    BY <1>2, <2>1 DEF PickerTypeOK, PendingMeansSearching, ResultsAreForTheText,
       SearchIsForTheText
<1>3. QED
  BY <1>1, <1>2

LEMMA SearchAnsweredInv ==
    ASSUME PickerInv, NEW q \in Queries, SearchAnswered(q)
    PROVE  PickerInv'
<1> USE DEF PickerInv, SearchAnswered, SearchEnds
<1>1. PickerTypeOK' /\ PendingMeansSearching'
  BY DEF PickerTypeOK, PendingMeansSearching
<1>2. ResultsAreForTheText' /\ SearchIsForTheText'
  BY DEF ResultsAreForTheText, SearchIsForTheText
<1>3. QED
  BY <1>1, <1>2

LEMMA PickInv ==
    ASSUME PickerInv, PickSearchResult
    PROVE  PickerInv'
<1> USE DEF PickerInv, PickSearchResult
<1>1. typedOver' \in BOOLEAN /\ (~typedOver' => ~typedOver)
  BY DEF PickerTypeOK
<1>2. PickerTypeOK' /\ PendingMeansSearching'
  BY <1>1, QueryAssumption DEF PickerTypeOK, PendingMeansSearching, Texts
<1>3. ResultsAreForTheText' /\ SearchIsForTheText'
  BY <1>1 DEF ResultsAreForTheText, SearchIsForTheText
<1>4. QED
  BY <1>2, <1>3

LEMMA PickerStepInv == PickerInv /\ [PickerNext]_pickerVars => PickerInv'
<1> SUFFICES ASSUME PickerInv, [PickerNext]_pickerVars PROVE PickerInv'
  OBVIOUS
<1>1. CASE PickerNext
  BY <1>1, TypeInv, SearchTokenInv, SearchAnsweredInv, PickInv DEF PickerNext
<1>2. CASE UNCHANGED pickerVars
  BY <1>2 DEF pickerVars, PickerInv, PickerTypeOK, PendingMeansSearching,
     ResultsAreForTheText, SearchIsForTheText
<1>3. QED
  BY <1>1, <1>2

\* A step of the composition is one of a part and leaves the other alone.
LEMMA StepsOfTheParts == [Next]_vars => [AccountNext]_accountVars /\ [PickerNext]_pickerVars
  BY DEF Next, vars

LEMMA Invariants == Spec => [](AccountInv /\ PickerInv)
<1>1. Init => AccountInv /\ PickerInv
  BY AccountInitInv, PickerInitInv DEF Init
<1>2. AccountInv /\ PickerInv /\ [Next]_vars => (AccountInv /\ PickerInv)'
  BY AccountStepInv, PickerStepInv, StepsOfTheParts
<1>3. QED
  BY <1>1, <1>2, PTL DEF Spec

-----------------------------------------------------------------------------
(* Theorems.                                                               *)

\* The variables have the types TypeOK states.
THEOREM TypeCorrect == Spec => []TypeOK
<1>1. AccountInv /\ PickerInv => TypeOK
  BY DEF AccountInv, PickerInv, PickerTypeOK, TypeOK
<1>2. QED
  BY <1>1, Invariants, PTL

\* While a wallet is connected the card shows it, with its own quota and tier, if
\* no change of wallet interrupted anything and no session of another wallet was
\* stored since the page was opened.
THEOREM OneWallet == Spec => []AccountAgrees
<1>1. AccountInv => AccountAgrees
  BY DEF AccountInv, Undisturbed, AccountAgrees, WalletShown
<1>2. QED
  BY <1>1, Invariants, PTL

\* "Searching" is shown only while a search is under way.
THEOREM PendingIsTrue == Spec => []PendingMeansSearching
<1>1. PickerInv => PendingMeansSearching
  BY DEF PickerInv
<1>2. QED
  BY <1>1, Invariants, PTL

\* The list is for the text in the field unless it changed during a search.
THEOREM ResultsFit == Spec => []ResultsAreForTheText
<1>1. PickerInv => ResultsAreForTheText
  BY DEF PickerInv
<1>2. QED
  BY <1>1, Invariants, PTL

\* An answer of the panel about a wallet of before is never used.
THEOREM TierIsCurrent == Spec => WalletTierIsCurrent
<1>1. ASSUME AccountInv, [AccountNext]_accountVars, walletTier' \notin {walletTier, None}
      PROVE  walletTier' = TierOf[wallet]
  <2>1. PICK w \in Wallets : TierAnswered(w)
    BY <1>1 DEF AccountNext, WalletChanges, TierFails, Generate, SignEnds, SignFails,
       RefreshMe, MeAnswered, MeFails, OtherTab, accountVars
  <2>2. tierAsks[w] = "asking" /\ walletTier' = TierOf[w]
    BY <1>1, <2>1 DEF TierAnswered
  <2>3. QED
    BY <1>1, <2>2 DEF AccountInv, AskIsCurrent
<1>2. QED
  BY <1>1, Invariants, StepsOfTheParts, PTL DEF Spec, WalletTierIsCurrent

\* The quota shown goes with the session, or by a call that began without one.
THEOREM QuotaStays == Spec => QuotaStaysShown
<1>1. ASSUME AccountInv, [AccountNext]_accountVars, me # None, me' = None
      PROVE  session' = None \/ FALSE \in calls
  <2>1. \A s : SetSession(s) => session' = None
    BY <1>1 DEF SetSession
  <2>2. QED
    BY <1>1, <2>1 DEF AccountNext, WalletChanges, TierAnswered, TierFails, Generate,
       SignEnds, SignFails, RefreshMe, MeAnswered, MeFails, OtherTab, accountVars
<1>3. QED
  BY <1>1, Invariants, StepsOfTheParts, PTL DEF Spec, QuotaStaysShown
=============================================================================
