--------------------------- MODULE StudioAccount ----------------------------
(***************************************************************************)
(* The account side of the studio page (SuperBCSPage.tsx): the session in   *)
(* use, the quota and tier the API and the panel report, and the sign-in a  *)
(* click on Generate may need.                                             *)
(*                                                                         *)
(* An action is what runs between two awaits, with the effects that the    *)
(* state changes of it trigger.  Requests of one kind with one bearer are  *)
(* one, and its answer may leave another of them under way.                *)
(***************************************************************************)
EXTENDS BrowserSession

CONSTANTS
    TierOf,     \* the tier of each wallet
    Tiers       \* "free", "pro", "prime"

ASSUME TierAssumption ==
    TierOf \in [Wallets -> Tiers] /\ {"free", "prime"} \subseteq Tiers /\ None \notin Tiers

VARIABLES
    session,
    me,         \* the wallet whose quota and tier GET /me reported
    asks,       \* the bearers of the calls of getMe under way
    walletTier, \* what permissions/check said
    tierAsks,   \* its requests: "none", "asking", "cancelled"
    signing,    \* the wallets a signature is asked for
    calls,      \* the calls of generate under way, TRUE if begun with a session
    disturbed   \* history: something below changed the wallet or the stored session
                \* under what was going on, see Interrupts and Foreign

accountVars == <<sessionVars, session, me, asks, walletTier, tierAsks,
                 signing, calls, disturbed>>

tier == IF me # None THEN TierOf[me]
        ELSE IF walletTier # None THEN walletTier ELSE "free"

\* The wallet on the credit card, which is shown while one is connected.
WalletShown == IF session # None THEN session ELSE wallet

AccountInit ==
    /\ SessionInit
    /\ session = GetSessionFor(wallet)
    /\ me = None
    /\ asks = IF session = None THEN {} ELSE {stored}
    /\ walletTier = None
    /\ tierAsks = [w \in Wallets |-> IF w = wallet THEN "asking" ELSE "none"]
    /\ signing = {} /\ calls = {} /\ disturbed = FALSE

\* setSession, and the effect that refreshes the quota: setMe(null) or getMe.
SetSession(s) ==
    /\ session' = s
    /\ IF s = None
       THEN me' = (IF session = None THEN me ELSE None) /\ UNCHANGED asks
       ELSE asks' = asks \cup {stored'} /\ UNCHANGED me

-----------------------------------------------------------------------------
\* Slip: the request for the tier of the wallet of before is not cancelled.
AskTierToo(w) ==
    tierAsks' = [v \in Wallets |-> IF v = w THEN "asking" ELSE tierAsks[v]]

AskTier(w) ==
    tierAsks' = [v \in Wallets |-> IF v = w THEN "asking"
                                   ELSE IF tierAsks[v] = "asking" THEN "cancelled"
                                   ELSE tierAsks[v]]

\* A change of wallet now finds a getMe, a signature or a call of generate under
\* way, or a quota that is shown without a session.
Interrupts == asks # {} \/ signing # {} \/ calls # {} \/ (me # None /\ session = None)

\* The session stored by this step is of another wallet than the connected one.
Foreign == stored' \notin {None, wallet}

\* The wallet changes in the top bar: both effects that depend on it.
WalletChanges(w) ==
    /\ w # wallet
    /\ wallet' = w
    /\ LET s == SessionAfter(session, w)
       IN  /\ IF session # None /\ s = None THEN ClearSession ELSE UNCHANGED stored
           /\ IF s = session THEN UNCHANGED <<session, me, asks>> ELSE SetSession(s)
    /\ walletTier' = IF w = None THEN None ELSE walletTier
    /\ AskTier(w)
    /\ disturbed' = (disturbed \/ Interrupts)
    /\ UNCHANGED <<signing, calls>>

TierAnswered(w) ==
    /\ tierAsks[w] # "none"
    /\ walletTier' = IF tierAsks[w] = "asking" THEN TierOf[w] ELSE walletTier
    /\ tierAsks' = [tierAsks EXCEPT ![w] = "none"]
    /\ UNCHANGED <<sessionVars, session, me, asks, signing, calls, disturbed>>

TierFails(w) ==
    /\ tierAsks[w] # "none"
    /\ tierAsks' = [tierAsks EXCEPT ![w] = "none"]
    /\ UNCHANGED <<sessionVars, session, me, asks, walletTier, signing, calls, disturbed>>

\* ensureSession at the start of generate.
Generate ==
    /\ wallet # None
    /\ calls' = calls \cup {session # None}
    /\ IF GetSessionFor(wallet) # None
       THEN UNCHANGED <<stored, signing>> /\ SetSession(wallet)
       ELSE signing' = signing \cup {wallet} /\ UNCHANGED <<stored, session, me, asks>>
    /\ UNCHANGED <<wallet, walletTier, tierAsks, disturbed>>

\* The session signed for is used, whatever the wallet is by now.
SignEnds(w) ==
    /\ w \in signing
    /\ signing' = signing \ {w}
    /\ Persist(w)
    /\ SetSession(w)
    /\ disturbed' = (disturbed \/ Foreign)
    /\ UNCHANGED <<wallet, walletTier, tierAsks, calls>>

SignFails(w) ==
    /\ w \in signing
    /\ signing' = signing \ {w}
    /\ UNCHANGED <<sessionVars, session, me, asks, walletTier, tierAsks, calls, disturbed>>

\* refreshMe after a submission or a result, by a call of generate that knows
\* of the session only if it was there when the button was clicked.
RefreshMe(signedIn) ==
    /\ signedIn \in calls
    /\ calls' \in {calls, calls \ {signedIn}}
    /\ IF signedIn THEN asks' = asks \cup {Header} /\ UNCHANGED me
                   ELSE me' = None /\ UNCHANGED asks
    /\ UNCHANGED <<sessionVars, session, walletTier, tierAsks, signing, disturbed>>

MeAnswered(h) ==
    /\ h \in asks /\ h # None
    /\ asks' \in {asks, asks \ {h}}
    /\ me' = h
    /\ UNCHANGED <<sessionVars, session, walletTier, tierAsks, signing, calls, disturbed>>

\* Slip: a failure takes the quota away and leaves the session.
MeFailsOnly(h) ==
    /\ h \in asks
    /\ asks' \in {asks, asks \ {h}}
    /\ me' = None
    /\ UNCHANGED <<sessionVars, session, walletTier, tierAsks, signing, calls, disturbed>>

\* Any failure drops whatever session is stored and in use by now.
MeFails(h) ==
    /\ h \in asks
    /\ asks' \in {asks, asks \ {h}}
    /\ ClearSession
    /\ session' = None /\ me' = None
    /\ UNCHANGED <<wallet, walletTier, tierAsks, signing, calls, disturbed>>

OtherTab ==
    /\ StoredChanges
    /\ disturbed' = (disturbed \/ Foreign)
    /\ UNCHANGED <<session, me, asks, walletTier, tierAsks, signing, calls>>

AccountNext ==
    \/ \E w \in WalletsOrNone : WalletChanges(w)
    \/ \E w \in Wallets : TierAnswered(w) \/ TierFails(w) \/ SignEnds(w) \/ SignFails(w)
    \/ Generate
    \/ \E b \in BOOLEAN : RefreshMe(b)
    \/ \E h \in WalletsOrNone : MeAnswered(h) \/ MeFails(h)
    \/ OtherTab

-----------------------------------------------------------------------------
(* Properties.                                                             *)

AccountTypeOK ==
    /\ SessionTypeOK
    /\ session \in WalletsOrNone /\ me \in WalletsOrNone
    /\ asks \subseteq WalletsOrNone
    /\ walletTier \in Tiers \cup {None}
    /\ tierAsks \in [Wallets -> {"none", "asking", "cancelled"}]
    /\ signing \subseteq Wallets /\ calls \subseteq BOOLEAN
    /\ disturbed \in BOOLEAN

\* While a wallet is connected, the one on the credit card is it, and the quota
\* and tier shown there are its own.  The code promises this only if the wallet
\* never changed in the middle of something (Interrupts), and no session of
\* another wallet got into localStorage since the page was opened, from another
\* tab or by a write that failed (Foreign): these are conditions of the formula.
AccountAgrees ==
    ~disturbed /\ wallet # None => WalletShown = wallet /\ me \in {None, wallet}

\* Of several answers of the panel only the one for the connected wallet is
\* used: when the tier changes, it becomes that of the wallet.
WalletTierIsCurrent ==
    [][walletTier' \notin {walletTier, None} => walletTier' = TierOf[wallet]]_accountVars

\* The quota once shown goes only with the session, or when a call of generate
\* that began without a session refreshes it.
QuotaStaysShown ==
    [][me # None /\ me' = None => session' = None \/ FALSE \in calls]_accountVars
=============================================================================
