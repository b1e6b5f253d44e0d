--------------------------- MODULE BrowserSession ---------------------------
(***************************************************************************)
(* What the pages of one browser share (superbcs/auth.ts and authStore.ts): *)
(* the connected wallet, and the panel session kept in localStorage under   *)
(* one key, whatever its wallet.  A session is the wallet it was minted     *)
(* for.  Other browser tabs use the same localStorage, but have a wallet    *)
(* of their own.                                                           *)
(***************************************************************************)
CONSTANTS
    Wallets,
    None        \* null

ASSUME WalletAssumption == None \notin Wallets

VARIABLES
    wallet,     \* the wallet connected in this tab
    stored      \* the session in localStorage

sessionVars == <<wallet, stored>>

WalletsOrNone == Wallets \cup {None}

SessionInit == wallet \in WalletsOrNone /\ stored \in WalletsOrNone

\* Without a wallet any stored session is returned.
GetSessionFor(w) == IF w = None \/ stored = w THEN stored ELSE None

\* Slip: a session in use stays when the wallet changes.
KeepSession(session, w) == session

\* What an effect of both pages makes of their session when the wallet became w:
\* one of another wallet, or of none any more, is dropped.
SessionAfter(session, w) ==
    IF session = None THEN GetSessionFor(w) ELSE IF session = w THEN session ELSE None

\* authHeaders: the bearer token a request carries.
Header == stored

\* clearSession; persist, which may fail without notice.
ClearSession == stored' = None
Persist(w)   == stored' \in {w, stored}

\* readStored drops a session after its time to live, other tabs sign in or
\* drop the session of whatever wallet.
StoredChanges ==
    /\ stored' \in WalletsOrNone \ {stored}
    /\ UNCHANGED wallet

SessionTypeOK == wallet \in WalletsOrNone /\ stored \in WalletsOrNone
=============================================================================
