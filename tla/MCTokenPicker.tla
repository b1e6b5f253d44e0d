--------------------------- MODULE MCTokenPicker ----------------------------
(***************************************************************************)
(* TokenPicker with a wallet of the tier PRIME and one of FREE.  Bound of   *)
(* the model: while the picker is in use, only the first wallet occurs.     *)
(***************************************************************************)
EXTENDS TokenPicker

CONSTANTS w1, w2

TwoWallets == {w1, w2}
WalletTiers == [w \in TwoWallets |-> IF w = w1 THEN "prime" ELSE "free"]

AtRest == /\ tokenSearch = "" /\ searchTimer = None /\ searches = {}
          /\ searchResults = None /\ ~searchPending /\ ~typedOver

FirstWalletOnly ==
    /\ w2 \notin {wallet, stored, session, me} \cup asks \cup signing
    /\ tierAsks[w2] = "none" /\ walletTier # "free"

MCNext == Next /\ (AtRest \/ FirstWalletOnly)'
MCSpec == Init /\ [][MCNext]_vars
=============================================================================
