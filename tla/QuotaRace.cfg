\* Two requests of one wallet from one address, at the turn of the hour.
CONSTANTS
    Requests = {r1, r2}
    IPs = {i1}
    Wallets = {wa}
    NoWallet = NoWallet
    Tiers = {"free"}
    AnonTier = "free"
    Quota <- TierQuota
    Limit = 2
    Day = 1
    NoCaller = NoCaller
    MaxHour = 1
SPECIFICATION Spec
INVARIANT
    QuotaFromOneAddress
CHECK_DEADLOCK FALSE
