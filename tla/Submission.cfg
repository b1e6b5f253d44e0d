\* Three requests from one address, of one wallet or anonymous, with two tiers,
\* over two turns of the hour.
CONSTANTS
    Requests = {r1, r2, r3}
    IPs = {i1}
    Wallets = {wa}
    NoWallet = NoWallet
    Tiers = {"free", "pro"}
    AnonTier = "free"
    Quota <- TierQuota
    Limit = 2
    Day = 1
    NoCaller = NoCaller
    MaxHour = 2
SPECIFICATION FairSpec
INVARIANTS
    TypeOK
    BucketCountsAccepted
    HourlyLimit
    QuotaWithinBucket
PROPERTY
    EveryRequestIsAnswered
CHECK_DEADLOCK FALSE
