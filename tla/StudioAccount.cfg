\* A wallet of the tier PRIME and one of FREE, two texts to search for and two
\* too short ones.
CONSTANTS
    w1 = w1
    w2 = w2
    Wallets <- TwoWallets
    None = None
    TierOf <- WalletTiers
    Tiers = {"free", "pro", "prime"}
    Queries = {"bnb", "eth"}
    Short = {"", "b"}
SPECIFICATION MCSpec
INVARIANTS
    TypeOK
    AccountAgrees
    PendingMeansSearching
    ResultsAreForTheText
PROPERTIES
    WalletTierIsCurrent
    QuotaStaysShown
