\* Two wallets, job 2 of the second and the others of the first, pages of one.
CONSTANTS
    w1 = w1
    w2 = w2
    Wallets <- TwoWallets
    None = None
    MaxJobs = 4
    Owner <- OwnerOf
    PageSize = 1
    MaxDeletes = 1
    Loads = {l1, l2}
SPECIFICATION Spec
SYMMETRY LoadsAlike
INVARIANTS
    TypeOK
    SessionIsTheWallets
    ListIsContinuous
    WaitsForRequests
    RetryNeverShown
