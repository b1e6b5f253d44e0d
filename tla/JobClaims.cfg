\* Two jobs, two daemons, two concurrent claims; one result and one deletion at
\* a time; a claim is stuck one tick after it was made.
CONSTANTS
    Jobs = {1, 2}
    Workers = {w1, w2}
    Claims = {c1, c2}
    Posts = {p1}
    Deletes = {d1}
    Media = {m1, m2, m3}
    NoJob = 0
    NoWorker = NoWorker
    NoMedia = NoMedia
    NoAge = NoAge
    Timeout = 0
    MaxExtras = 1
SPECIFICATION Spec
SYMMETRY Symmetric
INVARIANTS
    TypeOK
    NoRowClaimedTwice
    OpenClaimStaysValid
    ClaimColumnsAgree
    FinishedRowsAreComplete
PROPERTIES
    FinishedStaysFinished
    ClaimKeptUntilTimeout
    ImplementsBoard
