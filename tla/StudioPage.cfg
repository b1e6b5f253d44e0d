\* Two calls of generate, two accepted jobs, a limit of one second.
CONSTANTS
    Clicks = {c1, c2}
    MaxJobs = 2
    Limit = 1
SPECIFICATION FairSpec
INVARIANTS
    TypeOK
    WorkingIsBacked
    ShowsItsOwnJob
    SpentTokenIsReset
PROPERTIES
    OrderlyTokenIsFresh
    SubmissionEnds
