SPECIFICATION FairSpec
CONSTANTS
    k1 = k1
    k2 = k2
    Keys = {k1, k2}
    Reports <- MCReports
    TTL <- MCTTL
    Empty <- MCEmpty
    Callers = {c1, c2}
    None = None
    Patience = 1
    MaxVersions = 2
    MaxTime = 2
INVARIANTS
    TypeOK
PROPERTIES
    FreshEnough
    NotFoundIsTrue
    WellKept
    EveryReportEnds
