SPECIFICATION FairSpec
CONSTANTS
    u1 = u1
    u2 = u2
    u3 = u3
    a = a
    b = b
    d = d
    Urls = {u1, u2, u3}
    Ids = {a, b, d}
    NoId = NoId
    Sites <- MCSites
    Limits = {3, 9}
    Calls = {c1, c2}
    None = None
INVARIANTS
    TypeOK
    ResultsDistinctAndBounded
    NoSilentLoss
    ResultsAgree
PROPERTIES
    EveryCallEnds
