SPECIFICATION Spec
CONSTANTS
    u1 = u1
    u2 = u2
    a = a
    b = b
    d = d
    e = e
    Urls = {u1, u2}
    Ids = {a, b, d, e}
    NoId = NoId
    Sites <- MCSites
    First <- MCFirst
    Wells <- MCWells
    Requests <- MCRequests
    Secret = secret
    Bearers = {secret, guess, None}
    ScanLimit = 3
    ExportLimit = 2
    Clients = {c1}
    ExportIds = {e1}
    TTL = 1
    MaxTime = 1
    None = None
INVARIANTS
    SilenceMeansWhole
