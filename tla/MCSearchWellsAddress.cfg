SPECIFICATION Spec
CONSTANTS
    u1 = u1
    u2 = u2
    u3 = u3
    a = a
    b = b
    d = d
    e = e
    Urls = {u1, u2, u3}
    Ids = {a, b, d, e}
    NoId = NoId
    First <- MCFirst
    Sites <- MCSites
    Wells <- MCWells
    Limit = 3
    Requests <- MCRequests
    Clients = {c1}
    TokenIds = {t1, t2}
    MaxAge = 0
    MaxTime = 1
    Server = Server
    None = None
INVARIANTS
    AddressIsSearched
