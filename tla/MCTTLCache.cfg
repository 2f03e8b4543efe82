SPECIFICATION Spec
CONSTANTS
    Keys = {k1, k2, k3}
    Values = {v1, v2}
    None = None
    MaxSize = 2
    TTLs <- MCTTLs
    MaxTime = 3
INVARIANTS
    TypeOK
    Bounded
PROPERTIES
    NothingLostWithoutCause
    IsExpiringStore
