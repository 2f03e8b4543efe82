SPECIFICATION Spec
CONSTANTS
    Instances = {p, q}
    TokenIds = {t1, t2}
    States = {s1, s2}
    None = None
    MaxAge = 2
    MaxTime = 4
INVARIANTS
    TypeOK
    SingleUse
PROPERTIES
    NoFreshTokenLost
    SweptByEncode
    IsExpiringStore
