SPECIFICATION FairSpec
CONSTANTS
    Ids = {i1, i2}
    Users = {u1, u2}
    TTL = 2
    MaxSkew = 1
    Horizon = 4
    NoRow = NoRow
INVARIANTS TypeOK BoundedLifetime
PROPERTIES KeepsContract EndsOnlyForCause KicksOneUser EndedRowsCollected
CHECK_DEADLOCK FALSE
