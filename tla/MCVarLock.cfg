SPECIFICATION VarLockFairSpec
CONSTANTS
    Procs = {p1, p2}
    Values = {v1}
    Empty = Empty
    Timeouts = {0, 1, 255}
    Width = 8
    NsPerMs = 10
    DefaultMs = 2
    MaxAge = 2
    Free = Free
INVARIANTS OneOwner FlagHasOwner EarlyOnlyIfOverflows LockBarsLaterSets
PROPERTY LockVarReturns
