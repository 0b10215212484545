SPECIFICATION NamedLockFairSpec
CONSTANTS
    Procs = {p1, p2, p3}
    Names = {n1, n2}
    Free = Free
INVARIANTS MutualExclusion TokenConserved
PROPERTIES WaitersAreServed ImplementsMutex
CHECK_DEADLOCK TRUE
