SPECIFICATION ObserversSpec
CONSTANTS
    Procs = {p1, p2}
    Clients = {c1, c2}
    Metas = {none, m1}
    NoMeta = none
    NoClient = nobody
    MaxObs = 3
    Free = Free
INVARIANTS ListIsContiguous IndexedIsListed
PROPERTIES ImplementsObserverList
