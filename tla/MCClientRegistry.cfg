SPECIFICATION RegistryFairSpec
CONSTANTS
    Procs = {p1, p2}
    Clients = {c1}
    Vars = {v1}
    NoVar = NoVar
    Metas = {NoMeta, m1}
    NoMeta = NoMeta
    Apis = {a1}
    EarlyApis = {a1}
    NoApi = NoApi
    MaxWait = 1
    MaxObs = 1
    MaxRestarts = 1
    CutProcs = {p1}
    MaxUneven = 1
INVARIANT ListsAgree
PROPERTY ApilessIsPurged
