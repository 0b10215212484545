SPECIFICATION RegistryTimedSpec
CONSTANTS
    Procs = {p1}
    Clients = {c1}
    Vars = {v1}
    NoVar = NoVar
    Metas = {NoMeta}
    NoMeta = NoMeta
    Apis = {a1}
    EarlyApis = {a1}
    NoApi = NoApi
    MaxWait = 1
    MaxObs = 1
    MaxRestarts = 0
    CutProcs = {p1}
    MaxUneven = 1
PROPERTY SilentClientsAreFinalized
