SPECIFICATION DeliverySpec
CONSTANTS
    Clients = {c1}
    Names <- MCNames
    Star = "*"
    Values = {1}
    Empty = 0
    MaxCalls = 2
    MaxTimeouts = 1
    MaxConnects = 2
INVARIANTS MatchesAreTold CaughtUp LateOnlyIfCrossed
PROPERTY DeletedIsGone
CHECK_DEADLOCK FALSE
