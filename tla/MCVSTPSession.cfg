SPECIFICATION SessionSpec
CONSTANTS
  s0 = s0  s1 = s1  s2 = s2
  Conns = {c1, c2, c3}
  Ids = {s0, s1, s2, t1, t2, t3, r}
  Asked = {s0, r}
  Suggested <- MCSuggested
  Stamps = {t1, t2, t3}
  EmptyId = EmptyId  NoId = NoId  NoConn = NoConn
  MaxLines = 1
INVARIANTS RouteMatchesName ClosedIsForgotten OnlyUnseenWedges
PROPERTY RoutesAreNotStolen
CHECK_DEADLOCK FALSE
