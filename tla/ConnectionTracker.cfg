CONSTANTS
  c1 = c1
  c2 = c2
  c3 = c3
  Conns = {c1, c2, c3}
  SendsMayFail = TRUE
  USIZE_MAX = 3
SPECIFICATION FairSpec
CHECK_DEADLOCK FALSE
INVARIANTS TypeOK ActiveCounts MaxIsPeak
PROPERTIES ConnectEnds
