CONSTANTS
  c1 = c1
  c2 = c2
  t1 = t1
  t2 = t2
  Conns = {c1}
  Topics = {t1}
  Frames <- FewFrames
  SlowPeers = {}
  AcceptMayFail = FALSE
  MaxFrames <- OneFrame
SPECIFICATION Spec
CHECK_DEADLOCK FALSE
INVARIANTS EveryDisconnectNotified
