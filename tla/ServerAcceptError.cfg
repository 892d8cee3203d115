CONSTANTS
  c1 = c1
  c2 = c2
  t1 = t1
  t2 = t2
  Conns = {c1, c2}
  Topics = {t1}
  Frames <- FewFrames
  SlowPeers = {}
  AcceptMayFail = TRUE
  MaxFrames <- OneFrame
SPECIFICATION FairSpec
CHECK_DEADLOCK FALSE
PROPERTIES EveryConnectionServed
