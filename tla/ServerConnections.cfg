CONSTANTS
  c1 = c1
  c2 = c2
  t1 = t1
  t2 = t2
  Conns = {c1, c2}
  Topics = {t1, t2}
  Frames <- MixedFrames
  SlowPeers = {c2}
  AcceptMayFail = TRUE
  MaxFrames <- UnevenFrames
SPECIFICATION FairSpec
CHECK_DEADLOCK FALSE
INVARIANTS TypeOK SubscriptionsFollowMessages EchoesInOrder DisconnectNotified
PROPERTIES MessagesDealtWith ServerStops TasksEnd
