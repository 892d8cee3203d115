CONSTANTS
  p1 = p1
  p2 = p2
  r1 = r1
  r2 = r2
  a = a
  b = b
  NoTopic = NoTopic
  Publishers = {p1, p2}
  Receivers = {r1, r2}
  Topics = {a}
  TopicOf <- OneTopic
  Task <- OwnTask
  ShardOf <- LastShard
  Shards = 2
  WORKERS = 3
  CHANNEL_BUFFER_SIZE = 1
  MaxPublish = 2
SPECIFICATION FairSpec
CHECK_DEADLOCK FALSE
INVARIANTS TypeOK ListedOnce NoGapsNoRepeats CleanupRemovesDropped
PROPERTIES ListStable ImplementsContract DeliversToAll
