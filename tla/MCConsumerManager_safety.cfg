CONSTANTS
  s1 = s1
  s2 = s2
  s3 = s3
  t1 = t1
  Listen = Listen
  NoTag = NoTag
  Socket <- TwoSockets
  Topic <- OneTopic
  Menu <- Mixed
  Ending <- MixedEnds
  MaxStream <- TwoAndOne
  MayStop = TRUE
  FdSetSize = 3
  MaxBacklog = 1
  MaxPull = 0
SPECIFICATION SafetySpec
CHECK_DEADLOCK FALSE
INVARIANTS TypeOK IndexInverse RequestsHonoured SubscribersAreLive WatchedInStep
PROPERTIES ClosedForCause
