CONSTANTS
  s1 = s1
  s2 = s2
  s3 = s3
  t1 = t1
  Listen = Listen
  NoTag = NoTag
  Socket <- ThreeSockets
  Topic <- OneTopic
  Menu <- Registering
  Ending <- Leaving
  MaxStream <- OneEach
  MayStop = FALSE
  FdSetSize = 3
  MaxBacklog = 1
  MaxPull = 1
SPECIFICATION Spec
CHECK_DEADLOCK FALSE
INVARIANTS WatchedInStep
PROPERTIES RegistrationServed EndedIsRemoved
