CONSTANTS
  s1 = s1
  s2 = s2
  t1 = t1
  m1 = m1
  m2 = m2
  Listen = Listen
  NoTag = NoTag
  Null = Null
  Untyped = Untyped
  Missing = Missing
  NoMessage = NoMessage
  Socket <- OneSocket
  Topic <- OneTopic
  Message <- TwoMessages
  TagOf <- AllT1
  Menu <- Menus
  Ending <- Endings
  MayStop = FALSE
  FdSetSize = 3
  MaxStream <- OneEach
  MaxBacklog = 1
  MaxPull = 0
SPECIFICATION BSpec
CHECK_DEADLOCK FALSE
PROPERTIES OnlySubscribersReceive
