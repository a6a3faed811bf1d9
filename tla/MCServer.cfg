CONSTANTS
  s1 = s1
  t1 = t1
  t2 = t2
  m1 = m1
  m2 = m2
  m3 = m3
  Null = Null
  Untyped = Untyped
  Missing = Missing
  NoMessage = NoMessage
  Socket <- OneSocket
  Topic <- BothTopics
  Message <- ThreeMessages
  TagOf <- TagOfEach
  threadPoolSize = 3
SPECIFICATION ServerSpec
CHECK_DEADLOCK FALSE
VIEW ServerView
INVARIANTS Accounted AtMostOneForgotten
PROPERTIES Returns EachDispatched
