CONSTANTS
  s1 = s1
  s2 = s2
  t1 = t1
  t2 = t2
  m1 = m1
  m2 = m2
  m3 = m3
  m4 = m4
  Null = Null
  Untyped = Untyped
  Missing = Missing
  NoMessage = NoMessage
  Socket <- TwoSockets
  Topic <- BothTopics
  Message <- FourMessages
  TagOf <- TwoOfOneTopic
SPECIFICATION SafetySpec
CHECK_DEADLOCK FALSE
SYMMETRY Symmetry
VIEW SafetyView
INVARIANTS TypeOK OneCopy DroppedForCause InOrder EvenShare
