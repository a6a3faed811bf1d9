CONSTANTS
  s1 = s1
  s2 = s2
  m1 = m1
  m2 = m2
  bad = bad
  Listen = Listen
  Socket <- TwoSockets
  Message <- TwoAndBad
  Garbage = {bad}
  Menu <- Mixed
  Ending <- MixedEnds
  MayStop = TRUE
  FdSetSize = 3
  MaxSent <- TwoAndOne
SPECIFICATION Spec
CHECK_DEADLOCK FALSE
PROPERTIES OnlyQuietClosed
