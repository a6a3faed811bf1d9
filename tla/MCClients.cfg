CONSTANTS
  Error = Error
  NewLine = NewLine
  Number <- Numbers
  Memory <- Garbage
  N = 2
  IntMax = 127
  BufferSize = 3
  MaxSurplus = 1
SPECIFICATION Spec
VIEW ClientsView
CHECK_DEADLOCK FALSE
INVARIANTS SentAsMade ResultAsSent
PROPERTIES EachJudged
