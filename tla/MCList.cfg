CONSTANTS
  p = p
  k1 = k1
  k2 = k2
  c1 = c1
  c2 = c2
  m0 = m0
  m1 = m1
  m2 = m2
  t1 = t1
  t2 = t2
  Sender = Sender
  Broken = Broken
  Nowhere = Nowhere
  End = End
  NewLine = NewLine
  Producer <- OneProducer
  Consumer <- TwoConsumers
  Chunk <- TwoChunks
  Message <- Messages
  TagOf <- Tags
  Stream <- Lines
  Loaded <- InTheFile
  Aged <- OldOnes
  BufferSize = 2
  MaxLives = 2
VIEW ListView
SPECIFICATION Spec
CHECK_DEADLOCK FALSE
INVARIANTS ConsecutiveIds SavedAtEnd
PROPERTIES IdsFresh 
