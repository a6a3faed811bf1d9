\* Two writers and two readers.  front() of an empty list ends the process, so a
\* behaviour may stop.
CONSTANTS
  rcv = rcv
  disp = disp
  main = main
  m1 = m1
  m2 = m2
  None = None
  NoThread = NoThread
  Thread <- MCThread
  Message <- MCMessage
  Enqueuer <- MCEnqueuer
  Dequeuer <- MCDequeuer
  MaxLen = 3
SPECIFICATION Spec
CHECK_DEADLOCK FALSE
INVARIANTS MutualExclusion NoEmptyPop
PROPERTIES LockReleased ImplementsAtomicQueue
