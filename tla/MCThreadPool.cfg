CONSTANTS
  w1 = w1
  w2 = w2
  w3 = w3
  x1 = x1
  x2 = x2
  x3 = x3
  x4 = x4
  Owner = Owner
  NoTask = NoTask
  Worker <- ThreeWorkers
  Task <- FourTasks
  Loop <- OneLoop
SPECIFICATION Spec
CHECK_DEADLOCK FALSE
INVARIANTS NoLostWakeup EachOnce DrainedWhenGone
PROPERTIES EachStarted Joined
