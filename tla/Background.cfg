SPECIFICATION BackgroundSpec
CONSTANTS
  Null = Null
  w1 = w1
  w2 = w2
  m1 = m1
  backup = backup
  r1 = r1
  r2 = r2
  Requests = {q1, q2}
  MaxTokens = 4
  MaxFaults = 1
  NumTasks = 4
  MaxConcurrentTasks = 2
  ProcessTimeout = 1
INVARIANTS OneSuccessor LoginLives RotationsLeaveNothing ChildrenAreSound
PROPERTIES QueuedIsResolved StaleLockExpires RunEnds
