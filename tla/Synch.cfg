CONSTANTS
  p1 = p1
  p2 = p2
  p3 = p3
  s1 = s1
  NoProc = NoProc
  NoSem = NoSem
  CountCap = 2
  Procs <- ThreeProcs
  Sems <- OneSem
SPECIFICATION FairSpec
INVARIANTS MutualExclusion NoMissedNotification NoStrandedWaiter
PROPERTIES ImplementsSemaphore MutexMovesOn
CHECK_DEADLOCK FALSE
