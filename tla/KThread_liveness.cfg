CONSTANTS
  m = m
  a = a
  b = b
  idle = idle
  reaper = reaper
  NoThread = NoThread
  Main = m
  Idle = idle
  Reaper = reaper
  Workers <- TwoWorkers
  Prio <- MCPrio
  Quanta <- OneTick
  Services = {}
  TickCap = 0
  Waitable = {"owned"}
SPECIFICATION FairSpec

PROPERTIES DeadAreFreed JoinReturns
