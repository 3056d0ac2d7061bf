CONSTANTS
  m = m
  a = a
  b = b
  idle = idle
  reaper = reaper
  NoThread = NoThread
  Main = m
  Idle = idle
  Reaper = reaper
  Workers <- TwoWorkers
  Prio <- MCPrio
  Quanta <- TwoTicks
  Services = {"event", "preemption", "policy"}
  TickCap = 1
  Waitable = {"owned"}
SPECIFICATION Spec
INVARIANTS LinkExclusive RefCountExact ReapedNotInUse JoinNotMissed
PROPERTIES NoPreemptionInCritical
