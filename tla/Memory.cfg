CONSTANTS
  sh = sh
  k1 = k1
  k2 = k2
  o1 = o1
  o2 = o2
  o3 = o3
  Main = Main
  NoProc = NoProc
  Procs <- ThreeProcesses
  Shell = sh
  NumPages = 2
  NumImage = 1
  NumTables = 1
  NumFrames = 4
  NumSlots = 2
  Debris = Debris
  Concurrent = FALSE
  PoolLen = 24
  Requests <- SmallAndLarge
  Owners <- ThreeOwners
  TotalBits = 10
  Lengths <- TwoOrFour
SYMMETRY Children
SPECIFICATION MemorySpec
INVARIANTS PagesKept FramesAccounted SlotsAccounted BuffersApart NothingLost BitsApart
