CONSTANTS
  sh = sh
  k1 = k1
  k2 = k2
  k3 = k3
  Main = Main
  NoProc = NoProc
  Procs <- FourProcesses
  Shell = sh
  NumPages = 2
  NumImage = 1
  NumTables = 1
  NumFrames = 4
  NumSlots = 2
  Debris = Debris
  Concurrent = TRUE
SYMMETRY Children
SPECIFICATION Spec
INVARIANTS SlotsAccounted
