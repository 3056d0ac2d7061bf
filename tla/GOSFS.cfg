CONSTANTS
  p1 = p1
  p2 = p2
  n1 = n1
  n2 = n2
  NoName = NoName
  Nobody = Nobody
  Mounted = Mounted
  Procs <- TwoProcesses
  Writers <- FirstProcess
  Names <- TwoNames
  NumBlocks = 5
  NumEntries = 4
  ByteBits = 5
  MaxPath = 2
SYMMETRY Interchangeable
SPECIFICATION MCSpec
INVARIANTS BlocksAccounted TreeSound CwdNamed
CHECK_DEADLOCK FALSE
