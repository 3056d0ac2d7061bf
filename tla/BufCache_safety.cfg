CONSTANTS
  t1 = t1
  t2 = t2
  t3 = t3
  b1 = b1
  b2 = b2
  zero = zero
  one = one
  NoThread = NoThread
  NoBlock = NoBlock
  Junk = Junk
  Zero = zero
  Values <- TwoValues
  Threads <- ThreeThreads
  Blocks <- TwoBlocks
  MaxBlocks = 2
  NumSectors = 1
  Failures <- WriteFailure
  SyncsCache = FALSE
SPECIFICATION Spec
INVARIANTS CleanIsOnDisk
PROPERTIES ImplementsCache
