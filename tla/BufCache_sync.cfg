CONSTANTS
  t1 = t1
  t2 = t2
  t3 = t3
  b1 = b1
  b2 = b2
  zero = zero
  one = one
  NoThread = NoThread
  NoBlock = NoBlock
  Junk = Junk
  Zero = zero
  Values <- TwoValues
  Threads <- TwoThreads
  Blocks <- TwoBlocks
  MaxBlocks = 2
  NumSectors = 1
  Failures <- AnyFailure
  SyncsCache = TRUE
SPECIFICATION FairSpec
INVARIANTS ExclusiveUse
PROPERTIES ChangesReachDisk
