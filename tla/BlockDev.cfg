CONSTANTS
  c1 = c1
  c2 = c2
  ide0 = ide0
  ide1 = ide1
  fd0 = fd0
  b1 = b1
  past = past
  zero = zero
  one = one
  NoClient = NoClient
  NoRequest = NoRequest
  Clients <- TwoClients
  IDEDrives <- BothIDE
  Floppies <- OneFloppy
  Blocks <- OneBlock
  BadBlocks <- PastEnd
  Values <- TwoValues
  Poison = zero
  Faulty <- OneFloppy
SPECIFICATION MCSpec
INVARIANTS RequestInOnePlace
PROPERTIES ImplementsDisk RequestsComplete
