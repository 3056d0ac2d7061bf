CONSTANTS
  p1 = p1
  p2 = p2
  n1 = n1
  n2 = n2
  Procs <- TwoProcesses
  Names <- TwoNames
  MaxSid = 3
  MaxRefs = 3
  NumEntries = 2
  Cleared = 1
  Leftovers <- ZeroOrMore
  v1 = v1
  v2 = v2
  hda = hda
  hdb = hdb
  None = None
  Users <- TwoUsers
  UserShell = v1
  Devs <- TwoDrives
  RootDev = hda
  PageFiles <- SecondDrive
  Prefixes <- TwoDrives
  RootPrefix = hda
  NumFds = 1
  ClearedFds = 0
  MaxFiles = 1
  MaxDentries = 3
  t1 = t1
  t2 = t2
  f1 = f1
  f2 = f2
  Threads <- TwoThreads
  Files <- TwoFiles
  First <- FirstBlocks
  Size <- Sizes
  Fat <- NextBlocks
  EndOfFile = eof
  Junk = Junk
  NoOne = NoOne
  NoFile = NoFile
  Freed = Freed
  u1 = u1
  u2 = u2
  u3 = u3
  Programs <- ThreePrograms
  ProgramShell = u1
  Kernel = Kernel
  Reaper = Reaper
  NumDescriptors = 2
  NumFrames = 6
  r1 = r1
  r2 = r2
  Readers <- TwoReaders
  QUEUE_SIZE = 3
  MaxKeys = 4
  Shifts <- ShiftKey
  x = x
  y = y
  Letters <- TwoLetters
  Lines <- TwoCommands
  Blank = Blank
  Nul = Nul
  BufSize = 3
  Boundary = 1
  ClearedTo = 3
  NumCols = 6
  HISTORY_SIZE = 3
SPECIFICATION MCSpec
INVARIANTS HeldExists OneUserEach RunsOnItsOwn ReadsTheFile FetchedOnce KeysReachReaders
PROPERTIES EditsAsAsked
CHECK_DEADLOCK FALSE
