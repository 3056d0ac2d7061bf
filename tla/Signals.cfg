CONSTANTS
  p1 = p1
  p2 = p2
  usr = usr
  alrm = alrm
  NoProc = NoProc
  NoSig = NoSig
  Procs <- TwoProcesses
  First = p1
  Sigs <- TwoSignals
  ALRM = alrm
  MaxTicks = 1
  MaxFrames = 1
SPECIFICATION MCSpec
PROPERTIES SignalEndsWait AlarmGoesOff
CHECK_DEADLOCK FALSE
