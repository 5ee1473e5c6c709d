SPECIFICATION MCSpec
CONSTANTS
  Subjects = {"records"}
  Senders <- MCSenders
  Receivers <- MCReceivers
  Procs <- MCProcs
  ProcOf <- Apart
  Slots = 2
  SemMax = 2
  MaxSends = 2
  MaxSignals = 0
  MaxKills = 1
  CProcs = {"p", "q", "r"}
  CellMax = 2
  MaxItems = 2
  MaxCellCalls = 6
  MaxCellSignals = 1
  MaxResets = 1
  Writes <- MCWrites
  ReadSizes = {2, 3}
  Newline = "LF"
  Return = "CR"
  SockRoom = 2
  MaxWrites = 2
  MaxReads = 2
  MaxIntr = 1
INVARIANT WakeupPending
CHECK_DEADLOCK FALSE
