SPECIFICATION Spec
CONSTANTS
  Threads <- MCThreads
  Procs <- OneProcess
  ProcOf <- OneProc
  Items = {a, b}
  Blank = blank
  Capacities <- Slots2
  MaxCreates = 0
  CreateAlone = TRUE
  Track = FALSE
  MaxKills = 0
INVARIANTS QuiescentRing
