SPECIFICATION FairSpec
CONSTANTS
  Threads <- MCThreads
  Procs <- MCProcs
  ProcOf <- TwoProcs
  Items = {a, b}
  Blank = blank
  Capacities <- Slots02
  MaxCreates = 1
  CreateAlone = TRUE
  Track = TRUE
  MaxKills = 0
INVARIANTS LockingInv
PROPERTIES LockReleased ImplementsDeque
