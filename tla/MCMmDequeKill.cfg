SPECIFICATION Spec
CONSTANTS
  Threads <- MCThreads
  Procs <- MCProcs
  ProcOf <- TwoProcs
  Items = {a}
  Blank = blank
  Capacities <- Slots4
  MaxCreates = 0
  CreateAlone = TRUE
  Track = FALSE
  MaxKills = 1
INVARIANT DamageBounded
