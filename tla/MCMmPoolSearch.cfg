SPECIFICATION MCSpec
CONSTANTS
  Subjects = {"pool"}
  LProcs = {p, q}
  Values = {"a", "b"}
  capacity = 2
  MaxLKills = 1
  PProcs = {w, r}
  Packets <- MCPackets
  Sync = 9
  Room = 5
  MaxPackets = 2
  AProcs = {p, q}
  AFiles = {f}
  Lens = {0, 1, 3}
  AccessModes = {{"read", "write"}}
  Keys = {{"o"}, {"u", "o"}}
  PageSize = 2
  MaxAtomCalls = 3
  Procs <- TwoProcs
  Capacity = 3
  Defined = TRUE
  Zappers <- NoProc
  Alone = FALSE
  AfterX <- Unoptimised
  MaxKills = 0
INVARIANT PutAcceptedInAnyBuild
CHECK_DEADLOCK FALSE
