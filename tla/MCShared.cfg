SPECIFICATION MCSpec
CONSTANTS
  Subjects = {"list", "packets", "atoms", "pool"}
  LProcs = {p, q}
  Values = {"a", "b"}
  capacity = 2
  MaxLKills = 1
  PProcs = {w, r}
  Packets <- MCPackets
  Sync = 9
  Room = 5
  MaxPackets = 2
  AProcs = {p, q}
  AFiles = {f}
  Lens = {0, 1, 3}
  AccessModes = {{"read", "write"}}
  Keys = {{"o"}, {"u", "o"}}
  PageSize = 2
  MaxAtomCalls = 3
  Procs <- TwoProcs
  Capacity = 3
  Defined = FALSE
  Zappers <- OneProc
  Alone = TRUE
  AfterX <- AnyBuild
  MaxKills = 1
INVARIANTS LinearInv PacketInv AtomInv PoolInv
PROPERTIES LockReleased ImplementsPool
CHECK_DEADLOCK FALSE
