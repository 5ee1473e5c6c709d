SPECIFICATION MCSpec
CONSTANTS
  Subjects = {"server"}
  Pids <- FourPids
  proc_limit = 3
  throttle_exit = 2
  MaxUnmanaged = 1
  max_open_conns = 2
  Backlog = 1
  Nodes = {n1}
  NULL = NULL
  CountMod = 3
PROPERTY RefusedForAChild
CHECK_DEADLOCK FALSE
