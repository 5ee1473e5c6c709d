SPECIFICATION MCSpec
CONSTANTS
  Subjects = {"throttle", "server", "list"}
  Pids <- FourPids
  proc_limit = 3
  throttle_exit = 2
  MaxUnmanaged = 1
  max_open_conns = 3
  Backlog = 2
  Nodes = {n1, n2, n3, n4}
  NULL = NULL
  CountMod = 3
INVARIANTS ThrottleInv ServerInv LLInv
PROPERTIES ReportsEachManaged BlockingWaitBlocks ThrottleEnds HandlerReturns TermEndsLoop ImplementsList
CHECK_DEADLOCK FALSE
