SPECIFICATION MCSpec
CONSTANTS
  Subjects = {"deque", "machine", "tree", "arguments", "ini", "settings", "url", "crc", "path"}
  Items = {a, b}
  Blank = blank
  Capacities <- MCCapacities
  ItemSize = 2
  UShortRange = 16
  EventNames = {"e"}
  ListNames = {"l"}
  ActionNames = {"a", "b"}
  StateNames = {"s1", "s2"}
  Tables <- MCTables
  MAX_TRANSITIONS_PER_STATE = 2
  MAX_STATES_PER_MACHINE = 3
  MAX_EVENTS_PER_MACHINE = 5
  MAX_ACTION_LISTS_PER_MACHINE = 2
  MACHINE_EVENT_STACK_LEN = 2
  MACHINE_ERROR_QUEUE_LEN = 2
  MaxDefs = 1
  MaxRaised = 2
  TNodes = {1, 3, 5, 6, 7}
  TNULL = TNULL
  KeyOf <- MCKeyOf
  HitMod = 1
  Options <- MCOptions
  Arguments <- MCArguments
  NoValue = "NULL"
  MaxOptions = 2
  MaxArgs = 3
  Paths = {"f", "g"}
  IniTexts <- MCTexts
  CHUNK = 13
  MaxFiles = 2
  Shells <- MCShells
  Disks <- MCDisks
  Apps = {"app", "NULL"}
  Settings = {"mine"}
  Unset = "unset"
  NullPtr = "NULL"
  Truncated <- MCTruncated
  MaxCalls = 3
  ArgNames <- MCArgNames
  ArgValues <- MCArgValues
  MaxPairs = 3
  Bytes <- MCBytes
  MaxBytes = 3
  PathNames <- MCPathNames
  Kinds <- MCKinds
INVARIANTS TypeOK RingInv MemoryInv MachineInv TreeInv ArgsInv IniInv ConfigInv CodingInv PathInv
PROPERTIES ImplementsDeque AbortUnwinds CallReturns ParseReturns
CHECK_DEADLOCK FALSE
