SPECIFICATION Spec
CONSTANTS
  a1 = a1
  a2 = a2
  b1 = b1
  TableNum = 3
  Attr <- MCAttr
  GroupOf <- MCGroupOf
  Analog = {a1, b1}
  Long = {}
  Value = {0, 1}
  Erased = 9
  Requests = {}
  SavedTables <- HastyTable
  NoAttr = NoAttr
  Garbled = Garbled
  Horizon = 4
  MaxConfigures = 0
  MaxFaults = 0
  Prompt = TRUE
  MayUnbind = FALSE
INVARIANT MaxIntervalKept
