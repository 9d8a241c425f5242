SPECIFICATION Spec
CONSTANTS
  a1 = a1
  a2 = a2
  b1 = b1
  TableNum = 3
  Attr <- MCAttr
  GroupOf <- MCGroupOf
  Analog = {}
  Long = {a1}
  Value = {0, 2}
  Erased = 9
  Requests <- AllRequests
  SavedTables <- EmptyTable
  NoAttr = NoAttr
  Garbled = Garbled
  Horizon = 4
  MaxConfigures = 3
  MaxFaults = 1
  Prompt = TRUE
  MayUnbind = FALSE
PROPERTY ConfigurationKept
