SPECIFICATION Spec
CONSTANTS
  a1 = a1
  a2 = a2
  b1 = b1
  TableNum = 2
  Attr <- Smallest
  GroupOf <- SmallGroupOf
  Analog = {a1}
  Long = {}
  Value = {0, 2}
  Erased = 9
  Requests <- AllRequests
  SavedTables <- EmptyOrPaired
  NoAttr = NoAttr
  Garbled = Garbled
  Horizon = 3
  MaxConfigures = 2
  MaxFaults = 1
  Prompt = TRUE
  MayUnbind = FALSE
INVARIANTS TablesSane SavedConfiguration MinIntervalKept MaxIntervalKept
PROPERTY ConfigurationKept
