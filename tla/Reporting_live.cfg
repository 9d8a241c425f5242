SPECIFICATION FairSpec
CONSTANTS
  a1 = a1
  a2 = a2
  b1 = b1
  TableNum = 2
  Attr <- Smallest
  GroupOf <- SmallGroupOf
  Analog = {a1}
  Long = {}
  Value = {0, 2}
  Erased = 9
  Requests = {}
  SavedTables <- TightTable
  NoAttr = NoAttr
  Garbled = Garbled
  Horizon = 2
  MaxConfigures = 0
  MaxFaults = 1
  Prompt = FALSE
  MayUnbind = TRUE
PROPERTIES HandlerReturns Delivered
