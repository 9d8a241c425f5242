SPECIFICATION Spec
CONSTANTS
  reporting = reporting
  settings = settings
  counter = counter
  old = old
  new = new
  Item <- MCItem
  Value <- MCValue
  None = None
  Slots = 3
SYMMETRY Interchangeable
INVARIANTS TypeOK NeverFull
PROPERTIES StoreIsAtomic
