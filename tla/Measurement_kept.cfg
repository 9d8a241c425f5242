SPECIFICATION Spec
CONSTANTS
  Models <- CE208BY
  Junk <- Nobody
  Addresses = {0}
  Minutes = {}
  Sizes = {}
  Ninth = 49
  StartDelay = 1
  FaultPeriod = 2
  Minute = 3
  ReloadDelay = 5
  MaxWrites = 1
  MaxRestarts = 0
INVARIANT IdentityShown
