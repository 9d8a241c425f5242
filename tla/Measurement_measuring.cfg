SPECIFICATION FairSpec
CONSTANTS
  Models <- Buffered
  Junk <- Nobody
  Addresses = {0, 7}
  Minutes = {0, 2}
  Sizes = {16}
  Ninth = 49
  StartDelay = 1
  FaultPeriod = 2
  Minute = 3
  ReloadDelay = 4
  MaxWrites = 3
  MaxRestarts = 1
INVARIANTS TypeOK SettingsSaved DriverConfigured MeasurementDue FaultWatched LedHonest IdentityShown
PROPERTIES FaultEnds Recovers
