SPECIFICATION DesktopFairSpec
CONSTANTS
  A1 = A1
  A2 = A2
  B1 = B1
  NoKey = NoKey
  MaxLegs = 3
  ManagedLegs = 1
  Keys = {A1}
  UserOf <- MCUserOf
  MaxConcurrent = 2
  MaxCrashes = 1
  Environments <- SessionEnvironments
  Settings <- MCSettings
INVARIANTS
  RecordingsKept
  DesktopGuarded
PROPERTIES
  RecordingsAdvance
  RecordingsEnd
  PowerSettles
