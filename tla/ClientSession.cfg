SPECIFICATION FairSpec
CONSTANTS
  MaxSockets = 6
  Environments <- SessionEnvironments
INVARIANTS
  Coherent
  QuitIsFinal
  ShownIsReal
PROPERTIES
  DropsAreRetried
  ConnectEnds
