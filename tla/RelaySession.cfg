SPECIFICATION FairSpec
CONSTANTS
  Sizes <- MCSizes
  Floor = 2
  Ceiling = 3
  MaxMessage = 3
  Environments <- MCEnvironments
INVARIANTS
  Coherent
  EndIsTold
PROPERTIES
  RelayEnds
