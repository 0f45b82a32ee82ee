SPECIFICATION FairSpec
CONSTANTS
  Opens = {r1}
  Probes = {p1}
  MaxChannels = 2
  Environments <- Mixed
INVARIANTS
  RegistryConsistent
  AnswersAreReal
PROPERTY RequestsEnd
CHECK_DEADLOCK FALSE
