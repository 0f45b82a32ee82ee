SPECIFICATION FairPipelineSpec
CONSTANTS
  Surfaces = {s1, s2}
  Slots = {c1}
  NoPicture = none
  MaxPdus = 5
  Settings <- GfxEnvironments
INVARIANTS
  PipelineCoherent
PROPERTIES
  PdusInOrder
  NoEarlyAck
  NothingWedges
