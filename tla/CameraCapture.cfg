SPECIFICATION FairSpec
CONSTANTS
  Devices = {1, 2}
  Types = {small, large}
  DefaultType = small
  Environments <- CameraEnvironments
INVARIANTS
  Coherent
  WebcamReleased
PROPERTIES
  SamplesAnswered
