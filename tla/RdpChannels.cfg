SPECIFICATION FairChannelsSpec
CONSTANTS
  Ids = {1, 2}
  MaxInstances = 4
  MaxDown = 3
  Settings <- ChannelSettings
INVARIANTS
  ChannelsCoherent
  Delivered
PROPERTIES
  SoundIsOffered
