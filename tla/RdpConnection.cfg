SPECIFICATION FairSpec
CONSTANTS
  NoSize = none
  Windows <- MCWindows
  SessionScale = 200
  Nudge = 2
  Threshold = 16
  Channels = {cliprdr, drdynvc}
  Environments <- RdpEnvironments
INVARIANTS
  Coherent
  DesktopAgrees
PROPERTIES
  SessionSettles
  EndReported
