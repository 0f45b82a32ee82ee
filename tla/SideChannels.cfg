SPECIFICATION FairSpec
CONSTANTS
  a = a
  b = b
  c = c
  f1 = f1
  f2 = f2
  z = z
  Window = 2
  Compressed <- MCCompressed
  Preferred <- MCPreferred
  Offers <- MCOffers
  Texts <- MCTexts
  Formats <- MCFormats
  Environments <- MCEnvironments
INVARIANTS
  Coherent
  ClipboardsAgree
  MicReleased
PROPERTIES
  Answered
