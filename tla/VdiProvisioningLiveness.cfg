SPECIFICATION FairSpec
CONSTANTS
  o1 = o1
  o2 = o2
  c1 = c1
  c2 = c2
  c3 = c3
  Owners = {o1}
  Connects = {c1, c2}
  OwnerOf <- OneUser
  Admins = {a1}
  Reconciler = rec
  Nobody = nobody
  MaxVmId = 1
  MaxCrashes = 1
  Environments <- Faults
PROPERTIES
  RowsMoveOn
  ConnectsEnd
CHECK_DEADLOCK FALSE
