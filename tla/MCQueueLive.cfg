CONSTANTS
  p1 = p1  p2 = p2  c1 = c1  c2 = c2  o = o
  a = a
  NoThread = NoThread
  Threads = {p1, p2, c1, c2, o}
  Elements = {a}
  Value <- MCValue
  Capability = 1
  mSort = FALSE
  mAscendingOrder = TRUE
  MayCall <- ClosingOwner
  AllocMayFail = FALSE
  OwnerJoins = FALSE
  MaxCalls = 2
SPECIFICATION LiveSpec
INVARIANTS NoLostPut
PROPERTIES CloseReleases GetterServed PutterServed DestructorReturns
CHECK_DEADLOCK FALSE
