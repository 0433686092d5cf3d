CONSTANTS
  p1 = p1  c1 = c1  c2 = c2  o = o
  a = a  b = b  d = d
  NoThread = NoThread
  Threads = {p1, c1, c2, o}
  Elements = {a, b, d}
  Value <- MCValue
  Capability = 3
  mSort = TRUE
  mAscendingOrder = TRUE
  MayCall <- MCMayCall
  AllocMayFail = TRUE
  OwnerJoins = TRUE
SPECIFICATION Spec
INVARIANTS TypeOK CountIsLength Sorted NoLostGet CloseReachesWaiters
PROPERTY ImplementsPromise
