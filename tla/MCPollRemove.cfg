CONSTANTS
  loop = loop  other = other  f1 = f1  f2 = f2
  Threads = {loop}
  Fds = {a, b}
  Control = Control
  MayCall <- MCMayCall
  mControllable = TRUE
  RemovesLast = FALSE
  TableQuiet = TRUE
  MaxPending = 2
SPECIFICATION Spec
PROPERTY ImplementsPromise
