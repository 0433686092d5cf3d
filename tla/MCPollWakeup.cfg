CONSTANTS
  loop = loop  other = other  f1 = f1  f2 = f2
  Threads = {loop, f1}
  Fds = {a, b}
  Control = Control
  MayCall <- MCMayCall
  mControllable = TRUE
  RemovesLast = TRUE
  TableQuiet = TRUE
  MaxPending = 2
SPECIFICATION LoopSpec
PROPERTY WakeupCleared
CHECK_DEADLOCK FALSE
