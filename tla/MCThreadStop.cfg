CONSTANTS
  c1 = c1  c2 = c2  w1 = w1  w2 = w2
  Clients = {c1}
  Workers = {w1}
  NoThread = NoThread
  MayCall <- RunAndStop
  CreateMayFail = FALSE
  Settles = {"joining", "leaving"}
SPECIFICATION Spec
PROPERTY JoinMeansStopped
