CONSTANTS
  c1 = c1  c2 = c2  w1 = w1  w2 = w2
  Clients = {c1, c2}
  Workers = {w1, w2}
  NoThread = NoThread
  MayCall <- RunAndJoin
  CreateMayFail = FALSE
  Settles = {"leaving", "joining"}
SPECIFICATION Spec
INVARIANT OneWorker
