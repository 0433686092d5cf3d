CONSTANTS
  t1 = t1  t2 = t2
  f = f  g = g
  short = short  other = other
  MAX_USER_TAG = 3
  MAX_TAG_LENGTH = 64
  Threads = {t1, t2}
  Objects = {1, 2}
  Tags = {short, other}
  TagLength <- MCTagLength
  NoTag = NoTag
  PidTid = PidTid
  Files = {f, g}
  stderr = stderr
  NoName = NoName
  Levels <- MCLevels
  SetLevels <- MCSetLevels
  InitEarly = TRUE
SPECIFICATION Spec
SYMMETRY Alike
INVARIANTS TypeOK TagsCounted CategoriesKept PrintsOwnTag OneFile
