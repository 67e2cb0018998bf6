SPECIFICATION MCSpec
CONSTANTS
  UserFiles = {f, g}
  UserFolders = {}
  Requests = {q, r}
  Free = Free
  AsyncAbove = 1
  SyncChunk = 1
  AsyncChunk = 3
  a = a
  b = b
  x = x
  Root = Root
  Nowhere = Nowhere
  i = i
  j = j
  u = u
  short = short
  long = long
CHECK_DEADLOCK FALSE
INVARIANTS CompletedMeansEmptied
PROPERTIES LeavesOnlyAsManyAsAdded NothingTakenEarly EverythingGoes
