SPECIFICATION Spec
CONSTANTS
  Folders = {a, b}
  Files = {x}
  Root = Root
  Nowhere = Nowhere
  Period = 2
  Window = 2
  Batch = 1
  MaxRepeats = 1
  Attempts = 2
  MaxDelay = 1
  MaxFailures = 2
  MaxAgain = 1
  MaxUnderWay = 1
SYMMETRY FolderSymmetry
INVARIANTS TypeOK
PROPERTIES RemovalSafe
