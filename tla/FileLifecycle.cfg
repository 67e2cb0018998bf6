SPECIFICATION MCSpec
CONSTANTS
    Files = {f1, f2, f3}
    Contents = {c1, c2}
    Empty = Empty
    Folders = {d1, d2}
    Names = {n1, n2, n3}
    Types = {EmptyType}
    NoType = NoType
    EmptyType = EmptyType
    EmptyLimit = 1
    MaxInFlight = 2
SYMMETRY Symmetry
CONSTRAINT Focus
INVARIANTS TypeOK NoContentLeak EmptyFilesBounded
INVARIANTS LiveContentStoredAlone UniqueNamesAlone
PROPERTIES DeletedIsFinalAlone
