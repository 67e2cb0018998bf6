SPECIFICATION Spec
CONSTANTS
    Files = {f1}
    Contents = {c1}
    Empty = Empty
    Folders = {d1}
    Names = {n1}
    Types = {pdf}
    NoType = NoType
    EmptyType = EmptyType
    EmptyLimit = 1
    MaxInFlight = 2
PROPERTIES DeletedIsFinal
