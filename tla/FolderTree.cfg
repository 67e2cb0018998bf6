SPECIFICATION Spec
CONSTANTS
    Folders = {a, b}
    Root = Root
    Names = {n}
    Blank = Blank
    Keep = Keep
    Requests = {q, r}
SYMMETRY FolderSymmetry
INVARIANTS TypeOK
PROPERTIES NamesReadable RemovedIsFinal RejectedOnlyByARace
