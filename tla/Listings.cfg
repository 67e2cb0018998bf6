SPECIFICATION MCSpec
CONSTANTS
    Folders = {1, 2, 3}
    Root = 0
    Files = {11, 12}
    nameOf <- NamesOfFolders
    fileName <- NamesOfFiles
    size <- SizesOfFiles
    MAX_ROWS = 6
    MAX_FILES = 1
    MAX_DEPTH = 2
    InitialTrees <- TwoTrees
    MaxWrites = 2
    MaxWalk = 5
CHECK_DEADLOCK FALSE
INVARIANTS  FoldersAsTold
