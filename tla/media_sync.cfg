SPECIFICATION FairSpec
CONSTANTS
    c1 = c1
    c2 = c2
    f1 = f1
    f2 = f2
    a = a
    b = b
    Clients = {c1, c2}
    Files = {f1, f2}
    Contents = {a, b}
    BatchSize = 2
    ZipSize = 2
    MaxEdits = 2
    MaxStops = 1
    NoFile = NoFile
    NoRow = NoRow
INVARIANTS
    NothingSkipped
    FolderRegistered
PROPERTIES
    FoldersConverge
CHECK_DEADLOCK FALSE
