SPECIFICATION Spec
CONSTANTS
    c1 = c1
    c2 = c2
    x1 = x1
    d1 = d1
    Clients = {c1, c2}
    Cards = {x1}
    Decks = {d1}
    ChunkSize = 2
    MsPerSec = 1
    Edits = {"write", "remove", "conf"}
    Crashes = {}
    MaxEdits = 2
    MaxFaults = 1
    MaxStray = 1
    NoRow = NoRow
    NoKey = NoKey
    NoAnswer = NoAnswer
INVARIANTS
    TypeOK
    SameStampSameContent
    CountsNeverDiffer
    NothingLeftUnsent
PROPERTIES
    AgreeAtCommit
    SharedSpec
SYMMETRY DeviceSymmetry
CHECK_DEADLOCK FALSE
