SPECIFICATION FairSpec
CONSTANTS
    c1 = c1
    c2 = c2
    x1 = x1
    d1 = d1
    Clients = {c1, c2}
    Cards = {x1}
    Decks = {}
    ChunkSize = 1
    MsPerSec = 1
    Edits = {"remove", "readd", "undo", "schema"}
    Crashes = {"session", "unstamped"}
    MaxEdits = 3
    MaxFaults = 1
    MaxStray = 0
    NoRow = NoRow
    NoKey = NoKey
    NoAnswer = NoAnswer
PROPERTIES
    Converges
CHECK_DEADLOCK FALSE
