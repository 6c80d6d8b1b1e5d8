SPECIFICATION Spec
CONSTANTS
    Notes = {}
    Cards = {c1}
    Keys = {k1}
    Value = {a, b}
    NoRow = NoRow
    NoStep = NoStep
    Idle = Idle
    NoTrx = NoTrx
    Ops = {"Edit", "SkipUndo", "NoUndo"}
    ProxyOutcomes = {"commit", "rollbackWrites"}
    UndoLimit = 2
    CoalesceSecs = 1
    MaxCounter = 7
    MaxProxyCounter = 3
    MaxWrites = 1
    MaxMerged = 4
    MaxTime = 0
INVARIANTS
    TypeOK
    ReplayNeverMissesRow
PROPERTIES
    ContentHistory
SYMMETRY Symmetry
