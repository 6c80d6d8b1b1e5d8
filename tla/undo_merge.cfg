SPECIFICATION Spec
CONSTANTS
    Notes = {n1, n2}
    Cards = {}
    Keys = {}
    Value = {a, b}
    NoRow = NoRow
    NoStep = NoStep
    Idle = Idle
    NoTrx = NoTrx
    Ops = {"Edit", "UpdateNote", "NoUndo", "Custom"}
    ProxyOutcomes = {}
    UndoLimit = 2
    CoalesceSecs = 1
    MaxCounter = 3
    MaxProxyCounter = 0
    MaxWrites = 1
    MaxMerged = 4
    MaxTime = 1
INVARIANTS
    CountersDescend
    StepsBounded
PROPERTIES
    History
SYMMETRY Symmetry
