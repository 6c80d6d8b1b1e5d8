SPECIFICATION Spec
CONSTANTS
    x = x
    y = y
    Cards = {x, y}
    h1 = h1
    HomeDecks = {h1}
    f1 = f1
    FilteredDecks = {f1}
    NoDeck = NoDeck
    NoPosition = NoPosition
    Positions = {1}
    Delays = {1}
    Intervals = {1}
    FirstDay = 5
    DayLength = 2
    Epoch = 100
    FilteredBase = 50
    StartTime = 1
    MaxTime = 2
    MaxDue = 2
INVARIANTS
    AwayHasHome
    DueFitsQueue
PROPERTIES
    FilteredDecksKeepSchedules
    PositionRemembered
SYMMETRY Alike
