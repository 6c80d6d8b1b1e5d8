SPECIFICATION Spec

CONSTANTS
    Cards = {c1, c2}
    Previewed = {}
    NoCard = NoCard
    NoQueues = NoQueues
    NoUpdate = NoUpdate
    NoEntry = NoEntry
    Builds = {1, 2, 3, 4}
    StartAs = {"New", "Learn"}
    Delays = {1, 3}
    Leaving = {"Review"}
    LearnAhead = 1
    DayLength = 3
    Edits = {}
    Background = {}
    MaxTime = 4
    MaxSteps = 2

INVARIANTS
    NeverPanics
