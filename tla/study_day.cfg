SPECIFICATION Spec

CONSTANTS
    Cards = {c1, c2}
    Previewed = {c1}
    NoCard = NoCard
    NoQueues = NoQueues
    NoUpdate = NoUpdate
    NoEntry = NoEntry
    Builds = {1, 2, 3}
    StartAs = {"New"}
    Delays = {1}
    Leaving = {"DayLearn"}
    LearnAhead = 0
    DayLength = 2
    Edits = {"bury", "setDue"}
    Background = {"rebuild", "deferred"}
    MaxTime = 3
    MaxSteps = 1

INVARIANTS
    LearnersKept
    QueueFresh
    ShownCanBeAnswered
