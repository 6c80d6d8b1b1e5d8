SPECIFICATION Spec
CONSTANTS
    dp = dp
    da = da
    db = db
    df = df
    a1 = a1
    a2 = a2
    b1 = b1
    f2 = f2
    n1 = n1
    n2 = n2
    Decks = {dp, da, db, df}
    Filtered = {df}
    Path <- MCPath
    Cards = {a1, a2, b1, f2}
    Notes = {n1, n2}
    NoteOf <- MCNoteOf
    HomeOf <- MCHomeOf
    FirstIn <- MCFirstIn
    Starts <- MCStarts
    Confs <- LimitConfs
    Changes <- LimitChanges
    Roots = {dp, da}
    Extensions <- MCExtensions
    NoBuild = NoBuild
    NoQueue = NoQueue
    NoCard = NoCard
    MaxEvents = 1
INVARIANTS
    WithinLimits
    QueuedUnchanged
    NothingWithheld
    DeckListAgrees
    CountsOfOneDeck
CHECK_DEADLOCK FALSE
