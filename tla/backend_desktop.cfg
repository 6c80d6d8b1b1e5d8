SPECIFICATION FairSpec
CONSTANTS
    executor = executor
    page = page
    main = main
    Threads = {executor, page, main}
    Does <- DesktopDoes
    Parts = 2
    MaxCalls <- DesktopCalls
    None = None
INVARIANTS
    TypeOK
    AbortReachesMedia
    QuietWhileClosed
    PartsLetCallsIn
    BackupsOneAtATime
PROPERTIES
    CallsReturn
CHECK_DEADLOCK FALSE
