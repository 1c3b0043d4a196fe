SPECIFICATION FairSpec
CONSTANTS
    scope = scope
    work = work
    check = check
    final = final
    Order <- GatedTask
    KindOf <- GatedTaskKinds
    DepsOf <- Chain
    Paths = {p1}
    Actors = {a1, a2}
    NoActor = NoActor
    NoEvidence = NoEvidence
    Tickers = {t1}
    Direct = Direct
    NoCommand = NoCommand
    Free = Free
    MaxAttempts = 1
    MaxWaiting = 1
    MaxRevision = 0
    MaxInteractions = 0
    Crashes = 1
    WorkerDeaths = 1
INVARIANTS
    SatisfiedIsProven
    CursorShowsNextStep
PROPERTIES
    IntentsAreResolved
CHECK_DEADLOCK FALSE
