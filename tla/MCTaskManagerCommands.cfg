SPECIFICATION Spec
CONSTANTS
    scope = scope
    work = work
    check = check
    final = final
    Order <- TaskAndCheck
    KindOf <- TaskAndCheckKinds
    DepsOf <- BothRoots
    Paths = {p1}
    Actors = {a1, a2}
    NoActor = NoActor
    NoEvidence = NoEvidence
    Tickers = {}
    Direct = Direct
    NoCommand = NoCommand
    Free = Free
    MaxAttempts = 2
    MaxWaiting = 1
    MaxRevision = 2
    MaxInteractions = 1
    Crashes = 2
    WorkerDeaths = 1
SYMMETRY Interchangeable
INVARIANTS
    TypeOK
    OneCodexPerStart
    CommitsAreApproved
CHECK_DEADLOCK FALSE
