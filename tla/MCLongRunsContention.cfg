SPECIFICATION Spec
CONSTANTS
    LeaseIds = {l1, l2}
    Workers = {s1, s2}
    Runs = {r1}
    NoWorker = NoWorker
    NoRun = NoRun
    NoLeaseId = NoLeaseId
    MaxAttempts = 1
    LeaseSeconds = 1
    TaskMax = 2
    AttemptMax = 1
    UsageMax = 1
    MaxTime = 3
    MaxWork = 1
    MaxVersion = 3
    Crashes = 0
SYMMETRY Interchangeable
INVARIANTS
    HandleFollowsLease
PROPERTIES
    TakeoverOnlyAfterExpiry
    ProgressIsMonotone
CHECK_DEADLOCK FALSE
