SPECIFICATION Spec
CONSTANTS
    LeaseIds = {l1, l2, l3}
    Workers = {s1}
    Runs = {r1}
    NoWorker = NoWorker
    NoRun = NoRun
    NoLeaseId = NoLeaseId
    MaxAttempts = 2
    LeaseSeconds = 1
    TaskMax = 2
    AttemptMax = 1
    UsageMax = 1
    MaxTime = 3
    MaxWork = 1
    MaxVersion = 4
    Crashes = 1
SYMMETRY Interchangeable
INVARIANTS
    UsageCountedOnce
    CompletedWithinLimits
CHECK_DEADLOCK FALSE
