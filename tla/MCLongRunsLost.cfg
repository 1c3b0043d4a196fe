SPECIFICATION FairSpec
CONSTANTS
    LeaseIds = {l1, l2}
    Workers = {s1}
    Runs = {r1}
    NoWorker = NoWorker
    NoRun = NoRun
    NoLeaseId = NoLeaseId
    MaxAttempts = 1
    LeaseSeconds = 1
    TaskMax = 1
    AttemptMax = 1
    UsageMax = 1
    MaxTime = 2
    MaxWork = 0
    MaxVersion = 3
    Crashes = 0
PROPERTY MissingProviderRecordedLost
CHECK_DEADLOCK FALSE
