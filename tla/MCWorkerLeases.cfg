SPECIFICATION FairSpec
CONSTANTS
    LeaseIds = {l1, l2}
    Workers = {w1, w2}
    Runs = {r1}
    NoWorker = NoWorker
    NoRun = NoRun
    MaxTime = 4
    MaxWait = 1
    Durations = {1, 2}
    MaxVersion = 2
INVARIANTS
    OneLiveLeasePerRun
    CopiesFaithful
    ExclusiveOwnership
    StoredLeasesDecode
PROPERTIES
    ElapsedLeasesReclaimed
    LeasesImplementOwnership
