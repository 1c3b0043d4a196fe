SPECIFICATION FairSpec
CONSTANTS
    LeaseIds = {l1}
    Workers = {w1}
    Runs = {r1}
    NoWorker = NoWorker
    NoRun = NoRun
    LeaseSeconds = 2
    HeartbeatEvery = 1
    MaxUsage = 1
    MaxDuration = 2
    MaxAttempts = 1
    MaxTime = 4
    MaxWork = 2
    MaxReports = 2
    Crashes = 0
PROPERTY TerminalRunRevokesGrant
