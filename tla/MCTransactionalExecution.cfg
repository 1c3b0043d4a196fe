SPECIFICATION FairSpec
CONSTANTS
    t1 = t1
    r1 = r1
    r2 = r2
    j1 = j1
    j2 = j2
    Jobs = {j1, j2}
    Runs = {r1, r2}
    Callers = {c1, c2}
    Tasks = {t1}
    TaskOf <- SameTask
    RunOf <- OwnRun
    AuthorityOf <- EitherAuthority
    Elsewhere = Elsewhere
    MaxIntents = 2
    MaxTarget = 1
    Crashes = 1
INVARIANTS
    AtMostOneLaunch
    HistoryIsWorkflowPath
    RecordsMatchHistory
    IntegratedOnlyIfApproved
    CompletedIsMerged
PROPERTIES
    ApprovedRunCompletes
    ImplementsPipeline
CHECK_DEADLOCK FALSE
