SPECIFICATION FairSpec
CONSTANTS
    r1 = r1
    r2 = r2
    Runs = {r1, r2}
    AuthorityOf <- HumanAndPolicy
    Elsewhere = Elsewhere
    MaxElsewhere = 1
    MaxFaults = 2
INVARIANTS
    EvidenceStaysValid
    RepairsAreConclusive
    LedgerTellsJournal
    GitFollowsLedger
PROPERTIES
    RecoveryOnlyRecords
    GapsAreClosed
    ImplementsPipeline
CHECK_DEADLOCK FALSE
