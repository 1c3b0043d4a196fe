SPECIFICATION Spec
CONSTANTS
    n1 = n1
    n2 = n2
    sound = sound
    foreign = foreign
    NodeIds <- TwoNodes
    Contents <- TwoContents
    Unready <- None
    Foreign <- OnlyForeign
    Proposals <- OneNode
    Callers = {c1, c2}
    Digests = {d1, d2}
    NoTarget = NoTarget
    NoProposal = NoProposal
    NoCall = NoCall
    MaxRevision = 5
    MaxRuns = 2
SYMMETRY Interchangeable
INVARIANTS
    RunsBindFinalizedRevisions
    ProposalsAreCurrent
    FinalizedAsReviewed
PROPERTIES
    EndedStaysShown
CHECK_DEADLOCK FALSE
