SPECIFICATION Spec
CONSTANTS
    a1 = a1
    a2 = a2
    d1 = d1
    d2 = d2
    c1 = c1
    c2 = c2
    f1 = f1
    NoQueue = NoQueue
    NoClaim = NoClaim
    Adapters = {a1, a2}
    Domains = {d1, d2}
    Queues <- busOfFour
    Claims = {c1, c2}
    Foreign = {f1}
    ForeignApm <- f1Apm
    ForeignAqm <- f1Aqm
    Specs <- shapes
    GateSets <- anyGates
    Faults = {"vanish", "scan", "crash"}
SYMMETRY claimSymmetry
INVARIANTS
    MatrixWithinAllocation
    ClaimedQueuesBound
    PreparedServes
PROPERTIES
    UnprepareReturnsQueues
    StartupReconciles
    RetriedCallsSucceed
