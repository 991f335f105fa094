SPECIFICATION Spec
CONSTANTS
    a1 = a1
    a2 = a2
    d1 = d1
    d2 = d2
    c1 = c1
    c2 = c2
    f1 = f1
    NoQueue = NoQueue
    NoClaim = NoClaim
    Adapters = {a1, a2}
    Domains = {d1}
    Queues <- busOfTwo
    Claims = {c1, c2}
    Foreign = {}
    ForeignApm <- noMasks
    ForeignAqm <- noMasks
    Specs <- overlapping
    GateSets <- vmOnly
    Faults = {"create"}
PROPERTIES
    UnprepareResetsOrphans
