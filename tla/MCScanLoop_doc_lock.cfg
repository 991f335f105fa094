SPECIFICATION LiveSpec
CONSTANTS
    c1 = c1
    k1 = k1
    k2 = k2
    r1 = r1
    r2 = r2
    NoQueue = NoQueue
    Cards = {c1}
    CardTypes = {"accel"}
    Queues <- OneQueue
    Keys = {k1}
    MKVPRetryBudget = 0
    Rpcs = {r1, r2}
    Bindings = {"vfio_ap"}
    MaxClaims = 1
    StaleMultiple = 2
    Faults = {"blocked_write", "deadline"}
PROPERTIES
    FailsFast
