SPECIFICATION Spec
CONSTANTS
    c1 = c1
    k1 = k1
    k2 = k2
    r1 = r1
    r2 = r2
    NoQueue = NoQueue
    Cards = {c1}
    CardTypes = {"cca"}
    Queues <- OneQueue
    Keys = {k1, k2}
    MKVPRetryBudget = 1
    Rpcs = {r1}
    Bindings = {"cex4queue", "vfio_ap", ""}
    MaxClaims = 1
    StaleMultiple = 2
    Faults = {"card_read", "driver_read", "mkvps_read", "hotplug", "rekey", "mute_card",
              "blocked_write", "deadline", "crash"}
SYMMETRY KeySymmetry
INVARIANTS
    TypeOK
    PublishedIsStored
    NoChangeForgotten
    HeartbeatFresh
PROPERTIES
    MkvpStateTruthful
    CyclesAdvance
