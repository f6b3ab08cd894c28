SPECIFICATION Spec
CONSTANTS
    MaxCandle = 5
    HistoryLimit = 3
    Horizon = 1
    LocalBound = 3
    Buys <- SomeBuys
    HoleSets <- NoHole
    Services <- PlainOnly
    MaxDeaths = 1
    CheckpointFaults = {}
INVARIANT RestartIsNeverRefused
