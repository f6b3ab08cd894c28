SPECIFICATION Spec
CONSTANTS
    MaxCandle = 7
    HistoryLimit = 3
    Horizon = 2
    LocalBound = 3
    Buys <- SomeBuys
    HoleSets <- OneHole
    Services <- AllServices
    MaxDeaths = 2
    CheckpointFaults = {"lost", "untrusted"}
INVARIANTS HandedOverIsDurable SentOnceInOrder GapAwareIsContiguous RestartIsFaithful
