SPECIFICATION FairSpec
CONSTANTS
    Ids <- TwoSignals
    MaxAttempts = 2
    MaxPerDrain = 1
    MaxCrashes = 0
    MaxCorruptions = 0
    PowerLoss = FALSE
INVARIANTS NoIntentIsLost
PROPERTIES DrainRespectsCooldown EverySignalSettles KeepsThePromise
