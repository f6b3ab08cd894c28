SPECIFICATION Spec
CONSTANTS
    Ids <- OneSignal
    MaxAttempts = 3
    MaxPerDrain = 1
    MaxCrashes = 2
    MaxCorruptions = 2
    PowerLoss = TRUE
INVARIANTS CallsAreWrittenAhead RecordTellsTheTruth
PROPERTIES SettledForever
