SPECIFICATION Spec
CONSTANTS
    None = None
    Interval = 2
    HistoryLimit = 2
    MissingPolicy = "drop"
    StaleAfter = 1
    GapTolerance = 0
    Payloads <- SomePayloads
    Errors <- SomeErrors
    Instants <- SomeInstants
    MaxEventsPerRun = 3
    MaxFetches = 2
    MaxMonitorFailures = 1
INVARIANTS HealthFollowsObservations EndedRunAddsUp ObservationMatchesFeed
