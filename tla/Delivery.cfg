SPECIFICATION Spec
CONSTANTS
    None = None
    MaxCaptionLength = 12
    Frames <- SomeFrames
    Drawings <- SomeDrawings
    Destinations <- Places
    Resolvable <- Known
    Setups <- SomeSetups
    MaxAttempts = 2
    RetryMaxAttempts = 2
    Backoff = 2
    Capacity = 2
    Unit = 2
    Rate = 1
    MaxMessageChars = 80
    Answers <- SomeAnswers
    Durations <- Short
    Pauses <- Long
    Horizon = 6
    MaxCalls = 2
INVARIANTS ReceiptTellsTheTruth SettledOnce RequestRateIsBounded CallCarriesItsMessage
CHECK_DEADLOCK FALSE
