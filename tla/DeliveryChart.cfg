SPECIFICATION Spec
CONSTANTS
    None = None
    MaxCaptionLength = 12
    Frames <- SomeFrames
    Drawings <- SomeDrawings
    Destinations <- Known
    Resolvable <- Known
    Setups <- OnlyLive
    MaxAttempts = 1
    RetryMaxAttempts = 2
    Backoff = 2
    Capacity = 2
    Unit = 2
    Rate = 1
    MaxMessageChars = 80
    Answers <- SomeAnswers
    Durations <- Short
    Pauses <- Long
    Horizon = 6
    MaxCalls = 1
INVARIANTS ChartNeverInvalidatesText
CHECK_DEADLOCK FALSE
