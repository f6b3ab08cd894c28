SPECIFICATION FairLoopSpec
CONSTANTS
    Interval = 4
    JitterMin = 0
    JitterMax = 1
    BackoffBase = 1
    BackoffCap = 2
    MaxExponent = 3
    Chunk = 2
    Budget = 3
    MaxStalled = 2
    LoopHistoryLimit = 2
    MaxRetryAfter = 5
    RetryAfters <- SomeDelays
    CycleBounds <- SomeBounds
    Durations <- Quick
    Overshoots <- Punctual
    ClockEnd = 11
    None = None
INVARIANTS OperatorSeesTheLoop OnePollPerCandle RetryAfterIsHonoured StopIsPrompt
PROPERTIES WaitEnds
