SPECIFICATION Spec
CONSTANTS
    FractalLength = 3
    ToleranceBps = 500
    AtrPeriod = 2
    AtrFloor = 0
    MinBodyPct = 50
    MinRangePct = 50
    BullishCloseMinPct = 70
    BearishCloseMaxPct = 30
    SweepLookback = 2
    MinGap = 0
    GapNeedsDisplacement = FALSE
    MaxLookback = 3
    HalfWidthPct = 10
    LowerRetracementPct = 62
    UpperRetracementPct = 79
    Feed <- MCFeed
    Configurations <- MCConfigurations
INVARIANTS LevelsEndOnce RangeFollowsThePivots NothingFromTheFuture BlocksLiveOnce EvidenceIsAccepted
CHECK_DEADLOCK FALSE
