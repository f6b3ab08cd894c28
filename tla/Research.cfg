SPECIFICATION ResearchSpec
CONSTANTS
    None = None
    RatioUnit = 12
    MonthLength = 5
    Score <- MCScore
    Labels <- MCLabels
    Taxonomy <- MCTaxonomy
    Combination <- MCCombination
    MonthNames <- MCMonthNames
    Names <- MCNames
    Series <- MCSeries
    Markets <- MCMarkets
    FirstRecorded <- MCFirstRecorded
    Baselines <- MCBaselines
    Frozen <- MCFrozen
    NewValues <- MCNewValues
    Protocol <- MCProtocol
    Bounds <- MCBounds
INVARIANTS EvaluationFollowsMarket ConclusiveIsSampled HypothesesAreFounded DecidedAfterReview
PROPERTIES WindowsIgnoreTheFuture
CHECK_DEADLOCK FALSE
