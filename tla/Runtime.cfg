SPECIFICATION Spec
CONSTANTS
    H1 = H1
    H4 = H4
    Timeframes <- MCTimeframes
    Ratio <- MCRatio
    Markets <- MCMarkets
    MaxPrimary = 5
    MaxHigher = 2
    MaxRestarts = 1
INVARIANTS ChainFollowsHistory OneBuyPerSetup RefusedOnlyAfterLateCandle
CHECK_DEADLOCK FALSE
