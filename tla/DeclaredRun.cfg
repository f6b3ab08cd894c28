SPECIFICATION Spec
CONSTANTS
    None = None
    Unreadable = Unreadable
    RatioUnit = 12
    MonthLength = 3
    Histories <- SomeHistories
    Datasets <- SomeDatasets
    Configurations <- SomeConfigurations
    Bindings <- SomeBindings
INVARIANTS LedgerTellsTheMarket RunUsesDeclaredInputs ResumesIffReproduced
PROPERTIES LedgerNeverGoesBack
CHECK_DEADLOCK FALSE
