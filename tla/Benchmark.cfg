SPECIFICATION BenchmarkSpec
CONSTANTS
    Trading <- WeekTrading
    AssetDays <- WeekAssets
    Queries <- WeekQueries
    Refresh = 2
    Lookback = 2
    WindowDays = 3
    Attempts = 1
    Lag = 1
    MaxOutage = 1
    FirstSlot = 6
    MaxSlots = 13
    Nil = Nil
INVARIANTS MissingIsComplement NoCloseLost CurveHasNoHole
