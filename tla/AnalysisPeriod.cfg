SPECIFICATION MCSpec
CONSTANTS
    s1 = s1
    w1 = w1
    w2 = w2
    l1 = l1
    None = None
    Skus = {s1}
    Warehouses = {w1, w2}
    Lots = {l1}
    MaxDay = 1
    MaxEvents = 2
    Menu <- MCMenu
    SnapshotDays = {}
    Requests <- MCRequests
    StaleWindow = 1
    MinStock = 0
    GraceDays = 0
    Parts = {"replay"}
    Sheets <- MCSheets
    SkuCount = 3
    Questions <- MCQuestions
    LongestPeriod = 6
    WeekDays = 2
    AverageWeeks = 2
    MinSamples = 3
    ThresholdA = 80
    ThresholdB = 95
    StaleAfter = 6
    StockFloor = 0
    Grace = 2
    Windows = {first, second}
    ListLimit = 2
    MaxRuns = 3
    MaxRenders = 4
    Torn = Torn
INVARIANT
    DefaultPeriodCoversLedger
