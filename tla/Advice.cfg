\* Three digest runs over three days with a trade; two council runs; two and a
\* half years of filings; two operators, one of whom tries again.
SPECIFICATION AdviceSpec
CONSTANTS
    Symbols = {"vti", "schd"}
    Windows = {1, 2}
    Amounts = {20}
    Lots = {17}
    Low = 85
    High = 115
    Quantity <- MCQuantity
    AverageCost <- MCAverageCost
    MaxDay = 2
    MaxTrades = 1
    MaxRuns = 3
    Tickers = 1
    Personas = 2
    MinPeriods = 1
    MaxFilings = 1
    LastDay = 1
    Pods = {cron, byhand}
    MaxLosses = 1
    FirstQuarters = {5, 6, 7, 8}
    LastQuarter = 14
    Flow <- MCFlow
    MaxCorrections = 1
    ann = ann
    bob = bob
    Operators = {ann, bob}
    Commands <- MCCommands
    Prices = {2, 3}
    Powers = {3, 6}
    MaxAttempts <- MCAttempts
    MaxMoves = 1
INVARIANTS
    AdviceTypeOK
    ActedOnAfterBaseline
    NothingOverdueStaysOpen
    NeverPaidTwice
    NewestIsTwelveMonths
    OneOrderPerConfirmation
PROPERTIES
    ResolvedIsFinal
    PivotClosesThatDay
    FinishedRunCovers
    PlacedAsShown
    OverspendsOnlyInARace
CHECK_DEADLOCK FALSE
