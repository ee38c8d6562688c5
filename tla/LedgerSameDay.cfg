SPECIFICATION Spec
CONSTANTS
    Symbols = {"vti", "schd"}
    Windows = {1, 2}
    Amounts = {20}
    Lots = {17}
    Low = 85
    High = 115
    Quantity <- MCQuantity
    AverageCost <- MCAverageCost
    MaxDay = 2
    MaxTrades = 1
    MaxRuns = 3
INVARIANT PivotSupersedesPrior
CHECK_DEADLOCK FALSE
