\* Two overlapping requests of three, two symbols, one change at the broker.
SPECIFICATION Spec
CONSTANTS
    Symbols = {aapl, nvda}
    MaxLevel = 3
    Epsilon = 1
    Refreshers = {q1, q2}
    MaxTrades = 1
    MaxRefreshes = 3
SYMMETRY MCSymmetry

PROPERTY NoSilentChange
CHECK_DEADLOCK FALSE
