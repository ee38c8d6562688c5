\* One ticker and one persona, two days, and nothing that goes wrong.
SPECIFICATION CouncilSpec
CONSTANTS
    Tickers = 1
    Personas = 1
    MinPeriods = 1
    MaxFilings = 1
    LastDay = 1
    Pods = {cron}
    MaxLosses = 0
INVARIANTS
    OnlyFilingsReask
CHECK_DEADLOCK FALSE
