\* One company that files year-to-date figures from its first fiscal year on.
SPECIFICATION FactsSpec
CONSTANTS
    FirstQuarters = {5}
    LastQuarter = 14
    Flow <- MCFlow
    MaxCorrections = 0
INVARIANT HistoryIsTwelveMonths
CHECK_DEADLOCK FALSE
