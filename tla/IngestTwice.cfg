SPECIFICATION IngestSpec
CONSTANTS
    Filings = 3
    Limit = 2
    Jobs = {j1, j2}
    MaxBackfills = 1
    MaxAborts = 1
INVARIANT NeverAnnouncedTwice
SYMMETRY MCSymmetry
CHECK_DEADLOCK FALSE
