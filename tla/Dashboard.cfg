\* Two overlapping refreshes of three with one change at the broker; three
\* blocks, two with a store; three instruments around the smallest price; two
\* report jobs; briefings of four lines; two browsers, three ticks; two
\* accounts, two tickers and two disclosures; four days from a Saturday on.
SPECIFICATION DashboardSpec
CONSTANTS
    Symbols = {aapl, nvda}
    MaxLevel = 3
    Epsilon = 1
    Refreshers = {q1, q2}
    MaxTrades = 1
    MaxRefreshes = 3
    Units = {refresh, ingest, digest}
    Events = {small, large, larger}
    Large = {large, larger}
    WithStore = {refresh, digest}
    Instruments = {stock, warrant, bond}
    Unlisted = {bond}
    PriceLevels = {3, 20}
    Unit = 10
    MaxShares = 2
    MaxMoves = 1
    ReportKinds = {"briefing", "digest"}
    Window <- MCWindow
    QueryLimit = 1
    HeldTickers = {"vti"}
    RangesFiled = {"bounded", "over"}
    FirstFiled = 0
    MaxDisclosures = 2
    LastDate = 1
    MaxJobs = 2
    MaxDeaths = 1
    MaxLines = 4
    Widths = {3, 18}
    MessageLimit = 22
    Chats = {b1, b2}
    RateMax = 2
    RateWindow = 2
    LastMoment = 3
    MaxLeaps = 1
    Accounts = {joint, individual}
    Traded = {1, 2}
    Members = {m}
    OverlapLimit = 1
    RecentLimit = 1
    MaxListed = 2
    MaxOrders = 1
    FirstDay = 5
    SlotsPerDay = 4
    HourlySlots <- MCHourly
    CheckSlots <- MCChecks
    OpenSlots <- MCOpen
    StaleAfter = 8
    TokenLife = 28
    LastSlot = 15
    MaxFailures = 1
INVARIANTS
    DashboardTypeOK
    RowsHaveEvents
    AllOrNothing
    NothingForgotten
    ReferencesResolve
    OrphansComeFromFailures
    LiveTotalReconciles
    StoredInTimeIsReported
    PushedIsCommitted
    PushKeepsLines
    SpendCapped
    OverlapMissesNothing
    StallIsNoticed
PROPERTIES
    AloneMatchesBroker
    AloneAnnouncesDrift
CHECK_DEADLOCK FALSE
