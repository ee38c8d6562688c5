\* One briefing, one disclosure.
SPECIFICATION ReportSpec
CONSTANTS
    ReportKinds = {"briefing", "digest"}
    Window <- MCWindow
    QueryLimit = 1
    HeldTickers = {"vti"}
    RangesFiled = {"bounded", "over", "undisclosed"}
    FirstFiled = 0
    MaxDisclosures = 1
    LastDate = 1
    MaxJobs = 1
    MaxDeaths = 0
INVARIANT TemplateAlwaysWorks
CHECK_DEADLOCK FALSE
