CONSTANTS
    MaxClicks = 5
    MaxFailures = 2
    Windows = {"today", "24h"}
    Today = "today"
    HistoryPages = 2
    Names = {"a", "b"}
    Others = {"u"}
    MaxLinks = 3
    MaxRows = 3
    RowNames = {"a", "b"}
    MaxRounds = 3
    FirstPeriod = "lastSixHours"
    Periods = {"lastSixHours"}
    TypedRanges = {"typed", "backwards"}
    BadRanges = {"backwards"}
    ReportSections = {"overview", "routes"}
    ReportDevices = {"d"}
    VehicleTypes = {"car"}
    Tabs = {t1, t2}
    PlainKeys = {"timeZone"}
SPECIFICATION PagesSpec
CHECK_DEADLOCK FALSE
INVARIANT HistoryIsLatest DetailFollowsServer LinksAreListed ListsFollowServer SecretsAreSeen ReportsMatchFilter SettingsSurvive
