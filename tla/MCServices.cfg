INIT MCInit
NEXT MCNext
CONSTANTS
    c1 = c1
    c2 = c2
    w1 = w1
    w2 = w2
    Client = {c1, c2}
    Hostname <- MCHostname
    Workspace = {w1, w2}
    ReportChoice <- MCReportChoice
    SlotsPerDay = 3
    OffsetChoice = {0, 1}
    Recent = 0
    Fractional = Fractional
    ScheduleChoice = {0, 1, 3, Fractional}
    EnvSchedule = {0, 5}
    MaxTime = 6
    Agent = {a1, a2, a3}
    EntryChoice <- MCEntryChoice
    NoEntry = NoEntry
    Instant = {0, 1}
    PageSize = 2
    ExeName = {exe}
    ZipName = {zip}
    OtherName = {dmg}
    Build = {b1, b2}
    Url = {u1}
    NoFile = NoFile
    Damaged = Damaged
    HandMade = HandMade
    Device = {d1}
    Validity = 4
    RenewBefore = 1
    Missing = Missing
    Unreadable = Unreadable
    MaxDay = 6
    MaxKeys = 6
SYMMETRY MCSymmetry
INVARIANTS
    SchedulerTypeOK
    OncePerDate
    SteadyRounds
    LogTellsRow
    PagesPartition
    FeedLeadsSomewhere
    FeedDescribesDownload
    TlsTypeOK
    ServesMatchingPair
    FreshAfterStart
    ClientsKeepTheirCA
PROPERTIES
    DispatchReachesAll
CHECK_DEADLOCK FALSE
