SPECIFICATION ViewSpec
CONSTANTS
    ev = ev
    pv = pv
    NoPeriod = NoPeriod
    NoPrice = NoPrice
    NotSaved = NotSaved
    Missing = Missing
    Invalid = Invalid
    HourSlots = 2
    SlotsPerDay = 2
    Files <- MCFiles
    Devices <- MCDevices
    Contents <- MCContents
    Imports <- MCImports
CHECK_DEADLOCK FALSE
INVARIANTS
    FileViewIsItsImport
    SeriesFollowsNewestFile
    ContributionsFollowFlags
    TheHouseAddsUp
    PricedStaysPriced
    ListedRangeIsAnswered
