SPECIFICATION DeleteSpec
CONSTANTS
    d1 = d1
    d2 = d2
    NoPeriod = NoPeriod
    Files <- MCFiles
    Devices <- MCDevices
    Contents <- MCContents
    AllTime <- MCAllTime
    Deleted <- MCDeleted
CHECK_DEADLOCK FALSE
INVARIANT NoQuarterCountedTwice
