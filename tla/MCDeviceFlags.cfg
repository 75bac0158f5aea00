SPECIFICATION Spec
CONSTANTS
    d1 = d1
    d2 = d2
    NoPeriod = NoPeriod
    Files <- MCFiles
    Devices <- MCDevices
    Contents <- MCContents
SYMMETRY Symmetry
CHECK_DEADLOCK FALSE
INVARIANTS
    FlagsFollowNewestFile
    NoQuarterCountedTwice
    HomeIsDevicesOfFiles
PROPERTIES
    UploadOnlyCoversOlderRows
    MergesByNewestFile
