SPECIFICATION Spec
CONSTANTS
    d1 = d1
    d2 = d2
    NoPeriod = NoPeriod
    Files <- MCFiles
    Devices <- MCDevices
    Contents <- MCContents
CHECK_DEADLOCK FALSE
INVARIANTS
    UpdatesNeverMeet
PROPERTIES
    UploadsAreSerial
    EveryUploadEnds
