SPECIFICATION Spec
CONSTANTS
    daily = daily
    manual = manual
    q1 = q1
    q2 = q2
    NoOne = NoOne
    Syncs <- MCSyncs
    Jobs <- MCJobs
    Processes <- MCProcesses
    Days <- MCDays
    FirstDay = 1
    CatchupDays = 0
    ChunkDays = 1
    Quarters <- MCQuarters
    Publications <- MCPublications
    MaxAttempts = 2
    MaxSyncs = 2
    MaxFaults = 1
CHECK_DEADLOCK FALSE
INVARIANTS
    StatusIsTrue
    GapsAreFilled
PROPERTIES
    PricesNeverGoBack
    LockIsFreed
