SPECIFICATION Spec
CHECK_DEADLOCK FALSE
CONSTANTS
    MonthLengths <- MCMonthLengths
    ValidityMonths = 2
    BillingStart <- MCBillingStart
    CycleMonths = 1
    FileDays <- MCFileDays
    Intervals <- MCIntervals
    Patterns <- MCPatterns
    Tariffs <- MCTariffs
    ZoneOf <- MCZoneOf
    Definitions <- MCDefinitions
    Periods <- MCPeriods
    Dynamic = dynamic
    KFactor = 8
    PriceTables <- MCPriceTables
    NoPrice = NoPrice
    zoned = zoned
    ended = ended
    dynamic = dynamic
INVARIANTS
    EachDayBilledOnce
    EnergyIsWhole
    CreditsInTime
    DearestZoneFirst
    RefusalsHaveAReason
    EnergyCostsItsRate
