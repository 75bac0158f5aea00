CONSTANTS
    Catalogue <- MCCatalogue
    Rank <- MCRank
    Local <- MCLocal
    DayTimes = 6
    PeriodSlots = 13
    None = None
    Days = 2
    GridLimit = 5
    Draws <- MCDraws
    Meters <- MCMeters
    Other = "rest"
    MaxPasses = 3
    MaxSlotsInDay = 7
    DryerAfterWash = 2
    PriceTables <- MCPriceTables
    Limits = {None, 3}
    EditedActions = {3, 4}
SPECIFICATION Spec
CHECK_DEADLOCK FALSE
INVARIANTS
    GeneratedFileIsValid
    SumsToMeter
    
    PlanIsItsGroups
    MovesKeepTheRules
    NothingLeftToSave
    MovesKeepTheLimit
