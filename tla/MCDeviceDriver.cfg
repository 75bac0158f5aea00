SPECIFICATION DriverSpec
CONSTANTS
    short = short
    long = long
    NoProgram = NoProgram
    NoAction = NoAction
    Never = Never
    Configs <- MCConfigs
    Profile <- MCProfile
    Power <- MCPower
    Parts = 2
    MaxTime = 7
    MaxEvents = 5
INVARIANTS
    PowerIsReadable
    EventsTellTheActions
    EnergyFollowsEvents
