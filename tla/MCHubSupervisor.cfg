SPECIFICATION Spec
CONSTANTS
    a = a
    b = b
    c = c
    Devices <- MCDevices
    Requests <- MCRequests
    Ports = {1, 2}
    MaxRestarts = 1
    Pids = {1, 2, 3, 4}
    NoPid = NoPid
    MaxRequests = 3
    MaxFaults = 1
    MaxCrashes = 1
INVARIANTS
    NoStrayProcess
    AnsweredPortIsKept
    ProcessHasRegisteredConfig
PROPERTIES
    DeviceComesBackOrFails
