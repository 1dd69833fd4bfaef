SPECIFICATION Spec
CONSTANTS
    Link = {1, 2}
    RetestInterval = 1
    KeepSuccessful = TRUE
    MaxLatencyMs = 0
    MaxXrayTests = 0
    Mode = {FALSE}
    SlowDisk = FALSE
    PortsBusy = FALSE
    PingTime = {1}
    TestLatency = {1}
    Saver = {1, 2}
    MaxUrls = 1
    MaxClock = 1
    MaxStarts = 2
    MaxFaults = 0
PROPERTY UnreachableWasPinged
CHECK_DEADLOCK FALSE
