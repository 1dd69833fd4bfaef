SPECIFICATION Spec
CONSTANTS
    Link = {1, 2}
    RetestInterval = 1
    KeepSuccessful = TRUE
    MaxLatencyMs = 1
    MaxXrayTests = 1
    Mode = {TRUE, FALSE}
    SlowDisk = FALSE
    PortsBusy = FALSE
    PingTime = {1}
    TestLatency = {1, 2}
    Saver = {1, 2}
    MaxUrls = 1
    MaxClock = 1
    MaxStarts = 2
    MaxFaults = 0
INVARIANTS ServedPassed WorkingIsLatestVerdict
 
CHECK_DEADLOCK FALSE
