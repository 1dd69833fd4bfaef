SPECIFICATION FairSpec
CONSTANTS
    Link = {1}
    RetestInterval = 0
    KeepSuccessful = TRUE
    MaxLatencyMs = 0
    MaxXrayTests = 0
    Mode = {TRUE, FALSE}
    SlowDisk = TRUE
    PortsBusy = TRUE
    PingTime = {1}
    TestLatency = {1}
    Saver = {1}
    MaxUrls = 1
    MaxClock = 0
    MaxStarts = 1
    MaxFaults = 2
INVARIANTS PublishedIsCurrent 
PROPERTIES TriggerServed SignalStops EveryLinkRetested
CHECK_DEADLOCK FALSE
