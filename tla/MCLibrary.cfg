SPECIFICATION LibrarySpec
CONSTANTS
    k1 = k1
    k2 = k2
    k3 = k3
    c1 = c1
    c2 = c2
    c3 = c3
    p1 = p1
    p2 = p2
    p3 = p3
    t1 = t1
    t2 = t2
    t3 = t3
    l1 = l1
    l2 = l2
    Key = {k1, k2}
    Client = {c1, c2}
    MaxSize = 1
    MaxEntries = 3
    MaxPuts = 3
    MaxGets = 3
    Caller = {c1, c2, c3}
    Port = {p1, p2, p3}
    MaxInstances = 2
    MaxStarts = 4
    Task = {t1, t2, t3}
    Workers = 2
    Small = 2
    Medium = 4
    ConfigOf <- BatchConfigs
    Prefs <- Wishes
    NumCPU = 2
    Parallelism = 4
    Bits = 8
    Second = 3
    MaxConfigs = 5
    Link = {l1, l2}
    MaxLines = 2
    MaxURLs = 2
    Settings <- Numbers
    DepthValues = {"empty", "full", "deep"}
    DomainValues <- SomeDomains
    DefaultDomains <- TwoDomains
    PoolSize = 100
    MaxSet = 3
INVARIANTS EveryProcessHeld ShutdownStopsRegistered WaitCovers
    CancelStops GivesUpLast GoodLinesSurvive SettingsFit
PROPERTIES  DropsOnlyExpired LruSpec EvictsLeastUsed DnsIsLru
    LargerIsNoDeeper BackoffGrows
CHECK_DEADLOCK FALSE
