SPECIFICATION Spec
CONSTANTS
    d1 = d1
    d2 = d2
    d3 = d3
    Protocol <- Known
    Depth = {"empty", "quick", "standard", "full", "comprehensive"}
    Domain = {d1, d2, d3}
    DomainQuorum = 2
    StabilityProbes = 4
    TCPTimeout = 1
    TLSTimeout = 2
    ProtoTimeout = 1
    XrayTimeout = 3
INVARIANTS  TunnelAfterCheapStages
    LatencyIsMedian GoodIsAccepted OnlyRealityIsCut
    UntestableFailsFast
CHECK_DEADLOCK FALSE
