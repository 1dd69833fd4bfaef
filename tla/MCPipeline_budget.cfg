SPECIFICATION Spec
CONSTANTS
    d1 = d1
    d2 = d2
    d3 = d3
    Protocol = {"reality"}
    Depth = {"standard"}
    Domain = {}
    DomainQuorum = 1
    StabilityProbes = 1
    TCPTimeout = 2
    TLSTimeout = 2
    ProtoTimeout = 2
    XrayTimeout = 2
INVARIANT BudgetSuffices
CHECK_DEADLOCK FALSE
