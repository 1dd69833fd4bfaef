SPECIFICATION LiveSpec
CONSTANTS
    c1 = c1
    c2 = c2
    c3 = c3
    Client = {c1, c2, c3}
    base = 1
    limit = 3
PROPERTIES RefusesOnlyWhenFull ImplementsAllocator AllocateReturns
