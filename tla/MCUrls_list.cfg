SPECIFICATION Spec
CONSTANTS
    a = a
    b = b
    c = c
    Url = {a, b}
    Invalid = Invalid
    Comment = Comment
    Ops = {"list", "add", "replace", "delete"}
    Request = {1, 2}
    MaxRequests = 4
    MaxBatch = 2
    MaxCrashes = 1
    InitialFile <- OperatorFiles
 
PROPERTY ImplementsList
CHECK_DEADLOCK FALSE
