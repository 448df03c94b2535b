\* Concurrent requests on one Jade.
CONSTANTS
    x = x
    y = y
    a = a
    p = p
    w = w
    d = d
    s = s
    t = t
    Requests = {x, y, a, p, w, d, s, t}
    Method <- MCMethod
    Pieces <- MCPieces
    Sessions <- MCSessions
    MaxStalls = 1
SPECIFICATION FairSpec
CHECK_DEADLOCK FALSE
INVARIANTS
    TypeOK
    OwnUnlessStalled
    FailureHasCause
PROPERTIES
    EveryRequestEnds
