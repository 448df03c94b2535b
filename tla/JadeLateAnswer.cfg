\* A pause of the device within an answer.
CONSTANTS
    x = x
    y = y
    a = a
    p = p
    w = w
    d = d
    s = s
    t = t
    Requests = {x, y, a, p, w, d, s, t}
    Method <- MCMethod
    Pieces <- MCPieces
    Sessions <- TwoKeys
    MaxStalls = 1
SPECIFICATION Spec
CHECK_DEADLOCK FALSE
INVARIANT OwnAnswers
