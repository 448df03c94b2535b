\* The probe of a Specter and the requests on it.
CONSTANTS
    key1 = key1
    key2 = key2
    reg = reg
    sig = sig
    Requests = {key1, key2, reg, sig}
    Method <- MCMethod
    Transports = {"serial", "tcp"}
    Sessions <- MCSessions
    MaxProbes = 3
    MaxTimeouts = 2
SPECIFICATION FairSpec
CHECK_DEADLOCK FALSE
INVARIANTS
    TypeOK
    OwnUnlessTimedOut
    LagBounded
    FailureHasCause
PROPERTIES
    EveryExchangeEnds
