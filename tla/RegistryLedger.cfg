\* A Ledger that is announced before it is listed.
CONSTANTS
    bb = bb
    cc = cc
    ld = ld
    ls = ls
    jd = jd
    sp = sp
    ss = ss
    Ids <- MCIds
    KindOf <- MCKindOf
    MaxTasks = 3
    Worlds <- OnlyLedger
SPECIFICATION Spec
INVARIANT EveryChangeAnnounced
