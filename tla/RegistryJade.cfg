\* A Jade that cannot be read after its unlock.
CONSTANTS
    bb = bb
    cc = cc
    ld = ld
    ls = ls
    jd = jd
    sp = sp
    ss = ss
    Ids <- MCIds
    KindOf <- MCKindOf
    MaxTasks = 3
    Worlds <- OnlyJade
SPECIFICATION Spec
INVARIANT NoneWhileUnlocking
