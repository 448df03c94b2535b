\* A device replugged between two polls.
CONSTANTS
    bb = bb
    cc = cc
    ld = ld
    ls = ls
    jd = jd
    sp = sp
    ss = ss
    Ids <- MCIds
    KindOf <- MCKindOf
    MaxTasks = 3
    Worlds <- OnlyColdcard
SPECIFICATION FairSpec
PROPERTY ListedIsCurrent
