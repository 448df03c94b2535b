\* The device map, for every kind of device.
CONSTANTS
    bb = bb
    cc = cc
    ld = ld
    ls = ls
    jd = jd
    sp = sp
    ss = ss
    Ids <- MCIds
    KindOf <- MCKindOf
    MaxTasks = 3
    Worlds <- AllWorlds
SPECIFICATION FairSpec
INVARIANTS
    TypeOK
    UpdateFollowsChange
    UnlockUnderway
    OneTaskPerConnection
PROPERTIES
    SweepSparesConnected
    DisconnectedLeaves
    ConnectedStays
    ImplementsDirectory
