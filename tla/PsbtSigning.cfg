\* A PSBT signed in rounds and by copies.
CONSTANTS
    cc = cc
    sp = sp
    ld = ld
    a1 = a1
    a2 = a2
    a3 = a3
    b1 = b1
    b2 = b2
    b3 = b3
    as = as
    bs = bs
    al = al
    bl = bl
    tc = tc
    tl = tl
    Inputs <- MCInputs
    Keys <- MCKeys
    Signers <- MCSigners
    Kind <- MCKind
    Fg <- MCFg
    Path <- MCPath
    Spending <- MCSpending
    Derivations <- MCDerivations
    Origins <- MCOrigins
    Internal <- MCInternal
    Copies = {1, 2}
    Plans <- MCPlans
SPECIFICATION Spec
CHECK_DEADLOCK FALSE
INVARIANTS
    TypeOK
    NoSignatureLost
    DerivationsKept
    EachRoundSigns
PROPERTIES
    OneSpendingPath
