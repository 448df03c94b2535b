CONSTANTS
    U32Max = 99
    Devices = {"Ledger", "Jade", "BitBox02", "Coldcard"}
    Firmwares <- MCFirmwares
    Names = {"w1", "w2"}
    Wallets <- MCWallets
    Paths <- MCPaths
    Derivations <- MCDerivations
    Memory = 1
    Indexed = {0, 9}
    MaxIndex = 8
    Fingerprint = "fg"
SPECIFICATION Spec
INVARIANTS
    TypeOK
    EnrolledIsRecognised
    RecognisedWasEnrolled
    DisplayedOnDescriptor
    DisplayedAsAsked
    DerivationMeansBip389
PROPERTY UpgradeKeepsSupport
CHECK_DEADLOCK FALSE
