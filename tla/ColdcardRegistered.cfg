CONSTANTS
    U32Max = 99
    Devices = {"Coldcard"}
    Firmwares <- ColdcardFirmwares
    Names = {"w1"}
    Wallets <- QuotedWallets
    Paths = {}
    Derivations = {}
    Memory = 1
    Indexed = {0}
    MaxIndex = 8
    Fingerprint = "fg"
SPECIFICATION Spec
INVARIANT EnrolledIsRecognised
CHECK_DEADLOCK FALSE
