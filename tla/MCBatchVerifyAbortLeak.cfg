\* Same batch; the caller may close abort at any point.
CONSTANTS
    Batch <- MCBatch
    Seals <- MCSeals
    Chain <- MCChain
    Now = 60000
    MaxProcs = 2
    PowMode = "normal"
    DifficultyBoundDivisor = 2048
    MinimumDifficulty = 131072
    DurationLimit = 13
    HomesteadBlock = 2
    ByzantiumBlock = 4
    MaximumExtraDataSize = 32
    AllowedFutureBlockTime = 15000
    MaxBigTime = 30000
    GasBits = 8
    GasLimitBoundDivisor = 4
    MinGasLimit = 5
    EpochLength = 2
    MaxEpoch = 4
    MaxHash = 1073741823
    EIP150Block = 1
    EIP150Hash = 0
    FakeFail = 1
SPECIFICATION Spec
CHECK_DEADLOCK FALSE
PROPERTY WorkersEventuallyExit
