CONSTANTS
    DifficultyBoundDivisor = 2048
    MinimumDifficulty = 131072
    DurationLimit = 13
    HomesteadBlock = 2
    ByzantiumBlock = 4
    MaximumExtraDataSize = 32
    AllowedFutureBlockTime = 15000
    MaxBigTime = 30000
    GasBits = 8
    GasLimitBoundDivisor = 4
    MinGasLimit = 5
    EpochLength = 2
    MaxEpoch = 2
    MaxHash = 1073741823
    EIP150Block = 1
    EIP150Hash = 7
    FakeFail = 1
    Modes = {"normal", "fake", "fullfake"}
    Parents <- MCParentsHighGas
    HeadersFor <- MCHeadersFor
    Nows <- MCNows
SPECIFICATION Spec
CHECK_DEADLOCK FALSE
INVARIANT AcceptedHeaderSound
