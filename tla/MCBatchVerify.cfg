\* Four headers with four different outcomes on two workers: a worker can
\* finish out of order and the done buffer (capacity 2) can fill up.
CONSTANTS
    Batch <- MCBatch
    Seals <- MCSeals
    Chain <- MCChain
    Now = 60000
    MaxProcs = 3
    PowMode = "normal"
    DifficultyBoundDivisor = 2048
    MinimumDifficulty = 131072
    DurationLimit = 13
    HomesteadBlock = 2
    ByzantiumBlock = 4
    MaximumExtraDataSize = 32
    AllowedFutureBlockTime = 15000
    MaxBigTime = 30000
    GasBits = 8
    GasLimitBoundDivisor = 4
    MinGasLimit = 5
    EpochLength = 2
    MaxEpoch = 4
    MaxHash = 1073741823
    EIP150Block = 1
    EIP150Hash = 0
    FakeFail = 1
SPECIFICATION Spec
\* The call returns: its final state has no successor.
CHECK_DEADLOCK FALSE
INVARIANT InOrderDelivery
PROPERTY ImplementsBatchResults DrainWithoutAbort
