\* Two CPUs; the thread count may be "all CPUs" (0), one miner, or mining
\* disabled (-1).  HashBatch 2 stands for 1 << 15 so that a miner can hold
\* a partial batch when it finds a nonce.
CONSTANTS
    NumCPU = 2
    ThreadValues <- MCThreadValues
    PowModes = {"normal", "fake"}
    HashBatch = 2
    MaxTries = 3
    MaxUpdates = 1
SPECIFICATION Spec
\* A Seal call returns; the returned state has no successor.
CHECK_DEADLOCK FALSE
PROPERTY PartialBatchReported
