\* Two CPUs; the thread count may be "all CPUs" (0), one miner, or mining
\* disabled (-1).  HashBatch 2 stands for 1 << 15 so that both the periodic
\* and the final hash-rate mark happen within MaxTries nonces.
CONSTANTS
    NumCPU = 2
    ThreadValues <- MCThreadValues
    PowModes = {"normal", "fake"}
    HashBatch = 2
    MaxTries = 3
    MaxUpdates = 1
SPECIFICATION Spec
\* A Seal call returns; the returned state has no successor.
CHECK_DEADLOCK FALSE
INVARIANT ThreadCountHonoured
