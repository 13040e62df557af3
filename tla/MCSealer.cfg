\* Three CPUs, so three miners race to publish; the thread count may be
\* "all CPUs" (0), one miner, or mining disabled (-1), and may change twice,
\* so a restarted search can itself be restarted.  HashBatch 2 stands for
\* 1 << 15 so that both the periodic and the final hash-rate mark happen
\* within MaxTries nonces.
CONSTANTS
    NumCPU = 3
    ThreadValues <- MCThreadValues
    PowModes = {"normal", "fake"}
    HashBatch = 2
    MaxTries = 3
    MaxUpdates = 2
SPECIFICATION Spec
\* A Seal call returns; the returned state has no successor.
CHECK_DEADLOCK FALSE
INVARIANT TypeOK
PROPERTY StopEndsSeal ImplementsAbstractSeal
