----------------------------- MODULE MCSealer -----------------------------
EXTENDS Sealer

\* "All CPUs" (0), a single miner (1) and mining disabled (-1).
MCThreadValues == {-1, 0, 1}
=============================================================================
