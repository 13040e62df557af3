\* Mainnet protocol constants; the Homestead block is the mainnet one, the
\* Byzantium block is moved down to 2000000 so that every rule and both sides
\* of the Byzantium bomb delay are reached below 2^31.
CONSTANTS
    DifficultyBoundDivisor = 2048
    MinimumDifficulty = 131072
    DurationLimit = 13
    HomesteadBlock = 1150000
    ByzantiumBlock = 2000000
    Parents <- MCParents
    Offsets <- MCOffsets
SPECIFICATION Spec
\* Prepare is called once per header and returns.
CHECK_DEADLOCK FALSE
INVARIANT MatchesSpecRule SlowerNeverHarder
