\* Rewards scaled by 1e17 / 8 (5e18 and 3e18 keep their ratio and stay
\* divisible by 8); the Byzantium fork falls inside the chain; block
\* numbers are 8 bits wide so that the walk below genesis wraps.
CONSTANTS
    PowMode = "normal"
    MaxUncles = 2
    FrontierBlockReward = 40
    ByzantiumBlockReward = 24
    ByzantiumBlock = 5
    NumberBits = 8
    MaxHeight = 10
    MaxSide = 2
    OverlongUncles <- MCOverlongUncles
SPECIFICATION Spec
\* The chain stops growing only at the MaxHeight bound.
CHECK_DEADLOCK FALSE
VIEW MCView
INVARIANT TypeOK NoUncleTwice UncleNotAncestor UnclePaidPartly
