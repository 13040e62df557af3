\* Every stringSet method called in any order on one set, up to a slice of
\* MaxCap strings (which brings the backing array to all three capacities
\* append gives it: 1, 2 and 4).
CONSTANTS
    Strs <- MCStrs
    Width <- MCWidth
    Rank <- MCRank
    MaxCap = 4
    MaxWords = 2
SPECIFICATION Spec
VIEW MCView
\* A panic ends the generator, and a full slice stops the adds.
CHECK_DEADLOCK FALSE
INVARIANT TypeOK
PROPERTY RemoveLeavesNoCopy
