--------------------------- MODULE DifficultyRules ---------------------------
(***************************************************************************)
(* The difficulty rules of agreement/epvhash/consensus.go (CalcDifficulty  *)
(* and its three fork rules) as pure operators.                            *)
(*                                                                         *)
(* CalcDifficulty picks a rule from the number of the block being made     *)
(* (parent number + 1): Byzantium, then Homestead, else Frontier.  All     *)
(* arithmetic is big.Int: unbounded, and Div is Euclidean, which equals    *)
(* TLA+'s \div for the positive divisors used here.  Timestamps are in     *)
(* milliseconds and are truncated to whole seconds before they are         *)
(* subtracted.  The protocol constants (package params) and fork blocks     *)
(* live outside this repository and are CONSTANTS.                         *)
(***************************************************************************)
EXTENDS Integers

CONSTANTS
    DifficultyBoundDivisor, \* params.DifficultyBoundDivisor (2048)
    MinimumDifficulty,      \* params.MinimumDifficulty (131072)
    DurationLimit,          \* params.DurationLimit (13)
    HomesteadBlock,         \* chain config: first Homestead block
    ByzantiumBlock          \* chain config: first Byzantium block

ASSUME DifficultyBoundDivisor \in Nat \ {0} /\ MinimumDifficulty \in Nat \ {0}

expDiffPeriod == 100000
big2999999 == 2999999

IntMax(a, b) == IF a >= b THEN a ELSE b

\* y.Exp(big2, y, nil)
RECURSIVE Pow2(_)
Pow2(k) == IF k = 0 THEN 1 ELSE 2 * Pow2(k - 1)

\* Whole seconds between the child and the parent (time/1000 on both sides).
SecondsApart(time, parent) == time \div 1000 - parent.timeMS \div 1000

-----------------------------------------------------------------------------
(* Plausible bugs of the rules, each used by the mutation check in place   *)
(* of the rule it is named after.                                          *)

\* Byzantium with the bomb delay counted from 3000000 instead of 2999999.
calcDifficultyByzantiumDelay(time, parent) ==
    LET x1 == IntMax((IF parent.uncles THEN 2 ELSE 1) - SecondsApart(time, parent) \div 9, -99)
        x2 == IntMax(parent.difficulty + (parent.difficulty \div DifficultyBoundDivisor) * x1,
                     MinimumDifficulty)
        periodCount == (IF parent.number >= 3000000 THEN parent.number - 3000000 ELSE 0)
                           \div expDiffPeriod
    IN IF periodCount > 1 THEN x2 + Pow2(periodCount - 2) ELSE x2

\* Byzantium with the operands of the base subtraction swapped.
calcDifficultyByzantiumSwapped(time, parent) ==
    LET x1 == IntMax(SecondsApart(time, parent) \div 9 - (IF parent.uncles THEN 2 ELSE 1), -99)
        x2 == IntMax(parent.difficulty + (parent.difficulty \div DifficultyBoundDivisor) * x1,
                     MinimumDifficulty)
        periodCount == (IF parent.number >= big2999999 THEN parent.number - big2999999 ELSE 0)
                           \div expDiffPeriod
    IN IF periodCount > 1 THEN x2 + Pow2(periodCount - 2) ELSE x2

-----------------------------------------------------------------------------
(* calcDifficultyByzantium: x = max((1 or 2 with uncles) - Δt/9, -99),     *)
(* parent + parent/2048*x floored at the minimum, plus the bomb counted    *)
(* from the parent number less 2999999.                                    *)
calcDifficultyByzantium(time, parent) ==
    LET x1 == IntMax((IF parent.uncles THEN 2 ELSE 1) - SecondsApart(time, parent) \div 9, -99)
        x2 == IntMax(parent.difficulty + (parent.difficulty \div DifficultyBoundDivisor) * x1,
                     MinimumDifficulty)
        periodCount == (IF parent.number >= big2999999 THEN parent.number - big2999999 ELSE 0)
                           \div expDiffPeriod
    IN IF periodCount > 1 THEN x2 + Pow2(periodCount - 2) ELSE x2

\* calcDifficultyHomestead: x = max(1 - Δt/10, -99), bomb from number + 1.
calcDifficultyHomestead(time, parent) ==
    LET x1 == IntMax(1 - SecondsApart(time, parent) \div 10, -99)
        x2 == IntMax(parent.difficulty + (parent.difficulty \div DifficultyBoundDivisor) * x1,
                     MinimumDifficulty)
        periodCount == (parent.number + 1) \div expDiffPeriod
    IN IF periodCount > 1 THEN x2 + Pow2(periodCount - 2) ELSE x2

(* calcDifficultyFrontier: up by parent/2048 if the block came within      *)
(* DurationLimit seconds, down otherwise; floored; bomb; floored again.   *)
calcDifficultyFrontier(time, parent) ==
    LET adjust == parent.difficulty \div DifficultyBoundDivisor
        diff1 == IntMax(IF SecondsApart(time, parent) < DurationLimit
                        THEN parent.difficulty + adjust
                        ELSE parent.difficulty - adjust, MinimumDifficulty)
        periodCount == (parent.number + 1) \div expDiffPeriod
    IN IF periodCount > 1
       THEN IntMax(diff1 + Pow2(periodCount - 2), MinimumDifficulty)
       ELSE diff1

\* CalcDifficulty: the rule of the fork active at parent.Number + 1.
CalcDifficulty(time, parent) ==
    LET next == parent.number + 1 IN
    IF next >= ByzantiumBlock THEN calcDifficultyByzantium(time, parent)
    ELSE IF next >= HomesteadBlock THEN calcDifficultyHomestead(time, parent)
    ELSE calcDifficultyFrontier(time, parent)

=============================================================================
