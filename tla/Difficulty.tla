----------------------------- MODULE Difficulty -----------------------------
(***************************************************************************)
(* EPVhash.Prepare (agreement/epvhash/consensus.go), the handler that sets *)
(* a header's difficulty from its parent with CalcDifficulty, checked      *)
(* against the rules as spec 4.1 states them.                              *)
(***************************************************************************)
EXTENDS DifficultyRules

CONSTANTS
    Parents,     \* parent headers [number, timeMS, difficulty, uncles]
    Offsets      \* child timestamp minus parent timestamp, in ms

(* Prepare(chain, header): look the parent up (ErrUnknownAncestor if the   *)
(* chain lacks it) and set header.Difficulty.                              *)
VARIABLES
    parent,       \* the parent header the chain would return
    parentFound,  \* whether chain.GetHeader finds it
    header,       \* the header being prepared: [timeMS, difficulty]
    err           \* what Prepare returned

vars == <<parent, parentFound, header, err>>

Init ==
    /\ parent \in Parents
    /\ parentFound \in BOOLEAN
    /\ \E off \in Offsets : header = [timeMS |-> parent.timeMS + off, difficulty |-> 0]
    /\ err = "pending"

Prepare ==
    /\ err = "pending"
    /\ \/ /\ ~parentFound
          /\ err' = "errUnknownAncestor"
          /\ UNCHANGED header
       \/ /\ parentFound
          /\ header' = [header EXCEPT !.difficulty = CalcDifficulty(header.timeMS, parent)]
          /\ err' = "nil"
    /\ UNCHANGED <<parent, parentFound>>

Next == Prepare

Spec == Init /\ [][Next]_vars

-----------------------------------------------------------------------------
(***************************************************************************)
(* The rules as spec 4.1 states them, written independently of the code:   *)
(* the fork is chosen most recent first on parent.number + 1; Frontier     *)
(* moves by a 2048th up or down around the duration limit; Homestead and   *)
(* Byzantium scale a 2048th by max(base - Δt/divisor, -99) with divisor 10 *)
(* and base 1, or divisor 9 and base 1 (no uncles) or 2 (uncles); the      *)
(* result is floored at the minimum; the bomb adds 2^(period-2) when the   *)
(* period exceeds 1, the Byzantium period counting from                    *)
(* max(0, parent.number - 2999999).                                        *)
(***************************************************************************)
SpecBomb(period) == IF period > 1 THEN 2 ^ (period - 2) ELSE 0

SpecDifficulty(time, p) ==
    LET dt   == time \div 1000 - p.timeMS \div 1000
        step == p.difficulty \div 2048
        floor(v) == IF v < MinimumDifficulty THEN MinimumDifficulty ELSE v
        scaled(base, divisor) ==
            floor(p.difficulty + step * IntMax(base - dt \div divisor, -99))
    IN CASE p.number + 1 >= ByzantiumBlock ->
              scaled(IF p.uncles THEN 2 ELSE 1, 9)
                + SpecBomb(IntMax(0, p.number - 2999999) \div 100000)
         [] p.number + 1 >= HomesteadBlock ->
              scaled(1, 10) + SpecBomb((p.number + 1) \div 100000)
         [] OTHER ->
              floor(floor(IF dt < DurationLimit THEN p.difficulty + step
                                                ELSE p.difficulty - step)
                    + SpecBomb((p.number + 1) \div 100000))

(* Prepare sets exactly the difficulty spec 4.1 prescribes for the         *)
(* parent and the header's timestamp, for every fork and timestamp gap.    *)
MatchesSpecRule ==
    err = "nil" => header.difficulty = SpecDifficulty(header.timeMS, parent)

(* Spec 8: a slower block never gets a higher difficulty: for the same     *)
(* parent, any later timestamp yields at most the prepared difficulty.     *)
SlowerNeverHarder ==
    err = "nil" =>
        \A off \in Offsets :
            LET later == parent.timeMS + off IN
            later >= header.timeMS => CalcDifficulty(later, parent) <= header.difficulty
=============================================================================
