--------------------------- MODULE MCHeaderRules ---------------------------
(***************************************************************************)
(* Small instances of HeaderRules.  Gas fields are 8 bits wide instead of  *)
(* 64, with the bound divisor and the minimum scaled to match; epochs are  *)
(* 2 blocks long and 2 of them are allowed; forks come early.              *)
(***************************************************************************)
EXTENDS HeaderRules

ParentTime == 10000

\* Parents with gas limits inside the int64 range of the code's conversion.
MCParents ==
    [number: {0, 3}, timeMS: {ParentTime}, difficulty: {1000000},
     uncles: {FALSE}, gasLimit: {40, 127}]

\* A genesis parent whose gas limit is above the signed range.
MCParentsHighGas ==
    [number: {0}, timeMS: {ParentTime}, difficulty: {1000000},
     uncles: {FALSE}, gasLimit: {250}]

\* Headers built around each parent: the boundary of every check on both sides.
MCHeadersFor(p) ==
    UNION {
      { [number |-> p.number + dn, timeMS |-> t, difficulty |-> d, extra |-> x,
         gasLimit |-> g, gasUsed |-> u, digestOK |-> dig, powResult |-> r,
         daoOK |-> dao, hash |-> hs, known |-> kn] :
         u \in {g, g + 1},
         r \in {MaxHash \div d, MaxHash \div d + 1} }
      : dn \in {1, 2},
        t \in {p.timeMS, p.timeMS + 13000, p.timeMS + 26000},
        d \in {CalcDifficulty(p.timeMS + 13000, p), CalcDifficulty(p.timeMS + 26000, p)},
        x \in {MaximumExtraDataSize, MaximumExtraDataSize + 1},
        g \in {4, 5, p.gasLimit - p.gasLimit \div 4, p.gasLimit + p.gasLimit \div 4 - 1, 128},
        dig \in BOOLEAN, dao \in BOOLEAN, hs \in {7, 8}, kn \in BOOLEAN }

MCNows == {ParentTime}
=============================================================================
