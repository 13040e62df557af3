--------------------------- MODULE MCBatchVerify ---------------------------
(***************************************************************************)
(* A batch of four headers on a chain that holds only genesis, with four   *)
(* different outcomes, so that any mix-up of positions shows in the result *)
(* stream: a valid child of genesis, a child with its parent's timestamp,  *)
(* a header whose parent hash links to nothing before it, and a child of   *)
(* that header using more gas than its limit.  Protocol constants are      *)
(* those of MCHeaderRules (8-bit gas, 2-block epochs, early forks).        *)
(***************************************************************************)
EXTENDS BatchVerify

\* A header of HeaderRules' shape with its parent hash.
Hdr(hash, parentHash, number, time, difficulty, gasUsed) ==
    [hash |-> hash, parentHash |-> parentHash, number |-> number,
     timeMS |-> time, difficulty |-> difficulty, uncles |-> FALSE,
     extra |-> 0, gasLimit |-> 40, gasUsed |-> gasUsed,
     digestOK |-> TRUE, powResult |-> 0, daoOK |-> TRUE]

Genesis == Hdr(10, 0, 0, 10000, 1000000, 0)

Child(hash, parent, time, gasUsed) ==
    Hdr(hash, parent.hash, parent.number + 1, time,
        HR!CalcDifficulty(time, parent), gasUsed)

H1 == Child(11, Genesis, 23000, 0)
H2 == Child(12, H1, 23000, 0)
H3 == Hdr(13, 99, 3, 40000, 1000000, 0)
H4 == Child(14, H3, 53000, 41)

MCBatch == <<H1, H2, H3, H4>>
MCSeals == <<TRUE, FALSE, TRUE, TRUE>>
MCChain == {Genesis}
=============================================================================
