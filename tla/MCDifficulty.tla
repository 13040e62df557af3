---------------------------- MODULE MCDifficulty ----------------------------
EXTENDS Difficulty

(* Parents on both sides of each fork and bomb-period boundary, at the      *)
(* floor, at a typical and at a large difficulty, with and without uncles. *)
(* 199999 and 1199999 are the last parents before a Frontier and a         *)
(* Homestead period boundary: their child's (number + 1) \div 100000 is    *)
(* one more than the parent's own number gives.                            *)
(* The parent timestamp is mid-second so that millisecond gaps truncate.    *)
MCParents ==
    [number : {0, 99998, 99999, 199998, 199999, 1149998, 1149999, 1199999, 1999998, 1999999, 3199998, 3199999},
     timeMS : {1000500},
     difficulty : {131072, 1000000, 268435456},
     uncles : BOOLEAN]

(* Gaps giving 0 s (1 ms, 499 ms), 1, 5, 9, 10, 12, 13, 19, 20 and 1000 s. *)
MCOffsets == {1, 499, 500, 5000, 9499, 9500, 12499, 12500, 18500, 19500, 1000000}
=============================================================================
