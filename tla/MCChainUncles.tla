--------------------------- MODULE MCChainUncles ---------------------------
EXTENDS ChainUncles

\* Three copies of the genesis header: one more than maxUncles.
MCOverlongUncles == [i \in 1..3 |-> HeaderOf(Genesis)]
(* States that differ only in the verdict of the last rejected import     *)
(* have the same future; balance and nextHash follow from chain and side. *)
MCView == <<chain, side>>
=============================================================================
