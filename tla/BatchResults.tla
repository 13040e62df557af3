---------------------------- MODULE BatchResults ----------------------------
(***************************************************************************)
(* What VerifyHeaders promises its caller, with no workers in sight: the   *)
(* result stream carries the verification outcomes of the input headers    *)
(* in input order, never retracts or reorders one, and, as long as the     *)
(* caller does not close the abort channel, eventually carries all N.      *)
(* Results may still appear after the abort channel is closed: the caller  *)
(* only learns that the stream stops growing at some point.                *)
(***************************************************************************)
EXTENDS Naturals, Sequences

CONSTANTS
    N,          \* number of headers in the batch
    Expected    \* Expected[k]: the outcome for the k-th header (1-based)

VARIABLES
    results,    \* outcomes delivered on the result channel so far
    cancelled   \* has the caller closed the abort channel?

vars == <<results, cancelled>>

Init ==
    /\ results \in {<<>>, Expected}
    /\ cancelled = FALSE

\* Some next outcomes are appended, in order.
Deliver ==
    \E k \in 1..(N - Len(results)) :
        /\ results' = results \o SubSeq(Expected, Len(results) + 1, Len(results) + k)
        /\ UNCHANGED cancelled

Cancel ==
    /\ ~cancelled
    /\ cancelled' = TRUE
    /\ UNCHANGED results

Next == Deliver \/ Cancel

\* Delivery may only be withheld once the caller has cancelled.
Spec == Init /\ [][Next]_vars /\ WF_vars(~cancelled /\ Deliver)
=============================================================================
