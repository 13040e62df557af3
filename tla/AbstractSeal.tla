---------------------------- MODULE AbstractSeal ----------------------------
(***************************************************************************)
(* What one call of seal(chain, block, stop) promises its caller (spec     *)
(* 4.7), with the search, the miners and the restarts left out: the call   *)
(* returns exactly once; in a fake mode it returns the zero-nonce header; *)
(* otherwise it returns a sealed block, or none only once the caller has   *)
(* stopped it, or the error of the seed source.                            *)
(***************************************************************************)
CONSTANTS PowModes

VARIABLES
    mode,     \* the engine's PoW mode
    stopped,  \* the caller has closed stop
    outcome   \* "pending" until the call returns, then what it returned

vars == <<mode, stopped, outcome>>

Init ==
    /\ mode \in PowModes
    /\ stopped \in BOOLEAN
    /\ outcome = "pending"

Return(r) ==
    /\ outcome = "pending"
    /\ outcome' = r
    /\ UNCHANGED <<mode, stopped>>

Next ==
    \/ ~stopped /\ stopped' = TRUE /\ UNCHANGED <<mode, outcome>>
    \/ mode \in {"fake", "fullfake"} /\ Return("fakeSeal")
    \/ mode = "normal" /\ Return("sealed")
    \/ mode = "normal" /\ Return("err")
    \/ mode = "normal" /\ stopped /\ Return("nil")

Spec == Init /\ [][Next]_vars
=============================================================================
