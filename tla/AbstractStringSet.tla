------------------------ MODULE AbstractStringSet ------------------------
(***************************************************************************)
(* What a stringSet of the language table generator is used as: a set of   *)
(* strings that can be filled, frozen, looked up and turned into one       *)
(* joined index string.  Lookups answer membership; a lookup by index of a *)
(* string that is not there, and any change of a frozen set, stops the     *)
(* generator (log.Panic).                                                  *)
(***************************************************************************)
EXTENDS Naturals, FiniteSets

CONSTANTS
    Strs,         \* the strings callers add
    Width(_),     \* len(s) of a string
    Terminator(_) \* strings.Repeat("\xff", n) for width n

VARIABLES
    elems,     \* the strings in the set
    frozen,    \* freeze() was called
    panicked,  \* log.Panic stopped the generator
    last       \* the last call, with what a lookup answered

vars == <<elems, frozen, panicked, last>>

Init ==
    /\ elems = {}
    /\ frozen = FALSE
    /\ panicked = FALSE
    /\ last = [op |-> "none", arg |-> 0, ok |-> FALSE]

\* A call that adds or removes: only an unfrozen set may change.
Change(op, arg, new) ==
    /\ IF frozen
         THEN panicked' = TRUE /\ UNCHANGED <<elems, last>>
         ELSE /\ elems' = new
              /\ last' = [op |-> op, arg |-> arg, ok |-> FALSE]
              /\ UNCHANGED panicked
    /\ UNCHANGED frozen

\* A call that only reads (or reorders) the set.
Read(op, arg, ok) ==
    /\ last' = [op |-> op, arg |-> arg, ok |-> ok]
    /\ UNCHANGED <<elems, frozen, panicked>>

Next ==
    /\ ~panicked
    /\ \/ \E x \in Strs : Change("add", x, elems \cup {x})
       \/ \E w \in (SUBSET Strs) \ {{}} : Change("parse", 0, elems \cup w)
       \/ \E x \in Strs : Change("remove", x, elems \ {x})
       \/ frozen' = TRUE /\ last' = [op |-> "freeze", arg |-> 0, ok |-> FALSE]
          /\ UNCHANGED <<elems, panicked>>
       \/ \E x \in Strs : Read("find", x, x \in elems)
       \/ \E x \in Strs : IF x \in elems THEN Read("index", x, TRUE)
                          ELSE panicked' = TRUE /\ UNCHANGED <<elems, frozen, last>>
       \/ \E ol, nu \in Strs :
             IF ol \in elems
             THEN /\ elems' = (elems \ {ol}) \cup {nu}
                  /\ last' = [op |-> "replace", arg |-> nu, ok |-> FALSE]
                  /\ UNCHANGED <<frozen, panicked>>
             ELSE panicked' = TRUE /\ UNCHANGED <<elems, frozen, last>>
       \/ Read("slice", 0, FALSE)
       \/ Read("sortFunc", 0, FALSE)
       \/ Read("updateLater", 0, FALSE)
       \/ \E w \in {Width(x) : x \in elems} :
             IF \A x \in elems : Width(x) = w
             THEN /\ elems' = elems \cup {Terminator(w)}
                  /\ last' = [op |-> "join", arg |-> 0, ok |-> FALSE]
                  /\ UNCHANGED <<frozen, panicked>>
             ELSE panicked' = TRUE /\ UNCHANGED <<elems, frozen, last>>
       \/ elems = {} /\ panicked' = TRUE /\ UNCHANGED <<elems, frozen, last>>

Spec == Init /\ [][Next]_vars
=============================================================================
