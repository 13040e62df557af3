---------------------------- MODULE StringSet ----------------------------
(***************************************************************************)
(* stringSet of the language table generator                               *)
(* (vendor/golang.org/x/text/language/maketables.go): a []string slice    *)
(* with `sorted` and `frozen` flags and an `update` map.  The slice is a   *)
(* window on a backing array: `arr` is the array (its length the slice's   *)
(* capacity) and `n` is len(ss.s).  Strings are numbers ordered as         *)
(* sort.Strings orders them; Empty is "", the zero value of new array      *)
(* slots, and Terminator(w) the "\xff" run of width w that join appends.   *)
(* Every method is one action; compact, which find, slice, freeze and      *)
(* sortFunc call first, is an operator.  log.Panic ends the generator:     *)
(* `panicked`.  setType never assigns ss.typ, so its check never fires and *)
(* it has no effect.                                                       *)
(***************************************************************************)
EXTENDS Naturals, Sequences, SequencesExt, FiniteSets, TLC

CONSTANTS
    Strs,         \* the strings callers add
    Width(_),     \* len(s)
    Rank(_),      \* the index function writeSortedMap sorts by
    MaxCap,       \* bound on the length of the slice
    MaxWords      \* bound on the words of one parse call

Empty == 0
Terminator(w) == 100 + w
AllStrs == Strs \cup {Empty} \cup {Terminator(w) : w \in 1..4}
StrWidth(x) == IF x = Empty THEN 0 ELSE IF x >= 100 THEN x - 100 ELSE Width(x)
NoKey == -1

VARIABLES
    arr,       \* the backing array of ss.s
    n,         \* len(ss.s)
    sorted,    \* ss.sorted
    frozen,    \* ss.frozen
    update,    \* ss.update, NoKey where the map has no entry
    panicked,  \* log.Panic (or a runtime panic) stopped the generator
    last       \* the last call: op, argument, index and answer of a lookup

vars == <<arr, n, sorted, frozen, update, panicked, last>>

Slice == SubSeq(arr, 1, n)

Init ==
    /\ arr = <<>>
    /\ n = 0
    /\ sorted = FALSE
    /\ frozen = FALSE
    /\ update = [x \in Strs |-> NoKey]
    /\ panicked = FALSE
    /\ last = [op |-> "none", arg |-> 0, i |-> 0, ok |-> FALSE]

Done(op, arg, i, ok) == last' = [op |-> op, arg |-> arg, i |-> i, ok |-> ok]
Panic == panicked' = TRUE /\ UNCHANGED <<arr, n, sorted, frozen, update, last>>

-----------------------------------------------------------------------------
(* append(ss.s, x): in place while there is capacity, else into a new      *)
(* array of twice the capacity (at least 1) whose spare slots hold "".     *)
Append1(a, len, x) ==
    IF len < Len(a) THEN [a EXCEPT ![len + 1] = x]
    ELSE LET cap == IF Len(a) = 0 THEN 1 ELSE 2 * Len(a)
         IN SubSeq(a, 1, len) \o <<x>> \o [k \in 1..(cap - len - 1) |-> Empty]

(* compact: sort the slice, move each new string down to a[k+1], reslice   *)
(* to a[:k+1].  On an empty slice the loop does nothing and a[:1] takes    *)
(* the first slot of the array, or panics when there is none.              *)
CompactOf(a, len, srt, frz) ==
    IF srt THEN [arr |-> a, n |-> len, sorted |-> srt, panic |-> FALSE]
    ELSE IF len = 0
    THEN [arr |-> a, n |-> 1, sorted |-> frz, panic |-> Len(a) = 0]
    ELSE LET s == SortSeq(SubSeq(a, 1, len), <)
             d == SetToSortSeq(ToSet(s), <)
         IN [arr |-> d \o SubSeq(s, Len(d) + 1, len) \o SubSeq(a, len + 1, Len(a)),
             n |-> Len(d), sorted |-> frz, panic |-> FALSE]

(* sort.SearchStrings: the binary search of sort.Search for the first      *)
(* index whose string is >= x, 0-based, over s[i..j).                      *)
RECURSIVE Search(_, _, _, _)
Search(s, x, i, j) ==
    IF i >= j THEN i
    ELSE LET h == (i + j) \div 2
         IN IF s[h + 1] >= x THEN Search(s, x, i, h) ELSE Search(s, x, h + 1, j)

(* find: compact, then the search; ok when the index holds x.              *)
FindIn(c, x) ==
    LET s == SubSeq(c.arr, 1, c.n)
        i == Search(s, x, 0, c.n)
    IN [i |-> i, ok |-> i # c.n /\ s[i + 1] = x]

Compacted == CompactOf(arr, n, sorted, frozen)
SetCompacted(c) == arr' = c.arr /\ n' = c.n /\ sorted' = c.sorted

-----------------------------------------------------------------------------
\* An add that marks the set sorted after appending.
addSorted(x) ==
    /\ n < MaxCap
    /\ IF frozen THEN Panic
       ELSE /\ arr' = Append1(arr, n, x) /\ n' = n + 1 /\ sorted' = TRUE
            /\ Done("add", x, 0, FALSE)
            /\ UNCHANGED <<frozen, update, panicked>>

\* add: assertChangeable, append, sorted = frozen.
add(x) ==
    /\ n < MaxCap
    /\ IF frozen THEN Panic
       ELSE /\ arr' = Append1(arr, n, x) /\ n' = n + 1 /\ sorted' = frozen
            /\ Done("add", x, 0, FALSE)
            /\ UNCHANGED <<frozen, update, panicked>>

\* parse: add for each word of the string.
parse(ws) ==
    /\ n + Len(ws) <= MaxCap
    /\ IF frozen THEN Panic
       ELSE /\ arr' = FoldLeft(LAMBDA st, x : [a |-> Append1(st.a, st.len, x), len |-> st.len + 1],
                               [a |-> arr, len |-> n], ws).a
            /\ n' = n + Len(ws) /\ sorted' = frozen
            /\ Done("parse", 0, 0, FALSE)
            /\ UNCHANGED <<frozen, update, panicked>>

\* freeze: compact, then frozen = true.
freeze ==
    LET c == Compacted IN
    IF c.panic THEN Panic
    ELSE /\ SetCompacted(c) /\ frozen' = TRUE
         /\ Done("freeze", 0, 0, FALSE)
         /\ UNCHANGED <<update, panicked>>

\* sortFunc: compact, then sort.Sort by the callers' order.
sortFunc ==
    LET c == Compacted IN
    IF c.panic THEN Panic
    ELSE /\ arr' = SortSeq(SubSeq(c.arr, 1, c.n), LAMBDA x, y : Rank(x) < Rank(y))
                   \o SubSeq(c.arr, c.n + 1, Len(c.arr))
         /\ n' = c.n /\ sorted' = c.sorted
         /\ Done("sortFunc", 0, 0, FALSE)
         /\ UNCHANGED <<frozen, update, panicked>>

\* A remove whose copy starts one slot late: copy(s[i+1:], s[i+2:]).
removeCopyLate(x) ==
    IF frozen THEN Panic
    ELSE LET c == Compacted
             f == FindIn(c, x)
         IN IF c.panic THEN Panic
            ELSE /\ arr' = IF f.ok
                           THEN [k \in 1..Len(c.arr) |->
                                   IF k > f.i + 1 /\ k < c.n THEN c.arr[k + 1] ELSE c.arr[k]]
                           ELSE c.arr
                 /\ n' = IF f.ok THEN c.n - 1 ELSE c.n
                 /\ sorted' = c.sorted
                 /\ Done("remove", x, f.i, FALSE)
                 /\ UNCHANGED <<frozen, update, panicked>>

(* remove: assertChangeable; if find has x at i, copy s[i+1:] down by one  *)
(* and drop the last slot from the slice; the array keeps its old value.   *)
remove(x) ==
    IF frozen THEN Panic
    ELSE LET c == Compacted
             f == FindIn(c, x)
         IN IF c.panic THEN Panic
            ELSE /\ arr' = IF f.ok
                           THEN [k \in 1..Len(c.arr) |->
                                   IF k > f.i /\ k < c.n THEN c.arr[k + 1] ELSE c.arr[k]]
                           ELSE c.arr
                 /\ n' = IF f.ok THEN c.n - 1 ELSE c.n
                 /\ sorted' = c.sorted
                 /\ Done("remove", x, f.i, FALSE)
                 /\ UNCHANGED <<frozen, update, panicked>>

\* find, as langIndex calls it.
find(x) ==
    LET c == Compacted
        f == FindIn(c, x)
    IN IF c.panic THEN Panic
       ELSE /\ SetCompacted(c)
            /\ Done("find", x, f.i, f.ok)
            /\ UNCHANGED <<frozen, update, panicked>>

\* index: find, and log.Panicf when x is not there.
index(x) ==
    LET c == Compacted
        f == FindIn(c, x)
    IN IF c.panic \/ ~f.ok THEN Panic
       ELSE /\ SetCompacted(c)
            /\ Done("index", x, f.i, TRUE)
            /\ UNCHANGED <<frozen, update, panicked>>

\* replace: ss.s[ss.index(ol)] = nu; sorted = frozen.  No assertChangeable.
replace(ol, nu) ==
    LET c == Compacted
        f == FindIn(c, ol)
    IN IF c.panic \/ ~f.ok THEN Panic
       ELSE /\ arr' = [c.arr EXCEPT ![f.i + 1] = nu]
            /\ n' = c.n /\ sorted' = frozen
            /\ Done("replace", nu, f.i, FALSE)
            /\ UNCHANGED <<frozen, update, panicked>>

\* slice: compact.
slice ==
    LET c == Compacted IN
    IF c.panic THEN Panic
    ELSE /\ SetCompacted(c)
         /\ Done("slice", 0, 0, FALSE)
         /\ UNCHANGED <<frozen, update, panicked>>

\* updateLater: update[v] = key, the map made on first use.
updateLater(v, key) ==
    /\ update' = [update EXCEPT ![v] = key]
    /\ Done("updateLater", 0, 0, FALSE)
    /\ UNCHANGED <<arr, n, sorted, frozen, panicked>>

(* join: every string as long as s[0] (an index panic on an empty slice),  *)
(* then append the "\xff" run of that width; the slice keeps it.           *)
join ==
    /\ n < MaxCap
    /\ IF n = 0 \/ \E k \in 1..n : StrWidth(arr[k]) # StrWidth(arr[1]) THEN Panic
       ELSE /\ arr' = Append1(arr, n, Terminator(StrWidth(arr[1])))
            /\ n' = n + 1
            /\ Done("join", 0, 0, FALSE)
            /\ UNCHANGED <<sorted, frozen, update, panicked>>

(* Any method may be called next, as long as no panic stopped the         *)
(* generator.                                                              *)
Next ==
    \/ ~panicked /\ \E x \in Strs : add(x)
    \/ ~panicked /\ \E ws \in SeqOf(Strs, MaxWords) \ {<<>>} : parse(ws)
    \/ ~panicked /\ freeze
    \/ ~panicked /\ sortFunc
    \/ ~panicked /\ \E x \in Strs : remove(x)
    \/ ~panicked /\ \E x \in Strs : find(x)
    \/ ~panicked /\ \E x \in Strs : index(x)
    \/ ~panicked /\ \E ol, nu \in Strs : replace(ol, nu)
    \/ ~panicked /\ slice
    \/ ~panicked /\ \E v, key \in Strs : updateLater(v, key)
    \/ ~panicked /\ join

Spec == Init /\ [][Next]_vars

-----------------------------------------------------------------------------
\* The types, and the one flag combination the methods leave: `sorted` is
\* only ever true on a frozen set (add, compact and replace set it to frozen).
TypeOK ==
    /\ arr \in Seq(AllStrs) /\ n \in 0..Len(arr) /\ Len(arr) <= 2 * MaxCap
    /\ sorted \in BOOLEAN /\ frozen \in BOOLEAN /\ panicked \in BOOLEAN
    /\ sorted => frozen
    /\ update \in [Strs -> Strs \cup {NoKey}]

(* When remove(x) returns, no copy of x is left in the slice: compact      *)
(* removed duplicates before find located the one copy that is shifted     *)
(* out.                                                                    *)
RemoveLeavesNoCopy ==
    [][(last'.op = "remove" /\ ~panicked') => last'.arg \notin ToSet(Slice')]_vars

(* The stringSet implements a set (AbstractStringSet): what it holds is    *)
(* the strings of its slice, lookups answer membership, and it only panics *)
(* where the set would (a change when frozen, index of a missing string,   *)
(* join of an empty set).                                                  *)
AS == INSTANCE AbstractStringSet
        WITH elems <- ToSet(Slice), frozen <- frozen, panicked <- panicked,
             last <- [op |-> last.op, arg |-> last.arg, ok |-> last.ok],
             Width <- StrWidth
ImplementsSet == AS!Spec
=============================================================================
