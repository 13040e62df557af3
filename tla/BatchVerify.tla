---------------------------- MODULE BatchVerify ----------------------------
(***************************************************************************)
(* The concurrent batch header verification of EPVhash.VerifyHeaders      *)
(* (agreement/epvhash/consensus.go): W worker goroutines range over the    *)
(* unbuffered channel `inputs`, write errors[index] and report the index  *)
(* on `done` (buffered, capacity W); one dispatcher goroutine selects      *)
(* between feeding the next index, collecting a finished index and        *)
(* flushing the contiguous prefix of results to `errorsOut` (buffered,    *)
(* capacity N, so never full), and the caller's abort channel.  When the  *)
(* dispatcher returns it closes `inputs`, which ends the workers' range.  *)
(*                                                                         *)
(* Indices are 0-based as in the code.  A header is abstracted to the      *)
(* three facts verifyHeaderWorker looks at.                                *)
(***************************************************************************)
EXTENDS Naturals, Sequences

CONSTANTS
    Batch,      \* Batch[i+1]: headers[i], a HeaderRules header with its parentHash
    Seals,      \* Seals[i+1]: seals[i]
    Chain,      \* the headers the chain reader has
    Now,        \* time.Now() during the batch, in ms
    MaxProcs,   \* runtime.GOMAXPROCS(0)
    PowMode     \* the engine's config.PowMode, fixed at construction

\* The protocol constants of DifficultyRules and HeaderRules, passed through.
CONSTANTS
    DifficultyBoundDivisor, MinimumDifficulty, DurationLimit, HomesteadBlock,
    ByzantiumBlock, MaximumExtraDataSize, AllowedFutureBlockTime, MaxBigTime,
    GasBits, GasLimitBoundDivisor, MinGasLimit, EpochLength, MaxEpoch, MaxHash,
    EIP150Block, EIP150Hash, FakeFail

ASSUME MaxProcs \in Nat \ {0}
ASSUME PowMode \in {"normal", "fullfake"}

(* The single-header rules of HeaderRules: HR!verifyHeader is the code's  *)
(* check chain and HR!SpecRulesOf the rules of spec 4.3 it must agree     *)
(* with.  Only its constant-level operators are used, so its variables    *)
(* are bound to placeholders.                                              *)
HR == INSTANCE HeaderRules
    WITH mode <- PowMode, now <- Now, header <- Now, parent <- Now,
         parentFound <- TRUE, entry <- "VerifyHeader", seal <- TRUE,
         path <- "full", result <- "nil",
         Modes <- {PowMode}, Parents <- {}, HeadersFor <- LAMBDA x : {}, Nows <- {Now}

N == Len(Batch)
Idx == 0..(N - 1)

\* workers := runtime.GOMAXPROCS(0), lowered to len(headers)
W == IF N < MaxProcs THEN N ELSE MaxProcs
Workers == 0..(W - 1)

\* Fast path: no goroutines, every result nil.
FastPath == PowMode = "fullfake" \/ N = 0

Outcomes == {"nil", "ErrUnknownAncestor", "errExtraTooLong", "errLargeBlockTime",
             "ErrFutureBlock", "errZeroBlockTime", "errDifficulty", "errGasLimitCap",
             "errGasUsed", "errGasLimit", "ErrInvalidNumber", "errNonceOutOfRange",
             "errInvalidDifficulty", "errInvalidMixDigest", "errInvalidPoW",
             "errDAOExtra", "errForkHash"}

\* chain.GetHeader(hash, number): the chain's headers with that hash and number.
GetHeader(hash, number) == {c \in Chain : c.hash = hash /\ c.number = number}

(***************************************************************************)
(* verifyHeaderWorker: the parent is the chain's header for index 0 and    *)
(* headers[index-1] if the hashes link; without one ErrUnknownAncestor; a  *)
(* header the chain already has passes; else verifyHeader(chain, header,   *)
(* parent, false, seals[index]).  number-1 of a genesis header wraps in    *)
(* uint64 and, like -1 here, names no header of the chain.                 *)
(***************************************************************************)
VerifyHeaderWorker(index) ==
    LET h == Batch[index + 1]
        parents == IF index = 0 THEN GetHeader(h.parentHash, h.number - 1)
                   ELSE IF Batch[index].hash = h.parentHash THEN {Batch[index]} ELSE {}
    IN IF parents = {} THEN "ErrUnknownAncestor"
       ELSE IF GetHeader(h.hash, h.number) # {} THEN "nil"
       ELSE LET p == CHOOSE x \in parents : TRUE
            IN HR!verifyHeader(PowMode, Now, h, p, FALSE, Seals[index + 1])

\* The error of the first rule of spec 4.3 that h breaks, or nil.
SpecError(h, p, s) ==
    LET rules == HR!SpecRulesOf(PowMode, Now, h, p, FALSE, s)
        k == HR!FirstBrokenRuleOf(rules)
    IN IF k = 0 THEN "nil" ELSE rules[k].err

(* What the caller should see at each position (1-based), from the specs:  *)
(* every result nil on the fast path; otherwise the parent of header[i] is *)
(* the chain's getHeader(hash, number) for i = 0 (6) and header[i-1] only  *)
(* if the hashes link (4.4), a header the chain holds is accepted, and any *)
(* other gets the error of the first rule of 4.3 it breaks.                *)
SpecOutcome(k) ==
    LET h == Batch[k]
        parents == IF k = 1 THEN GetHeader(h.parentHash, h.number - 1)
                   ELSE IF Batch[k - 1].hash = h.parentHash THEN {Batch[k - 1]} ELSE {}
    IN IF parents = {} THEN "ErrUnknownAncestor"
       ELSE IF h \in Chain THEN "nil"
       ELSE SpecError(h, CHOOSE x \in parents : TRUE, Seals[k])

Expected == [k \in 1..N |-> IF FastPath THEN "nil" ELSE SpecOutcome(k)]

VARIABLES
    errors,       \* the shared errors slice, one slot per header
    done,         \* contents of the `done` channel
    errorsOut,    \* everything sent on `errorsOut`
    wpc,          \* worker program counter
    widx,         \* index a worker currently holds
    in, out,      \* dispatcher's next index to feed, next index to flush
    checked,      \* dispatcher's set of collected indices
    rpc,          \* dispatcher program counter
    inputsClosed, \* close(inputs) has run
    abortClosed   \* the caller has closed the abort channel

vars == <<errors, done, errorsOut, wpc, widx, in, out, checked, rpc,
          inputsClosed, abortClosed>>

Init ==
    /\ errors = [i \in Idx |-> "nil"]
    /\ done = <<>>
    /\ widx = [w \in Workers |-> 0]
    /\ in = 0
    /\ out = 0
    /\ checked = {}
    /\ abortClosed = FALSE
    /\ IF FastPath
         THEN /\ errorsOut = [k \in 1..N |-> "nil"]
              /\ wpc = [w \in Workers |-> "exit"]
              /\ rpc = "returned"
              /\ inputsClosed = TRUE
         ELSE /\ errorsOut = <<>>
              /\ wpc = [w \in Workers |-> "recv"]
              /\ rpc = "select"
              /\ inputsClosed = FALSE

\* First unchecked index at or after `from`, or N.
NextUnchecked(chk, from) ==
    IF \E j \in from..(N - 1) : j \notin chk
    THEN CHOOSE j \in from..(N - 1) : j \notin chk /\ \A i \in from..(j - 1) : i \in chk
    ELSE N

-----------------------------------------------------------------------------
(* Plausible bugs of the dispatcher and the workers, each used by the      *)
(* mutation check in place of the definition it is named after.           *)

\* Dispatch: the feeder stops one index early.
DispatchOffByOne(w) ==
    /\ rpc = "select"
    /\ in < N - 1
    /\ wpc[w] = "recv"
    /\ wpc' = [wpc EXCEPT ![w] = "busy"]
    /\ widx' = [widx EXCEPT ![w] = in]
    /\ in' = in + 1
    /\ UNCHANGED <<errors, done, errorsOut, out, checked, rpc, inputsClosed, abortClosed>>

\* Collect: sends the result of the index that just arrived, not errors[out].
CollectSendsArrived ==
    /\ rpc = "select"
    /\ done # <<>>
    /\ LET chk == checked \cup {Head(done)}
           o   == NextUnchecked(chk, out)
       IN /\ done' = Tail(done)
          /\ checked' = chk
          /\ errorsOut' = errorsOut \o [k \in 1..(o - out) |-> errors[Head(done)]]
          /\ out' = o
          /\ IF o = N
               THEN rpc' = "returned" /\ inputsClosed' = TRUE
               ELSE UNCHANGED <<rpc, inputsClosed>>
    /\ UNCHANGED <<errors, wpc, widx, in, abortClosed>>

\* Collect: returns after the last result without the deferred close(inputs).
CollectNoClose ==
    /\ rpc = "select"
    /\ done # <<>>
    /\ LET chk == checked \cup {Head(done)}
           o   == NextUnchecked(chk, out)
       IN /\ done' = Tail(done)
          /\ checked' = chk
          /\ errorsOut' = errorsOut \o [k \in 1..(o - out) |-> errors[out + k - 1]]
          /\ out' = o
          /\ IF o = N THEN rpc' = "returned" ELSE UNCHANGED rpc
          /\ UNCHANGED inputsClosed
    /\ UNCHANGED <<errors, wpc, widx, in, abortClosed>>

-----------------------------------------------------------------------------
(* Dispatcher: `case inputs <- in`, a rendezvous with a receiving worker;  *)
(* after the last index `inputs` is set to nil, which disables the case.  *)
Dispatch(w) ==
    /\ rpc = "select"
    /\ in < N
    /\ wpc[w] = "recv"
    /\ wpc' = [wpc EXCEPT ![w] = "busy"]
    /\ widx' = [widx EXCEPT ![w] = in]
    /\ in' = in + 1
    /\ UNCHANGED <<errors, done, errorsOut, out, checked, rpc, inputsClosed, abortClosed>>

(* `case index := <-done`: mark it checked and send errors[out] for every  *)
(* contiguous checked index; return (closing inputs) after the last one.  *)
Collect ==
    /\ rpc = "select"
    /\ done # <<>>
    /\ LET chk == checked \cup {Head(done)}
           o   == NextUnchecked(chk, out)
       IN /\ done' = Tail(done)
          /\ checked' = chk
          /\ errorsOut' = errorsOut \o [k \in 1..(o - out) |-> errors[out + k - 1]]
          /\ out' = o
          /\ IF o = N
               THEN rpc' = "returned" /\ inputsClosed' = TRUE
               ELSE UNCHANGED <<rpc, inputsClosed>>
    /\ UNCHANGED <<errors, wpc, widx, in, abortClosed>>

\* `case <-abort: return`, and the deferred close(inputs).
Cancelled ==
    /\ rpc = "select"
    /\ abortClosed
    /\ rpc' = "returned"
    /\ inputsClosed' = TRUE
    /\ UNCHANGED <<errors, done, errorsOut, wpc, widx, in, out, checked, abortClosed>>

-----------------------------------------------------------------------------
\* Worker: errors[index] = epvhash.verifyHeaderWorker(...)
Verify(w) ==
    /\ wpc[w] = "busy"
    /\ errors' = [errors EXCEPT ![widx[w]] = VerifyHeaderWorker(widx[w])]
    /\ wpc' = [wpc EXCEPT ![w] = "send"]
    /\ UNCHANGED <<done, errorsOut, widx, in, out, checked, rpc, inputsClosed, abortClosed>>

\* Worker: done <- index, blocking while the buffer holds W indices.
Report(w) ==
    /\ wpc[w] = "send"
    /\ Len(done) < W
    /\ done' = Append(done, widx[w])
    /\ wpc' = [wpc EXCEPT ![w] = "recv"]
    /\ UNCHANGED <<errors, errorsOut, widx, in, out, checked, rpc, inputsClosed, abortClosed>>

\* Worker: `for index := range inputs` ends once inputs is closed.
WorkerExit(w) ==
    /\ wpc[w] = "recv"
    /\ inputsClosed
    /\ wpc' = [wpc EXCEPT ![w] = "exit"]
    /\ UNCHANGED <<errors, done, errorsOut, widx, in, out, checked, rpc, inputsClosed, abortClosed>>

\* Caller: close(abort), at most once.
Abort ==
    /\ ~abortClosed
    /\ abortClosed' = TRUE
    /\ UNCHANGED <<errors, done, errorsOut, wpc, widx, in, out, checked, rpc, inputsClosed>>

Next ==
    \/ \E w \in Workers : Dispatch(w) \/ Verify(w) \/ Report(w) \/ WorkerExit(w)
    \/ Collect
    \/ Cancelled
    \/ Abort

(* Go runs every runnable goroutine eventually: the workers and the        *)
(* dispatcher are weakly fair.  The caller's abort is never forced.        *)
Fairness ==
    /\ \A w \in Workers : WF_vars(Verify(w)) /\ WF_vars(Report(w)) /\ WF_vars(WorkerExit(w))
    /\ WF_vars(\E w \in Workers : Dispatch(w))
    /\ WF_vars(Collect)
    /\ WF_vars(Cancelled)

Spec == Init /\ [][Next]_vars /\ Fairness

-----------------------------------------------------------------------------
(* The reordering of VerifyHeaders: whatever order the workers finish in,  *)
(* the k-th value sent on errorsOut is the verdict of verifyHeaderWorker    *)
(* for headers[k-1], never the nil a slot holds before its worker ran.     *)
InOrderDelivery ==
    errorsOut = SubSeq(Expected, 1, Len(errorsOut))

(* VerifyHeaders implements the promise of BatchResults: results in input *)
(* order, none retracted, and all N of them unless the caller aborts.      *)
BR == INSTANCE BatchResults WITH results <- errorsOut, cancelled <- abortClosed
ImplementsBatchResults == BR!Spec

(* Without an abort, the call leaves nothing behind: the dispatcher        *)
(* returns and closes inputs, and every worker goroutine leaves its range. *)
DrainWithoutAbort ==
    []~abortClosed => <>(rpc = "returned" /\ \A w \in Workers : wpc[w] = "exit")

(* Spec 5: workers never block indefinitely once an abort has fired; every *)
(* worker goroutine of VerifyHeaders eventually returns.                   *)
WorkersEventuallyExit ==
    <>(\A w \in Workers : wpc[w] = "exit")
=============================================================================
