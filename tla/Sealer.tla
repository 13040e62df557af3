------------------------------- MODULE Sealer -------------------------------
(***************************************************************************)
(* One call of EPVhash.Seal (epvhash/sealer.go) and the miner goroutines   *)
(* it directs.  Seal reads the thread count under the engine lock, spawns  *)
(* that many `mine` goroutines and selects on the caller's stop channel,   *)
(* the unbuffered `found` channel and the engine's unbuffered `update`    *)
(* channel.  Every outcome closes `abort` and waits for the miners         *)
(* (pend.Wait); a thread-count update then calls Seal again, with fresh    *)
(* abort and found channels.                                               *)
(*                                                                         *)
(* A miner hashes nonces in a loop, checking `abort` before each one, and  *)
(* marks the hash-rate meter every HashBatch attempts (1 << 15 in the      *)
(* code) and on abort.  Whether a nonce meets the target is a              *)
(* nondeterministic choice.  SetThreads, which writes the thread count and *)
(* signals `update` without blocking, is not in this repository's sources *)
(* and is modelled from the spec.                                          *)
(***************************************************************************)
EXTENDS Integers

CONSTANTS
    NumCPU,        \* runtime.NumCPU()
    ThreadValues,  \* values the thread count can be configured to
    PowModes,      \* engine modes an engine may have been built with
    HashBatch,     \* attempts between two hash-rate marks (1 << 15)
    MaxTries,      \* bound: nonces one miner tries per session
    MaxUpdates     \* bound: thread-count changes during the call

ASSUME NumCPU \in Nat \ {0} /\ ThreadValues \subseteq Int
ASSUME PowModes \subseteq {"normal", "fake", "fullfake"}
ASSUME HashBatch \in Nat \ {0} /\ MaxTries \in Nat /\ MaxUpdates \in Nat

\* threads == 0 means all CPUs, a negative count disables local mining.
EffectiveThreads(t) == IF t = 0 THEN NumCPU ELSE IF t < 0 THEN 0 ELSE t

\* Miner slots: as many as the largest effective thread count.
MaxMiners == CHOOSE k \in {EffectiveThreads(t) : t \in ThreadValues} :
                 \A t \in ThreadValues : EffectiveThreads(t) <= k
Miners == 0..(MaxMiners - 1)

Results == {"pending", "nil", "err", "fakeSeal", "sealed"}

VARIABLES
    powMode,     \* epvhash.config.PowMode
    threads,     \* epvhash.threads, written by SetThreads
    randSet,     \* epvhash.rand != nil
    sc,          \* where Seal is
    nthreads,    \* the `threads` local of the current Seal frame
    mpc,         \* per miner: idle (not spawned), search, publish, exit
    tries,       \* per miner: nonce - seed in this session
    attempts,    \* per miner: attempts not yet marked on the meter
    hashrate,    \* total attempts marked on epvhash.hashrate
    abortClosed, \* the current session's abort channel is closed
    stopClosed,  \* the caller's stop channel is closed
    updates,     \* SetThreads calls so far
    result       \* what Seal returned

vars == <<powMode, threads, randSet, sc, nthreads, mpc, tries, attempts,
          hashrate, abortClosed, stopClosed, updates, result>>

minerVars == <<mpc, tries, attempts, hashrate>>

Init ==
    /\ powMode \in PowModes
    /\ threads \in ThreadValues
    /\ randSet \in BOOLEAN
    /\ sc = "start"
    /\ nthreads = 0
    /\ mpc = [m \in Miners |-> "idle"]
    /\ tries = [m \in Miners |-> 0]
    /\ attempts = [m \in Miners |-> 0]
    /\ hashrate = 0
    /\ abortClosed = FALSE
    /\ stopClosed \in BOOLEAN
    /\ updates = 0
    /\ result = "pending"

AllMinersDone == \A m \in Miners : mpc[m] \in {"idle", "exit"}

-----------------------------------------------------------------------------
(* Plausible bugs of Seal and mine, each used by the mutation check in     *)
(* place of the definition it is named after.                              *)

\* DiscardFound: the found block is sent with a plain `found <- block`.
DiscardFoundBlocking(m) == FALSE

\* Search: the attempt counter is marked but never reset.
SearchNoReset(m) ==
    /\ mpc[m] = "search"
    /\ ~abortClosed
    /\ tries[m] < MaxTries
    /\ LET a == attempts[m] + 1 IN
       /\ attempts' = [attempts EXCEPT ![m] = a]
       /\ hashrate' = IF a % HashBatch = 0 THEN hashrate + a ELSE hashrate
    /\ tries' = [tries EXCEPT ![m] = @ + 1]
    /\ mpc' \in {mpc, [mpc EXCEPT ![m] = "publish"]}
    /\ UNCHANGED <<powMode, threads, randSet, sc, nthreads, abortClosed,
                   stopClosed, updates, result>>

-----------------------------------------------------------------------------
(* Seal in a fake mode: a zero nonce and empty mix digest, no search.      *)
SealFake ==
    /\ sc = "start"
    /\ powMode \in {"fake", "fullfake"}
    /\ sc' = "returned"
    /\ result' = "fakeSeal"
    /\ UNCHANGED <<powMode, threads, randSet, nthreads, minerVars, abortClosed,
                   stopClosed, updates>>

(* Under epvhash.lock: read the thread count and seed epvhash.rand if it   *)
(* is unset; a failing crypto source returns the error.  Then the count   *)
(* is normalised, outside the lock.                                        *)
ReadThreads ==
    /\ sc = "start"
    /\ powMode = "normal"
    /\ \/ /\ randSet
          /\ sc' = "spawn"
          /\ nthreads' = EffectiveThreads(threads)
          /\ UNCHANGED <<randSet, result>>
       \/ /\ ~randSet
          /\ randSet' = TRUE
          /\ sc' = "spawn"
          /\ nthreads' = EffectiveThreads(threads)
          /\ UNCHANGED result
       \/ /\ ~randSet
          /\ sc' = "returned"
          /\ result' = "err"
          /\ UNCHANGED <<randSet, nthreads>>
    /\ UNCHANGED <<powMode, threads, minerVars, abortClosed, stopClosed,
                   updates>>

\* Start nthreads miners, each from a fresh random seed, then select.
Spawn ==
    /\ sc = "spawn"
    /\ sc' = "select"
    /\ mpc' = [m \in Miners |-> IF m < nthreads THEN "search" ELSE "idle"]
    /\ tries' = [m \in Miners |-> 0]
    /\ attempts' = [m \in Miners |-> 0]
    /\ UNCHANGED <<powMode, threads, randSet, nthreads, hashrate, abortClosed,
                   stopClosed, updates, result>>

\* `case <-stop`: close(abort).
SealStop ==
    /\ sc = "select"
    /\ stopClosed
    /\ sc' = "wait"
    /\ abortClosed' = TRUE
    /\ UNCHANGED <<powMode, threads, randSet, nthreads, minerVars, stopClosed,
                   updates, result>>

(* `case result = <-found`: the rendezvous with a miner that found a nonce *)
(* (the miner then leaves its loop), close(abort).                         *)
SealFound(m) ==
    /\ sc = "select"
    /\ mpc[m] = "publish"
    /\ sc' = "wait"
    /\ result' = "sealed"
    /\ mpc' = [mpc EXCEPT ![m] = "exit"]
    /\ abortClosed' = TRUE
    /\ UNCHANGED <<powMode, threads, randSet, nthreads, tries, attempts, hashrate,
                   stopClosed, updates>>

\* pend.Wait(), then return the result (nil after a stop).
Drain ==
    /\ sc = "wait"
    /\ AllMinersDone
    /\ sc' = "returned"
    /\ result' = IF result = "sealed" THEN "sealed" ELSE "nil"
    /\ UNCHANGED <<powMode, threads, randSet, nthreads, minerVars, abortClosed,
                   stopClosed, updates>>

\* A restart that returns nil instead of calling Seal again.
RestartReturnsNil ==
    /\ sc = "restartWait"
    /\ AllMinersDone
    /\ sc' = "returned"
    /\ result' = "nil"
    /\ UNCHANGED <<powMode, threads, randSet, nthreads, minerVars, abortClosed,
                   stopClosed, updates>>

(* After `case <-epvhash.update`: pend.Wait(), then `return epvhash.Seal`, *)
(* which starts over with new abort and found channels.                    *)
Restart ==
    /\ sc = "restartWait"
    /\ AllMinersDone
    /\ sc' = "start"
    /\ abortClosed' = FALSE
    /\ UNCHANGED <<powMode, threads, randSet, nthreads, minerVars, stopClosed,
                   updates, result>>

-----------------------------------------------------------------------------
(* SetThreads(n) while Seal waits in its select: the non-blocking send on  *)
(* the unbuffered `update` channel meets Seal's receive; Seal closes abort *)
(* and waits for its miners.                                               *)
SetThreadsNotified(n) ==
    /\ updates < MaxUpdates
    /\ sc = "select"
    /\ threads' = n
    /\ updates' = updates + 1
    /\ sc' = "restartWait"
    /\ abortClosed' = TRUE
    /\ UNCHANGED <<powMode, randSet, nthreads, minerVars, stopClosed, result>>

\* SetThreads(n) at any other time: no receiver, the signal is dropped.
SetThreadsDropped(n) ==
    /\ updates < MaxUpdates
    /\ sc # "select"
    /\ threads' = n
    /\ updates' = updates + 1
    /\ UNCHANGED <<powMode, randSet, sc, nthreads, minerVars, abortClosed,
                   stopClosed, result>>

\* The caller closes stop.
Stop ==
    /\ ~stopClosed
    /\ stopClosed' = TRUE
    /\ UNCHANGED <<powMode, threads, randSet, sc, nthreads, minerVars,
                   abortClosed, updates, result>>

-----------------------------------------------------------------------------
(* mine, `default` branch: count the attempt (marking the meter and        *)
(* resetting the count every HashBatch), hash the nonce; a nonce under the *)
(* target goes to the publish select, any other is incremented.           *)
Search(m) ==
    /\ mpc[m] = "search"
    /\ ~abortClosed
    /\ tries[m] < MaxTries
    /\ LET a == attempts[m] + 1 IN
       IF a % HashBatch = 0
         THEN /\ hashrate' = hashrate + a
              /\ attempts' = [attempts EXCEPT ![m] = 0]
         ELSE /\ attempts' = [attempts EXCEPT ![m] = a]
              /\ UNCHANGED hashrate
    /\ tries' = [tries EXCEPT ![m] = @ + 1]
    /\ mpc' \in {mpc, [mpc EXCEPT ![m] = "publish"]}
    /\ UNCHANGED <<powMode, threads, randSet, sc, nthreads, abortClosed,
                   stopClosed, updates, result>>

\* mine, `case <-abort`: mark the unmarked attempts and return.
AbortSearch(m) ==
    /\ mpc[m] = "search"
    /\ abortClosed
    /\ hashrate' = hashrate + attempts[m]
    /\ attempts' = [attempts EXCEPT ![m] = 0]
    /\ mpc' = [mpc EXCEPT ![m] = "exit"]
    /\ UNCHANGED <<powMode, threads, randSet, sc, nthreads, tries, abortClosed,
                   stopClosed, updates, result>>

\* The publish select's `case <-abort`: the found block is discarded.
DiscardFound(m) ==
    /\ mpc[m] = "publish"
    /\ abortClosed
    /\ mpc' = [mpc EXCEPT ![m] = "exit"]
    /\ UNCHANGED <<powMode, threads, randSet, sc, nthreads, tries, attempts,
                   hashrate, abortClosed, stopClosed, updates, result>>

Next ==
    \/ SealFake \/ ReadThreads \/ Spawn \/ SealStop \/ Drain \/ Restart
    \/ \E m \in Miners : SealFound(m)
    \/ \E n \in ThreadValues : SetThreadsNotified(n) \/ SetThreadsDropped(n)
    \/ Stop
    \/ \E m \in Miners : Search(m) \/ AbortSearch(m) \/ DiscardFound(m)

(* Seal and every miner are goroutines the Go scheduler keeps running:     *)
(* they are weakly fair.  The caller's stop and SetThreads are not.        *)
Fairness ==
    /\ WF_vars(SealFake \/ ReadThreads \/ Spawn \/ SealStop \/ Drain \/ Restart)
    /\ WF_vars(\E m \in Miners : SealFound(m))
    /\ \A m \in Miners : WF_vars(Search(m)) /\ WF_vars(AbortSearch(m))
                         /\ WF_vars(DiscardFound(m))

Spec == Init /\ [][Next]_vars /\ Fairness

-----------------------------------------------------------------------------
\* The types, and the hash-rate bookkeeping of the miner loop: each miner's
\* attempts stay below one batch, because Search marks the meter and resets
\* the counter when it reaches 1<<15 (HashBatch).
TypeOK ==
    /\ powMode \in PowModes /\ threads \in ThreadValues /\ randSet \in BOOLEAN
    /\ sc \in {"start", "spawn", "select", "wait", "restartWait", "returned"}
    /\ nthreads \in 0..MaxMiners
    /\ mpc \in [Miners -> {"idle", "search", "publish", "exit"}]
    /\ tries \in [Miners -> 0..MaxTries]
    /\ attempts \in [Miners -> 0..(HashBatch - 1)]
    /\ hashrate \in Nat
    /\ abortClosed \in BOOLEAN /\ stopClosed \in BOOLEAN
    /\ updates \in 0..MaxUpdates /\ result \in Results

(* Once the caller closes stop, Seal returns, even when a miner is         *)
(* blocked publishing a found block or a thread-count change restarts it: *)
(* the publish select also waits on abort, and restarts are finite.       *)
StopEndsSeal ==
    stopClosed ~> (sc = "returned")

(* Seal keeps the promise of AbstractSeal whatever the miners, restarts   *)
(* and thread-count changes do: it returns once, a fake seal only in a     *)
(* fake mode, and no block (nil) only after the caller closed stop, never  *)
(* because a restart or a miner lost the result.                           *)
AS == INSTANCE AbstractSeal
        WITH mode <- powMode, stopped <- stopClosed,
             outcome <- IF sc = "returned" THEN result ELSE "pending"
ImplementsAbstractSeal == AS!Spec

(* Spec 4.7: when the configured worker count changes mid-search, the      *)
(* search restarts with the new count: while Seal waits in its select,    *)
(* its miners number what the configuration currently says.               *)
ThreadCountHonoured ==
    (sc = "select" /\ powMode = "normal") => nthreads = EffectiveThreads(threads)

(* Spec 4.7 (seal): on abort each worker reports its remaining partial     *)
(* batch before exiting.  A miner that leaves its loop while abort is      *)
(* closed, from the search loop or from the publish select of mine, adds   *)
(* every attempt it had not yet marked to the hash-rate meter.             *)
PartialBatchReported ==
    [][\A m \in Miners :
         (abortClosed /\ mpc[m] \in {"search", "publish"} /\ mpc'[m] = "exit")
            => hashrate' = hashrate + attempts[m]]_vars
=============================================================================
