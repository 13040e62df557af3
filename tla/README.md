# TLA+ models of the epvhash consensus engine

This directory holds TLA+ models of the proof-of-work engine in `src/`, the
TLC configurations that check them, and `PROJECT.json`. `PROJECT.json` maps
every model definition to the source lines it translates, and lists the runs,
the mutants, the findings and the hazards.

## 1. Inventory

### Components

| Component | Source | State it keeps | Operations |
|---|---|---|---|
| BatchVerificationPipeline | `agreement/epvhash/consensus.go` 64-138 | per call: `inputs` (unbuffered), `done` (capacity W), `errors[]`, `errorsOut` (capacity N), `abort`; dispatcher locals `in`, `out`, `checked[]` | `VerifyHeaders`, the worker loop, `verifyHeaderWorker` |
| HeaderValidator | consensus.go 46-62, 188-249; `agreement/misc/forks.go` | none (reads the chain) | `VerifyHeader`, `verifyHeader`, `VerifyForkHashes` |
| DifficultyCalculator | consensus.go 251-384 | none (pure) | `CalcDifficulty`, Byzantium/Homestead/Frontier rules |
| SealVerifier | consensus.go 386-427 | epoch caches (external) | `VerifySeal` |
| UncleValidator | consensus.go 140-186 | none (reads the chain) | `VerifyUncles` |
| RewardAccumulator | consensus.go 429-471 | account balances (external StateDB) | `Prepare`, `Finalize`, `accumulateRewards` |
| MiningEngine | `epvhash/sealer.go` | engine: `threads`, `rand`, `lock`, `update`, `hashrate`; per call: `abort`, `found`, `pend` | `Seal`, `mine`; `SetThreads` lives outside `src/` |
| Dashboard | `panel/dashboard.go` | `conns`, `charts`, `quit`, `wg`, `lock` | `Start`, `Stop`, `apiHandler`, `collectData`, `collectLogs`, `sendToAll` |
| vendored code | `vendor/...` | toml parser, termui bar chart, x/text table generator (its `stringSet`: slice, `sorted`, `frozen`, `update`), Windows terminal calls | outside the consensus core; `stringSet` is modelled |

### How the components interact

- A new header goes through `VerifyHeader` (one header) or `VerifyHeaders`
  (a batch). Both call `verifyHeader`, which calls `CalcDifficulty`,
  `VerifySeal` and the fork checkers.
- `VerifyUncles` walks the chain and calls `verifyHeader` for each uncle.
- `Finalize` calls `accumulateRewards` on the external state.
- `Seal` runs miner goroutines against the external PoW hash. It listens to
  the caller's `stop` and to the engine's `update` channel, which
  `SetThreads` signals.
- The dashboard runs separately from the engine. It has two collector
  goroutines and one goroutine per websocket client.
- Goroutines communicate only through channels. The exceptions are the
  `errors` slice (written by workers, read by the dispatcher after the
  index arrives on `done`), `db.charts` and `db.conns`.

### The hard parts

- **Batch pipeline.** Workers finish in any order, and the dispatcher must
  still deliver results in input order. The dispatcher's `select` picks at
  random between feeding, collecting and abort. After an abort, the `done`
  buffer can be full.
- **Seal.** `stop`, `found` and `update` can be ready at the same time. A
  thread-count change can come before Seal listens for it. A miner that has
  found a nonce must not block on the unbuffered `found` channel. A restart
  must drain every miner before it recurses.
- **Consensus arithmetic.** Integer division, the difficulty floor, the
  difficulty bomb and its Byzantium delay, strict versus non-strict bounds
  (timestamps, gas limit), and uint64 wrap-around at genesis.
- **Uncles across blocks.** The 7-ancestor window must stop an uncle from
  being included twice. It must also keep the uncle reward positive.
- **Dashboard.** The `Stop`/quit handshake, closing a slow client, and
  reading the charts without the lock.

### What makes each component correct

- Pipeline: results come out in input order with each header's own verdict.
  All N results arrive unless the caller aborts. No goroutine outlives the
  call.
- Seal: it returns once stopped. It waits for its miners before it returns or restarts.
  It honours the current thread count. A stopped call returns no block.
  Every miner that exits on abort reports its partial batch to the meter.
- Header and uncle rules: checks run in the documented order. Boundaries
  behave exactly (equal timestamp rejected, the gas bound itself rejected).
  No uncle is included twice, and no ancestor is ever an uncle.
- Difficulty: the result is never below the floor, and a longer Δt never
  raises it before the bomb term. The bomb is 0 or 2^(period-2).
- Rewards: an uncle gets R·(8-d)/8 with 1 ≤ d ≤ 6. The includer gets R/32
  per uncle.

## 2. Plan

Modules, most important behaviour first:

1. `BatchVerify` (done): the pipeline. It refines `BatchResults` (done), the
   abstract promise: ordered, monotone results, all of them unless cancelled.
2. `Sealer` (done): one Seal call with its miners, stop, restart and
   SetThreads.
3. `DifficultyRules` and `Difficulty` (done): `CalcDifficulty` and the three rules as integer operators
   (RECURSIVE for the power of two). These are checked against the spec's
   formulae over bounded (parent difficulty, Δt, number) inputs. Numbers stay
   below 2^31 (TLC's integer width).
4. `HeaderRules` (done): `verifyHeader`, `VerifyHeader`, `VerifySeal` and
   `VerifyForkHashes` as one ordered check with early returns. The inputs are
   small header records. `Prepare` is in `Difficulty`. `BatchVerify` uses
   this module's `verifyHeader` for each worker's verdict (done).
5. `ChainUncles` (done): a chain that grows one block at a time, with side headers
   as uncle candidates. `VerifyUncles` is the guard and `Finalize` and
   `accumulateRewards` are the effect. It checks NoUncleTwice,
   UncleNotAncestor and UncleRewardPositive across a chain longer than the
   7-block window.
6. `Dashboard` (done): Start/Stop, clients, the collectors and sendToAll.
7. Further Sealer work: `AbstractSeal` (done), the contract of one call,
   which `Sealer` refines. Two concurrent Seal calls on one engine are not
   modelled (see section 4).
8. `StringSet` (done): the vendored table generator's `stringSet`, which
   refines (or fails to refine) the set it is used as, `AbstractStringSet`.
9. The toml table builder and the termui bar chart: not modelled (see
   section 4).

## 3. Modules and runs so far

### `BatchResults` (abstract)

- Variables: `results` (the stream) and `cancelled`.
- `Deliver` appends the next k expected outcomes. `Cancel` closes the abort
  channel.
- Weak fairness applies to delivery while not cancelled.

### `BatchVerify` (consensus.go 64-138)

- Each worker has a program counter: `recv` (in `range inputs`), `busy`,
  `send` (on `done`) and `exit`.
- The dispatcher is `rpc`, with `in`, `out` and `checked`.
- `Dispatch` is the `inputs <- in` rendezvous.
- `Collect` is the `<-done` case together with the flush loop. The flush is
  local to the dispatcher and `errorsOut` never fills, so it is one step.
- `Cancelled` is the `<-abort` case plus the deferred `close(inputs)`.
- `Verify` writes `errors[index]`. `Report` is `done <- index` and blocks at
  capacity. `WorkerExit` ends the range. `Abort` is the caller.
- A header is a `HeaderRules` record with a hash and a parent hash.
  `VerifyHeaderWorker` is `verifyHeaderWorker`: the parent of the first
  header is the chain's `GetHeader(parentHash, number-1)` and of any other
  the previous header only if the hashes link. A header the chain holds
  passes. Every other header gets `HeaderRules`' `verifyHeader` (through
  `HR == INSTANCE HeaderRules`, whose variables are unused placeholders).
- `Expected`, the stream the caller must read, is built from the specs,
  not from the code: the parent by hash (4.4), and the error of the first
  rule of 4.3 the header breaks (`HeaderRules!SpecRulesOf`). So
  InOrderDelivery checks the pipeline's order and the verdict chain at
  once.
- The fast path (FullFake mode or no headers) is the other branch of `Init`.
- Fairness: weak fairness on every goroutine step. The Go scheduler runs
  every runnable goroutine. The caller's abort is not fair.

| Run | cfg | Result | What it shows |
|---|---|---|---|
| batch_verify | MCBatchVerify.cfg | pass | InOrderDelivery (each position gets the spec 4.3/4.4 verdict, in order), ImplementsBatchResults (refinement with liveness), DrainWithoutAbort |
| batch_abort_leak | MCBatchVerifyAbortLeak.cfg | violation | a worker blocks forever on `done` after an abort |

The model also reaches a dispatch or a flush after the caller closed
`abort`: the dispatcher's select picks at random among ready cases, so
spec 4.4's "no more tasks are dispatched" does not hold of the code. That
costs wasted verification only. The results the caller reads are still right
(ImplementsBatchResults), so no run is spent on it.

Bounds: 4 headers on a chain holding only genesis, on 3 workers. The
headers are a valid child of genesis, a child with its parent's timestamp
(errZeroBlockTime), a header whose parent hash names nothing
(ErrUnknownAncestor), and a child of that header using more gas than its
limit (errGasUsed). The last one shows that an unknown parent of header i-1
does not stop header i from being checked against it. Several workers make
out-of-order completion possible and let `done` (capacity 3) fill up. The
fourth header is the task in flight while `done` is full. Because the
verdicts differ, any mix-up of positions shows. The run has 21,564 states;
the abort-leak run keeps 2 workers, which is enough for its counterexample.

### `Sealer` (sealer.go)

- `sc` is where Seal is: `start`, `spawn` (threads read, miners not yet
  listening), `select`, `wait` (pend.Wait), `restartWait`, `returned`.
- Each miner is `idle`, `search`, `publish` (blocked in the found/abort
  select) or `exit`.
- `ReadThreads` covers the locked read, the rand seeding and its error
  return, and the normalisation of 0 and negative counts.
- `SealStop`, `SealFound` and `SetThreadsNotified` are the three cases of
  the select.
- `Drain` and `Restart` follow `pend.Wait()`.
- `Search`, `AbortSearch` and `DiscardFound` are `mine`. `Search` includes
  the batched hash-rate mark.
- `SetThreads` is modelled from the spec: it writes the count, then does a
  non-blocking send on the unbuffered `update` channel. The send meets a
  receiver only while Seal is in its select.
- Fairness: Seal and the miners are weakly fair. Stop and SetThreads are
  not.
- `AbstractSeal` is what one call promises (spec 4.7): it returns once; a
  fake seal only in a fake mode; otherwise a sealed block, the seed
  source's error, or no block only after the caller closed `stop`. The
  mapping shows the outcome once `sc` is `returned`, `pending` before.

| Run | cfg | Result | What it shows |
|---|---|---|---|
| seal | MCSealer.cfg | pass | TypeOK (the hash-rate counter stays below one batch), StopEndsSeal, ImplementsAbstractSeal: through any restart, Seal returns no block only when stopped |
| seal_stale_threads | MCSealerThreadCountHonoured.cfg | violation | a SetThreads before the select is lost, and the search keeps the old count |
| seal_partial_batch | MCSealerPartialBatch.cfg | violation | PartialBatchReported: a miner that found a nonce and meets the abort in its publish select (line 141) exits without marking its partial batch on the hash-rate meter; spec 4.7 says every worker reports it on abort |

The model also reaches a Seal called with `stop` already closed that returns
a sealed block. A miner may be ready to publish as Seal enters its select, and
Go picks among ready cases at random. Spec 8 says such a call returns no
block. Callers discard what a stopped Seal returns, so no run is spent on it.

Bounds:

- 3 CPUs, with thread values {-1, 0, 1}: disabled, all CPUs, and one miner.
  These cover the normalisation and a zero-miner, a one-miner and a
  three-miner session; three miners can find nonces together and race to
  publish.
- 3 nonces per miner and session, enough to reach the publish step and a
  hash-rate mark. HashBatch 2 stands for 1<<15.
- 2 thread-count changes, so a restarted search can be restarted again
  and a change can be dropped between two sessions.
- Fake and normal mode.
- The run has 486,010 distinct states. The two violation runs keep 2 CPUs
  and one change, enough for their counterexamples.

### `DifficultyRules` and `Difficulty` (consensus.go 251-384, 429-436)

- `DifficultyRules` translates `CalcDifficulty` and the three fork rules as
  integer operators. `big.Int` `Div` is Euclidean, which matches `\div` for
  the positive divisors used. `Pow2` is the RECURSIVE `y.Exp(big2, y)`.
- `Difficulty` models `Prepare`: it looks up the parent, then either returns
  `ErrUnknownAncestor` or sets the difficulty.
- `SpecDifficulty` is a separate transcription of spec 4.1, used as the
  reference.

| Run | cfg | Result | What it shows |
|---|---|---|---|
| difficulty | MCDifficulty.cfg | pass | MatchesSpecRule (the spec 4.1 rule includes the floor), SlowerNeverHarder |

Bounds:

- Parent numbers sit on both sides of the Homestead and Byzantium forks and of
  the bomb periods (at 99998 and above the Byzantium delay of 2999999).
- 99999, 199999 and 1199999 are the last parents before a Frontier or
  Homestead period boundary: their child's `(number+1)/100000` is one more
  than the parent's own number gives, so an off-by-one in the period count
  breaks MatchesSpecRule.
- Difficulties are the floor, 1000000 and 2^28, with and without uncles.
- Timestamp gaps hit every step of the `Δt/9` and `Δt/10` quotients, the
  duration limit and the -99 clamp.
- The run has 3168 states.

### `HeaderRules` (consensus.go 46-62, 188-249, 386-427; forks.go)

- `verifyHeader` is the early-return chain as nested IFs, in the code's
  order.
- The gas fields are `GasBits` wide (8 in the runs, 64 in the code).
  `ToSigned`, `WrapSigned` and `ToUnsigned` are Go's `int64()`, signed
  wrap-around and `uint64()`. `GasLimitBoundDivisor` and `MinGasLimit` are
  scaled to 4 and 5.
- `VerifySeal` takes the digest match and the hash result as header fields,
  because hashimoto is external. The DAO rule lives outside `src/` and is the
  `daoOK` field.
- The actions are `VerifyHeader` (full-fake, known header, missing parent,
  full check) and `VerifyUncleHeader` (the call in `VerifyUncles`).
- `SpecRules` lists the spec 4.3/4.2 rules in their order, with unbounded
  arithmetic. `FirstBrokenRule` uses `SelectInSeq` from SequencesExt.

| Run | cfg | Result | What it shows |
|---|---|---|---|
| header_rules | MCHeaderRules.cfg | pass | FirstFailureReported: the error returned is that of the first rule broken, and nil only if none is |
| header_gas_wrap | MCHeaderRulesGasWrap.cfg | violation | a genesis parent with gas limit ≥ 2^(GasBits-1) makes the int64 difference wrap, so a child far outside the bound is accepted |

Bounds:

- Every header field takes a value on each side of its check: the extra size,
  equal and later times, the future limit, the right and the wrong
  difficulty, and gas limits at the bound, one past it, the minimum and
  above the cap.
- It also covers gasUsed of limit and limit+1, PoW results of target and
  target+1, numbers of parent+1 and parent+2, the EIP150 hash and another,
  and known or unknown headers.
- Parent numbers 0 and 3 put headers inside and outside the 2-epoch range and
  at the fake-fail height.
- The run has 829,440 states, of depth 2: a call is a single step.
- `CHECK_DEADLOCK FALSE` is used because a call ends when it returns.

### `ChainUncles` (consensus.go 140-186, 438-471)

- `chain` is the canonical chain from genesis. Each block carries its
  `uncles`. `side` holds the headers other miners sealed on any chain block.
  `balance` is what each header's coinbase has been credited.
- `ImportBlock` proposes a block on the head with an uncle list. It runs
  `VerifyUncles`: the maxUncles bound, then the `Walk` of at most 7
  `GetBlock` lookups. The number is decremented as a NumberBits-wide uint64,
  so below genesis it wraps and the lookup fails. The walk is followed by
  `CheckUncles`, the per-uncle loop. If the verdict is nil, the block is
  appended and `AccumulateRewards` credits the rewards, as `Finalize` does.
  Otherwise only `verdict` changes.
- `MineSide` is the environment: another miner's header on a chain block,
  which `verifyHeader` accepts or not.
- Uncle lists are every list of up to two candidates (side headers and chain
  blocks, repeats allowed) and one list of three. The list of three is
  rejected before its contents are read.

| Run | cfg | Result | What it shows |
|---|---|---|---|
| chain_uncles | MCChainUncles.cfg | pass | TypeOK, NoUncleTwice, UncleNotAncestor, UnclePaidPartly |

Bounds:

- Chains have 10 blocks. Block 8 walks 7 ancestors and stops at the bound
  before genesis, and shorter chains stop at the wrapped lookup. Block 9
  can propose a side header mined on genesis, an uncle 8 blocks back whose
  reward R*(8-8)/8 would be zero: VerifyUncles must reject it.
- There are 2 side headers. That allows two uncles in one block, and an
  uncle reused by a later block.
- The Byzantium block is 5, so both rewards occur.
- `VIEW <<chain, side>>` merges states that differ only in the last
  rejection's verdict. `balance` and `nextHash` are functions of chain and
  side. The run has 82,773 distinct views.
- `CHECK_DEADLOCK FALSE`: the chain stops growing only at the height bound.

### `Dashboard` (panel/dashboard.go)

- `Init` is `New`: every chart is `emptyChartEntries(SampleLimit)`, a
  sequence of empty samples (the sample times are left out).
- `Start` runs `wg.Add(2)` and both collectors, then `net.Listen`, which
  may fail: `listener` becomes `open` or `failed`. A failed Start returns
  its error with the collectors running; the node does not call Stop on a
  service whose Start failed, so `StopCall` needs an open listener.
- The collectors are `cpc` (`idle` before Start, `loop` or `exit`) with `ticks`, their count of
  refreshes. `Tick` is the `time.After` case of collectData or collectLogs.
  collectData appends one sample to every chart (`NextCharts`) and both
  call `sendToAll`. `Quit` is the `<-db.quit` case: it answers on `errc`,
  returns and runs `wg.Done`.
- `SendToAll` does, under the lock, a non-blocking send to every registered
  client. A client whose `msg` buffer is full has its connection closed.
- Each client is an apiHandler call. Its reader `rpc` goes through:
  - `Accept`, while the listener is open;
  - `Spawn` (`wg.Add(1)` and the writer goroutine);
  - `Greet` (the initial message);
  - `Register` (into `db.conns`, under the lock);
  - `ReadFail` (`close(done)` once the connection is closed or the peer is
    gone);
  - `Unregister` (the deferred delete).
- The writer `wpc` runs `WriterSend` or `WriterDone`. A failed send closes
  the connection and returns. Both exits run `wg.Done`.
- `PeerLeave` is the browser going away.
- Stop is `spc`:
  - `StopCall` closes the listener;
  - the two `Quit` handshakes follow;
  - `StopClose` closes the registered connections;
  - `StopWait` is `wg.Wait()`.
- `wg` is the wait-group counter. Every step under `db.lock` is one action.
- Fairness: weak fairness on the collectors' quit case, on each client's
  reader and writer steps, and on Stop's own steps. The Go scheduler runs
  every runnable goroutine. The collectors' ticks, new connections, the
  browsers and the call of Stop are the environment, and nothing forces them.

| Run | cfg | Result | What it shows |
|---|---|---|---|
| dashboard | MCDashboard.cfg | pass | WaitGroupCountsGoroutines: `wg` always equals the collectors in their loop plus the writers running, ClientsLeaveWhenClosed: a client whose connection is closed ends both goroutines and leaves `db.conns` |
| dashboard_stop_hang | MCDashboardStopHang.cfg | violation | StopEnds: a client accepted before Stop that registers after Stop's closing loop is never closed, so its writer never calls `wg.Done` and Stop blocks in `wg.Wait` |

Bounds: 2 clients and buffers of 2 messages instead of 128. Charts hold 2
samples instead of 200. Each collector refreshes at most twice, which is
enough to fill a buffer nobody drains. The run has 129,086 distinct states.

Three further observations, not run:

- Line 335 builds the DiskWrite chart from the DiskRead chart just updated
  (`NextCharts`). The DiskWrite chart therefore shows DiskRead's history with
  a DiskWrite sample at the end. The same line makes DiskWrite share
  DiskRead's backing array whenever DiskRead was just reallocated with spare
  capacity; the next tick's in-place append to DiskRead then overwrites
  DiskWrite's last slot, also inside an initial message already queued for
  a client (hazard at line 335). The model keeps charts as values, so this
  aliasing is listed, not checked.
- A connection accepted before the listener closed can reach `wg.Add(1)`
  after `wg.Wait` returned (hazard at line 189).
- After a failed listen (line 110) the two collectors keep running and
  nothing ever sends on `db.quit`: the model reaches `listener = "failed"`
  with both collectors in their loop forever.

### `AbstractStringSet` and `StringSet` (vendored x/text `maketables.go` 138-275)

- `AbstractStringSet` is how the table generator uses a `stringSet`: as a
  set that can be filled, frozen, looked up and joined. Changing a frozen
  set, `index` of a missing string and `join` of an empty or mixed-width set
  panic.
- `StringSet` keeps the Go slice as its backing array `arr` (the array's
  length is the capacity) plus `n` = `len(ss.s)`. This keeps what reslicing
  and `copy` leave behind.
- `Append1` is `append`: in place while there is capacity, otherwise into an
  array of double the capacity whose spare slots hold "".
- `CompactOf` is `compact`: sort, move each new string down, reslice to
  `a[:k+1]`.
- `Search` is `sort.SearchStrings`' binary search, step for step, so it
  also gives what the search returns on an unsorted slice.
- Each method is an action: `add`, `parse`, `freeze`, `sortFunc`, `remove`,
  `find`, `index`, `replace`, `slice`, `updateLater` and `join`.
- `panicked` is `log.Panic` or a runtime panic, which end the generator.
- Strings are numbers in `sort.Strings` order. `Rank` is the index order
  `writeSortedMap` sorts by.

| Run | cfg | Result | What it shows |
|---|---|---|---|
| stringset | MCStringSet.cfg | pass | TypeOK (with `sorted => frozen`), RemoveLeavesNoCopy |

`ImplementsSet` (`StringSet` refines `AbstractStringSet`) is stated but no
run checks it, nor a weaker "find answers membership" property: both are
broken by the resurrection below, in every configuration that empties a set.
Checked with the `stringset` constants and no `VIEW`, TLC finds it violated.
`compact` reslices `a[:k+1]` with k = 0 on an empty slice. On a set nothing
was added to, `find` panics with no backing array. After `remove` emptied a
set, the next compact reslices the removed string back in, so the set
answers that it holds a string it no longer has (maketables.go line 204).

The checked `sorted => frozen` is why lookups on unfrozen sets are sound:
every lookup recompacts. On a frozen set, `replace` and `sortFunc` reorder
the slice while `sorted` stays true, and the binary search can then miss.
Refinement covers this too. The generator calls neither on a frozen set.

Bounds: 3 strings of two widths, at most 4 in the slice. That takes the
backing array through capacities 1, 2 and 4, and `join` meets both a
uniform and a mixed width. Parse calls have up to 2 words. `VIEW` leaves out
`update`, which no property reads. The run has 33,152 distinct states.
`CHECK_DEADLOCK FALSE`: a panic ends the generator.

## 4. Not modelled (yet), and why

- **Not in this repository.** The PoW hash (`hashimoto*`), the epoch
  datasets and caches, the chain reader and the StateDB are external
  collaborators. The hash is a nondeterministic hit or miss.
- **Garbage collection.** `runtime.KeepAlive` and the finalizers are not
  modelled.
- **Vendored code.** The vendored packages sit outside the consensus core and
  are configuration, UI or generator code. Only `stringSet` of the
  x/text generator is modelled (plan item 8). The rest of the generator
  (CLDR parsing, writing Go source) has no state beyond those sets. The
  toml package's `parse.go` holds only the callbacks (`SetTable`,
  `SetArrayTable`, `StartInlineTable`, `AddKeyValue`, ...); the order in
  which they are called is fixed by the PEG-generated parser, which is not
  in the repository, so a model would have to invent its environment. The
  termui bar chart computes layout and draws; it has no state a property
  could speak about. The Windows terminal calls are system-call wrappers.
- **Dashboard.** `webHandler` serves files and keeps no state. The metric
  arithmetic is left out: a sample is named by its chart. Slice backing
  arrays are not modelled (hazard at line 335).
- **Concurrent Seal calls.** Two Seal calls on one engine (engines built
  with `NewShared` all delegate to one) race on `epvhash.rand` outside the
  lock (hazard at sealer.go:73). That is a data race whose outcomes (equal
  seeds, a corrupted generator) the model cannot tell apart, because the
  search is already a nondeterministic hit or miss. The other effect, a
  SetThreads signal that reaches only one of the calls, is the stale thread
  count that `seal_stale_threads` already shows for a single call.
- **Big-integer truncation.** `header.TimeMS.Uint64()` in `CalcDifficulty`
  truncates uncle times above 2^64. The runs keep times small, so this is
  listed as a hazard only.
