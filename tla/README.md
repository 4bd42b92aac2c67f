# Verification models of the Bitcoin indexer

This directory holds TLA+ models of the Bitcoin part of the multichain
indexer. That part fetches blocks over Bitcoin Core JSON-RPC, enriches their
inputs with the outputs they spend, and turns every transaction into
normalised transfers with a fee. The models cover the code under `src/`:

- `internal/indexer/bitcoin.go`;
- `internal/rpc/bitcoin/{tx,types}.go`;
- the façade and fee code in `src/unnamed/part_002` and `part_003`;
- `ExtractAddresses` in `part_001`.

TLC checks the models on small instances. TLAPS proves the most important
safety properties for every value of the constants.

## The system and how its parts interact

```
GetBlocks(from,to) ─► GetBlocksByNumbers(nums)         bitcoin.go:95-167
                        producer ─► chan job (cap 2*workers) ─► workers
                        each worker: GetBlock(num) ─► blocks[index]
                      wg.Wait; ctx.Err()?; first failed slot
GetBlock(height)                                        bitcoin.go:49-93
  Failover.ExecuteWithRetry(closure)                    (not in src/; spec 4.3)
    getblockhash; GetBlockWithPrevOut (getblock 3,      part_002:84-98
      itself falling back to getblock 2); on error GetBlockVerbose
  if no tx has prevouts: ExecuteWithRetry(EnrichBlockWithPrevOuts)
    one goroutine per enrichable tx, semaphore of 10,   part_002:102-159
    getrawtransaction per vin, write vin.PrevOut, wg.Wait
  processBlock: CalculateFee + ExtractTransfers per tx  bitcoin.go:191-227,
                                                        part_003:14-36, tx.go
```

- `GetBlocksByNumbers` runs many `GetBlock` calls concurrently.
- Each `GetBlock` may start up to ten enrichment goroutines.
- Each of them issues RPCs that can fail.
- The caller's context can be cancelled at any point.

## Modules

| Module | Models | Kind |
|---|---|---|
| `BitcoinTx` | `types.go` shapes, `ExtractAddresses`, `IsCoinbase`, `HasPrevOutData`, the totals, `CalculateFee`, `ExtractInputAddresses`, `GroupOutputsByAddress`, `ExtractTransfers` | pure operators |
| `BitcoinGetBlock` | one `GetBlock` call: fetch closure, failover attempts, both fallbacks, enrichment goroutines, semaphore, WaitGroup, `processBlock`, cancellation | state machine |
| `GetBlockAbstract` | what one `GetBlock` call promises (spec.md 4.4-4.6), with no RPC, retry or goroutine | abstract spec |
| `BlocksByNumbers` | `GetBlocksByNumbers`: producer, bounded channel, workers, join, return | state machine |
| `BlocksByNumbersAbstract` | what `GetBlocksByNumbers` promises (spec.md 4.7, 5), with no goroutines | abstract spec |
| `GetBlocksRange` | `GetBlocks`: the range check and the uint64 loop building the height list | state machine |
| `BitcoinGetBlockProofs` | TLAPS proofs for `BitcoinGetBlock`, including the refinement | proofs |
| `BlocksByNumbersProofs` | TLAPS proofs for `BlocksByNumbers`, including the refinement | proofs |
| `GetBlocksRangeProofs` | TLAPS proofs for `GetBlocksRange`: the range contract, and the endless loop at the largest height | proofs |
| `MC_BitcoinGetBlock`, `MC_BlocksByNumbers`, `MC_GetBlocksRange` | TLC instances | models |

### BitcoinTx

- Amounts are integers in satoshis. The code parses float64 values and
  converts each with `decimal.NewFromFloat`. That conversion is exact for
  every amount below 2^53 satoshis, and the whole supply is below that.
- A vin keeps four things: whether it is coinbase, its txid, its vout index
  and its prevout (`NoPrevOut` for nil).
- A scriptPubKey keeps its `address` and its `addresses`.
- The Go `range` over the `outputsByAddress` map has an unspecified order,
  so `ExtractTransfers(tx, fee, order)` takes that order as an argument, and
  `MapOrders(tx)` is the set of all orders.
- `FeeAt` is the position of the transfer that gets the fee. It is the first
  visited output that is not change, in both branches of the code (with no
  input addresses, nothing is change).

### BitcoinGetBlock

The variables are:

- `pc`: the place in `GetBlock`;
- `attempt`: the failover attempt;
- `calls`: the getblock calls in this attempt;
- `blk`: the block;
- `task[t]` and `cursor[t]`: for each tx, its goroutine and that goroutine's vin index;
- `sem`: the semaphore slots held;
- `ctxDone`: whether the context is cancelled;
- `result`: the transfers per tx.

The actions are:

- `GetBlockHash`, `GetBlockWithPrevOut`, `FacadeFallback` and `GetBlockVerbose`.
  - Each RPC may succeed (unless the context is done) or fail.
  - A failure goes to the next fallback, or to `AttemptFailed`, which is the
    failover loop from spec.md 4.3. That loop runs at most MaxRetries + 1
    attempts and never retries after cancellation.
  - A verbosity-3 block has the prevout attached to every resolvable vin
    (`V3Block`). A verbosity-2 block has none.
- `StartEnrich`:
  - it enriches when no tx has prevout data (`blockHasPrevOutData`);
  - otherwise it processes the block;
  - it also covers the case where the failover cannot run the enrichment at
    all (the error is only logged), and the block is then processed as it is.
- `Acquire(t)`, `FetchPrevOut(t)` and `Release(t)` are one goroutine: the
  semaphore send, one iteration of the vin loop, and the deferred release
  with `wg.Done`.
  - `FetchPrevOut` skips coinbase vins and vins with an empty txid.
  - It may fail its RPC (the error is only logged).
  - Otherwise it writes `PrevTx[txid][vout]` when that index exists.
- `FinishEnrich` is `wg.Wait` returning, followed by `processBlock`.
- `Cancel` cancels the context.
- `Returned` is the stutter after `GetBlock` has returned.

`Phase` maps `pc` to the phase of the contract `GetBlockAbstract`:

- `hash`, `v3`, `v3fb` and `v2` are the fetch;
- `enrich` and `wait` are the enrichment;
- `done` and `failed` are the two ends.

`ImplementsAbstract` instantiates `GetBlockAbstract` with this phase, the
two getblock answers as `Answers` and `BlockTransfers` as `Process`.

### GetBlockAbstract

This module is the contract of one call. Its state is `phase`, `blk` and
`result`. Its actions are:

- `Fetch`: the block becomes one of the getblock answers;
- `Fail`: the call gives up before any answer;
- `Fill(t, j)`: a vin still without prevout, whose spent output exists,
  receives that output;
- `Done`: the block is processed as it now is.

The contract has no retries, fallbacks, semaphore or goroutines, and it
does not force any prevout to be filled, because enrichment may fail. In
the implementation, a failed RPC, a fallback, an acquire, a release and a
cancellation are all contract stutters.

### BlocksByNumbers

The variables are:

- `next`: the producer's loop index;
- `prodDone`: the producer has returned and closed the channel;
- `chan`: the buffered jobs;
- `wstate` and `wjob`: each worker's state and job;
- `blocks`: the result slice;
- `ctxDone`: whether the context is cancelled;
- `ret`: what the call returned.

The actions are:

- `Send`: one ready select case. It may also fire after cancellation,
  because Go picks at random among the ready cases.
- `Abort`: the `ctx.Done` case.
- `CloseJobs`: the end of the loop.
- `Take(w)`: receiving a job in the range loop.
- `Finish(w)`: `GetBlock` returned and wrote its slot, with or without an error.
- `Exit(w)`: the range loop ends on a closed, drained channel.
- `Return`: `wg.Wait` returned. The call then returns `ctx.Err()` if the
  context is done, else the first failed slot.
- `Cancel` and `Returned`.

The `len(nums) = 0` early return is excluded by the assumption `Len(Nums) > 0`.

`ImplementsAbstract` instantiates `BlocksByNumbersAbstract` with
`results <- blocks`. The refinement mapping is the identity on `ctxDone` and
`ret`. The producer, the channel and the workers are hidden. A worker's
`Finish` is the abstract `Fetch` of its slot. `Return` is `ReturnCancelled`
or `ReturnResults`. Every other step is a stutter.

### BlocksByNumbersAbstract

This is the contract of `GetBlocksByNumbers`, with only three variables:

- `results`: the slots;
- `ctxDone`: whether the context is cancelled;
- `ret`: what the call returned.

The actions are:

- `Fetch(i)`: fills an empty slot with its own height, as a block or as an
  error, in any order;
- `Cancel`;
- `ReturnCancelled`: returns `ctx.Err()` once cancelled;
- `ReturnResults`: returns only when every slot is filled. It returns nil,
  or the error of the lowest failed slot.

`Spec` adds weak fairness on every `Fetch` and on the return.

### GetBlocksRange

This module models `GetBlocks` (bitcoin.go:95-104). Heights are
`Width`-bit unsigned integers (64 in the code), and `n++` is
`(n + 1) % 2^Width`.

The variables are:

- `from` and `to`: the arguments, any pair in `Heights`;
- `pc`: the place in `GetBlocks`;
- `n`: the loop variable;
- `nums`: the heights appended so far.

The actions are:

- `Start`: the `to < from` error return, or the loop's start;
- `Loop`: one iteration under `LoopCondition` (`n <= to`);
- `LoopEnd`: the loop exits and `GetBlocksByNumbers` is called;
- `Returned`.

The list that `GetBlocks` hands on is the `Nums` constant of `BlocksByNumbers`.

## Runs

| Run | cfg | Expect | What it shows |
|---|---|---|---|
| `getblock_pass` | `MC_BitcoinGetBlock.cfg` | pass | see below |
| `blocks_by_numbers_pass` | `MC_BlocksByNumbers.cfg` | pass | see below |
| `getblock_strict_fee` | `..._StrictFeePolicy.cfg` | violation | partial-total fee (spec.md 4.6) |
| `getblock_amount_conservation` | `..._AmountConservation.cfg` | violation | multi-address double counting (spec.md 8) |
| `getblock_facade_double_fallback` | `..._AtMostTwoGetblockCalls.cfg` | violation | three getblock calls per attempt (spec.md 4.4) |
| `getblocks_range_pass` | `MC_GetBlocksRange.cfg` | pass | `RangeContract` below the largest height |
| `getblocks_range_wrap` | `MC_GetBlocksRange_LoopWithinRange.cfg` | violation | endless loop at the largest height (spec.md 4.7) |

`getblock_pass` checks:

- `TypeOK`;
- `SemaphoreBound`: the slots held equal the running goroutines, and never
  exceed the capacity;
- `PrevOutMatchesSpentOutput`: every prevout is the output its vin spends;
- `FeeNeverOverstated`: an emitted fee is at most the true fee;
- `FeeAttribution`: for every map order, exactly one transfer carries the
  whole fee, to a non-change address, when one exists; otherwise none does;
- `NoWriteAfterProcess` (action property): the block does not change once
  it has been processed;
- `Termination` (liveness);
- `ImplementsAbstract`: every behaviour is a behaviour of
  `GetBlockAbstract!SafetySpec`.

TLC checks only the safety part of the contract. The fairness part would
make TLC evaluate `ENABLED Done`, and that enumerates every result
`processBlock` may give under every map order. On this block that takes
longer than the run's time budget. `Termination` already states that the
call ends.

`blocks_by_numbers_pass` checks:

- `TypeOK`, which includes that the channel holds at most 2 * workers jobs;
- `ReturnContract`: a nil or error return has every slot filled with its
  own height, and the error is the height of the first failed slot;
- `NoSlotRewritten` (action property): a filled slot is never written again;
- `NoLeak` (liveness): the call returns, the producer has closed the
  channel, and every worker has exited;
- `ImplementsAbstract`: every behaviour of the pool is a behaviour of the
  abstract contract, fairness included, so every slot is eventually filled
  or the call returns `ctx.Err()`.

`getblocks_range_pass` checks `RangeContract`: the list handed on is exactly
`from..to`, in order. The heights are 3-bit, and `from` and `to` range over
every value but the largest. With the largest height allowed,
`getblocks_range_wrap` finds `LoopWithinRange` violated.

The four violation runs are the findings in `PROJECT.json`:

- **Endless GetBlocks loop (a code bug).** `GetBlocks(ctx, from, 2^64-1)`
  never returns. The condition `n <= to` holds for every uint64, and `n++`
  wraps to 0, so the loop appends forever. TLC shows it with `from = to = 7`
  at `Width = 3`: after appending 7, `n` wraps to 0 and the list grows to `<<7, 0>>`.

- **Partial-total fee.** `CalculateFee` computes in − out as soon as one vin
  has a prevout. A partly failed enrichment therefore gives a fee that is
  neither zero nor the true fee.
- **Multi-address double counting.** `GroupOutputsByAddress` credits the
  full value of a multi-address output to each of its addresses. This is
  double counting, which spec.md 9 also notes.
- **Two fallbacks.** `GetBlockWithPrevOut` falls back to verbosity 2 itself,
  and the closure falls back again. One attempt can therefore issue three
  getblock calls.

Every property of the passing runs has a mutant in `PROJECT.json`. Each
mutant is a plausible bug in the mapped code, and TLC finds each one
violating its property:

- an unbounded acquire;
- a join that only waits for running goroutines (this breaks both
  `NoWriteAfterProcess` and `ImplementsAbstract`);
- prevouts written to the first vin;
- an output total over addressed outputs only;
- the fee given to change;
- an uncounted or off-by-one retry;
- a send ignoring capacity or not advancing;
- a worker leaving on an empty but open channel;
- a failed job put back into the channel;
- a return that ignores `ctx.Err()` (this breaks `ImplementsAbstract`);
- a loop condition `n < to` (this drops the last height).

### Bounds

**GetBlock: a five-transaction block.** The block is a coinbase plus four
spends:

- a two-input spend whose partial enrichment gives a wrong fee;
- a 2-of-2 legacy input with a two-address output;
- a self-transfer where every output is change;
- a pay-to-pubkey input with no address, which takes the unknown-sender branch.

The other constants are `EnrichCap = 2` and `MaxRetries = 1`:

- four goroutines compete for two semaphore slots;
- every RPC may fail;
- a retry happens;
- cancellation can come at any step.

Every branch of `ExtractTransfers` and `CalculateFee` is reached.

**GetBlocksByNumbers: five heights, `Concurrency = 2`.** That gives two
workers and a channel of capacity 4, so the channel can fill and the
producer can block. Cancellation can come at any point, and every
`GetBlock` may fail. A larger instance would add no new interleaving shape:
the proofs below cover every size.

**GetBlocks: `Width = 3`.** This gives eight heights, and every
`(from, to)` pair is an initial state: inverted ranges, single heights,
the full range from 0, and the largest height. The wrap behaves the same at
every width. It happens exactly when `to = 2^Width - 1`.

### Fairness

- Weak fairness is assumed on:
  - each goroutine's steps;
  - every RPC returning, which the client timeout and the bounded failover
    guarantee;
  - the caller's `Return` after `wg.Wait`.
- Cancellation is never forced: the caller may or may not cancel.
- In `GetBlocksRange`, the function's own steps are weakly fair, as any
  running goroutine's are.
- `Termination` and `NoLeak` therefore hold with or without cancellation.

## Proofs (TLAPS)

`BlocksByNumbersProofs` proves these theorems for every `Nums` and every
`Concurrency`:

- `TypeCorrect`: `Spec => []TypeOK`;
- `ReturnContractHolds`: `Spec => []ReturnContract`;
- `NoSlotRewrittenHolds`: `Spec => NoSlotRewritten`.

They rest on the inductive invariant `IInv`. Let `Base = next - Len(chan)`.
Then:

- the channel holds the jobs for indices `Base..next-1`, in order;
- every busy worker holds the job of its own index, and that index is below `Base`;
- every index below `Base` is written or held by a busy worker;
- written slots carry their own height;
- busy indices are distinct and not yet written;
- a worker exits only after close and drain;
- the producer closes early only under cancellation;
- `ret` is set only after all workers exited, from the slots they left.

`ReturnContract` alone is not inductive. It says nothing about a slot
before return, and the channel order and the exclusivity of busy indices
are what make every slot written exactly once. The least failed slot exists
by well-founded induction on Nat (`WFMin`).

`BitcoinGetBlockProofs` proves these theorems for every block, capacity and
retry bound:

- `SemaphoreBoundHolds`: `Spec => []SemaphoreBound`;
- `NoWriteAfterProcessHolds`: `Spec => NoWriteAfterProcess`;
- `PrevOutMatchesSpentOutputHolds`: `Spec => []PrevOutMatchesSpentOutput`.

The first two rest on the invariant `SemInv`: `sem` equals the cardinality
of the running set, that is at most `EnrichCap`, and no goroutine exists
outside the wait phase. The last fact is what makes `processBlock` the end
of all writes.

The third rests on `PInv`:

- `blk` is unassigned only while no goroutine exists, and it is assigned
  from `enrich` on;
- once assigned, `blk` is a decoded block (`[TxIdx -> Txs]`) whose prevouts
  all match (`Matched`).

`Matched` alone is not inductive. `FetchPrevOut` reads
`blk[t].vin[cursor[t]]`, so the proof needs the block's shape to know that
the vin exists and is a `Vin`. The lemmas are:

- `V2Matched` and `V3Shape`: both getblock answers satisfy `PInv`;
- `WriteMatched`: one goroutine's write keeps the block decoded and
  matched, because the new prevout depends only on the txid and vout it
  leaves unchanged.

The data assumptions (`BitcoinGetBlockAssumption`) are what the decoder
guarantees:

- the verbosity-2 block is a function of decoded transactions, with no
  prevouts;
- every `getrawtransaction` answer is a sequence of outputs;
- the unassigned `NoBlock` is not a block.

`BitcoinGetBlockProofs` also proves `ImplementsAbstractHolds`:
`Spec => ImplementsAbstract`. This is the refinement of `GetBlockAbstract`,
for every block, previous-transaction table, retry bound and capacity. It
rests on `GInv = SemInv /\ PInv /\ Pending`. `Pending` says that every vin
a waiting or running goroutine has still to visit has no prevout.

`Pending` is what makes each enrichment write a contract `Fill`. `Fill`
requires the vin to have no prevout, and nothing else in the state says
so. `Pending` holds because:

- `StartEnrich` starts goroutines only for transactions with no prevout
  data;
- each goroutine advances its own cursor past the vin it writes;
- `WriteFrame` shows that a write touches no other transaction and no other
  vin.

`StepRefinesContract` has one case per action:

- a successful getblock is `Fetch`;
- a failed last attempt is `Fail`;
- `processBlock` is `Done`;
- a write is `Fill(t, cursor[t])`;
- every other step is a stutter.

`SemInv` places a running goroutine in the `wait` phase, and `PInv` gives
the vin its index and type.

`BlocksByNumbersProofs` also proves `Refinement`:
`Spec => Abstract!SafetySpec`. This is the safety part of
`ImplementsAbstract`. The proof has three parts:

- `InitRefines`: the initial states map to abstract initial states;
- `StepRefines`: under `IInv`, every step maps to an abstract step or a
  stutter;
- the invariance of `IInv`.

`FinishIsFetch` needs the fact that a busy index is unwritten and holds its
own height. `ReturnIsAbstractReturn` uses `AllWrittenAtJoin`: at an
uncancelled join every slot is written with its own height.

`GetBlocksRangeProofs` proves `RangeContractHolds`:
`BelowMax => (Spec => []RangeContract)`, for every `Width`. `BelowMax` says
that no argument is `2^Width - 1`. The inductive invariant `RInv` is the
loop invariant:

- in the loop, `n = from + Len(nums)` and `n <= to + 1`;
- the appended heights are `from..n-1`;
- at the call, `n = to + 1`.

`NoWrap` is the step that needs `BelowMax`: below the largest height,
`(n + 1) % 2^Width = n + 1`. Without `BelowMax` the theorem is false, and
`getblocks_range_wrap` shows how.

From the same invariant, `LoopWithinRangeHolds` proves
`BelowMax => (Spec => []LoopWithinRange)`. This is the property that
`getblocks_range_wrap` finds violated at the largest height, and it holds
for every other range, for every width.

`LargestHeightNeverReturns` proves the finding itself for every width,
`Width = 64` included: `Spec => [](to = MaxU => pc \in {"start", "loop"})`.
Called with `to = MaxU`, `GetBlocks` reaches neither the range error nor
the call to `GetBlocksByNumbers`. It needs no `BelowMax`. It rests on
`WInv`:

- `n` is always a `Width`-bit height (`WrapInRange`: `(n + 1) % 2^Width`
  is one again);
- the range error is returned only when `to < from`;
- the call is made only once `n` has passed `to`.

No height passes `MaxU`, so with `to = MaxU` neither return is reachable.
TLC checked `WInv` on all 3-bit ranges, with the list length bounded,
before it was proved.

TLC checks each inductive invariant as an ordinary invariant before it is
proved.

## Checked by TLC only

- **Liveness.** `Termination`, `NoLeak` and the fairness part of
  `BlocksByNumbers`' `ImplementsAbstract` are out of the prover's reach.
  They need ENABLED and temporal reasoning under fairness.
- **`BitcoinGetBlock`'s `TypeOK`.** Its `result` conjunct says that
  `processBlock` gives a sequence of transfers per tx. `processBlock` is
  `ExtractTransfers` and `CalculateFee`, which are built on `FoldLeft` and
  `SetToSeqs`, so the conjunct would need induction over data. The typing of
  `pc`, `task`, `cursor`, `sem` and of the assigned block (`[TxIdx -> Txs]`)
  is proved as part of `SemInv` and `PInv`.
- **The fee and transfer properties.** `FeeNeverOverstated` and
  `FeeAttribution` are statements about sums and
  folds over sequences (`FoldLeft`, `SetToSeqs`). Proving them would need
  induction over data, which the installed provers cannot instantiate.
  `FoldLeft` is `MapThenFoldSet`, a recursive function over the subsets
  of the domain. Even the equation that unfolds it one step is a theorem
  with an operator parameter. `FeeAttribution` looks simple, because the
  fee goes to the position `FeeAt` picks. But it still needs
  `CalculateFee` to be an integer, which goes through `SeqSum`. It also
  needs a coinbase to carry no fee, which goes through `FlattenSeq`.
  They are checked on the five-transaction block under every map order and
  every failure pattern.

## Not modelled

- **The address codec's Bech32/Base58 validation.** It is checksum
  arithmetic over strings with no state.
- **The JSON-RPC client and the failover health table.** They are not
  under `src/`. Only the attempt bound of the failover is modelled, from
  spec.md.
- **`GetLatestBlockNumber` and `IsHealthy`.**
- **`CalculateFeeRate`, `BTCToSatoshi` and `EstimateFeePriority`.** Nothing
  on the indexing path calls them.
- **The config types and bloom filter, the RPC type declarations and the
  SQL migration.**
- **prevTxid deduplication.** Its absence is an efficiency matter. It is
  listed as a hazard without a property.
- **The up-front allocation in `GetBlocks`.** `make(..., to-from+1)` panics
  on a huge range. It is listed as a hazard: memory is outside the model.

## Plan for later work

- A `Failover` module from spec.md 4.3: provider health states, the
  blacklist cooldown, and racing updates from concurrent workers.
- A composition of `BlocksByNumbers` with `BitcoinGetBlock`, so that workers
  run the real `GetBlock` steps.
- An address-codec module for `ExtractAddresses` and type detection over
  small alphabets.
- A composition of `GetBlocksRange` with `BlocksByNumbers`, once the wrap
  is fixed in the code.
