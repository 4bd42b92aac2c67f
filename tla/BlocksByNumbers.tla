--------------------------- MODULE BlocksByNumbers ---------------------------
(***************************************************************************)
(* BitcoinIndexer.GetBlocksByNumbers (internal/indexer/bitcoin.go): a      *)
(* producer goroutine sends one job {num, index} per requested height into *)
(* a channel of capacity 2 * workers, selecting against ctx.Done(); a pool *)
(* of workers ranges over the channel, calls GetBlock and writes the       *)
(* BlockResult into blocks[index]; the caller waits on the WaitGroup of    *)
(* the workers, then returns ctx.Err() if the context is done, else the    *)
(* slice and the error of the first failed slot.  A GetBlock call is one   *)
(* step from the worker's point of view: taking the job, then finishing it *)
(* with a block or an error (BitcoinGetBlock models its inside).           *)
(***************************************************************************)
EXTENDS Integers, Sequences, FiniteSets

CONSTANTS
  Nums,         \* the heights requested, in slot order
  Concurrency   \* Throttle.Concurrency of the chain config

ASSUME BlocksByNumbersAssumption ==
  /\ Nums \in Seq(Nat)
  /\ Len(Nums) > 0
  /\ Concurrency \in Int

N == Len(Nums)
Slots == 1..N

\* GetBlocks(from, to): the heights from..to in order (to >= from).
GetBlocksNums(from, to) == [i \in 1..(to - from + 1) |-> from + i - 1]

\* workers := len(nums), capped by a positive Throttle.Concurrency.
NWorkers == IF Concurrency > 0 /\ N > Concurrency THEN Concurrency ELSE N
Workers == 1..NWorkers
ChanCap == 2 * NWorkers

Jobs == [num : Nat, index : Slots]
NoJob == [num |-> 0, index |-> 0]

\* A BlockResult: Number, whether Block is non-nil, whether Error is set.
Results == [num : Nat, blk : BOOLEAN, err : BOOLEAN]
ZeroResult == [num |-> 0, blk |-> FALSE, err |-> FALSE]

\* What the call returned: nothing yet, ctx.Err(), a nil error, or the
\* error "block %d: ..." of the first failed slot.
Returns == [kind : {"none", "ctx", "nil"}, num : {0}] \cup [kind : {"err"}, num : Nat]

VARIABLES
  next,      \* the producer's loop index over nums
  prodDone,  \* the producer has returned and closed the channel
  chan,      \* the jobs buffered in the channel
  wstate,    \* per worker: ranging ("idle"), in GetBlock ("busy"), "exited"
  wjob,      \* per worker: the job it is working on
  blocks,    \* the result slice
  ctxDone,   \* the caller's context is cancelled
  ret        \* what GetBlocksByNumbers returned

vars == <<next, prodDone, chan, wstate, wjob, blocks, ctxDone, ret>>

Init ==
  /\ next = 1
  /\ prodDone = FALSE
  /\ chan = <<>>
  /\ wstate = [w \in Workers |-> "idle"]
  /\ wjob = [w \in Workers |-> NoJob]
  /\ blocks = [i \in Slots |-> ZeroResult]
  /\ ctxDone = FALSE
  /\ ret = [kind |-> "none", num |-> 0]

-----------------------------------------------------------------------------
(* The producer goroutine.                                                 *)

\* Mutation: the send is taken as ready even when the buffer is full.
SendIgnoringCapacity ==
  /\ ~prodDone
  /\ next <= N
  /\ chan' = Append(chan, [num |-> Nums[next], index |-> next])
  /\ next' = next + 1
  /\ UNCHANGED <<prodDone, wstate, wjob, blocks, ctxDone, ret>>

\* Mutation: the loop index is not advanced after a send.
SendNoAdvance ==
  /\ ~prodDone
  /\ next <= N
  /\ Len(chan) < ChanCap
  /\ chan' = Append(chan, [num |-> Nums[next], index |-> next])
  /\ UNCHANGED <<next, prodDone, wstate, wjob, blocks, ctxDone, ret>>

\* case jobs <- job{num: n, index: i}: possible whenever the channel has
\* room, even after cancellation (select picks among ready cases at random).
Send ==
  /\ ~prodDone
  /\ next <= N
  /\ Len(chan) < ChanCap
  /\ chan' = Append(chan, [num |-> Nums[next], index |-> next])
  /\ next' = next + 1
  /\ UNCHANGED <<prodDone, wstate, wjob, blocks, ctxDone, ret>>

\* case <-ctx.Done(): return, and the deferred close(jobs).
Abort ==
  /\ ~prodDone
  /\ next <= N
  /\ ctxDone
  /\ prodDone' = TRUE
  /\ UNCHANGED <<next, chan, wstate, wjob, blocks, ctxDone, ret>>

\* The loop over nums ends; the deferred close(jobs).
CloseJobs ==
  /\ ~prodDone
  /\ next > N
  /\ prodDone' = TRUE
  /\ UNCHANGED <<next, chan, wstate, wjob, blocks, ctxDone, ret>>

-----------------------------------------------------------------------------
(* The workers.                                                            *)

\* for j := range jobs: receive the next job and call GetBlock.
Take(w) ==
  /\ wstate[w] = "idle"
  /\ chan # <<>>
  /\ wjob' = [wjob EXCEPT ![w] = Head(chan)]
  /\ chan' = Tail(chan)
  /\ wstate' = [wstate EXCEPT ![w] = "busy"]
  /\ UNCHANGED <<next, prodDone, blocks, ctxDone, ret>>

\* Mutation: a failed height is put back into the channel to be retried.
FinishRequeueOnError(w) ==
  /\ wstate[w] = "busy"
  /\ \E failed \in BOOLEAN :
       /\ blocks' = [blocks EXCEPT ![wjob[w].index] =
                       [num |-> wjob[w].num, blk |-> ~failed, err |-> failed]]
       /\ chan' = IF failed THEN Append(chan, wjob[w]) ELSE chan
  /\ wstate' = [wstate EXCEPT ![w] = "idle"]
  /\ UNCHANGED <<next, prodDone, wjob, ctxDone, ret>>

\* GetBlock returned: blocks[j.index] = BlockResult{Number: j.num, Block:
\* blk}, with Error set when err != nil (and Block then nil).
Finish(w) ==
  /\ wstate[w] = "busy"
  /\ \E failed \in BOOLEAN :
       blocks' = [blocks EXCEPT ![wjob[w].index] =
                    [num |-> wjob[w].num, blk |-> ~failed, err |-> failed]]
  /\ wstate' = [wstate EXCEPT ![w] = "idle"]
  /\ UNCHANGED <<next, prodDone, chan, wjob, ctxDone, ret>>

\* Mutation: a worker leaves as soon as the channel is momentarily empty.
ExitWhenEmpty(w) ==
  /\ wstate[w] = "idle"
  /\ chan = <<>>
  /\ wstate' = [wstate EXCEPT ![w] = "exited"]
  /\ UNCHANGED <<next, prodDone, chan, wjob, blocks, ctxDone, ret>>

\* The range loop ends: the channel is closed and drained; wg.Done().
Exit(w) ==
  /\ wstate[w] = "idle"
  /\ chan = <<>>
  /\ prodDone
  /\ wstate' = [wstate EXCEPT ![w] = "exited"]
  /\ UNCHANGED <<next, prodDone, chan, wjob, blocks, ctxDone, ret>>

-----------------------------------------------------------------------------
(* The caller.                                                             *)

\* The failed slots, and the first of them.
FailedSlots == {i \in Slots : blocks[i].err}
FirstFailed == CHOOSE i \in FailedSlots : \A j \in FailedSlots : i <= j

\* Mutation: the ctx.Err() check after wg.Wait() is missing.
ReturnIgnoringCtx ==
  /\ ret.kind = "none"
  /\ \A w \in Workers : wstate[w] = "exited"
  /\ ret' = IF FailedSlots = {} THEN [kind |-> "nil", num |-> 0]
            ELSE [kind |-> "err", num |-> blocks[FirstFailed].num]
  /\ UNCHANGED <<next, prodDone, chan, wstate, wjob, blocks, ctxDone>>

\* wg.Wait() returned: ctx.Err() if the context is done, else the first
\* error in slot order, or nil.
Return ==
  /\ ret.kind = "none"
  /\ \A w \in Workers : wstate[w] = "exited"
  /\ ret' = IF ctxDone THEN [kind |-> "ctx", num |-> 0]
            ELSE IF FailedSlots = {} THEN [kind |-> "nil", num |-> 0]
            ELSE [kind |-> "err", num |-> blocks[FirstFailed].num]
  /\ UNCHANGED <<next, prodDone, chan, wstate, wjob, blocks, ctxDone>>

\* The caller cancels its context while the call runs.
Cancel ==
  /\ ~ctxDone
  /\ ret.kind = "none"
  /\ ctxDone' = TRUE
  /\ UNCHANGED <<next, prodDone, chan, wstate, wjob, blocks, ret>>

\* The call has returned.
Returned ==
  /\ ret.kind # "none"
  /\ UNCHANGED vars

Next ==
  \/ Send \/ Abort \/ CloseJobs
  \/ \E w \in Workers : Take(w) \/ Finish(w) \/ Exit(w)
  \/ Return \/ Cancel \/ Returned

\* Goroutines are scheduled fairly and every GetBlock returns (bounded
\* retries, client timeouts); the caller's cancellation is not forced.
Fairness ==
  /\ WF_vars(Send \/ Abort \/ CloseJobs)
  /\ \A w \in Workers : WF_vars(Take(w)) /\ WF_vars(Finish(w)) /\ WF_vars(Exit(w))
  /\ WF_vars(Return)

Spec == Init /\ [][Next]_vars /\ Fairness

-----------------------------------------------------------------------------
(* Properties.                                                             *)

TypeOK ==
  /\ next \in 1..N + 1
  /\ prodDone \in BOOLEAN
  /\ chan \in Seq(Jobs)
  /\ Len(chan) <= ChanCap
  /\ wstate \in [Workers -> {"idle", "busy", "exited"}]
  /\ wjob \in [Workers -> Jobs \cup {NoJob}]
  /\ blocks \in [Slots -> Results]
  /\ ctxDone \in BOOLEAN
  /\ ret \in Returns

\* A slot holds a result once a worker wrote a block or an error into it.
Written(i) == blocks[i].blk \/ blocks[i].err

\* The contract of GetBlocksByNumbers when it returns without ctx.Err():
\* every slot i was filled, by whichever worker and in whatever order the
\* workers finished, with the result for height nums[i]; the error returned
\* is nil exactly when no slot failed, and otherwise names the height of the
\* first failed slot.
ReturnContract ==
  ret.kind \in {"nil", "err"} =>
    /\ \A i \in Slots : Written(i) /\ blocks[i].num = Nums[i]
    /\ ret.kind = "nil" <=> FailedSlots = {}
    /\ ret.kind = "err" => ret.num = Nums[FirstFailed]

\* Each height is fetched by exactly one worker: a filled slot is never
\* written again (no job is sent twice, none is taken by two workers).
NoSlotRewritten ==
  [][\A i \in Slots : Written(i) => blocks'[i] = blocks[i]]_vars

\* GetBlocksByNumbers returns, and leaves no goroutine behind: the producer
\* has closed the channel and every worker has left its range loop, also
\* when the context is cancelled while the producer is blocked on a full
\* channel.
NoLeak == <>[](ret.kind # "none" /\ prodDone /\ \A w \in Workers : wstate[w] = "exited")

\* The abstract contract of the call, its result slice being blocks.
Abstract == INSTANCE BlocksByNumbersAbstract WITH results <- blocks

\* The producer, the bounded channel and the worker pool implement the
\* contract: every step of theirs is a fetch of one unfilled slot with its
\* own height, a cancellation, a return allowed by the contract, or leaves
\* the result slice, the context and the return value alone; and the call
\* returns under the fairness of the goroutines.
ImplementsAbstract == Abstract!Spec

=============================================================================
