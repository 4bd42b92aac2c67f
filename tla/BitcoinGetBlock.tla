--------------------------- MODULE BitcoinGetBlock ---------------------------
(***************************************************************************)
(* One call of BitcoinIndexer.GetBlock (internal/indexer/bitcoin.go):      *)
(*   - the fetch closure run by Failover.ExecuteWithRetry: getblockhash,   *)
(*     then GetBlockWithPrevOut (getblock verbosity 3, which itself falls  *)
(*     back to GetBlockVerbose on an RPC error), then on error the         *)
(*     closure's own GetBlockVerbose (getblock verbosity 2);               *)
(*   - the prevout enrichment EnrichBlockWithPrevOuts: one goroutine per   *)
(*     non-coinbase tx without prevout data, admitted by a counting        *)
(*     semaphore of EnrichCap slots, each fetching getrawtransaction for   *)
(*     its vins one after the other and writing vin.PrevOut, joined by a   *)
(*     WaitGroup;                                                          *)
(*   - processBlock: CalculateFee and ExtractTransfers for every tx.       *)
(* Every RPC may fail; the caller's context may be cancelled at any time,  *)
(* after which every RPC fails.  Failover itself is not in the sources:    *)
(* its attempt loop is modelled from spec.md section 4.3 (at most          *)
(* MaxRetries + 1 attempts, no retry once the context is done).            *)
(***************************************************************************)
EXTENDS BitcoinTx, FiniteSets

CONSTANTS
  V2Block,     \* the block as getblock verbosity 2 returns it (no prevouts)
  PrevTx,      \* prev txid -> the vout sequence getrawtransaction returns
  EnrichCap,   \* capacity of the enrichment semaphore (10 in the code)
  MaxRetries,  \* ClientConfig.MaxRetries of the failover
  NoBlock      \* blk before the fetch closure has assigned it

TxIdx == DOMAIN V2Block

\* The decoded JSON shapes: a vout and a prevout (value, scriptPubKey), a
\* vin, a transaction.
PrevOuts == [value : Int, spk : ScriptPubKeys(2)]
Vins == [coinbase : BOOLEAN, txid : STRING, vout : Nat, prevout : {NoPrevOut} \cup PrevOuts]
Txs == [vin : Seq(Vins), vout : Seq(PrevOuts)]

\* The prevout a vin would receive: vout[vin.vout] of its previous tx.
PrevOutOf(vin) ==
  LET outs == PrevTx[vin.txid]
  IN  [value |-> outs[vin.vout + 1].value, spk |-> outs[vin.vout + 1].spk]

Resolvable(vin) ==
  /\ ~vin.coinbase
  /\ vin.txid \in DOMAIN PrevTx
  /\ vin.vout < Len(PrevTx[vin.txid])

\* getblock verbosity 3: Core attaches the prevout of every spending vin.
V3Block ==
  [t \in TxIdx |->
     [V2Block[t] EXCEPT !.vin =
        [j \in DOMAIN V2Block[t].vin |->
           LET vin == V2Block[t].vin[j]
           IN  IF Resolvable(vin) THEN [vin EXCEPT !.prevout = PrevOutOf(vin)]
               ELSE vin]]]

\* getblock verbosity 2 carries no prevout; getrawtransaction returns the
\* vouts of the previous transaction.
ASSUME BitcoinGetBlockAssumption ==
  /\ EnrichCap \in Nat \ {0}
  /\ MaxRetries \in Nat
  /\ NoBlock \notin [TxIdx -> Txs]
  /\ IsFiniteSet(TxIdx)
  /\ V2Block \in [TxIdx -> Txs]
  /\ \A t \in TxIdx : \A j \in DOMAIN V2Block[t].vin : V2Block[t].vin[j].prevout = NoPrevOut
  /\ \A x \in DOMAIN PrevTx : PrevTx[x] \in Seq(PrevOuts)

VARIABLES
  pc,        \* where GetBlock is
  attempt,   \* the failover attempt running the fetch closure
  calls,     \* getblock RPCs issued in the current attempt
  blk,       \* the block the closure returned, mutated by enrichment
  task,      \* per tx: its enrichment goroutine
  cursor,    \* per tx: the vin index its goroutine is at
  sem,       \* slots of the semaphore channel that are held
  ctxDone,   \* the caller's context is cancelled
  result     \* processBlock's output: per tx, its transfers

vars == <<pc, attempt, calls, blk, task, cursor, sem, ctxDone, result>>

PCs == {"hash", "v3", "v3fb", "v2", "enrich", "wait", "done", "failed"}
TaskStates == {"none", "wait", "run", "done"}

Init ==
  /\ pc = "hash"
  /\ attempt = 1
  /\ calls = 0
  /\ blk = NoBlock
  /\ task = [t \in TxIdx |-> "none"]
  /\ cursor = [t \in TxIdx |-> 1]
  /\ sem = 0
  /\ ctxDone = FALSE
  /\ result = <<>>

-----------------------------------------------------------------------------
(* The fetch closure and the failover attempt loop around it.              *)

\* Mutation: the retry loop does not count the failed attempt.
AttemptFailedUncounted ==
  /\ IF ctxDone \/ attempt = MaxRetries + 1
     THEN /\ pc' = "failed"
          /\ UNCHANGED attempt
     ELSE /\ pc' = "hash"
          /\ UNCHANGED attempt

\* Mutation: the attempts are compared with > instead of =, one too many.
AttemptFailedOffByOne ==
  /\ IF ctxDone \/ attempt > MaxRetries + 1
     THEN /\ pc' = "failed"
          /\ UNCHANGED attempt
     ELSE /\ pc' = "hash"
          /\ attempt' = attempt + 1

\* The closure returned an error: ExecuteWithRetry starts another attempt
\* unless the context is done or the attempts are exhausted.
AttemptFailed ==
  /\ IF ctxDone \/ attempt = MaxRetries + 1
     THEN /\ pc' = "failed"
          /\ UNCHANGED attempt
     ELSE /\ pc' = "hash"
          /\ attempt' = attempt + 1

\* c.GetBlockHash(ctx, number), the first RPC of a run of the closure.
GetBlockHash ==
  /\ pc = "hash"
  /\ \/ /\ ~ctxDone
        /\ pc' = "v3"
        /\ calls' = 0
        /\ UNCHANGED attempt
     \/ /\ AttemptFailed
        /\ UNCHANGED calls
  /\ UNCHANGED <<blk, task, cursor, sem, ctxDone, result>>

\* GetBlockWithPrevOut: CallRPC getblock 3.  Success and a good decode give
\* the verbosity-3 block; an RPC error (unsupported verbosity or transport)
\* goes to the facade's own fallback; a decode error returns to the closure.
GetBlockWithPrevOut ==
  /\ pc = "v3"
  /\ calls' = calls + 1
  /\ \/ /\ ~ctxDone
        /\ blk' = V3Block
        /\ pc' = "enrich"
     \/ /\ pc' = "v3fb"
        /\ UNCHANGED blk
     \/ /\ ~ctxDone
        /\ pc' = "v2"
        /\ UNCHANGED blk
  /\ UNCHANGED <<attempt, task, cursor, sem, ctxDone, result>>

\* The facade's fallback c.GetBlockVerbose inside GetBlockWithPrevOut.
FacadeFallback ==
  /\ pc = "v3fb"
  /\ calls' = calls + 1
  /\ \/ /\ ~ctxDone
        /\ blk' = V2Block
        /\ pc' = "enrich"
     \/ /\ pc' = "v2"
        /\ UNCHANGED blk
  /\ UNCHANGED <<attempt, task, cursor, sem, ctxDone, result>>

\* The closure's fallback c.GetBlockVerbose after GetBlockWithPrevOut failed.
GetBlockVerbose ==
  /\ pc = "v2"
  /\ calls' = calls + 1
  /\ \/ /\ ~ctxDone
        /\ blk' = V2Block
        /\ pc' = "enrich"
        /\ UNCHANGED attempt
     \/ /\ AttemptFailed
        /\ UNCHANGED blk
  /\ UNCHANGED <<task, cursor, sem, ctxDone, result>>

-----------------------------------------------------------------------------
(* processBlock, and the decision to enrich.                               *)

BlockHasPrevOutData(b) == \E t \in DOMAIN b : HasPrevOutData(b[t])

\* processBlock(blk): fee and transfers of every tx, in tx order; the order
\* of each tx's transfers is the Go map order, chosen by the runtime.
TxTransfers(b, t) ==
  {ExtractTransfers(b[t], CalculateFee(b[t]), o) : o \in MapOrders(b[t])}

BlockTransfers(b) ==
  LET choices[i \in 0..Len(b)] ==
        IF i = 0 THEN {<<>>}
        ELSE {Append(c, x) : c \in choices[i - 1], x \in TxTransfers(b, i)}
  IN  choices[Len(b)]

ProcessBlock ==
  /\ result' \in BlockTransfers(blk)
  /\ pc' = "done"

\* The enrichment goroutines EnrichBlockWithPrevOuts starts.
Enrichable(b) == {t \in TxIdx : ~IsCoinbase(b[t]) /\ ~HasPrevOutData(b[t])}

\* GetBlock after the fetch: enrich (enrichPrevOuts is always true) when no
\* tx has prevout data, else process at once.  When the failover cannot run
\* the enrichment op (no usable provider), the warning is logged and the
\* block is processed as it is.
StartEnrich ==
  /\ pc = "enrich"
  /\ \/ /\ ~BlockHasPrevOutData(blk)
        /\ task' = [t \in TxIdx |-> IF t \in Enrichable(blk) THEN "wait" ELSE "none"]
        /\ pc' = "wait"
        /\ UNCHANGED result
     \/ /\ BlockHasPrevOutData(blk)
        /\ ProcessBlock
        /\ UNCHANGED task
     \/ /\ ~BlockHasPrevOutData(blk)
        /\ ProcessBlock
        /\ UNCHANGED task
  /\ UNCHANGED <<attempt, calls, blk, cursor, sem, ctxDone>>

\* Mutation: the semaphore admits a goroutine whatever the count.
AcquireUnbounded(t) ==
  /\ task[t] = "wait"
  /\ sem' = sem + 1
  /\ task' = [task EXCEPT ![t] = "run"]
  /\ UNCHANGED <<pc, attempt, calls, blk, cursor, ctxDone, result>>

\* A goroutine acquires a semaphore slot: semaphore <- struct{}{}.
Acquire(t) ==
  /\ task[t] = "wait"
  /\ sem < EnrichCap
  /\ sem' = sem + 1
  /\ task' = [task EXCEPT ![t] = "run"]
  /\ UNCHANGED <<pc, attempt, calls, blk, cursor, ctxDone, result>>

\* Mutation: the prevout of every vin is written into the tx's first vin.
FetchPrevOutFirstVin(t) ==
  /\ task[t] = "run"
  /\ cursor[t] <= Len(blk[t].vin)
  /\ LET vin == blk[t].vin[cursor[t]]
     IN  \/ /\ vin.txid = "" \/ vin.coinbase
            /\ UNCHANGED blk
         \/ /\ vin.txid # "" /\ ~vin.coinbase
            /\ UNCHANGED blk
         \/ /\ vin.txid \in DOMAIN PrevTx /\ ~vin.coinbase
            /\ ~ctxDone
            /\ blk' = IF vin.vout < Len(PrevTx[vin.txid])
                      THEN [blk EXCEPT ![t].vin[1].prevout = PrevOutOf(vin)]
                      ELSE blk
  /\ cursor' = [cursor EXCEPT ![t] = cursor[t] + 1]
  /\ UNCHANGED <<pc, attempt, calls, task, sem, ctxDone, result>>

\* One vin of the loop: skip a coinbase vin or one without Txid; else
\* getrawtransaction(txid, 1); on error log and continue; on success set
\* PrevOut from vout[vin.Vout] when that index exists.
FetchPrevOut(t) ==
  /\ task[t] = "run"
  /\ cursor[t] <= Len(blk[t].vin)
  /\ LET vin == blk[t].vin[cursor[t]]
     IN  \/ /\ vin.txid = "" \/ vin.coinbase
            /\ UNCHANGED blk
         \/ /\ vin.txid # "" /\ ~vin.coinbase
            /\ UNCHANGED blk
         \/ /\ vin.txid \in DOMAIN PrevTx /\ ~vin.coinbase
            /\ ~ctxDone
            /\ blk' = IF vin.vout < Len(PrevTx[vin.txid])
                      THEN [blk EXCEPT ![t].vin[cursor[t]].prevout = PrevOutOf(vin)]
                      ELSE blk
  /\ cursor' = [cursor EXCEPT ![t] = cursor[t] + 1]
  /\ UNCHANGED <<pc, attempt, calls, task, sem, ctxDone, result>>

\* The goroutine's deferred release and wg.Done.
Release(t) ==
  /\ task[t] = "run"
  /\ cursor[t] > Len(blk[t].vin)
  /\ sem' = sem - 1
  /\ task' = [task EXCEPT ![t] = "done"]
  /\ UNCHANGED <<pc, attempt, calls, blk, cursor, ctxDone, result>>

\* Mutation: the join only waits for goroutines that are already running.
FinishEnrichRunningOnly ==
  /\ pc = "wait"
  /\ \A t \in TxIdx : task[t] # "run"
  /\ ProcessBlock
  /\ UNCHANGED <<attempt, calls, blk, task, cursor, sem, ctxDone>>

\* wg.Wait() returns once every started goroutine called Done; the
\* enrichment op returns nil and GetBlock goes on to processBlock.
FinishEnrich ==
  /\ pc = "wait"
  /\ \A t \in TxIdx : task[t] \in {"none", "done"}
  /\ ProcessBlock
  /\ UNCHANGED <<attempt, calls, blk, task, cursor, sem, ctxDone>>

\* The caller cancels the context.
Cancel ==
  /\ ~ctxDone
  /\ pc \notin {"done", "failed"}
  /\ ctxDone' = TRUE
  /\ UNCHANGED <<pc, attempt, calls, blk, task, cursor, sem, result>>

\* GetBlock has returned.
Returned ==
  /\ pc \in {"done", "failed"}
  /\ UNCHANGED vars

Step ==
  \/ GetBlockHash \/ GetBlockWithPrevOut \/ FacadeFallback \/ GetBlockVerbose
  \/ StartEnrich \/ FinishEnrich
  \/ \E t \in TxIdx : Acquire(t) \/ FetchPrevOut(t) \/ Release(t)

Next == Step \/ Cancel \/ Returned

\* The goroutines are scheduled by the Go runtime and RPCs return (the
\* client has a timeout): every thread that can move eventually does.
Fairness ==
  /\ WF_vars(GetBlockHash \/ GetBlockWithPrevOut \/ FacadeFallback
             \/ GetBlockVerbose \/ StartEnrich \/ FinishEnrich)
  /\ \A t \in TxIdx : WF_vars(Acquire(t)) /\ WF_vars(FetchPrevOut(t))
                      /\ WF_vars(Release(t))

Spec == Init /\ [][Next]_vars /\ Fairness

-----------------------------------------------------------------------------
(* Properties.                                                             *)

Froms == {<<"coinbase", 0>>, <<NoAddr, 0>>} \cup (Addr \X Nat)
Transfers == [from : Froms, to : Addr, amount : Int,
              type : {"mining", "transfer"}, fee : Nat]

\* blk is the fetched block with only vin prevouts ever changed.
IsFetched(b) ==
  /\ DOMAIN b = TxIdx
  /\ \A t \in TxIdx :
       /\ b[t].vout = V2Block[t].vout
       /\ DOMAIN b[t].vin = DOMAIN V2Block[t].vin
       /\ \A j \in DOMAIN b[t].vin :
            /\ [b[t].vin[j] EXCEPT !.prevout = NoPrevOut] = V2Block[t].vin[j]
            /\ b[t].vin[j].prevout \in {NoPrevOut} \cup PrevOuts

TypeOK ==
  /\ pc \in PCs
  /\ attempt \in 1..MaxRetries + 1
  /\ calls \in Nat
  /\ blk = NoBlock \/ IsFetched(blk)
  /\ task \in [TxIdx -> TaskStates]
  /\ cursor \in [TxIdx -> Nat \ {0}]
  /\ sem \in Nat
  /\ ctxDone \in BOOLEAN
  /\ result = <<>> \/ result \in [TxIdx -> Seq(Transfers)]


\* The enrichment semaphore (EnrichBlockWithPrevOuts): the slots held are
\* exactly the goroutines past the acquire and before the deferred release,
\* and never more than the channel's capacity, however the goroutines of the
\* block's transactions interleave.
SemaphoreBound ==
  /\ sem = Cardinality({t \in TxIdx : task[t] = "run"})
  /\ sem <= EnrichCap

\* wg.Wait in EnrichBlockWithPrevOuts: once processBlock has read the block,
\* no enrichment goroutine writes a prevout into it any more (no goroutine is
\* left waiting for the semaphore or running behind the WaitGroup).
NoWriteAfterProcess == [][pc = "done" => blk' = blk]_vars

\* Every prevout in the block, whether Core attached it (verbosity 3) or the
\* enrichment goroutine wrote it, is vout[vin.Vout] of the transaction the vin
\* spends: no goroutine writes into another tx's vin, and the index is not
\* shifted.
PrevOutMatchesSpentOutput ==
  blk # NoBlock =>
    \A t \in TxIdx : \A j \in DOMAIN blk[t].vin :
      LET vin == blk[t].vin[j]
      IN  vin.prevout # NoPrevOut =>
            /\ vin.txid \in DOMAIN PrevTx
            /\ vin.prevout = [value |-> PrevTx[vin.txid][vin.vout + 1].value,
                              spk |-> PrevTx[vin.txid][vin.vout + 1].spk]

\* The fee a transaction really pays: all its spent outputs less all its
\* positive outputs (zero for a coinbase).
TrueFee(t) ==
  LET tx == V2Block[t]
      ins == {j \in DOMAIN tx.vin : ~tx.vin[j].coinbase /\ tx.vin[j].txid \in DOMAIN PrevTx}
      outs == {k \in DOMAIN tx.vout : tx.vout[k].value > 0}
  IN  IF IsCoinbase(tx) THEN 0
      ELSE SumFunctionOnSet([j \in ins |-> PrevTx[tx.vin[j].txid][tx.vin[j].vout + 1].value], ins)
           - SumFunctionOnSet([k \in outs |-> tx.vout[k].value], outs)

\* CalculateFee with partial or missing prevouts (failed getrawtransaction
\* calls, a verbosity-2 block): the fee the indexer emits for a transaction
\* never exceeds the fee the transaction actually paid.
FeeNeverOverstated ==
  result # <<>> =>
    \A t \in TxIdx : \A k \in DOMAIN result[t] : result[t][k].fee <= TrueFee(t)

\* Fee attribution of ExtractTransfers, whatever order the Go map iteration
\* takes: when the fee CalculateFee gave is positive and some output goes to
\* an address that is not an input address, exactly one transfer carries the
\* fee, in full, to such an address; otherwise no transfer carries a fee.
FeeAttribution ==
  result # <<>> =>
    \A t \in TxIdx :
      LET fee == CalculateFee(blk[t])
          inputs == ToSet(ExtractInputAddresses(blk[t]))
          carriers == {k \in DOMAIN result[t] : result[t][k].fee # 0}
          external == {k \in DOMAIN result[t] : result[t][k].to \notin inputs}
      IN  IF fee > 0 /\ external # {} /\ ~IsCoinbase(blk[t])
          THEN \E k \in external : carriers = {k} /\ result[t][k].fee = fee
          ELSE carriers = {}

\* GetBlock returns: the bounded failover attempts, the per-vin loops and
\* the WaitGroup all end, whatever fails and whenever the context is
\* cancelled.
Termination == <>(pc \in {"done", "failed"})

\* spec.md 4.6: a fee is computed only from complete input data ("partial
\* totals are not used"), so an emitted fee is either the true fee or zero.
StrictFeePolicy ==
  result # <<>> =>
    \A t \in TxIdx : \A k \in DOMAIN result[t] :
      result[t][k].fee \in {0, TrueFee(t)}

\* spec.md 8: the amounts a transaction emits sum to the values of its
\* positive outputs that carry an address.
AmountConservation ==
  result # <<>> =>
    \A t \in TxIdx :
      LET tx == V2Block[t]
          outs == {k \in DOMAIN tx.vout :
                     tx.vout[k].value > 0 /\ ExtractAddresses(tx.vout[k].spk) # <<>>}
      IN  SumFunction([k \in DOMAIN result[t] |-> result[t][k].amount])
            = SumFunctionOnSet([k \in outs |-> tx.vout[k].value], outs)

\* spec.md 4.4 and 4.7: the facade does not fall back itself, so one run of
\* the fetch closure issues at most two getblock calls (verbosity 3, then 2).
AtMostTwoGetblockCalls == calls <= 2


-----------------------------------------------------------------------------
(* GetBlock implements its contract GetBlockAbstract.                      *)

\* The contract's phase of a place in GetBlock: the RPCs of the fetch
\* closure and the retries are the fetch; the enrichment decision and the
\* goroutines are the enrichment.
Phase ==
  CASE pc \in {"hash", "v3", "v3fb", "v2"} -> "fetch"
    [] pc \in {"enrich", "wait"}            -> "enrich"
    [] pc = "done"                          -> "done"
    [] pc = "failed"                        -> "failed"

Abstract == INSTANCE GetBlockAbstract
              WITH phase <- Phase, Answers <- {V2Block, V3Block},
                   Process <- BlockTransfers

\* GetBlock with its retries, fallbacks, goroutines and cancellation
\* implements the safety part of its contract: the block is assigned once,
\* as a getblock answer; each prevout is written at most once, into a vin
\* that had none, with the output it spends, and only before processBlock;
\* processBlock runs once.  That the call ends is Termination.
ImplementsAbstract == Abstract!SafetySpec

=============================================================================
