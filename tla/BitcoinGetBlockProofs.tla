------------------------ MODULE BitcoinGetBlockProofs ------------------------
(***************************************************************************)
(* Proofs about the prevout enrichment of GetBlock, for every block, every *)
(* semaphore capacity and every retry bound: the semaphore count is the    *)
(* number of running goroutines and never exceeds its capacity, and no     *)
(* goroutine writes into the block after processBlock has read it.         *)
(***************************************************************************)
EXTENDS BitcoinGetBlock, FiniteSetTheorems, SequenceTheorems, TLAPS

Running == {t \in TxIdx : task[t] = "run"}

\* Goroutines exist only between StartEnrich and the return of wg.Wait():
\* outside pc = "wait" no goroutine is waiting for or holding a slot.
NoGoroutineOutsideWait ==
  pc # "wait" => \A t \in TxIdx : task[t] \in {"none", "done"}

SemInv ==
  /\ pc \in PCs
  /\ task \in [TxIdx -> TaskStates]
  /\ sem \in Nat
  /\ sem = Cardinality(Running)
  /\ sem <= EnrichCap
  /\ NoGoroutineOutsideWait

LEMMA RunningFinite == IsFiniteSet(Running)
BY BitcoinGetBlockAssumption, FS_Subset DEF Running, TxIdx

LEMMA InitSemInv == Init => SemInv
<1>. SUFFICES ASSUME Init PROVE SemInv OBVIOUS
<1>1. Running = {} BY DEF Init, Running
<1>2. sem = Cardinality(Running) BY <1>1, FS_EmptySet DEF Init
<1>3. task \in [TxIdx -> TaskStates] BY DEF Init, TaskStates
<1>. QED BY <1>2, <1>3, BitcoinGetBlockAssumption
       DEF Init, SemInv, PCs, TaskStates, NoGoroutineOutsideWait

LEMMA NextSemInv == SemInv /\ [Next]_vars => SemInv'
<1>. SUFFICES ASSUME SemInv, [Next]_vars PROVE SemInv' OBVIOUS
<1>. USE BitcoinGetBlockAssumption, RunningFinite
<1>1. ASSUME NEW t \in TxIdx, Acquire(t) PROVE SemInv'
  <2>1. t \notin Running /\ Running' = Running \cup {t}
    BY <1>1 DEF Acquire, SemInv, Running
  <2>2. Cardinality(Running') = Cardinality(Running) + 1 BY <2>1, FS_AddElement
  <2>. QED BY <1>1, <2>2 DEF Acquire, SemInv, TaskStates, NoGoroutineOutsideWait
<1>2. ASSUME NEW t \in TxIdx, Release(t) PROVE SemInv'
  <2>1. t \in Running /\ Running' = Running \ {t}
    BY <1>2 DEF Release, SemInv, Running
  <2>2. Cardinality(Running') = Cardinality(Running) - 1 BY <2>1, FS_RemoveElement
  <2>3. Cardinality(Running) >= 1
    <3>1. Cardinality(Running) \in Nat BY FS_CardinalityType
    <3>2. Cardinality(Running) # 0 BY <2>1, FS_EmptySet
    <3>. QED BY <3>1, <3>2
  <2>. QED BY <1>2, <2>2, <2>3 DEF Release, SemInv, TaskStates, NoGoroutineOutsideWait
<1>3. ASSUME NEW t \in TxIdx, FetchPrevOut(t) PROVE SemInv'
  BY <1>3 DEF FetchPrevOut, SemInv, Running, NoGoroutineOutsideWait
<1>4. CASE StartEnrich
  <2>1. Running = {} BY <1>4 DEF StartEnrich, SemInv, NoGoroutineOutsideWait, Running
  <2>2. sem = 0 BY <2>1, FS_EmptySet DEF SemInv
  <2>3. CASE ~BlockHasPrevOutData(blk) /\ pc' = "wait"
              /\ task' = [x \in TxIdx |-> IF x \in Enrichable(blk) THEN "wait" ELSE "none"]
    <3>1. Running' = {} BY <2>3 DEF Running
    <3>. QED BY <1>4, <2>2, <2>3, <3>1, FS_EmptySet
           DEF StartEnrich, SemInv, PCs, TaskStates, NoGoroutineOutsideWait
  <2>4. CASE ProcessBlock /\ UNCHANGED task
    BY <1>4, <2>4 DEF StartEnrich, ProcessBlock, SemInv, PCs, Running, NoGoroutineOutsideWait
  <2>. QED BY <1>4, <2>3, <2>4 DEF StartEnrich
<1>5. CASE FinishEnrich
  BY <1>5 DEF FinishEnrich, ProcessBlock, SemInv, PCs, Running, NoGoroutineOutsideWait
<1>6. CASE GetBlockHash \/ GetBlockWithPrevOut \/ FacadeFallback \/ GetBlockVerbose
  BY <1>6 DEF GetBlockHash, GetBlockWithPrevOut, FacadeFallback, GetBlockVerbose,
              AttemptFailed, SemInv, PCs, Running, NoGoroutineOutsideWait
<1>7. CASE Cancel \/ Returned \/ UNCHANGED vars
  BY <1>7 DEF Cancel, Returned, vars, SemInv, Running, NoGoroutineOutsideWait
<1>. QED BY <1>1, <1>2, <1>3, <1>4, <1>5, <1>6, <1>7 DEF Next, Step

-----------------------------------------------------------------------------
(* The theorems.                                                           *)

\* The enrichment semaphore: in every state, the slots held are exactly the
\* running goroutines and are at most EnrichCap.
THEOREM SemaphoreBoundHolds == Spec => []SemaphoreBound
<1>1. SemInv => SemaphoreBound BY DEF SemInv, SemaphoreBound, Running
<1>. QED BY <1>1, InitSemInv, NextSemInv, PTL DEF Spec

\* Once processBlock has read the block, no step writes into it: no RPC of
\* the fetch closure is pending and no enrichment goroutine is left.
LEMMA DoneStepKeepsBlock == SemInv /\ [Next]_vars => [pc = "done" => blk' = blk]_vars
<1>. SUFFICES ASSUME SemInv, [Next]_vars, pc = "done" PROVE blk' = blk OBVIOUS
<1>1. \A t \in TxIdx : task[t] \in {"none", "done"} BY DEF SemInv, NoGoroutineOutsideWait
<1>2. \A t \in TxIdx : ~FetchPrevOut(t) BY <1>1 DEF FetchPrevOut
<1>. QED BY <1>2 DEF Next, Step, GetBlockHash, GetBlockWithPrevOut, FacadeFallback,
                   GetBlockVerbose, StartEnrich, FinishEnrich, Acquire, Release,
                   Cancel, Returned, vars

THEOREM NoWriteAfterProcessHolds == Spec => NoWriteAfterProcess
BY InitSemInv, NextSemInv, DoneStepKeepsBlock, PTL DEF Spec, NoWriteAfterProcess

-----------------------------------------------------------------------------
(* Every prevout in the block is the output its vin spends.                *)

\* Every prevout of block b is vout[vin.Vout] of the tx the vin names.
Matched(b) ==
  \A t \in TxIdx : \A j \in DOMAIN b[t].vin :
    b[t].vin[j].prevout # NoPrevOut =>
      /\ b[t].vin[j].txid \in DOMAIN PrevTx
      /\ b[t].vin[j].prevout = PrevOutOf(b[t].vin[j])

\* Before the fetch closure assigned blk no goroutine exists, and the
\* enrichment starts only once it has; after that blk is a decoded block
\* whose prevouts all match.
PInv ==
  /\ task \in [TxIdx -> TaskStates]
  /\ cursor \in [TxIdx -> Nat \ {0}]
  /\ pc \in {"enrich", "wait", "done"} => blk # NoBlock
  /\ blk = NoBlock => \A t \in TxIdx : task[t] = "none"
  /\ blk # NoBlock => blk \in [TxIdx -> Txs] /\ Matched(blk)

LEMMA PrevOutOfType ==
  ASSUME NEW vin \in Vins, Resolvable(vin)
  PROVE  PrevOutOf(vin) \in PrevOuts
<1>1. PrevTx[vin.txid] \in Seq(PrevOuts) BY BitcoinGetBlockAssumption DEF Resolvable
<1>2. vin.vout + 1 \in 1..Len(PrevTx[vin.txid]) BY DEF Resolvable, Vins
<1>3. PrevTx[vin.txid][vin.vout + 1] \in PrevOuts BY <1>1, <1>2
<1>. QED BY <1>3 DEF PrevOutOf, PrevOuts

\* Setting the prevout of a vin keeps it a vin with the same txid and vout.
LEMMA SetPrevOut ==
  ASSUME NEW vin \in Vins, NEW x \in {NoPrevOut} \cup PrevOuts
  PROVE  /\ [vin EXCEPT !.prevout = x] \in Vins
         /\ [vin EXCEPT !.prevout = x].txid = vin.txid
         /\ [vin EXCEPT !.prevout = x].vout = vin.vout
         /\ [vin EXCEPT !.prevout = x].prevout = x
BY DEF Vins

LEMMA V2Matched == Matched(V2Block)
BY BitcoinGetBlockAssumption DEF Matched

LEMMA V3Shape == V3Block \in [TxIdx -> Txs] /\ Matched(V3Block)
<1>. USE BitcoinGetBlockAssumption
<1>. DEFINE NewVin(t, j) == IF Resolvable(V2Block[t].vin[j])
                           THEN [V2Block[t].vin[j] EXCEPT !.prevout = PrevOutOf(V2Block[t].vin[j])]
                           ELSE V2Block[t].vin[j]
            NewVins(t) == [j \in DOMAIN V2Block[t].vin |-> NewVin(t, j)]
<1>1. ASSUME NEW t \in TxIdx, NEW j \in DOMAIN V2Block[t].vin
      PROVE  /\ NewVin(t, j) \in Vins
             /\ NewVin(t, j).prevout # NoPrevOut =>
                  /\ NewVin(t, j).txid \in DOMAIN PrevTx
                  /\ NewVin(t, j).prevout = PrevOutOf(NewVin(t, j))
  <2>1. V2Block[t].vin[j] \in Vins BY DEF Txs
  <2>2. CASE Resolvable(V2Block[t].vin[j])
    <3>1. PrevOutOf(V2Block[t].vin[j]) \in PrevOuts BY <2>1, <2>2, PrevOutOfType
    <3>2. PrevOutOf(NewVin(t, j)) = PrevOutOf(V2Block[t].vin[j])
      BY <2>1, <2>2, <3>1, SetPrevOut DEF PrevOutOf
    <3>. QED BY <2>1, <2>2, <3>1, <3>2, SetPrevOut DEF Resolvable
  <2>3. CASE ~Resolvable(V2Block[t].vin[j]) BY <2>1, <2>3
  <2>. QED BY <2>2, <2>3
<1>2. ASSUME NEW t \in TxIdx PROVE NewVins(t) \in Seq(Vins)
  <2>1. V2Block[t].vin \in Seq(Vins) BY DEF Txs
  <2>2. Len(V2Block[t].vin) \in Nat /\ DOMAIN V2Block[t].vin = 1..Len(V2Block[t].vin)
    BY <2>1, LenProperties
  <2>3. NewVins(t) \in [1..Len(V2Block[t].vin) -> Vins] BY <1>1, <2>2
  <2>. QED BY <2>2, <2>3, SeqDef
<1>3. ASSUME NEW t \in TxIdx PROVE V3Block[t] = [vin |-> NewVins(t), vout |-> V2Block[t].vout]
  BY DEF V3Block, Txs
<1>4. V3Block \in [TxIdx -> Txs] BY <1>2, <1>3 DEF V3Block, Txs
<1>5. Matched(V3Block)
  <2>. SUFFICES ASSUME NEW t \in TxIdx, NEW j \in DOMAIN V3Block[t].vin,
                      V3Block[t].vin[j].prevout # NoPrevOut
               PROVE  /\ V3Block[t].vin[j].txid \in DOMAIN PrevTx
                      /\ V3Block[t].vin[j].prevout = PrevOutOf(V3Block[t].vin[j])
       BY DEF Matched
  <2>1. V3Block[t] = [vin |-> NewVins(t), vout |-> V2Block[t].vout] BY <1>3
  <2>2. V3Block[t].vin = NewVins(t) BY <2>1
  <2>3. j \in DOMAIN V2Block[t].vin BY <2>2
  <2>4. V3Block[t].vin[j] = NewVin(t, j) BY <2>2, <2>3
  <2>. QED BY <2>3, <2>4, <1>1
<1>. QED BY <1>4, <1>5


\* A goroutine's write of one prevout keeps the block decoded and matched.
LEMMA WriteMatched ==
  ASSUME NEW b \in [TxIdx -> Txs], Matched(b), NEW t \in TxIdx,
         NEW c \in 1..Len(b[t].vin), Resolvable(b[t].vin[c])
  PROVE  LET nb == [b EXCEPT ![t].vin[c].prevout = PrevOutOf(b[t].vin[c])]
         IN  nb \in [TxIdx -> Txs] /\ Matched(nb)
<1>. DEFINE v0 == b[t].vin[c]
            nv == [v0 EXCEPT !.prevout = PrevOutOf(v0)]
            nvs == [b[t].vin EXCEPT ![c] = nv]
            nb == [b EXCEPT ![t].vin[c].prevout = PrevOutOf(b[t].vin[c])]
<1>1. b[t].vin \in Seq(Vins) /\ b[t] = [vin |-> b[t].vin, vout |-> b[t].vout]
  BY DEF Txs
<1>2. v0 \in Vins BY <1>1, ElementOfSeq
<1>3. PrevOutOf(v0) \in PrevOuts BY <1>2, PrevOutOfType
<1>4. nv \in Vins /\ nv.txid = v0.txid /\ nv.vout = v0.vout /\ nv.prevout = PrevOutOf(v0)
  BY <1>2, <1>3, SetPrevOut
<1>5. nvs \in Seq(Vins) /\ DOMAIN nvs = DOMAIN b[t].vin
      /\ \A j \in DOMAIN nvs : nvs[j] = IF j = c THEN nv ELSE b[t].vin[j]
  <2>1. Len(nvs) = Len(b[t].vin) /\ nvs \in Seq(Vins) BY <1>1, <1>4, ExceptSeq
  <2>. QED BY <2>1, <1>1, LenProperties
<1>6. nb = [b EXCEPT ![t] = [b[t] EXCEPT !.vin = nvs]] OBVIOUS
<1>7. nb \in [TxIdx -> Txs] /\ nb[t].vin = nvs /\ \A u \in TxIdx \ {t} : nb[u] = b[u]
  <2>1. b[t] \in Txs OBVIOUS
  <2>2. [b[t] EXCEPT !.vin = nvs] \in Txs /\ [b[t] EXCEPT !.vin = nvs].vin = nvs
    BY <1>5, <2>1 DEF Txs
  <2>. QED BY <1>6, <2>2
<1>8. PrevOutOf(nv) = PrevOutOf(v0) BY <1>4 DEF PrevOutOf
<1>9. Matched(nb)
  <2>. SUFFICES ASSUME NEW u \in TxIdx, NEW j \in DOMAIN nb[u].vin,
                      nb[u].vin[j].prevout # NoPrevOut
               PROVE  /\ nb[u].vin[j].txid \in DOMAIN PrevTx
                      /\ nb[u].vin[j].prevout = PrevOutOf(nb[u].vin[j])
       BY DEF Matched
  <2>1. CASE u # t BY <2>1, <1>7 DEF Matched
  <2>2. CASE u = t /\ j = c
    <3>1. nb[u].vin[j] = nv BY <2>2, <1>5, <1>7
    <3>2. v0.txid \in DOMAIN PrevTx BY DEF Resolvable
    <3>. QED BY <3>1, <3>2, <1>4, <1>8
  <2>3. CASE u = t /\ j # c
    <3>1. j \in DOMAIN b[t].vin /\ nb[u].vin[j] = b[t].vin[j] BY <2>3, <1>5, <1>7
    <3>. QED BY <3>1, <2>3 DEF Matched
  <2>. QED BY <2>1, <2>2, <2>3
<1>. QED BY <1>7, <1>9

LEMMA InitPInv == Init => PInv
BY DEF Init, PInv, TaskStates

LEMMA NextPInv == PInv /\ [Next]_vars => PInv'
<1>. SUFFICES ASSUME PInv, [Next]_vars PROVE PInv' OBVIOUS
<1>1. ASSUME NEW t \in TxIdx, FetchPrevOut(t) PROVE PInv'
  <2>. DEFINE vin == blk[t].vin[cursor[t]]
  <2>1. blk # NoBlock BY <1>1 DEF FetchPrevOut, PInv
  <2>2. blk \in [TxIdx -> Txs] /\ Matched(blk) BY <2>1 DEF PInv
  <2>3. cursor[t] \in 1..Len(blk[t].vin)
    <3>1. blk[t].vin \in Seq(Vins) BY <2>2 DEF Txs
    <3>2. cursor[t] \in Nat \ {0} BY DEF PInv
    <3>3. Len(blk[t].vin) \in Nat BY <3>1, LenProperties
    <3>4. cursor[t] <= Len(blk[t].vin) BY <1>1 DEF FetchPrevOut
    <3>. QED BY <3>2, <3>3, <3>4
  <2>4. cursor' \in [TxIdx -> Nat \ {0}]
    <3>1. cursor[t] + 1 \in Nat \ {0} BY DEF PInv
    <3>. QED BY <1>1, <3>1 DEF FetchPrevOut, PInv
  <2>5. CASE blk' = blk BY <1>1, <2>1, <2>2, <2>4, <2>5 DEF FetchPrevOut, PInv
  <2>6. CASE blk' = [blk EXCEPT ![t].vin[cursor[t]].prevout = PrevOutOf(vin)]
              /\ Resolvable(vin)
    <3>1. blk' \in [TxIdx -> Txs] /\ Matched(blk') BY <2>2, <2>3, <2>6, WriteMatched
    <3>2. blk' # NoBlock BY <3>1, BitcoinGetBlockAssumption
    <3>. QED BY <1>1, <2>4, <3>1, <3>2 DEF FetchPrevOut, PInv
  <2>7. blk' = blk \/ (blk' = [blk EXCEPT ![t].vin[cursor[t]].prevout = PrevOutOf(vin)] /\ Resolvable(vin))
    BY <1>1 DEF FetchPrevOut, Resolvable
  <2>. QED BY <2>5, <2>6, <2>7
<1>2. CASE GetBlockWithPrevOut \/ FacadeFallback \/ GetBlockVerbose
  <2>1. blk' \in {blk, V2Block, V3Block}
    BY <1>2 DEF GetBlockWithPrevOut, FacadeFallback, GetBlockVerbose
  <2>2. V2Block \in [TxIdx -> Txs] /\ Matched(V2Block) /\ V2Block # NoBlock
    BY BitcoinGetBlockAssumption, V2Matched
  <2>3. V3Block \in [TxIdx -> Txs] /\ Matched(V3Block) /\ V3Block # NoBlock
    BY BitcoinGetBlockAssumption, V3Shape
  <2>4. pc' \in {"enrich", "wait", "done"} => blk' # NoBlock
    <3>1. pc' = "enrich" => blk' \in {V2Block, V3Block}
      BY <1>2 DEF GetBlockWithPrevOut, FacadeFallback, GetBlockVerbose, AttemptFailed
    <3>2. pc' \in {"enrich", "wait", "done"} => pc' = "enrich"
      BY <1>2 DEF GetBlockWithPrevOut, FacadeFallback, GetBlockVerbose, AttemptFailed
    <3>. QED BY <3>1, <3>2, <2>2, <2>3
  <2>. QED BY <1>2, <2>1, <2>2, <2>3, <2>4
         DEF GetBlockWithPrevOut, FacadeFallback, GetBlockVerbose, PInv
<1>3. CASE StartEnrich
  <2>1. blk # NoBlock BY <1>3 DEF StartEnrich, PInv
  <2>. QED BY <1>3, <2>1 DEF StartEnrich, ProcessBlock, PInv, TaskStates
<1>4. ASSUME NEW t \in TxIdx, Acquire(t) \/ Release(t) PROVE PInv'
  <2>1. blk # NoBlock BY <1>4 DEF Acquire, Release, PInv
  <2>. QED BY <1>4, <2>1 DEF Acquire, Release, PInv, TaskStates
<1>5. CASE GetBlockHash \/ FinishEnrich \/ Cancel \/ Returned \/ UNCHANGED vars
  BY <1>5 DEF GetBlockHash, AttemptFailed, FinishEnrich, ProcessBlock, Cancel,
              Returned, vars, PInv
<1>. QED BY <1>1, <1>2, <1>3, <1>4, <1>5 DEF Next, Step

\* The prevouts GetBlock hands processBlock: in every state, each prevout of
\* the block, attached by getblock verbosity 3 or written by an enrichment
\* goroutine, is the output its vin spends.
THEOREM PrevOutMatchesSpentOutputHolds == Spec => []PrevOutMatchesSpentOutput
<1>1. PInv => PrevOutMatchesSpentOutput BY DEF PInv, Matched, PrevOutOf, PrevOutMatchesSpentOutput
<1>. QED BY <1>1, InitPInv, NextPInv, PTL DEF Spec


-----------------------------------------------------------------------------
(* GetBlock implements its contract GetBlockAbstract.                      *)

\* A goroutine that is waiting or running has not reached a vin with a
\* prevout: every vin from its cursor on still has none.
Pending ==
  \A t \in TxIdx : task[t] \in {"wait", "run"} =>
    \A j \in cursor[t]..Len(blk[t].vin) : blk[t].vin[j].prevout = NoPrevOut

GInv == SemInv /\ PInv /\ Pending


\* What a write of one prevout leaves alone: the other transactions, the
\* other vins of its own, and the length of its vin list.
LEMMA WriteFrame ==
  ASSUME NEW b \in [TxIdx -> Txs], NEW t \in TxIdx, NEW c \in 1..Len(b[t].vin),
         NEW x \in PrevOuts
  PROVE  LET nb == [b EXCEPT ![t].vin[c].prevout = x]
         IN  /\ \A u \in TxIdx \ {t} : nb[u] = b[u]
             /\ nb[t].vin \in Seq(Vins)
             /\ Len(nb[t].vin) = Len(b[t].vin)
             /\ \A j \in 1..Len(b[t].vin) \ {c} : nb[t].vin[j] = b[t].vin[j]
<1>. DEFINE nv == [b[t].vin[c] EXCEPT !.prevout = x]
            nvs == [b[t].vin EXCEPT ![c] = nv]
            nb == [b EXCEPT ![t].vin[c].prevout = x]
<1>1. b[t].vin \in Seq(Vins) BY DEF Txs
<1>2. nv \in Vins BY <1>1, ElementOfSeq, SetPrevOut
<1>3. nvs \in Seq(Vins) /\ Len(nvs) = Len(b[t].vin)
      /\ \A j \in 1..Len(b[t].vin) : nvs[j] = IF j = c THEN nv ELSE b[t].vin[j]
  BY <1>1, <1>2, ExceptSeq
<1>4. nb = [b EXCEPT ![t] = [b[t] EXCEPT !.vin = nvs]] OBVIOUS
<1>5. nb[t].vin = nvs /\ \A u \in TxIdx \ {t} : nb[u] = b[u]
  <2>1. b[t] \in Txs OBVIOUS
  <2>2. [b[t] EXCEPT !.vin = nvs].vin = nvs BY <2>1 DEF Txs
  <2>. QED BY <1>4, <2>2
<1>. QED BY <1>3, <1>5

LEMMA NextPending == GInv /\ [Next]_vars => Pending'
<1>. SUFFICES ASSUME GInv, [Next]_vars PROVE Pending' OBVIOUS
<1>0. SemInv /\ PInv /\ Pending BY DEF GInv
<1>1. ASSUME NEW t \in TxIdx, FetchPrevOut(t) PROVE Pending'
  <2>. DEFINE c == cursor[t]
              vin == blk[t].vin[c]
  <2>1. blk # NoBlock /\ blk \in [TxIdx -> Txs] BY <1>0, <1>1 DEF FetchPrevOut, PInv
  <2>2. c \in 1..Len(blk[t].vin) /\ cursor' = [cursor EXCEPT ![t] = c + 1]
    <3>1. blk[t].vin \in Seq(Vins) BY <2>1 DEF Txs
    <3>2. Len(blk[t].vin) \in Nat BY <3>1, LenProperties
    <3>3. c \in Nat \ {0} /\ c <= Len(blk[t].vin) BY <1>0, <1>1 DEF FetchPrevOut, PInv
    <3>4. c \in 1..Len(blk[t].vin) BY <3>2, <3>3
    <3>5. cursor' = [cursor EXCEPT ![t] = c + 1] BY <1>1 DEF FetchPrevOut
    <3>. QED BY <3>4, <3>5
  <2>3. task' = task BY <1>1 DEF FetchPrevOut
  <2>4. cursor \in [TxIdx -> Nat \ {0}] BY <1>0 DEF PInv
  <2>5. CASE blk' = blk
    BY <2>2, <2>3, <2>4, <2>5, <1>0 DEF Pending
  <2>6. CASE blk' = [blk EXCEPT ![t].vin[c].prevout = PrevOutOf(vin)] /\ Resolvable(vin)
    <3>1. vin \in Vins
      <4>1. blk[t].vin \in Seq(Vins) BY <2>1 DEF Txs
      <4>. QED BY <4>1, <2>2, ElementOfSeq
    <3>2. PrevOutOf(vin) \in PrevOuts BY <3>1, <2>6, PrevOutOfType
    <3>3. /\ \A u \in TxIdx \ {t} : blk'[u] = blk[u]
          /\ Len(blk'[t].vin) = Len(blk[t].vin)
          /\ \A j \in 1..Len(blk[t].vin) \ {c} : blk'[t].vin[j] = blk[t].vin[j]
      BY <2>1, <2>2, <2>6, <3>2, WriteFrame
    <3>. SUFFICES ASSUME NEW u \in TxIdx, task'[u] \in {"wait", "run"},
                        NEW j \in cursor'[u]..Len(blk'[u].vin)
                 PROVE  blk'[u].vin[j].prevout = NoPrevOut
         BY DEF Pending
    <3>4. CASE u # t BY <3>4, <3>3, <2>2, <2>3, <2>4, <1>0 DEF Pending
    <3>5. CASE u = t
      <4>1. j \in c + 1..Len(blk[t].vin) BY <3>5, <3>3, <2>2, <2>4
      <4>2. blk'[t].vin[j] = blk[t].vin[j] BY <4>1, <3>3, <2>2
      <4>3. blk[t].vin[j].prevout = NoPrevOut
        <5>1. task[t] \in {"wait", "run"} BY <3>5, <2>3
        <5>2. j \in cursor[t]..Len(blk[t].vin) BY <4>1, <2>4
        <5>. QED BY <5>1, <5>2, <1>0 DEF Pending
      <4>. QED BY <4>2, <4>3, <3>5
    <3>. QED BY <3>4, <3>5
  <2>7. blk' = blk \/ (blk' = [blk EXCEPT ![t].vin[c].prevout = PrevOutOf(vin)] /\ Resolvable(vin))
    BY <1>1 DEF FetchPrevOut, Resolvable
  <2>. QED BY <2>5, <2>6, <2>7
<1>2. CASE StartEnrich
  <2>1. CASE ~BlockHasPrevOutData(blk) /\ pc' = "wait"
              /\ task' = [x \in TxIdx |-> IF x \in Enrichable(blk) THEN "wait" ELSE "none"]
    <3>1. blk # NoBlock /\ blk \in [TxIdx -> Txs] BY <1>2, <1>0 DEF StartEnrich, PInv
    <3>. SUFFICES ASSUME NEW u \in TxIdx, task'[u] \in {"wait", "run"},
                        NEW j \in cursor'[u]..Len(blk'[u].vin)
                 PROVE  blk'[u].vin[j].prevout = NoPrevOut
         BY DEF Pending
    <3>2. u \in Enrichable(blk) BY <2>1
    <3>3. \A k \in DOMAIN blk[u].vin : blk[u].vin[k].prevout = NoPrevOut
      BY <3>2 DEF Enrichable, HasPrevOutData
    <3>4. j \in DOMAIN blk[u].vin
      <4>1. blk[u].vin \in Seq(Vins) BY <3>1 DEF Txs
      <4>2. DOMAIN blk[u].vin = 1..Len(blk[u].vin) BY <4>1, LenProperties
      <4>3. cursor[u] \in Nat \ {0} BY <1>0 DEF PInv
      <4>. QED BY <4>2, <4>3, <1>2 DEF StartEnrich
    <3>. QED BY <3>3, <3>4, <1>2 DEF StartEnrich
  <2>2. CASE ProcessBlock /\ UNCHANGED task
    BY <2>2, <1>2, <1>0 DEF StartEnrich, Pending
  <2>. QED BY <1>2, <2>1, <2>2 DEF StartEnrich
<1>3. ASSUME NEW t \in TxIdx, Acquire(t) \/ Release(t) PROVE Pending'
  <2>1. \A u \in TxIdx : task'[u] \in {"wait", "run"} => task[u] \in {"wait", "run"}
    BY <1>3, <1>0 DEF Acquire, Release, SemInv
  <2>. QED BY <2>1, <1>3, <1>0 DEF Acquire, Release, Pending
<1>4. CASE GetBlockHash \/ GetBlockWithPrevOut \/ FacadeFallback \/ GetBlockVerbose
  <2>1. pc # "wait" BY <1>4 DEF GetBlockHash, GetBlockWithPrevOut, FacadeFallback, GetBlockVerbose
  <2>2. \A u \in TxIdx : task[u] \in {"none", "done"} BY <2>1, <1>0 DEF SemInv, NoGoroutineOutsideWait
  <2>3. task' = task BY <1>4 DEF GetBlockHash, GetBlockWithPrevOut, FacadeFallback, GetBlockVerbose
  <2>. QED BY <2>2, <2>3 DEF Pending
<1>5. CASE FinishEnrich \/ Cancel \/ Returned \/ UNCHANGED vars
  BY <1>5, <1>0 DEF FinishEnrich, Cancel, Returned, vars, Pending
<1>. QED BY <1>1, <1>2, <1>3, <1>4, <1>5 DEF Next, Step


LEMMA InitPending == Init => Pending
BY DEF Init, Pending

LEMMA InitGInv == Init => GInv
BY InitSemInv, InitPInv, InitPending DEF GInv

LEMMA NextGInv == GInv /\ [Next]_vars => GInv'
<1>. SUFFICES ASSUME GInv, [Next]_vars PROVE GInv' OBVIOUS
<1>1. SemInv' BY NextSemInv DEF GInv
<1>2. PInv' BY NextPInv DEF GInv
<1>3. Pending' BY NextPending
<1>. QED BY <1>1, <1>2, <1>3 DEF GInv

\* The call starts where its contract starts: fetching, with no block and
\* no result.
LEMMA InitRefinesContract == Init => Abstract!Init
BY DEF Init, Abstract!Init, Phase

\* A step that leaves pc's phase, blk and result alone is a contract stutter.
LEMMA PhaseStutter ==
  ASSUME Phase' = Phase, blk' = blk, result' = result
  PROVE  [Abstract!Next]_Abstract!avars
BY DEF Abstract!avars

\* An attempt of the failover loop failing is a contract Fail or a stutter.
LEMMA AttemptFailedRefines ==
  ASSUME pc \in {"hash", "v2"}, AttemptFailed, blk' = blk, result' = result
  PROVE  [Abstract!Next]_Abstract!avars
<1>1. CASE pc' = "failed" BY <1>1 DEF Abstract!Next, Abstract!Fail, Phase
<1>2. CASE pc' = "hash" BY <1>2, PhaseStutter DEF Phase
<1>. QED BY <1>1, <1>2 DEF AttemptFailed


\* Every step of GetBlock is a step of its contract or leaves the contract's
\* state alone.
LEMMA StepRefinesContract == GInv /\ [Next]_vars => [Abstract!Next]_Abstract!avars
<1>. SUFFICES ASSUME GInv, [Next]_vars PROVE [Abstract!Next]_Abstract!avars OBVIOUS
<1>0. SemInv /\ PInv /\ Pending BY DEF GInv
<1>1. CASE GetBlockHash
  <2>1. CASE ~ctxDone /\ pc' = "v3" BY <1>1, <2>1, PhaseStutter DEF GetBlockHash, Phase
  <2>2. CASE AttemptFailed BY <1>1, <2>2, AttemptFailedRefines DEF GetBlockHash
  <2>. QED BY <1>1, <2>1, <2>2 DEF GetBlockHash
<1>2. CASE GetBlockWithPrevOut
  <2>1. CASE ~ctxDone /\ blk' = V3Block /\ pc' = "enrich"
    BY <1>2, <2>1 DEF GetBlockWithPrevOut, Abstract!Next, Abstract!Fetch, Phase
  <2>2. CASE pc' \in {"v3fb", "v2"} /\ blk' = blk
    BY <1>2, <2>2, PhaseStutter DEF GetBlockWithPrevOut, Phase
  <2>. QED BY <1>2, <2>1, <2>2 DEF GetBlockWithPrevOut
<1>3. CASE FacadeFallback
  <2>1. CASE ~ctxDone /\ blk' = V2Block /\ pc' = "enrich"
    BY <1>3, <2>1 DEF FacadeFallback, Abstract!Next, Abstract!Fetch, Phase
  <2>2. CASE pc' = "v2" /\ blk' = blk
    BY <1>3, <2>2, PhaseStutter DEF FacadeFallback, Phase
  <2>. QED BY <1>3, <2>1, <2>2 DEF FacadeFallback
<1>4. CASE GetBlockVerbose
  <2>1. CASE ~ctxDone /\ blk' = V2Block /\ pc' = "enrich"
    BY <1>4, <2>1 DEF GetBlockVerbose, Abstract!Next, Abstract!Fetch, Phase
  <2>2. CASE AttemptFailed /\ blk' = blk BY <1>4, <2>2, AttemptFailedRefines DEF GetBlockVerbose
  <2>. QED BY <1>4, <2>1, <2>2 DEF GetBlockVerbose
<1>5. CASE StartEnrich
  <2>1. CASE pc' = "wait"
    <3>1. blk' = blk /\ result' = result BY <1>5, <2>1 DEF StartEnrich, ProcessBlock
    <3>2. Phase' = Phase BY <1>5, <2>1 DEF StartEnrich, Phase
    <3>. QED BY <3>1, <3>2, PhaseStutter
  <2>2. CASE ProcessBlock
    BY <1>5, <2>2 DEF StartEnrich, ProcessBlock, Abstract!Next, Abstract!Done, Phase
  <2>. QED BY <1>5, <2>1, <2>2 DEF StartEnrich
<1>6. CASE FinishEnrich
  BY <1>6 DEF FinishEnrich, ProcessBlock, Abstract!Next, Abstract!Done, Phase
<1>7. ASSUME NEW t \in TxIdx, Acquire(t) \/ Release(t) PROVE [Abstract!Next]_Abstract!avars
  BY <1>7, PhaseStutter DEF Acquire, Release, Phase
<1>8. ASSUME NEW t \in TxIdx, FetchPrevOut(t) PROVE [Abstract!Next]_Abstract!avars
  <2>. DEFINE c == cursor[t]
              vin == blk[t].vin[c]
  <2>1. pc = "wait" BY <1>8, <1>0 DEF FetchPrevOut, SemInv, NoGoroutineOutsideWait
  <2>2. blk \in [TxIdx -> Txs] BY <2>1, <1>0 DEF PInv
  <2>3. c \in 1..Len(blk[t].vin) /\ DOMAIN blk[t].vin = 1..Len(blk[t].vin)
    <3>1. blk[t].vin \in Seq(Vins) BY <2>2 DEF Txs
    <3>2. Len(blk[t].vin) \in Nat /\ DOMAIN blk[t].vin = 1..Len(blk[t].vin) BY <3>1, LenProperties
    <3>3. c \in Nat \ {0} /\ c <= Len(blk[t].vin) BY <1>8, <1>0 DEF FetchPrevOut, PInv
    <3>. QED BY <3>2, <3>3
  <2>4. UNCHANGED <<pc, result>> BY <1>8 DEF FetchPrevOut
  <2>5. CASE blk' = blk BY <2>4, <2>5, PhaseStutter DEF Phase
  <2>6. CASE blk' = [blk EXCEPT ![t].vin[c].prevout = PrevOutOf(vin)] /\ Resolvable(vin)
    <3>1. vin.prevout = NoPrevOut
      <4>1. task[t] \in {"wait", "run"} BY <1>8 DEF FetchPrevOut
      <4>2. c \in cursor[t]..Len(blk[t].vin) BY <2>3
      <4>. QED BY <4>1, <4>2, <1>0 DEF Pending
    <3>2. Abstract!Fill(t, c) BY <2>1, <2>4, <2>6, <3>1 DEF Abstract!Fill, Phase
    <3>3. Phase = "enrich" BY <2>1 DEF Phase
    <3>4. t \in DOMAIN blk /\ c \in DOMAIN blk[t].vin BY <2>2, <2>3
    <3>. QED BY <3>2, <3>3, <3>4 DEF Abstract!Next
  <2>7. blk' = blk \/ (blk' = [blk EXCEPT ![t].vin[c].prevout = PrevOutOf(vin)] /\ Resolvable(vin))
    BY <1>8 DEF FetchPrevOut, Resolvable
  <2>. QED BY <2>5, <2>6, <2>7
<1>9. CASE Cancel \/ Returned \/ UNCHANGED vars
  BY <1>9, PhaseStutter DEF Cancel, Returned, vars, Phase
<1>. QED BY <1>1, <1>2, <1>3, <1>4, <1>5, <1>6, <1>7, <1>8, <1>9 DEF Next, Step

\* BitcoinIndexer.GetBlock (bitcoin.go:49-92 with the enrichment of
\* bitcoin_part_002.go) implements the contract GetBlockAbstract: the block
\* is fetched once as a getblock answer or the call fails; afterwards each
\* enrichment write fills a vin still without prevout with the output it
\* spends; processBlock runs once on the block as it then is; and no retry,
\* goroutine interleaving or cancellation does anything else.
THEOREM ImplementsAbstractHolds == Spec => ImplementsAbstract
<1>1. GInv /\ [Next]_vars => GInv' BY NextGInv
<1>2. GInv /\ [Next]_vars => [Abstract!Next]_Abstract!avars BY StepRefinesContract
<1>. QED BY <1>1, <1>2, InitGInv, InitRefinesContract, PTL
         DEF Spec, ImplementsAbstract, Abstract!SafetySpec

=============================================================================
