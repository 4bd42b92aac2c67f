-------------------------- MODULE GetBlockAbstract --------------------------
(***************************************************************************)
(* What one BitcoinIndexer.GetBlock call promises (spec.md 4.4-4.6), with  *)
(* no RPC, retry, goroutine or semaphore: the block is fetched once, as    *)
(* one of the answers getblock may give, or the call fails; then each vin  *)
(* without a prevout may receive, at most once, the output it spends;      *)
(* then the block is processed, and nothing changes afterwards.            *)
(***************************************************************************)
CONSTANTS
  Answers,         \* the blocks getblock may return (verbosity 3 or 2)
  NoBlock,         \* no block fetched yet
  NoPrevOut,       \* a vin without prevout
  Resolvable(_),   \* a vin whose spent output getrawtransaction can give
  PrevOutOf(_),    \* that output
  Process(_)       \* the results processBlock may compute from a block

VARIABLES
  phase,    \* "fetch", "enrich", "done" or "failed"
  blk,      \* the block
  result    \* what processBlock computed

avars == <<phase, blk, result>>

Init ==
  /\ phase = "fetch"
  /\ blk = NoBlock
  /\ result = <<>>

\* getblock answered: the block is one of its answers.
Fetch ==
  /\ phase = "fetch"
  /\ blk' \in Answers
  /\ phase' = "enrich"
  /\ UNCHANGED result

\* Every attempt failed, or the context was cancelled before an answer.
Fail ==
  /\ phase = "fetch"
  /\ phase' = "failed"
  /\ UNCHANGED <<blk, result>>

\* Vin j of tx t, still without prevout, receives the output it spends.
Fill(t, j) ==
  /\ phase = "enrich"
  /\ blk[t].vin[j].prevout = NoPrevOut
  /\ Resolvable(blk[t].vin[j])
  /\ blk' = [blk EXCEPT ![t].vin[j].prevout = PrevOutOf(blk[t].vin[j])]
  /\ UNCHANGED <<phase, result>>

\* processBlock runs on the block as it now is.
Done ==
  /\ phase = "enrich"
  /\ phase' = "done"
  /\ result' \in Process(blk)
  /\ UNCHANGED blk

Next ==
  \/ Fetch \/ Fail \/ Done
  \/ phase = "enrich" /\ \E t \in DOMAIN blk : \E j \in DOMAIN blk[t].vin : Fill(t, j)

SafetySpec == Init /\ [][Next]_avars

\* The call ends: the fetch is answered or given up, and an answered block
\* is processed.  No prevout is forced: enrichment may fail.
Spec == SafetySpec /\ WF_avars(Fetch \/ Fail) /\ WF_avars(Done)

=============================================================================
