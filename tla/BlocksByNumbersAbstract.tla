----------------------- MODULE BlocksByNumbersAbstract -----------------------
(***************************************************************************)
(* What GetBlocksByNumbers promises its caller (spec.md 4.7 and 5), with   *)
(* no producer, channel or workers: every slot is filled at most once, in  *)
(* any order, with the result for its own height; the call returns         *)
(* ctx.Err() once the context is cancelled, and otherwise only when every  *)
(* slot is filled, with the error of the first failed slot in slot order.  *)
(***************************************************************************)
EXTENDS Integers, Sequences

CONSTANT Nums   \* the heights requested, in slot order

VARIABLES
  results,   \* per slot: the BlockResult written, or the zero value
  ctxDone,   \* the caller's context is cancelled
  ret        \* what the call returned

avars == <<results, ctxDone, ret>>

Slots == 1..Len(Nums)
Zero == [num |-> 0, blk |-> FALSE, err |-> FALSE]
Filled(i) == results[i].blk \/ results[i].err
Failed == {i \in Slots : results[i].err}

Init ==
  /\ results = [i \in Slots |-> Zero]
  /\ ctxDone = FALSE
  /\ ret = [kind |-> "none", num |-> 0]

\* The block at slot i is fetched, successfully or not.
Fetch(i) ==
  /\ ret.kind = "none"
  /\ ~Filled(i)
  /\ \E failed \in BOOLEAN :
       results' = [results EXCEPT ![i] = [num |-> Nums[i], blk |-> ~failed, err |-> failed]]
  /\ UNCHANGED <<ctxDone, ret>>

Cancel ==
  /\ ~ctxDone
  /\ ret.kind = "none"
  /\ ctxDone' = TRUE
  /\ UNCHANGED <<results, ret>>

\* A cancelled call returns ctx.Err(), whatever was fetched.
ReturnCancelled ==
  /\ ret.kind = "none"
  /\ ctxDone
  /\ ret' = [kind |-> "ctx", num |-> 0]
  /\ UNCHANGED <<results, ctxDone>>

\* An uncancelled call returns once every slot is filled: nil, or the error
\* naming the height of the lowest failed slot.
ReturnResults ==
  /\ ret.kind = "none"
  /\ ~ctxDone
  /\ \A i \in Slots : Filled(i)
  /\ ret' = IF Failed = {} THEN [kind |-> "nil", num |-> 0]
            ELSE [kind |-> "err",
                  num |-> Nums[CHOOSE i \in Failed : \A j \in Failed : i <= j]]
  /\ UNCHANGED <<results, ctxDone>>

Next ==
  \/ \E i \in Slots : Fetch(i)
  \/ Cancel \/ ReturnCancelled \/ ReturnResults

SafetySpec == Init /\ [][Next]_avars

\* Every fetch ends and the call returns; cancellation is not forced.
Spec ==
  /\ SafetySpec
  /\ \A i \in Slots : WF_avars(Fetch(i))
  /\ WF_avars(ReturnCancelled \/ ReturnResults)

=============================================================================
