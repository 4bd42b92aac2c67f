------------------------ MODULE BlocksByNumbersProofs ------------------------
(***************************************************************************)
(* Proofs about the worker pool of GetBlocksByNumbers, for every list of   *)
(* heights and every Throttle.Concurrency: the type invariant, and the     *)
(* contract of the returned slice and error (ReturnContract).              *)
(***************************************************************************)
EXTENDS BlocksByNumbers, WellFoundedInduction, TLAPS

(***************************************************************************)
(* The inductive invariant.  Base is the index of the job at the head of   *)
(* the channel: the jobs Base..next-1 are buffered in order, every index   *)
(* below Base has been received by a worker, and such an index is either  *)
(* written with the result of its own height or held by a busy worker     *)
(* that took the job for it.  A worker exits only after the producer       *)
(* closed the channel and it was drained; the producer closes early only   *)
(* on a cancelled context; and the caller returns only after every worker  *)
(* exited, with the error chosen from the slots it then saw.               *)
(***************************************************************************)
Base == next - Len(chan)

JobFor(i) == [num |-> Nums[i], index |-> i]

Busy(w) == wstate[w] = "busy"

ChanInOrder == \A k \in 1..Len(chan) : chan[k] = JobFor(Base + k - 1)

BusyJobs ==
  \A w \in Workers : Busy(w) => /\ wjob[w] \in Jobs
                               /\ wjob[w] = JobFor(wjob[w].index)
                               /\ wjob[w].index < Base

WrittenNums == \A i \in Slots : Written(i) => blocks[i].num = Nums[i]

Received ==
  \A i \in Slots : i < Base => Written(i) \/ \E w \in Workers : Busy(w) /\ wjob[w].index = i

ExitAfterClose == (\E w \in Workers : wstate[w] = "exited") => prodDone /\ chan = <<>>

EarlyCloseCancelled == prodDone /\ next <= N => ctxDone

ReturnAfterJoin == ret.kind # "none" => \A w \in Workers : wstate[w] = "exited"

ReturnDecided ==
  /\ ret.kind \in {"nil", "err"} => ~ctxDone
  /\ ret.kind = "nil" => FailedSlots = {}
  /\ ret.kind = "err" => FailedSlots # {} /\ ret.num = blocks[FirstFailed].num

\* A job is held by one worker at a time, and its slot is written only when
\* the worker that holds it finishes.
Exclusive ==
  /\ \A i \in Slots : Written(i) => i < Base
  /\ \A w \in Workers : Busy(w) => ~Written(wjob[w].index)
  /\ \A v, w \in Workers : Busy(v) /\ Busy(w) /\ v # w => wjob[v].index # wjob[w].index

IInv ==
  /\ TypeOK
  /\ 1 <= Base
  /\ ChanInOrder
  /\ BusyJobs
  /\ WrittenNums
  /\ Received
  /\ ExitAfterClose
  /\ EarlyCloseCancelled
  /\ ReturnAfterJoin
  /\ ReturnDecided
  /\ Exclusive

-----------------------------------------------------------------------------
(* Facts about the constants and the helpers.                              *)

LEMMA ConstFacts ==
  /\ N \in Nat \ {0}
  /\ Nums \in [Slots -> Nat]
  /\ NWorkers \in Nat \ {0}
  /\ ChanCap \in Nat
<1>1. N \in Nat \ {0} /\ Nums \in [Slots -> Nat] BY BlocksByNumbersAssumption DEF N, Slots
<1>2. NWorkers \in Nat \ {0} BY <1>1, BlocksByNumbersAssumption DEF NWorkers
<1>. QED BY <1>1, <1>2 DEF ChanCap

\* A non-empty set of naturals has a least element (Nat is well-founded).
LEMMA MinExists ==
  ASSUME NEW T, T \subseteq Nat, T # {}
  PROVE  \E x \in T : \A y \in T : x <= y
<1>1. PICK x \in T : \A y \in T : ~(<<y, x>> \in OpToRel(<, Nat))
  BY NatLessThanWellFounded, WFMin, Zenon
<1>2. \A y \in T : ~(y < x)
  <2>. TAKE y \in T
  <2>1. <<y, x>> \in Nat \X Nat BY <1>1
  <2>2. y < x => <<y, x>> \in OpToRel(<, Nat) BY <2>1, Zenon DEF OpToRel
  <2>. QED BY <1>1, <2>2
<1>. QED BY <1>2

\* When some slot failed, FirstFailed is the failed slot of least index.
LEMMA FirstFailedIsLeast ==
  ASSUME FailedSlots # {}
  PROVE  /\ FirstFailed \in FailedSlots
         /\ \A j \in FailedSlots : FirstFailed <= j
<1>1. FailedSlots \subseteq Nat BY DEF FailedSlots, Slots
<1>2. \E x \in FailedSlots : \A y \in FailedSlots : x <= y BY <1>1, MinExists
<1>. QED BY <1>2 DEF FirstFailed

-----------------------------------------------------------------------------
(* The invariant holds initially and is preserved by every step.           *)

LEMMA InitIInv == Init => IInv
<1>. SUFFICES ASSUME Init PROVE IInv OBVIOUS
<1>1. TypeOK
  <2>1. next \in 1..N + 1 BY ConstFacts DEF Init
  <2>2. chan \in Seq(Jobs) /\ Len(chan) <= ChanCap BY ConstFacts DEF Init
  <2>3. wstate \in [Workers -> {"idle", "busy", "exited"}] BY DEF Init
  <2>4. wjob \in [Workers -> Jobs \cup {NoJob}] BY DEF Init
  <2>5. blocks \in [Slots -> Results] BY DEF Init, Results, ZeroResult
  <2>6. ret \in Returns BY DEF Init, Returns
  <2>. QED BY <2>1, <2>2, <2>3, <2>4, <2>5, <2>6 DEF Init, TypeOK
<1>2. FailedSlots = {} BY DEF Init, FailedSlots, ZeroResult
<1>. QED BY <1>1, <1>2, ConstFacts
       DEF Init, IInv, Base, ChanInOrder, BusyJobs, WrittenNums, Received, Written,
           ZeroResult, Busy, Slots, ExitAfterClose, EarlyCloseCancelled,
           ReturnAfterJoin, ReturnDecided, Exclusive

LEMMA NextIInv == IInv /\ [Next]_vars => IInv'
<1>. SUFFICES ASSUME IInv, [Next]_vars PROVE IInv' OBVIOUS
<1>. USE ConstFacts
<1>0. /\ TypeOK /\ 1 <= Base /\ ChanInOrder /\ BusyJobs /\ WrittenNums /\ Received
      /\ ExitAfterClose /\ EarlyCloseCancelled /\ ReturnAfterJoin /\ ReturnDecided
      /\ Exclusive
  BY DEF IInv
<1>9. next \in Nat /\ chan \in Seq(Jobs) /\ Base \in Nat BY <1>0 DEF TypeOK, Base
<1>1. CASE Send
  <2>1. FirstFailed' = FirstFailed BY <1>1 DEF Send, FirstFailed, FailedSlots
  <2>2. Base' = Base BY <1>0, <1>1 DEF TypeOK, Send, Base
  <2>3. TypeOK' BY <1>0, <1>1 DEF TypeOK, Send, Jobs, Slots
  <2>4. ChanInOrder'
    <3>. SUFFICES ASSUME NEW k \in 1..Len(chan') PROVE chan'[k] = JobFor(Base' + k - 1)
         BY DEF ChanInOrder
    <3>1. CASE k <= Len(chan) BY <1>0, <1>9, <1>1, <2>2, <3>1 DEF TypeOK, Send, ChanInOrder
    <3>2. CASE k = Len(chan) + 1
      <4>1. chan'[k] = [num |-> Nums[next], index |-> next] BY <1>9, <1>1, <3>2 DEF Send
      <4>2. Base' + k - 1 = next BY <1>9, <2>2, <3>2 DEF Base
      <4>. QED BY <4>1, <4>2 DEF JobFor
    <3>. QED BY <3>1, <3>2, <1>0, <1>1 DEF TypeOK, Send
  <2>5. BusyJobs' BY <1>0, <1>9, <1>1, <2>2 DEF Send, BusyJobs, Busy, JobFor
  <2>6. WrittenNums' /\ Received' BY <1>0, <1>9, <1>1, <2>2 DEF Send, WrittenNums, Received, Written, Busy
  <2>7. ExitAfterClose' /\ EarlyCloseCancelled' /\ ReturnAfterJoin'
    BY <1>0, <1>9, <1>1 DEF Send, ExitAfterClose, EarlyCloseCancelled, ReturnAfterJoin
  <2>8. ReturnDecided' BY <1>0, <1>9, <1>1, <2>1 DEF Send, ReturnDecided, FailedSlots
  <2>9. 1 <= Base' BY <1>0, <1>9, <2>2
  <2>10. Exclusive' BY <1>0, <1>1, <2>2 DEF Send, Exclusive, Written, Busy
  <2>. QED BY <2>3, <2>4, <2>5, <2>6, <2>7, <2>8, <2>9, <2>10 DEF IInv
<1>2. CASE Abort \/ CloseJobs
  <2>1. FirstFailed' = FirstFailed BY <1>2 DEF Abort, CloseJobs, FirstFailed, FailedSlots
  <2>2. TypeOK' BY <1>0, <1>9, <1>2 DEF TypeOK, Abort, CloseJobs
  <2>3. /\ 1 <= Base' /\ ChanInOrder' /\ BusyJobs' /\ WrittenNums' /\ Received'
    BY <1>0, <1>9, <1>2 DEF Abort, CloseJobs, Base, ChanInOrder, BusyJobs, WrittenNums,
                      Received, Written, Busy, JobFor
  <2>4. EarlyCloseCancelled' /\ ExitAfterClose' /\ ReturnAfterJoin'
    BY <1>0, <1>9, <1>2 DEF Abort, CloseJobs, EarlyCloseCancelled, ExitAfterClose, ReturnAfterJoin
  <2>5. ReturnDecided' BY <1>0, <1>9, <1>2, <2>1 DEF Abort, CloseJobs, ReturnDecided, FailedSlots
  <2>6. Exclusive' BY <1>0, <1>2 DEF Abort, CloseJobs, Exclusive, Written, Busy, Base
  <2>. QED BY <2>2, <2>3, <2>4, <2>5, <2>6 DEF IInv
<1>3. ASSUME NEW w \in Workers, Take(w) PROVE IInv'
  <2>1. FirstFailed' = FirstFailed BY <1>3 DEF Take, FirstFailed, FailedSlots
  <2>2. ret.kind = "none" BY <1>0, <1>9, <1>3 DEF Take, ReturnAfterJoin
  <2>3. chan # <<>> /\ chan \in Seq(Jobs) BY <1>0, <1>9, <1>3 DEF TypeOK, Take
  <2>4. Base' = Base + 1 BY <1>3, <1>9, <2>3 DEF Take, Base
  <2>5. Head(chan) = JobFor(Base) /\ Head(chan) \in Jobs BY <1>0, <1>9, <2>3 DEF ChanInOrder
  <2>6. TypeOK' BY <1>0, <1>9, <1>3, <2>3, <2>5 DEF TypeOK, Take
  <2>7. ChanInOrder' BY <1>0, <1>9, <1>3, <2>3, <2>4 DEF Take, ChanInOrder
  <2>8. BusyJobs'
    <3>. SUFFICES ASSUME NEW v \in Workers, Busy(v)'
                  PROVE /\ wjob'[v] \in Jobs
                        /\ wjob'[v] = JobFor(wjob'[v].index)
                        /\ wjob'[v].index < Base' BY DEF BusyJobs
    <3>1. CASE v = w
      <4>1. wjob'[v] = Head(chan) BY <1>0, <1>3, <3>1 DEF Take, TypeOK
      <4>2. Head(chan).index = Base BY <2>5 DEF JobFor
      <4>. QED BY <4>1, <4>2, <2>4, <2>5, <1>9
    <3>2. CASE v # w
      <4>1. Busy(v) BY <1>0, <1>3, <3>2 DEF Take, TypeOK, Busy
      <4>2. wjob'[v] = wjob[v] BY <1>0, <1>3, <3>2 DEF Take, TypeOK
      <4>3. wjob[v] \in Jobs /\ wjob[v] = JobFor(wjob[v].index) /\ wjob[v].index < Base
        BY <1>0, <4>1 DEF BusyJobs
      <4>4. wjob[v].index \in Int BY <4>3 DEF Jobs, Slots
      <4>. QED BY <4>2, <4>3, <4>4, <2>4, <1>9
    <3>. QED BY <3>1, <3>2
  <2>9. Received'
    <3>. SUFFICES ASSUME NEW i \in Slots, i < Base'
                  PROVE Written(i)' \/ \E v \in Workers : Busy(v)' /\ wjob'[v].index = i
         BY DEF Received
    <3>1. CASE i = Base
      <4>1. Busy(w)' /\ wjob'[w].index = i BY <1>0, <1>9, <1>3, <2>5, <3>1 DEF Take, TypeOK, Busy, JobFor
      <4>. QED BY <4>1
    <3>2. CASE i < Base
      <4>1. Written(i) \/ \E v \in Workers : Busy(v) /\ wjob[v].index = i
        BY <1>0, <1>9, <3>2 DEF Received
      <4>2. ~Busy(w) BY <1>3 DEF Take, Busy
      <4>. QED BY <4>1, <4>2, <1>0, <1>3 DEF Take, TypeOK, Written, Busy
    <3>. QED BY <3>1, <3>2, <2>4, <1>9 DEF Slots
  <2>10. WrittenNums' BY <1>0, <1>9, <1>3 DEF Take, WrittenNums, Written
  <2>11. ExitAfterClose' /\ EarlyCloseCancelled' /\ ReturnAfterJoin'
    BY <1>0, <1>9, <1>3, <2>2, <2>3 DEF Take, TypeOK, ExitAfterClose, EarlyCloseCancelled, ReturnAfterJoin
  <2>12. ReturnDecided' BY <1>3, <2>2 DEF Take, ReturnDecided
  <2>13. Exclusive'
    <3>1. \A i \in Slots : Written(i)' => i < Base'
      BY <1>0, <1>3, <1>9, <2>4 DEF Take, Exclusive, Written, Slots
    <3>2. ~Written(Base) /\ Base \in Slots
      <4>1. Base \in Slots BY <2>5 DEF Jobs, JobFor
      <4>. QED BY <1>0, <1>9, <4>1 DEF Exclusive
    <3>3. \A v \in Workers : Busy(v)' => ~Written(wjob[v].index)'
      <4>. SUFFICES ASSUME NEW v \in Workers, Busy(v)' PROVE ~Written(wjob[v].index)'
           OBVIOUS
      <4>1. CASE v = w BY <4>1, <3>2, <2>5, <1>0, <1>3 DEF Take, TypeOK, Written, JobFor
      <4>2. CASE v # w
        <5>1. Busy(v) /\ wjob'[v] = wjob[v] BY <4>2, <1>0, <1>3 DEF Take, TypeOK, Busy
        <5>. QED BY <5>1, <1>0, <1>3, Zenon DEF Take, Exclusive, Written
      <4>. QED BY <4>1, <4>2
    <3>4. \A u, v \in Workers : Busy(u)' /\ Busy(v)' /\ u # v
                                  => wjob'[u].index # wjob'[v].index
      <4>. SUFFICES ASSUME NEW u \in Workers, NEW v \in Workers, Busy(u)', Busy(v)', u # v
                    PROVE  wjob'[u].index # wjob'[v].index
           OBVIOUS
      <4>1. \A x \in Workers : x # w /\ Busy(x)' => Busy(x) /\ wjob'[x] = wjob[x]
                                     /\ wjob[x].index < Base /\ wjob[x].index \in Int
        BY <1>0, <1>3 DEF Take, TypeOK, Busy, BusyJobs, Jobs, Slots
      <4>2. wjob'[w].index = Base BY <1>0, <1>3, <2>5 DEF Take, TypeOK, JobFor
      <4>3. CASE u = w BY <4>1, <4>2, <4>3, <1>9
      <4>4. CASE v = w BY <4>1, <4>2, <4>4, <1>9
      <4>5. CASE u # w /\ v # w BY <4>1, <4>5, <1>0 DEF Exclusive
      <4>. QED BY <4>3, <4>4, <4>5
    <3>. QED BY <3>1, <3>3, <3>4 DEF Exclusive, Written, Busy
  <2>. QED BY <1>0, <1>9, <2>4, <2>6, <2>7, <2>8, <2>9, <2>10, <2>11, <2>12, <2>13 DEF IInv
<1>4. ASSUME NEW w \in Workers, Finish(w) PROVE IInv'
  <2>1. ret.kind = "none" BY <1>0, <1>9, <1>4 DEF Finish, ReturnAfterJoin
  <2>2. wjob[w] \in Jobs /\ wjob[w] = JobFor(wjob[w].index) /\ wjob[w].index < Base
    BY <1>0, <1>9, <1>4 DEF Finish, BusyJobs, Busy
  <2>3. TypeOK' BY <1>0, <1>9, <1>4, <2>2 DEF TypeOK, Finish, Jobs, Results
  <2>4. Base' = Base BY <1>4 DEF Finish, Base
  <2>5. /\ 1 <= Base' /\ ChanInOrder' /\ BusyJobs'
    BY <1>0, <1>9, <1>4, <2>4 DEF Finish, TypeOK, ChanInOrder, BusyJobs, Busy
  <2>6. WrittenNums'
    BY <1>0, <1>9, <1>4, <2>2 DEF Finish, TypeOK, Jobs, WrittenNums, Written, JobFor
  <2>7. Received'
    <3>. SUFFICES ASSUME NEW i \in Slots, i < Base'
                  PROVE Written(i)' \/ \E v \in Workers : Busy(v)' /\ wjob'[v].index = i
         BY DEF Received
    <3>1. CASE i = wjob[w].index
      <4>1. PICK failed \in BOOLEAN :
              blocks' = [blocks EXCEPT ![wjob[w].index] =
                           [num |-> wjob[w].num, blk |-> ~failed, err |-> failed]]
        BY <1>4 DEF Finish
      <4>2. blocks'[i] = [num |-> wjob[w].num, blk |-> ~failed, err |-> failed]
        BY <4>1, <3>1, <1>0 DEF TypeOK
      <4>3. blocks'[i].blk = ~failed /\ blocks'[i].err = failed BY <4>2
      <4>4. blocks'[i].blk \/ blocks'[i].err BY <4>3
      <4>. QED BY <4>4 DEF Written
    <3>2. CASE i # wjob[w].index
      <4>1. Written(i) \/ \E v \in Workers : Busy(v) /\ wjob[v].index = i
        BY <1>0, <1>9, <2>4 DEF Received
      <4>. QED BY <4>1, <3>2, <1>0, <1>4, <2>2 DEF Finish, TypeOK, Jobs, Written, Busy
    <3>. QED BY <3>1, <3>2
  <2>8. ExitAfterClose' /\ EarlyCloseCancelled' /\ ReturnAfterJoin'
    BY <1>0, <1>9, <1>4, <2>1 DEF Finish, TypeOK, ExitAfterClose, EarlyCloseCancelled, ReturnAfterJoin
  <2>9. ReturnDecided' BY <2>1, <1>4 DEF Finish, ReturnDecided
  <2>10. Exclusive'
    <3>1. \A i \in Slots : Written(i)' => i < Base'
      <4>. SUFFICES ASSUME NEW i \in Slots, Written(i)' PROVE i < Base' OBVIOUS
      <4>1. CASE i = wjob[w].index BY <4>1, <2>2, <2>4
      <4>2. CASE i # wjob[w].index
        <5>1. blocks'[i] = blocks[i] BY <4>2, <1>0, <1>4 DEF Finish, TypeOK
        <5>. QED BY <5>1, <1>0, <2>4 DEF Exclusive, Written
      <4>. QED BY <4>1, <4>2
    <3>2. \A v \in Workers : Busy(v)' => ~Written(wjob[v].index)'
      <4>. SUFFICES ASSUME NEW v \in Workers, Busy(v)' PROVE ~Written(wjob[v].index)'
           OBVIOUS
      <4>1. v # w /\ Busy(v) BY <1>0, <1>4 DEF Finish, TypeOK, Busy
      <4>2. wjob[v].index # wjob[w].index /\ ~Written(wjob[v].index)
        BY <4>1, <1>4, <1>0 DEF Finish, Exclusive, Busy
      <4>3. wjob[v].index \in Slots BY <4>1, <1>0 DEF BusyJobs, Jobs
      <4>4. blocks'[wjob[v].index] = blocks[wjob[v].index] BY <4>2, <4>3, <1>0, <1>4 DEF Finish, TypeOK
      <4>5. wjob'[v] = wjob[v] BY <1>4 DEF Finish
      <4>. QED BY <4>2, <4>4, <4>5, Zenon DEF Written
    <3>3. \A u, v \in Workers : Busy(u)' /\ Busy(v)' /\ u # v
                                  => wjob'[u].index # wjob'[v].index
      BY <1>0, <1>4 DEF Finish, TypeOK, Busy, Exclusive
    <3>. QED BY <3>1, <3>2, <3>3 DEF Exclusive, Written, Busy
  <2>. QED BY <2>3, <2>5, <2>6, <2>7, <2>8, <2>9, <2>10 DEF IInv
<1>5. ASSUME NEW w \in Workers, Exit(w) PROVE IInv'
  <2>1. FirstFailed' = FirstFailed BY <1>5 DEF Exit, FirstFailed, FailedSlots
  <2>. QED BY <1>0, <1>9, <1>5, <2>1
         DEF IInv, TypeOK, Exit, FailedSlots, Base, ChanInOrder, BusyJobs, WrittenNums,
             Received, Written, Busy, ExitAfterClose, EarlyCloseCancelled,
             ReturnAfterJoin, ReturnDecided, Exclusive
<1>6. CASE Return
  <2>1. FirstFailed' = FirstFailed BY <1>6 DEF Return, FirstFailed, FailedSlots
  <2>2. FailedSlots # {} => blocks[FirstFailed].num \in Nat
    BY FirstFailedIsLeast, <1>0 DEF TypeOK, FailedSlots, Results
  <2>. QED BY <1>0, <1>6, <2>1, <2>2
         DEF IInv, TypeOK, Return, FailedSlots, Returns, Base, ChanInOrder, BusyJobs,
             WrittenNums, Received, Written, Busy, ExitAfterClose, EarlyCloseCancelled,
             ReturnAfterJoin, ReturnDecided, Exclusive
<1>7. CASE Cancel
  <2>1. FirstFailed' = FirstFailed BY <1>7 DEF Cancel, FirstFailed, FailedSlots
  <2>. QED BY <1>0, <1>7, <2>1
         DEF IInv, TypeOK, Cancel, FailedSlots, Base, ChanInOrder, BusyJobs, WrittenNums,
             Received, Written, Busy, ExitAfterClose, EarlyCloseCancelled,
             ReturnAfterJoin, ReturnDecided, Exclusive
<1>8. CASE Returned \/ UNCHANGED vars
  <2>1. UNCHANGED vars BY <1>8 DEF Returned
  <2>2. FirstFailed' = FirstFailed BY <2>1 DEF vars, FirstFailed, FailedSlots
  <2>3. Exclusive' BY <1>0, <2>1 DEF vars, Exclusive, Written, Busy, Base
  <2>. QED BY <1>0, <2>1, <2>2, <2>3
         DEF IInv, TypeOK, vars, FailedSlots, Base, ChanInOrder, BusyJobs,
             WrittenNums, Received, Written, Busy, ExitAfterClose, EarlyCloseCancelled,
             ReturnAfterJoin, ReturnDecided
<1>. QED BY <1>1, <1>2, <1>3, <1>4, <1>5, <1>6, <1>7, <1>8 DEF Next

-----------------------------------------------------------------------------
(* The theorems.                                                           *)

\* The invariant, and with it the type invariant, holds in every state of
\* every run of GetBlocksByNumbers.
THEOREM IInvHolds == Spec => []IInv
BY InitIInv, NextIInv, PTL DEF Spec

THEOREM TypeCorrect == Spec => []TypeOK
<1>1. IInv => TypeOK BY DEF IInv
<1>. QED BY <1>1, IInvHolds, PTL

\* At the join, when the context is not cancelled, the producer ran to the
\* end of nums (an early close needs a cancelled context), every job was
\* received and no worker is busy, so every slot holds the result of its
\* own height.
LEMMA AllWrittenAtJoin ==
  ASSUME IInv, ~ctxDone, \A w \in Workers : wstate[w] = "exited"
  PROVE  \A i \in Slots : Written(i) /\ blocks[i].num = Nums[i]
<1>. USE ConstFacts
<1>0. TypeOK /\ WrittenNums /\ Received /\ ExitAfterClose /\ EarlyCloseCancelled
  BY DEF IInv
<1>1. Workers # {} BY DEF Workers
<1>2. prodDone /\ chan = <<>> BY <1>0, <1>1 DEF ExitAfterClose
<1>3. Base = N + 1 BY <1>0, <1>2 DEF EarlyCloseCancelled, TypeOK, Base
<1>. TAKE i \in Slots
<1>4. i < Base BY <1>3 DEF Slots
<1>5. \A w \in Workers : ~Busy(w) BY DEF Busy
<1>6. Written(i) BY <1>0, <1>4, <1>5 DEF Received
<1>. QED BY <1>0, <1>6 DEF WrittenNums

\* The return contract follows: a nil or error return happens at the join
\* with the context not cancelled, and the error names the height of the
\* least failed slot.
LEMMA IInvImpliesReturnContract == IInv => ReturnContract
<1>. SUFFICES ASSUME IInv, ret.kind \in {"nil", "err"}
              PROVE  /\ \A i \in Slots : Written(i) /\ blocks[i].num = Nums[i]
                     /\ ret.kind = "nil" <=> FailedSlots = {}
                     /\ ret.kind = "err" => ret.num = Nums[FirstFailed]
     BY DEF ReturnContract
<1>0. ReturnAfterJoin /\ ReturnDecided BY DEF IInv
<1>1. \A w \in Workers : wstate[w] = "exited" BY <1>0 DEF ReturnAfterJoin
<1>2. ~ctxDone BY <1>0 DEF ReturnDecided
<1>6. \A i \in Slots : Written(i) /\ blocks[i].num = Nums[i]
  BY <1>1, <1>2, AllWrittenAtJoin
<1>7. ret.kind = "nil" <=> FailedSlots = {} BY <1>0 DEF ReturnDecided
<1>8. ret.kind = "err" => ret.num = Nums[FirstFailed]
  <2>. SUFFICES ASSUME ret.kind = "err" PROVE ret.num = Nums[FirstFailed] OBVIOUS
  <2>1. FailedSlots # {} /\ ret.num = blocks[FirstFailed].num BY <1>0 DEF ReturnDecided
  <2>2. FirstFailed \in Slots BY <2>1, FirstFailedIsLeast DEF FailedSlots
  <2>. QED BY <1>6, <2>1, <2>2
<1>. QED BY <1>6, <1>7, <1>8

\* Whenever GetBlocksByNumbers returns without ctx.Err(), the slice holds a
\* result for every requested height at its own index, and the error is
\* nil exactly when no slot failed, else it names the first failed height.
THEOREM ReturnContractHolds == Spec => []ReturnContract
BY IInvHolds, IInvImpliesReturnContract, PTL

\* Each height is fetched once: a step of the pool never changes a slot that
\* already holds a result, because the only write is a worker finishing the
\* job it holds, whose slot no one has written and no other worker holds.
LEMMA StepKeepsWrittenSlots ==
  IInv /\ [Next]_vars => [\A i \in Slots : Written(i) => blocks'[i] = blocks[i]]_vars
<1>. SUFFICES ASSUME IInv, [Next]_vars, NEW i \in Slots, Written(i)
              PROVE  blocks'[i] = blocks[i]
     OBVIOUS
<1>0. TypeOK /\ Exclusive BY DEF IInv
<1>1. ASSUME NEW w \in Workers, Finish(w) PROVE blocks'[i] = blocks[i]
  <2>1. ~Written(wjob[w].index) BY <1>0, <1>1 DEF Finish, Exclusive, Busy
  <2>2. i # wjob[w].index BY <2>1
  <2>. QED BY <1>0, <1>1, <2>2 DEF Finish, TypeOK
<1>2. CASE ~\E w \in Workers : Finish(w)
  BY <1>2 DEF Next, Send, Abort, CloseJobs, Take, Exit, Return, Cancel, Returned, vars
<1>. QED BY <1>1, <1>2

THEOREM NoSlotRewrittenHolds == Spec => NoSlotRewritten
BY IInvHolds, StepKeepsWrittenSlots, PTL DEF Spec, NoSlotRewritten

-----------------------------------------------------------------------------
(* Refinement: the pool implements the abstract contract of the call       *)
(* (BlocksByNumbersAbstract) under the mapping results <- blocks.          *)

LEMMA AbstractNames ==
  /\ Abstract!Slots = Slots
  /\ Abstract!Failed = FailedSlots
  /\ \A i \in Slots : Abstract!Filled(i) = Written(i)
BY DEF Abstract!Slots, Slots, N, Abstract!Failed, FailedSlots, Abstract!Filled, Written

LEMMA InitRefines == Init => Abstract!Init
BY DEF Init, Abstract!Init, Abstract!Slots, Slots, N, ZeroResult, Abstract!Zero

\* A worker finishing its job is the abstract fetch of the job's slot: the
\* call has not returned (a busy worker has not exited), the slot is not
\* filled, and the job carries the height of its own slot.
LEMMA FinishIsFetch ==
  ASSUME IInv, NEW w \in Workers, Finish(w)
  PROVE  Abstract!Fetch(wjob[w].index) /\ wjob[w].index \in Slots
<1>0. TypeOK /\ BusyJobs /\ ReturnAfterJoin /\ Exclusive BY DEF IInv
<1>1. Busy(w) BY DEF Finish, Busy
<1>2. wjob[w] \in Jobs /\ wjob[w] = JobFor(wjob[w].index) BY <1>0, <1>1 DEF BusyJobs
<1>3. wjob[w].index \in Slots /\ wjob[w].num = Nums[wjob[w].index] BY <1>2 DEF Jobs, JobFor
<1>4. ret.kind = "none" BY <1>0, <1>1 DEF ReturnAfterJoin, Busy
<1>5. ~Abstract!Filled(wjob[w].index) BY <1>0, <1>1, <1>3, AbstractNames DEF Exclusive
<1>6. \E failed \in BOOLEAN :
        blocks' = [blocks EXCEPT ![wjob[w].index] =
                     [num |-> Nums[wjob[w].index], blk |-> ~failed, err |-> failed]]
  BY <1>3 DEF Finish
<1>7. UNCHANGED <<ctxDone, ret>> BY DEF Finish
<1>. QED BY <1>3, <1>4, <1>5, <1>6, <1>7 DEF Abstract!Fetch

\* The caller's return after wg.Wait() is one of the two abstract returns.
LEMMA ReturnIsAbstractReturn ==
  ASSUME IInv, Return
  PROVE  Abstract!ReturnCancelled \/ Abstract!ReturnResults
<1>0. ReturnAfterJoin BY DEF IInv
<1>1. CASE ctxDone BY <1>1 DEF Return, Abstract!ReturnCancelled
<1>2. CASE ~ctxDone
  <2>1. \A i \in Slots : Written(i) /\ blocks[i].num = Nums[i]
    BY <1>2, AllWrittenAtJoin DEF Return
  <2>2. \A i \in Abstract!Slots : Abstract!Filled(i) BY <2>1, AbstractNames
  <2>3. FailedSlots # {} => blocks[FirstFailed].num = Nums[FirstFailed]
    BY <2>1, FirstFailedIsLeast DEF FailedSlots
  <2>4. ret' = IF Abstract!Failed = {} THEN [kind |-> "nil", num |-> 0]
               ELSE [kind |-> "err",
                     num |-> Nums[CHOOSE i \in Abstract!Failed :
                                     \A j \in Abstract!Failed : i <= j]]
    BY <1>2, <2>3, AbstractNames DEF Return, FirstFailed
  <2>. QED BY <1>2, <2>2, <2>4 DEF Return, Abstract!ReturnResults
<1>. QED BY <1>1, <1>2

\* Every step of the pool maps to a step of the abstract contract or leaves
\* its variables unchanged.
LEMMA StepRefines == IInv /\ [Next]_vars => [Abstract!Next]_Abstract!avars
<1>. SUFFICES ASSUME IInv, [Next]_vars PROVE [Abstract!Next]_Abstract!avars OBVIOUS
<1>1. ASSUME NEW w \in Workers, Finish(w) PROVE Abstract!Next
  <2>1. Abstract!Fetch(wjob[w].index) /\ wjob[w].index \in Abstract!Slots
    BY <1>1, FinishIsFetch, AbstractNames
  <2>. QED BY <2>1 DEF Abstract!Next
<1>2. CASE Cancel BY <1>2 DEF Cancel, Abstract!Cancel, Abstract!Next
<1>3. CASE Return BY <1>3, ReturnIsAbstractReturn DEF Abstract!Next
<1>4. CASE \/ Send \/ Abort \/ CloseJobs \/ Returned \/ UNCHANGED vars
           \/ \E w \in Workers : Take(w) \/ Exit(w)
  BY <1>4 DEF Send, Abort, CloseJobs, Returned, Take, Exit, vars, Abstract!avars
<1>. QED BY <1>1, <1>2, <1>3, <1>4 DEF Next

\* The worker pool of GetBlocksByNumbers implements the safety part of its
\* abstract contract: every behaviour of producer, channel and workers is,
\* seen through the result slice, the context and the return value, a
\* behaviour of BlocksByNumbersAbstract (whose liveness TLC checks as
\* ImplementsAbstract).
THEOREM Refinement == Spec => Abstract!SafetySpec
BY InitRefines, StepRefines, IInvHolds, PTL DEF Spec, Abstract!SafetySpec

=============================================================================
