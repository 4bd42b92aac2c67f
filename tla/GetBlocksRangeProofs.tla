------------------------ MODULE GetBlocksRangeProofs ------------------------
(***************************************************************************)
(* Proof that GetBlocks hands GetBlocksByNumbers exactly from..to, for     *)
(* every width, whenever no argument is the largest height (the largest    *)
(* one makes the loop wrap; see MC_GetBlocksRange_LoopWithinRange).        *)
(***************************************************************************)
EXTENDS GetBlocksRange, SequenceTheorems, TLAPS

\* The loop invariant of for n := from; n <= to; n++: the heights appended
\* so far are from..n-1 and n has not passed to + 1.
RInv ==
  /\ from \in Heights /\ to \in Heights
  /\ pc \in {"start", "loop", "invalid", "call"}
  /\ n \in Nat
  /\ nums \in Seq(Nat)
  /\ pc = "start" => nums = <<>>
  /\ pc \in {"loop", "call"} =>
       /\ from <= to
       /\ n = from + Len(nums)
       /\ n <= to + 1
       /\ \A i \in 1..Len(nums) : nums[i] = from + i - 1
  /\ pc = "call" => n = to + 1

\* Below the largest height, n++ does not wrap.
LEMMA NoWrap ==
  ASSUME NEW k \in Nat, k + 1 <= MaxU
  PROVE  (k + 1) % 2^Width = k + 1
<1>1. 2^Width \in Int BY GetBlocksRangeAssumption
<1>2. 2^Width > k + 1 BY <1>1 DEF MaxU
<1>. QED BY <1>1, <1>2

LEMMA HeightsNat == Heights \subseteq Nat /\ MaxU \in Int /\ 2^Width \in Int
<1>1. 2^Width \in Int BY GetBlocksRangeAssumption
<1>. QED BY <1>1, GetBlocksRangeAssumption DEF MaxU

\* No argument is the largest height: the case the code handles.
BelowMax == Heights \subseteq 0..(MaxU - 1)

LEMMA InitRInv == Init => RInv
BY HeightsNat, EmptySeq DEF Init, RInv

LEMMA NextRInv == BelowMax /\ RInv /\ [Next]_vars => RInv'
<1>. SUFFICES ASSUME BelowMax, RInv, [Next]_vars PROVE RInv' OBVIOUS
<1>. USE HeightsNat
<1>1. CASE Start
  <2>1. CASE to < from BY <1>1, <2>1 DEF Start, RInv
  <2>2. CASE ~(to < from) BY <1>1, <2>2, EmptySeq DEF Start, RInv
  <2>. QED BY <2>1, <2>2
<1>2. CASE Loop
  <2>1. n \in Nat /\ to \in Nat /\ n <= to /\ to <= MaxU - 1
    BY <1>2 DEF Loop, LoopCondition, RInv, BelowMax
  <2>2. n' = n + 1
    <3>1. n + 1 <= MaxU BY <2>1, HeightsNat
    <3>2. (n + 1) % 2^Width = n + 1 BY <2>1, <3>1, NoWrap
    <3>. QED BY <1>2, <3>2 DEF Loop
  <2>3. nums' = Append(nums, n) /\ nums' \in Seq(Nat) /\ Len(nums') = Len(nums) + 1
    BY <1>2, <2>1, AppendProperties DEF Loop, RInv
  <2>4. \A i \in 1..Len(nums') : nums'[i] = from + i - 1
    <3>. SUFFICES ASSUME NEW i \in 1..Len(nums') PROVE nums'[i] = from + i - 1 OBVIOUS
    <3>1. CASE i \in 1..Len(nums) BY <3>1, <2>3, <1>2, AppendProperties DEF Loop, RInv
    <3>2. CASE i = Len(nums) + 1 BY <3>2, <2>3, <1>2, AppendProperties DEF Loop, RInv
    <3>. QED BY <3>1, <3>2, <2>3, LenProperties DEF RInv
  <2>. QED BY <1>2, <2>1, <2>2, <2>3, <2>4 DEF Loop, RInv
<1>3. CASE LoopEnd BY <1>3 DEF LoopEnd, LoopCondition, RInv
<1>4. CASE Returned \/ UNCHANGED vars BY <1>4 DEF Returned, vars, RInv
<1>. QED BY <1>1, <1>2, <1>3, <1>4 DEF Next

LEMMA RInvImpliesRangeContract == RInv => RangeContract
<1>. SUFFICES ASSUME RInv, pc = "call" PROVE nums = RangeOf(from, to) BY DEF RangeContract
<1>. USE HeightsNat
<1>1. Len(nums) = to - from + 1 /\ DOMAIN nums = 1..Len(nums) BY LenProperties DEF RInv
<1>. QED BY <1>1 DEF RInv, RangeOf

\* GetBlocks (bitcoin.go:95-104) with no argument equal to the largest
\* height: whenever the loop has ended, the list passed to
\* GetBlocksByNumbers is exactly from..to, for every width.
THEOREM RangeContractHolds == BelowMax => (Spec => []RangeContract)
<1>. SUFFICES ASSUME BelowMax PROVE Spec => []RangeContract OBVIOUS
<1>1. RInv /\ [Next]_vars => RInv' BY NextRInv
<1>. QED BY <1>1, InitRInv, RInvImpliesRangeContract, PTL DEF Spec


\* With no argument equal to the largest height, the loop of GetBlocks
\* (bitcoin.go:100-102) never appends more heights than from..to holds: the
\* property getblocks_range_wrap violates at the largest height holds for
\* every other range and every width.
THEOREM LoopWithinRangeHolds == BelowMax => (Spec => []LoopWithinRange)
<1>. SUFFICES ASSUME BelowMax PROVE Spec => []LoopWithinRange OBVIOUS
<1>1. RInv /\ [Next]_vars => RInv' BY NextRInv
<1>2. RInv => LoopWithinRange
  <2>. SUFFICES ASSUME RInv, pc = "loop" PROVE Len(nums) <= to - from + 1
       BY DEF LoopWithinRange
  <2>1. Len(nums) \in Nat BY LenProperties DEF RInv
  <2>. QED BY <2>1, HeightsNat DEF RInv
<1>. QED BY <1>1, <1>2, InitRInv, PTL DEF Spec

-----------------------------------------------------------------------------
(* GetBlocks(from, MaxU) never returns.                                    *)

\* The loop variable stays a Width-bit height, and the two returns happen
\* only when their conditions held: the range error only for to < from,
\* the call only once n has passed to.
WInv ==
  /\ from \in Heights /\ to \in Heights
  /\ pc \in {"start", "loop", "invalid", "call"}
  /\ n \in 0..MaxU
  /\ pc = "invalid" => to < from
  /\ pc = "call" => to < n


LEMMA InitWInv == Init => WInv
BY HeightsNat, GetBlocksRangeAssumption DEF Init, WInv

\* n++ in Width-bit arithmetic stays a Width-bit height.
LEMMA WrapInRange ==
  ASSUME NEW k \in 0..MaxU
  PROVE  (k + 1) % 2^Width \in 0..MaxU
<1>1. 2^Width \in Int /\ 2^Width > 0
  <2>1. 2^Width \in Int BY GetBlocksRangeAssumption
  <2>2. 2^Width > k BY <2>1 DEF MaxU
  <2>. QED BY <2>1, <2>2
<1>. QED BY <1>1 DEF MaxU

LEMMA NextWInv == WInv /\ [Next]_vars => WInv'
<1>. SUFFICES ASSUME WInv, [Next]_vars PROVE WInv' OBVIOUS
<1>. USE HeightsNat
<1>1. CASE Start BY <1>1, GetBlocksRangeAssumption DEF Start, WInv
<1>2. CASE Loop
  <2>1. n' \in 0..MaxU BY <1>2, WrapInRange DEF Loop, WInv
  <2>. QED BY <1>2, <2>1 DEF Loop, WInv
<1>3. CASE LoopEnd BY <1>3 DEF LoopEnd, LoopCondition, WInv
<1>4. CASE Returned \/ UNCHANGED vars BY <1>4 DEF Returned, vars, WInv
<1>. QED BY <1>1, <1>2, <1>3, <1>4 DEF Next

\* Called with to equal to the largest height (math.MaxUint64 in the code),
\* GetBlocks (bitcoin.go:95-104) never returns, for every width: the range
\* check passes, n <= to holds for every n, and n++ wraps to 0, so neither
\* the range error nor the call to GetBlocksByNumbers is ever reached.
THEOREM LargestHeightNeverReturns == Spec => [](to = MaxU => pc \in {"start", "loop"})
<1>1. WInv => (to = MaxU => pc \in {"start", "loop"})
  BY HeightsNat, GetBlocksRangeAssumption DEF WInv
<1>. QED BY <1>1, InitWInv, NextWInv, PTL DEF Spec

====
