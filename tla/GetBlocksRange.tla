--------------------------- MODULE GetBlocksRange ---------------------------
(***************************************************************************)
(* BitcoinIndexer.GetBlocks(from, to) (internal/indexer/bitcoin.go): the   *)
(* early return on an inverted range, then the loop                        *)
(*     for n := from; n <= to; n++ { nums = append(nums, n) }              *)
(* over uint64 heights, whose result is passed to GetBlocksByNumbers.      *)
(* Heights are Width-bit unsigned integers (64 in the code), so n++ wraps  *)
(* modulo 2^Width.                                                         *)
(***************************************************************************)
EXTENDS Naturals, Sequences

CONSTANTS
  Width,    \* bits of the height type (uint64 in the code)
  Heights   \* the values the caller may pass as from and to

MaxU == 2^Width - 1

ASSUME GetBlocksRangeAssumption ==
  /\ Width \in Nat \ {0}
  /\ Heights \subseteq 0..MaxU

VARIABLES
  from, to,  \* the arguments
  pc,        \* "start", "loop", "invalid" (returned the error), "call"
  n,         \* the loop variable
  nums       \* the heights appended so far

vars == <<from, to, pc, n, nums>>

Init ==
  /\ from \in Heights
  /\ to \in Heights
  /\ pc = "start"
  /\ n = 0
  /\ nums = <<>>

\* if to < from: return "invalid range"; else the loop starts at from.
Start ==
  /\ pc = "start"
  /\ IF to < from THEN /\ pc' = "invalid"
                       /\ UNCHANGED n
                  ELSE /\ pc' = "loop"
                       /\ n' = from
  /\ UNCHANGED <<from, to, nums>>

\* Mutation: the loop condition is n < to, dropping the last height.
LoopConditionStrict == n < to

\* The loop condition n <= to.
LoopCondition == n <= to

\* One iteration: append n, then n++ in Width-bit arithmetic.
Loop ==
  /\ pc = "loop"
  /\ LoopCondition
  /\ nums' = Append(nums, n)
  /\ n' = (n + 1) % 2^Width
  /\ UNCHANGED <<from, to, pc>>

\* The loop condition fails: GetBlocksByNumbers(ctx, nums) is called.
LoopEnd ==
  /\ pc = "loop"
  /\ ~LoopCondition
  /\ pc' = "call"
  /\ UNCHANGED <<from, to, n, nums>>

Returned ==
  /\ pc \in {"invalid", "call"}
  /\ UNCHANGED vars

Next == Start \/ Loop \/ LoopEnd \/ Returned

Spec == Init /\ [][Next]_vars /\ WF_vars(Start \/ Loop \/ LoopEnd)

-----------------------------------------------------------------------------

\* The heights from..to in order, as spec.md 4.7 describes GetBlocks.
RangeOf(a, b) == [i \in 1..(b - a + 1) |-> a + i - 1]

\* GetBlocks hands GetBlocksByNumbers exactly the heights from..to, each
\* once and in order, for every valid range.
RangeContract == pc = "call" => nums = RangeOf(from, to)

\* The loop over the range never appends more heights than the range holds
\* (in particular it ends): false when to is the largest height, because
\* n <= to is then always true and n++ wraps to 0.
LoopWithinRange == pc = "loop" => Len(nums) <= to - from + 1

=============================================================================
