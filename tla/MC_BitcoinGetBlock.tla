------------------------- MODULE MC_BitcoinGetBlock -------------------------
(***************************************************************************)
(* A five-transaction block for BitcoinGetBlock:                           *)
(*   1. a coinbase paying 50 to M, plus a zero-value OP_RETURN;            *)
(*   2. two inputs (A 10, B 1) paying C 5, change A 3 and a 1-sat burn     *)
(*      (fee 2; losing the B input leaves a partial fee of 1);             *)
(*   3. a legacy 2-of-2 input (D, E 7) paying a two-address output F+A 3   *)
(*      and change D 3 (fee 1; F and A both non-change);                   *)
(*   4. a self-transfer C 5 -> C 4 (fee 1, every output change);           *)
(*   5. a pay-to-pubkey input (4, no address) paying F 3 (fee 1, no input  *)
(*      address: the unknown-sender branch).                               *)
(***************************************************************************)
EXTENDS BitcoinGetBlock

CONSTANTS A, B, C, D, E, F, M

Spk(a) == [address |-> a, addresses |-> <<>>]
Legacy(s) == [address |-> NoAddr, addresses |-> s]
NoSpk == Legacy(<<>>)
Out(v, spk) == [value |-> v, spk |-> spk]
Spend(txid, n) == [coinbase |-> FALSE, txid |-> txid, vout |-> n, prevout |-> NoPrevOut]
CoinbaseVin == [coinbase |-> TRUE, txid |-> "", vout |-> 0, prevout |-> NoPrevOut]
Tx(vin, vout) == [vin |-> vin, vout |-> vout]

MCPrevTx ==
  [x \in {"p1", "p2", "p3"} |->
     CASE x = "p1" -> <<Out(10, Spk(A)), Out(7, Legacy(<<D, E>>))>>
       [] x = "p2" -> <<Out(1, Spk(B)), Out(5, Spk(C))>>
       [] x = "p3" -> <<Out(4, NoSpk)>>]

MCV2Block ==
  << Tx(<<CoinbaseVin>>, <<Out(50, Spk(M)), Out(0, NoSpk)>>),
     Tx(<<Spend("p1", 0), Spend("p2", 0)>>, <<Out(5, Spk(C)), Out(3, Spk(A)), Out(1, NoSpk)>>),
     Tx(<<Spend("p1", 1)>>, <<Out(3, Legacy(<<F, A>>)), Out(3, Spk(D)), Out(0, NoSpk)>>),
     Tx(<<Spend("p2", 1)>>, <<Out(4, Spk(C))>>),
     Tx(<<Spend("p3", 0)>>, <<Out(3, Spk(F))>>) >>

MCAddr == {A, B, C, D, E, F, M}

=============================================================================
