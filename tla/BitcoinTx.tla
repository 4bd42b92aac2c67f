----------------------------- MODULE BitcoinTx -----------------------------
(***************************************************************************)
(* The pure part of the Bitcoin pipeline: the transaction data model of    *)
(* internal/rpc/bitcoin/types.go, ExtractAddresses (address codec), the    *)
(* fee computation (CalculateFee and the totals) and the UTXO transfer     *)
(* extractor ExtractTransfers of internal/rpc/bitcoin/tx.go.               *)
(*                                                                         *)
(* Amounts are integers in satoshis.  The code reads float64 values from   *)
(* JSON and converts each with decimal.NewFromFloat, which yields the      *)
(* shortest decimal that round-trips, i.e. the 8-digit BTC amount Core     *)
(* printed; all further arithmetic is exact decimal.  Every amount below   *)
(* 2^53 satoshis (the whole supply is 2.1 * 10^15) survives this, so       *)
(* integer arithmetic is the faithful abstraction.                         *)
(***************************************************************************)
EXTENDS Integers, Sequences, SequencesExt

CONSTANTS
  Addr,       \* the addresses that can appear in a scriptPubKey
  NoAddr,     \* the empty address string "" of ScriptPubKey.Address
  NoPrevOut   \* a nil Vin.PrevOut

ASSUME BitcoinTxAssumption ==
  /\ NoAddr \notin Addr
  /\ "coinbase" \notin Addr

(***************************************************************************)
(* Shapes of the JSON types.  A ScriptPubKey keeps the two fields that     *)
(* carry addresses; a Vin keeps whether Coinbase is non-empty, the         *)
(* referenced Txid ("" when absent), the output index and PrevOut.         *)
(***************************************************************************)
ScriptPubKeys(n) == [address : Addr \cup {NoAddr}, addresses : BoundedSeq(Addr, n)]

\* ExtractAddresses: the single modern Address first, then legacy Addresses.
ExtractAddresses(spk) ==
  (IF spk.address # NoAddr THEN <<spk.address>> ELSE <<>>) \o spk.addresses

SeqSum(s) == FoldLeft(+, 0, s)

\* Transaction.IsCoinbase: the first vin carries a coinbase script.
IsCoinbase(tx) == Len(tx.vin) > 0 /\ tx.vin[1].coinbase

\* Transaction.HasPrevOutData: a non-coinbase tx with at least one prevout.
HasPrevOutData(tx) ==
  /\ ~IsCoinbase(tx)
  /\ \E j \in DOMAIN tx.vin : tx.vin[j].prevout # NoPrevOut

\* Mutation: totals only the outputs that carry an address.
CalculateTotalOutputAddressed(tx) ==
  SeqSum([k \in DOMAIN tx.vout |->
            IF tx.vout[k].value > 0 /\ ExtractAddresses(tx.vout[k].spk) # <<>>
            THEN tx.vout[k].value ELSE 0])

\* CalculateTotalOutput: the sum of the positive output values.
CalculateTotalOutput(tx) ==
  SeqSum([k \in DOMAIN tx.vout |->
            IF tx.vout[k].value > 0 THEN tx.vout[k].value ELSE 0])

\* CalculateTotalInput: the sum of the positive values of known prevouts.
CalculateTotalInput(tx) ==
  SeqSum([j \in DOMAIN tx.vin |->
            IF tx.vin[j].prevout # NoPrevOut /\ tx.vin[j].prevout.value > 0
            THEN tx.vin[j].prevout.value ELSE 0])

\* CalculateFee: zero for coinbase or without any prevout, else in - out
\* clamped at zero.
CalculateFee(tx) ==
  IF IsCoinbase(tx) \/ ~HasPrevOutData(tx) THEN 0
  ELSE LET fee == CalculateTotalInput(tx) - CalculateTotalOutput(tx)
       IN  IF fee < 0 THEN 0 ELSE fee

\* ExtractInputAddresses: the addresses of the known prevouts of the
\* non-coinbase vins, first occurrence kept, in vin order.
AppendNew(acc, a) == IF Contains(acc, a) THEN acc ELSE Append(acc, a)

ExtractInputAddresses(tx) ==
  LET addVin(acc, vin) ==
        IF vin.coinbase \/ vin.prevout = NoPrevOut THEN acc
        ELSE FoldLeft(AppendNew, acc, ExtractAddresses(vin.prevout.spk))
  IN  FoldLeft(addVin, <<>>, tx.vin)

\* GroupOutputsByAddress: for every address of a positive output, the sum
\* of the values of the outputs naming it (once per occurrence).
OutputAddresses(tx) ==
  UNION {ToSet(ExtractAddresses(tx.vout[k].spk)) :
           k \in {i \in DOMAIN tx.vout : tx.vout[i].value > 0}}

GroupOutputsByAddress(tx) ==
  [a \in OutputAddresses(tx) |->
     SeqSum([k \in DOMAIN tx.vout |->
               IF tx.vout[k].value > 0
               THEN tx.vout[k].value
                      * Len(SelectSeq(ExtractAddresses(tx.vout[k].spk),
                                      LAMBDA x : x = a))
               ELSE 0])]

(***************************************************************************)
(* A normalised transfer (types.Transaction), without the fields that are  *)
(* copied unchanged from the call (TxHash, NetworkId, BlockNumber,         *)
(* AssetAddress, Timestamp).  FromAddress is <<first, more>>: "coinbase",  *)
(* "" (unknown sender), a single input address (more = 0) or the           *)
(* composite "<first>+<more>_more" of fmt.Sprintf.                          *)
(***************************************************************************)
Transfer(from, to, amount, type, fee) ==
  [from |-> from, to |-> to, amount |-> amount, type |-> type, fee |-> fee]

FromAddress(inputs) ==
  IF inputs = <<>> THEN <<NoAddr, 0>> ELSE <<inputs[1], Len(inputs) - 1>>

\* The transfers of a coinbase tx: one per address of every positive
\* output, in output order, not grouped, with no fee.
CoinbaseTransfers(tx) ==
  LET perVout(k) ==
        IF tx.vout[k].value > 0
        THEN [i \in DOMAIN ExtractAddresses(tx.vout[k].spk) |->
                Transfer(<<"coinbase", 0>>, ExtractAddresses(tx.vout[k].spk)[i],
                         tx.vout[k].value, "mining", 0)]
        ELSE <<>>
  IN  FlattenSeq([k \in DOMAIN tx.vout |-> perVout(k)])

(***************************************************************************)
(* ExtractTransfers(tx, fee, order) where order is the sequence in which   *)
(* the Go range over the outputsByAddress map visits its keys (Go leaves   *)
(* that order unspecified and randomises it).  Both branches of the code   *)
(* give the fee to the first visited output that is not change, change     *)
(* being empty when no input address is known: feeAt is its position.     *)
(***************************************************************************)
IsChange(tx, a) == Contains(ExtractInputAddresses(tx), a)

\* Mutation: the fee goes to the first visited output, change or not.
FeeAtIgnoringChange(tx, fee, order) ==
  IF fee = 0 \/ order = <<>> THEN 0 ELSE 1

FeeAt(tx, fee, order) ==
  LET eligible == {k \in DOMAIN order : ~IsChange(tx, order[k])}
  IN  IF fee = 0 \/ eligible = {} THEN 0 ELSE Min(eligible)

ExtractTransfers(tx, fee, order) ==
  IF IsCoinbase(tx) THEN CoinbaseTransfers(tx)
  ELSE LET outputs == GroupOutputsByAddress(tx)
           from    == FromAddress(ExtractInputAddresses(tx))
       IN  [k \in DOMAIN order |->
              Transfer(from, order[k], outputs[order[k]], "transfer",
                       IF k = FeeAt(tx, fee, order) THEN fee ELSE 0)]

\* The visiting orders the Go runtime may choose for the map of tx.
MapOrders(tx) == SetToSeqs(OutputAddresses(tx))

=============================================================================
