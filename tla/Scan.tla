--------------------------------- MODULE Scan ---------------------------------
(***************************************************************************)
(* `Transaction::scan(view, spend)` of coins/monero/src/wallet/scan.rs:   *)
(* which outputs of one transaction a wallet recognises as its own, with  *)
(* which key offset and which commitment.                                 *)
(*                                                                         *)
(* The curve and the hashes are symbolic.  An output key is either        *)
(* Foreign, or the record [pk, d]: the key a sender derives for this      *)
(* wallet from transaction key pk with derivation d ("traditional", or    *)
(* "unique" over the inputs' uniqueness), at the output's own index.  The *)
(* shared-key hash is taken to be injective, so `matches` holds for       *)
(* exactly that pk and d, and the key offset is the triple [pk, o, d].    *)
(* An ecdh entry is given as the amount it decrypts to under that offset, *)
(* and an on-chain commitment as [ours, amount]: ours is TRUE iff its     *)
(* mask is commitment_mask of that offset.  The sender chooses all of     *)
(* them, so all combinations are inputs.  The transaction hash in each   *)
(* SpendableOutput is the same for all outputs and is left out.          *)
(***************************************************************************)
EXTENDS Naturals, Sequences, SequencesExt, FiniteSets

CONSTANTS
  PubKeys,    \* transaction public keys that decompress
  BadKey,     \* an encoded key whose decompress() fails
  Amounts,    \* amounts, 0 included
  Foreign,    \* an output key not derived for this wallet
  None,       \* an absent Option
  MaxOutputs, \* most outputs a transaction has in the explored inputs
  MaxExtraKeys \* most additional public keys in the extra field

Derivations == {"traditional", "unique"}

OutputKeys == {Foreign} \cup [pk : PubKeys, d : Derivations]

Outputs == [key : OutputKeys, amount : Amounts]

(* A commitment that does not open under this wallet's mask is one value: *)
(* the amount it hides is never compared.                                 *)
Commitments == [ours : {TRUE}, amount : Amounts] \cup {[ours |-> FALSE, amount |-> 0]}

(* The transactions scan is run on.  ecdh_info and commitments may be     *)
(* shorter than the outputs; `get(o)` is then None.  A key that does not *)
(* decompress is explored among the additional keys, and the keys of a   *)
(* transaction whose extra field does not parse are immaterial.          *)
Txs ==
  { tx \in [ extraOk : BOOLEAN,
             txPubkey : PubKeys \cup {None},
             additional : BoundedSeq(PubKeys \cup {BadKey}, MaxExtraKeys),
             outputs : BoundedSeq(Outputs, MaxOutputs),
             ecdh : BoundedSeq(Amounts, MaxOutputs),
             commitments : BoundedSeq(Commitments, MaxOutputs) ] :
      /\ Len(tx.ecdh) <= Len(tx.outputs)
      /\ Len(tx.commitments) <= Len(tx.outputs)
      /\ tx.extraOk \/ (tx.txPubkey = None /\ tx.additional = <<>>) }

KeyOffsets == [pk : PubKeys, o : 1..MaxOutputs, d : Derivations]

SpendableOutputs ==
  [o : 1..MaxOutputs, key : OutputKeys, key_offset : KeyOffsets,
   commitment : [mask : {"zero", "derived"}, amount : Amounts]]

-----------------------------------------------------------------------------
(* The extra field's tx_pubkey followed by tx_additional_pubkeys, keeping  *)
(* the keys that decompress.                                              *)
TxPubkeys(tx) ==
  SelectSeq((IF tx.txPubkey = None THEN <<>> ELSE <<tx.txPubkey>>) \o tx.additional,
            LAMBDA k : k # BadKey)

(* `matches(shared_key)`: P - shared*G == spend.                           *)
Matches(tx, o, pk, d) == tx.outputs[o].key = [pk |-> pk, d |-> d]

(* Mutant of KeyOffset: the unique derivation is never tried.             *)
KeyOffsetTraditionalOnly(tx, o, pk) ==
  IF Matches(tx, o, pk, "traditional")
  THEN [pk |-> pk, o |-> o, d |-> "traditional"]
  ELSE None

(* `traditional.or(unique)`: the traditional shared key if it matches,    *)
(* else the unique one if it does, else None.                             *)
KeyOffset(tx, o, pk) ==
  IF Matches(tx, o, pk, "traditional")
  THEN [pk |-> pk, o |-> o, d |-> "traditional"]
  ELSE IF Matches(tx, o, pk, "unique")
       THEN [pk |-> pk, o |-> o, d |-> "unique"]
       ELSE None

(* Mutant of Opens: the recomputed commitment is not compared.             *)
OpensUnchecked(tx, o, amount) == TRUE

(* `Some(&commitment.calculate()) == commitments.get(o)` for              *)
(* Commitment::new(commitment_mask(key_offset), amount).                  *)
Opens(tx, o, amount) ==
  /\ o <= Len(tx.commitments)
  /\ tx.commitments[o] = [ours |-> TRUE, amount |-> amount]

(* Mutant of Spendable: the output index is shifted by one.               *)
SpendableShifted(tx, o, koff, mask, amount) ==
  [o |-> o + 1, key |-> tx.outputs[o].key, key_offset |-> koff,
   commitment |-> [mask |-> mask, amount |-> amount]]

(* `SpendableOutput { tx, o, key: output.key, key_offset, commitment }`.   *)
Spendable(tx, o, koff, mask, amount) ==
  [o |-> o, key |-> tx.outputs[o].key, key_offset |-> koff,
   commitment |-> [mask |-> mask, amount |-> amount]]

(* `if commitment.amount != 0 { res.push(..) }`, then `break`.              *)
PushIfNonZero(tx, o, koff, mask, amount) ==
  IF amount # 0 THEN <<Spendable(tx, o, koff, mask, amount)>> ELSE <<>>

(* Mutant of ScanKeys: no `break` after an output is recognised, so the    *)
(* remaining public keys are tried as well.                               *)
RECURSIVE ScanKeysNoBreak(_, _, _)
ScanKeysNoBreak(tx, o, pks) ==
  IF pks = <<>> THEN <<>>
  ELSE LET koff == KeyOffset(tx, o, Head(pks))
           out  == tx.outputs[o]
       IN  CASE koff = None                   -> ScanKeysNoBreak(tx, o, Tail(pks))
             [] out.amount # 0                -> PushIfNonZero(tx, o, koff, "zero", out.amount)
                                                   \o ScanKeysNoBreak(tx, o, Tail(pks))
             [] o > Len(tx.ecdh)              -> ScanKeysNoBreak(tx, o, Tail(pks))
             [] ~Opens(tx, o, tx.ecdh[o])     -> <<>>
             [] OTHER                         -> PushIfNonZero(tx, o, koff, "derived", tx.ecdh[o])
                                                   \o ScanKeysNoBreak(tx, o, Tail(pks))

(* The loop `for pubkey in &pubkeys` for output o, as what it pushes:     *)
(*  - no shared key matches: next public key;                             *)
(*  - a miner output (amount != 0) keeps its clear amount and zero mask;  *)
(*  - no ecdh entry: `continue` with the next public key;                 *)
(*  - the rebuilt commitment differs: `break`, nothing pushed;            *)
(*  - else the decrypted amount, pushed if non-zero, and `break`.         *)
RECURSIVE ScanKeys(_, _, _)
ScanKeys(tx, o, pks) ==
  IF pks = <<>> THEN <<>>
  ELSE LET koff == KeyOffset(tx, o, Head(pks))
           out  == tx.outputs[o]
       IN  CASE koff = None                   -> ScanKeys(tx, o, Tail(pks))
             [] out.amount # 0                -> PushIfNonZero(tx, o, koff, "zero", out.amount)
             [] o > Len(tx.ecdh)              -> ScanKeys(tx, o, Tail(pks))
             [] ~Opens(tx, o, tx.ecdh[o])     -> <<>>
             [] OTHER                         -> PushIfNonZero(tx, o, koff, "derived", tx.ecdh[o])

(* `for (o, output) in outputs.iter().enumerate()`.                        *)
RECURSIVE ScanOutputs(_, _)
ScanOutputs(tx, o) ==
  IF o > Len(tx.outputs) THEN <<>>
  ELSE ScanKeys(tx, o, TxPubkeys(tx)) \o ScanOutputs(tx, o + 1)

(* `scan`: an extra field that does not deserialize yields no outputs.     *)
ScanTx(tx) == IF tx.extraOk THEN ScanOutputs(tx, 1) ELSE <<>>

-----------------------------------------------------------------------------
(* Reference: the outputs a wallet owns and can spend, stated without the *)
(* loops.  Output o is owned under every offset a decompressible key of   *)
(* the extra field derives its key with; its amount is the clear one for  *)
(* a miner output, else the ecdh amount when the on-chain commitment      *)
(* opens to it; it is reported iff that amount exists and is not zero.   *)
OwnedOffsets(tx, o) ==
  LET key == tx.outputs[o].key
  IN  IF key \in [pk : ({tx.txPubkey} \cup ToSet(tx.additional)) \cap PubKeys, d : Derivations]
      THEN {[pk |-> key.pk, o |-> o, d |-> key.d]}
      ELSE {}

MinerOwned(tx) ==
  {o \in 1..Len(tx.outputs) : tx.outputs[o].amount # 0}

VerifiedOwned(tx) ==
  {o \in 1..Len(tx.ecdh) :
     /\ tx.outputs[o].amount = 0
     /\ tx.ecdh[o] # 0
     /\ o <= Len(tx.commitments)
     /\ tx.commitments[o] = [ours |-> TRUE, amount |-> tx.ecdh[o]]}

Reference(tx) ==
  IF ~tx.extraOk THEN {}
  ELSE UNION {{Spendable(tx, o, koff, "zero", tx.outputs[o].amount) : koff \in OwnedOffsets(tx, o)} :
                o \in MinerOwned(tx)}
       \cup
       UNION {{Spendable(tx, o, koff, "derived", tx.ecdh[o]) : koff \in OwnedOffsets(tx, o)} :
                o \in VerifiedOwned(tx)}

-----------------------------------------------------------------------------
VARIABLES
  tx,   \* the transaction being scanned
  res   \* scan's return value, or None before it returns

vars == <<tx, res>>

Init ==
  /\ tx \in Txs
  /\ res = None

(* One call of `scan`.                                                     *)
ScanCall ==
  /\ res = None
  /\ res' = ScanTx(tx)
  /\ UNCHANGED tx

(* The call has returned.                                                  *)
Returned ==
  /\ res # None
  /\ UNCHANGED vars

Next == ScanCall \/ Returned

Spec == Init /\ [][Next]_vars

-----------------------------------------------------------------------------
TypeOK ==
  /\ tx \in Txs
  /\ res = None \/ res \in Seq(SpendableOutputs)

(* scan returns exactly the outputs the wallet owns with a non-zero        *)
(* amount whose commitment is verified, each once and in output order,    *)
(* whatever the sender put in the transaction: its key repeated among the *)
(* additional keys, keys that do not decompress, missing ecdh entries,    *)
(* forged commitments, or an amount encrypted as 0.  The `continue` on a  *)
(* missing ecdh entry and the `break`s on a failed commitment and after a *)
(* push are what this depends on.                                         *)
ScanMatchesReference ==
  res # None =>
    /\ ToSet(res) = Reference(tx)
    /\ \A i, j \in 1..Len(res) : i < j => res[i].o < res[j].o

=============================================================================
