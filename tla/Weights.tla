------------------------------- MODULE Weights -------------------------------
(***************************************************************************)
(* The `impl Weights for Validators` of coordinator/tributary/src/         *)
(* tendermint.rs: the weight table and the round-robin proposer schedule  *)
(* `robin` that the consensus engine queries.  Pure operators, no state;  *)
(* ProposerRounds and TributaryNetwork use them.                          *)
(*                                                                         *)
(* A schedule is a TLA+ sequence, so the Rust index i is robin[i + 1].     *)
(***************************************************************************)
EXTENDS Naturals, Sequences, Functions

(* `total_weight` returns the stored field `weight`; the constructor that  *)
(* fills it is not in this repository, so the field is taken to hold the  *)
(* sum of the table, as the data model of the spec requires.              *)
TotalWeight(weights) == SumFunction(weights)

(* `weight(validator)`: `self.weights[&validator]`, which panics for a     *)
(* non-member; the operator is only applied to members.                   *)
WeightOf(weights, validator) == weights[validator]

(* Mutant of ProposerIndex: the later-round shift forgets the round and    *)
(* only jumps halfway, so every retry of a height picks the same slot.    *)
ProposerIndexNoRound(len, block, round) ==
  (block + (IF round = 0 THEN 0 ELSE len \div 2)) % len

(* The index expression of `proposer`: on round 0 the block number alone   *)
(* selects the slot; on any later round it is shifted by the round plus   *)
(* half the schedule length (integer division).                           *)
ProposerIndex(len, block, round) ==
  (block + (IF round = 0 THEN 0 ELSE round + (len \div 2))) % len

(* Mutant of Proposer: the slot index is returned instead of the          *)
(* validator stored at it.                                                *)
ProposerReturnsIndex(robin, block, round) ==
  ProposerIndex(Len(robin), block, round)

(* `proposer(block, round)`: the validator at that slot of the schedule.   *)
Proposer(robin, block, round) ==
  robin[ProposerIndex(Len(robin), block, round) + 1]

=============================================================================
