---------------------------- MODULE ProposerRounds ----------------------------
(***************************************************************************)
(* How the consensus engine walks heights and rounds and asks             *)
(* `Validators::proposer(block, round)` (tendermint.rs) who proposes.     *)
(* The walk itself belongs to the external engine: a round either times   *)
(* out (next round, same block) or decides (next block, round 0).  The    *)
(* history `proposers` records who was asked to propose at this height,   *)
(* so that the schedule's promise to a stuck height can be stated.        *)
(***************************************************************************)
EXTENDS Weights, FiniteSets

CONSTANTS
  Robins,     \* candidate schedules (non-empty sequences of validator ids)
  MaxBlock,   \* last block number explored
  MaxRound    \* last round number explored at one height

ASSUME \A r \in Robins : Len(r) > 0
ASSUME MaxRound \in Nat /\ MaxBlock \in Nat

VARIABLES
  robin,      \* Validators.robin, fixed for the chain (immutable in the code)
  block,      \* the height the engine is deciding
  round,      \* the round at that height
  proposers   \* the validators proposer() returned at this height so far

vars == <<robin, block, round, proposers>>

Init ==
  /\ robin \in Robins
  /\ block = 1
  /\ round = 0
  /\ proposers = {Proposer(robin, 1, 0)}

(* The round times out: the engine asks for the next round's proposer.    *)
Timeout ==
  /\ round < MaxRound
  /\ round' = round + 1
  /\ proposers' = proposers \cup {Proposer(robin, block, round + 1)}
  /\ UNCHANGED <<robin, block>>

(* The height is decided: the engine moves to round 0 of the next block.   *)
Decide ==
  /\ block < MaxBlock
  /\ block' = block + 1
  /\ round' = 0
  /\ proposers' = {Proposer(robin, block + 1, 0)}
  /\ UNCHANGED robin

(* Both bounds reached: the explored prefix is over.                      *)
Done ==
  /\ block = MaxBlock /\ round = MaxRound
  /\ UNCHANGED vars

Next == Timeout \/ Decide \/ Done

Spec == Init /\ [][Next]_vars

TypeOK ==
  /\ robin \in Robins
  /\ block \in 1..MaxBlock
  /\ round \in 0..MaxRound
  /\ proposers \subseteq Range(robin)

(* A height stuck on failing proposers is retried by every member: once   *)
(* as many rounds as the schedule has slots have been tried, every        *)
(* validator of the schedule has been proposer at this height.  This is   *)
(* what the "jump halfway around" of `proposer` must not lose: a         *)
(* Byzantine validator holding a slot cannot stall a height forever.     *)
EveryValidatorProposesAtStuckHeight ==
  round >= Len(robin) => Range(robin) \subseteq proposers

(* The early retries of a height move the proposer off the round-0 slot.  *)
(* spec.md section 8: proposer(block, round) for round > 0 differs from   *)
(* proposer(block, 0), and round 0 and round 2 map to different indices  *)
(* whenever the schedule has more than two slots; the comment on         *)
(* `proposer`: the halfway jump is "not explicitly reusing indexes        *)
(* immediately after each other".  So rounds 1 and 2 of a block pick a   *)
(* slot other than round 0's whenever the schedule has more slots than   *)
(* the round number.                                                      *)
EarlyRetriesLeaveRoundZeroSlot ==
  (round \in 1..2 /\ Len(robin) > round) =>
    ProposerIndex(Len(robin), block, round) # ProposerIndex(Len(robin), block, 0)

=============================================================================
