--------------------------- MODULE TributaryNetwork ---------------------------
(***************************************************************************)
(* The block pipeline of `impl NetworkTrait for Network`                  *)
(* (coordinator/tributary/src/tendermint.rs): `validate`, `add_block`     *)
(* with its retry loop and its panics, `broadcast`, and the block id of  *)
(* `TendermintBlock`, for every honest validator of one tributary,        *)
(* composed with                                                          *)
(*  - the proposer schedule of Weights,                                   *)
(*  - the external ledger (Blockchain::verify_block / add_block), which    *)
(*    is not in this repository and is modelled from spec.md 6,           *)
(*  - an abstract consensus engine: a block is decided once validators    *)
(*    of more than two thirds of the weight have voted for it, where an   *)
(*    honest validator votes iff its `validate` returned Ok, and the      *)
(*    Byzantine ones vote for anything.                                   *)
(*                                                                         *)
(* `add_block` ends in `todo!()` after the ledger accepted the block, so  *)
(* a validator that commits the first block panics there: the model has   *)
(* one height, the one the code can complete.                             *)
(***************************************************************************)
EXTENDS Weights, FiniteSets

CONSTANTS
  Validators,       \* validator ids of the tributary
  Byzantine,        \* the validators that may propose and vote anything
  Weight,           \* Validators.weights
  Robin,            \* Validators.robin
  Height,           \* the block number being decided
  MaxRound,         \* last round the engine tries
  Blocks,           \* candidate serialized blocks
  HeaderMalformed,  \* blocks whose header does not deserialize
  BodyMalformed,    \* blocks whose header does but the rest does not
  LedgerInvalid,    \* well-formed blocks the ledger rejects (not temporal)
  Txs,              \* provided transactions
  Needs,            \* Needs[b]: provided transactions block b references
  NoBlock

ASSUME Byzantine \subseteq Validators
ASSUME Weight \in [Validators -> Nat \ {0}]
ASSUME Range(Robin) \subseteq Validators
ASSUME Needs \in [Blocks -> SUBSET Txs]
(* The engine's fault assumption: Byzantine weight below one third.        *)
ASSUME 3 * SumFunctionOnSet(Weight, Byzantine) < TotalWeight(Weight)

Honest == Validators \ Byzantine

(* Block::read fails, so validate and add_block see a malformed payload.   *)
Malformed == HeaderMalformed \cup BodyMalformed

(* Outcomes of this adapter's handlers, as pc values.                     *)
Panics == {"panic_invalid_block", "todo_commit", "todo_broadcast", "panic_block_id"}

VARIABLES
  round,      \* engine: round at Height
  proposal,   \* engine: the block proposed this round, or NoBlock
  validated,  \* engine: validated[v], v's last validate() result this round
  decision,   \* engine: the decided block, or NoBlock
  pc,         \* adapter: where each honest validator's adapter is
  provided,   \* ledger: provided transactions each validator has
  ledger      \* ledger: the block each validator's ledger added, or NoBlock

vars == <<round, proposal, validated, decision, pc, provided, ledger>>

-----------------------------------------------------------------------------
(* The external ledger (spec.md 6).  A block that references a provided   *)
(* transaction the validator lacks yields MissingProvided; a block the    *)
(* ledger rejects yields another error, or MissingProvided if that check  *)
(* happens to come first.                                                 *)
Missing(v, b) == ~(Needs[b] \subseteq provided[v])

LedgerOutcomes(v, b) ==
  IF b \in LedgerInvalid
  THEN {"OtherError"} \cup (IF Missing(v, b) THEN {"MissingProvided"} ELSE {})
  ELSE IF Missing(v, b) THEN {"MissingProvided"} ELSE {"Ok"}

-----------------------------------------------------------------------------
ValidateResultUnmapped(e) == e

(* validate's map_err: MissingProvided is Temporal, any other error Fatal. *)
ValidateResult(e) ==
  CASE e = "Ok"              -> "Ok"
    [] e = "MissingProvided" -> "Temporal"
    [] OTHER                 -> "Fatal"

(* Network::validate(block) called by the engine on v's adapter for the    *)
(* proposal; a Temporal result is retried later in the same round.        *)
Validate(v) ==
  /\ pc[v] = "consensus"
  /\ decision = NoBlock
  /\ proposal # NoBlock
  /\ validated[v] \in {"None", "Temporal"}
  /\ \E e \in LedgerOutcomes(v, proposal) :
       validated' = [validated EXCEPT ![v] =
                       IF proposal \in Malformed THEN "Fatal" ELSE ValidateResult(e)]
  /\ UNCHANGED <<round, proposal, decision, pc, provided, ledger>>

(* TendermintBlock::id(): BlockHeader::read(..).unwrap().hash(), which     *)
(* panics on a malformed header.  The engine may hash a received proposal *)
(* at any point; for a well-formed header this is a pure function.        *)
BlockId(v) ==
  /\ pc[v] = "consensus"
  /\ proposal \in HeaderMalformed
  /\ pc' = [pc EXCEPT ![v] = "panic_block_id"]
  /\ UNCHANGED <<round, proposal, validated, decision, provided, ledger>>

(* Network::broadcast: `todo!()`.  The engine broadcasts v's vote after a  *)
(* successful validate.                                                   *)
Broadcast(v) ==
  /\ pc[v] = "consensus"
  /\ validated[v] = "Ok"
  /\ pc' = [pc EXCEPT ![v] = "todo_broadcast"]
  /\ UNCHANGED <<round, proposal, validated, decision, provided, ledger>>

(* Network::add_block(block, commit), up to the loop: a payload that does  *)
(* not deserialize is invalid_block(), a panic.                           *)
AddBlock(v) ==
  /\ pc[v] = "consensus"
  /\ decision # NoBlock
  /\ pc' = [pc EXCEPT ![v] = IF decision \in Malformed THEN "panic_invalid_block" ELSE "adding"]
  /\ UNCHANGED <<round, proposal, validated, decision, provided, ledger>>

(* One iteration of add_block's loop: Ok breaks and reaches the todo!()   *)
(* after the loop; MissingProvided logs and sleeps 30 s; any other error  *)
(* is invalid_block().                                                    *)
AddBlockAttempt(v) ==
  /\ pc[v] = "adding"
  /\ \E e \in LedgerOutcomes(v, decision) :
       CASE e = "Ok" ->
              /\ ledger' = [ledger EXCEPT ![v] = decision]
              /\ pc' = [pc EXCEPT ![v] = "todo_commit"]
         [] e = "MissingProvided" ->
              /\ pc' = [pc EXCEPT ![v] = "sleeping"]
              /\ UNCHANGED ledger
         [] OTHER ->
              /\ pc' = [pc EXCEPT ![v] = "panic_invalid_block"]
              /\ UNCHANGED ledger
  /\ UNCHANGED <<round, proposal, validated, decision, provided>>

(* Mutant of Wake: the loop is left after the sleep instead of retried.   *)
WakeAndBreak(v) ==
  /\ pc[v] = "sleeping"
  /\ pc' = [pc EXCEPT ![v] = "todo_commit"]
  /\ UNCHANGED <<round, proposal, validated, decision, provided, ledger>>

(* The 30 s sleep ends and the loop retries the same block.               *)
Wake(v) ==
  /\ pc[v] = "sleeping"
  /\ pc' = [pc EXCEPT ![v] = "adding"]
  /\ UNCHANGED <<round, proposal, validated, decision, provided, ledger>>

-----------------------------------------------------------------------------
(* Environment: the ledger receives a provided transaction.               *)
Provide(v, t) ==
  /\ t \notin provided[v]
  /\ provided' = [provided EXCEPT ![v] = @ \cup {t}]
  /\ UNCHANGED <<round, proposal, validated, decision, pc, ledger>>

(* Engine: the scheduled proposer proposes.  An honest proposer whose     *)
(* adapter still runs proposes a well-formed block its ledger accepts; a  *)
(* Byzantine one proposes any payload.                                    *)
Propose ==
  /\ decision = NoBlock
  /\ proposal = NoBlock
  /\ LET p == Proposer(Robin, Height, round)
     IN  \/ /\ p \in Byzantine
            /\ \E b \in Blocks : proposal' = b
         \/ /\ p \in Honest
            /\ pc[p] = "consensus"
            /\ \E b \in Blocks \ (Malformed \cup LedgerInvalid) :
                 /\ ~Missing(p, b)
                 /\ proposal' = b
  /\ UNCHANGED <<round, validated, decision, pc, provided, ledger>>

(* Votes for the proposal: the Byzantine validators and the honest ones    *)
(* whose validate returned Ok.                                            *)
Voters == Byzantine \cup {v \in Honest : validated[v] = "Ok"}

(* Engine: the proposal is decided once its votes exceed two thirds.      *)
Decide ==
  /\ decision = NoBlock
  /\ proposal # NoBlock
  /\ 3 * SumFunctionOnSet(Weight, Voters) > 2 * TotalWeight(Weight)
  /\ decision' = proposal
  /\ UNCHANGED <<round, proposal, validated, pc, provided, ledger>>

(* Engine: the round times out and the next one starts.                   *)
Timeout ==
  /\ decision = NoBlock
  /\ round < MaxRound
  /\ round' = round + 1
  /\ proposal' = NoBlock
  /\ validated' = [v \in Honest |-> "None"]
  /\ UNCHANGED <<decision, pc, provided, ledger>>

(* The explored behaviour is over: the rounds are exhausted, or every     *)
(* honest adapter has panicked.                                           *)
Stopped ==
  /\ \/ decision = NoBlock /\ round = MaxRound
     \/ \A v \in Honest : pc[v] \in Panics
  /\ UNCHANGED vars

-----------------------------------------------------------------------------
Init ==
  /\ round = 0
  /\ proposal = NoBlock
  /\ validated = [v \in Honest |-> "None"]
  /\ decision = NoBlock
  /\ pc = [v \in Honest |-> "consensus"]
  /\ provided \in [Honest -> SUBSET Txs]
  /\ ledger = [v \in Honest |-> NoBlock]

Next ==
  \/ Propose \/ Decide \/ Timeout \/ Stopped
  \/ \E v \in Honest :
       \/ Validate(v) \/ BlockId(v) \/ Broadcast(v)
       \/ AddBlock(v) \/ AddBlockAttempt(v) \/ Wake(v)
       \/ \E t \in Txs : Provide(v, t)

(* The adapter's own steps are not starved once enabled, and a provided    *)
(* transaction the others had eventually reaches every ledger, which is   *)
(* what add_block's retry loop waits for.                                 *)
Fairness ==
  \A v \in Honest :
    /\ WF_vars(AddBlockAttempt(v))
    /\ WF_vars(Wake(v))
    /\ \A t \in Txs : WF_vars(Provide(v, t))

Spec == Init /\ [][Next]_vars /\ Fairness

-----------------------------------------------------------------------------
TypeOK ==
  /\ round \in 0..MaxRound
  /\ proposal \in Blocks \cup {NoBlock}
  /\ validated \in [Honest -> {"None", "Ok", "Temporal", "Fatal"}]
  /\ decision \in Blocks \cup {NoBlock}
  /\ pc \in [Honest -> {"consensus", "adding", "sleeping"} \cup Panics]
  /\ provided \in [Honest -> SUBSET Txs]
  /\ ledger \in [Honest -> Blocks \cup {NoBlock}]

AddBlockCompletes ==
  \A v \in Honest :
    (pc[v] \in {"adding", "sleeping"}) ~> (ledger[v] = decision)

(* spec.md 4.4 and 7: a malformed payload is a fatal validation failure   *)
(* reported to the engine, so a Byzantine proposer's malformed block      *)
(* never takes down an honest adapter.                                    *)
MalformedProposalRejected ==
  \A v \in Honest : pc[v] # "panic_block_id"

-----------------------------------------------------------------------------
(* Refinement of BlockCommit: an adapter in consensus is running, one in   *)
(* add_block's loop is committing, one past the ledger's Ok is committed  *)
(* (the todo!() that follows is below the abstract level), and one at any *)
(* other panic has stopped; the ledgers are the abstract `added`.         *)
AbstractPhase(p) ==
  CASE p = "consensus"              -> "running"
    [] p \in {"adding", "sleeping"}  -> "committing"
    [] p = "todo_commit"            -> "committed"
    [] OTHER                        -> "stopped"

Abstract == INSTANCE BlockCommit WITH
  Validators <- Honest,
  decided <- decision,
  phase <- [v \in Honest |-> AbstractPhase(pc[v])],
  added <- ledger

(* The pipeline implements BlockCommit: every honest ledger adds only the  *)
(* decided block and only from add_block, and every add_block call        *)
(* finishes by committing or panicking, under the fairness of Spec.       *)
ImplementsBlockCommit == Abstract!Spec

=============================================================================
