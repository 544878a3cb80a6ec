----------------------------- MODULE BlockCommit -----------------------------
(***************************************************************************)
(* What the block pipeline of a tributary promises, after spec.md 4.4:   *)
(* blocks reach a validator's ledger only through a decision of the      *)
(* engine; once decided, each validator's adapter either commits exactly *)
(* that block to its ledger or stops, and one that has started to commit *)
(* finishes one way or the other.  Retries, sleeps and the ledger's      *)
(* verdicts are below this level of detail.                              *)
(***************************************************************************)
CONSTANTS
  Validators,   \* the validators whose adapters are described
  Blocks,       \* candidate blocks
  NoBlock

VARIABLES
  decided,      \* the block the engine decided, or NoBlock
  phase,        \* phase[v]: "running", "committing", "committed" or "stopped"
  added         \* added[v]: the block v's ledger added, or NoBlock

vars == <<decided, phase, added>>

Init ==
  /\ decided = NoBlock
  /\ phase = [v \in Validators |-> "running"]
  /\ added = [v \in Validators |-> NoBlock]

(* The engine decides a block, once.                                      *)
Decide(b) ==
  /\ decided = NoBlock
  /\ decided' = b
  /\ UNCHANGED <<phase, added>>

(* The engine hands the decided block to v's adapter.                      *)
Start(v) ==
  /\ decided # NoBlock
  /\ phase[v] = "running"
  /\ phase' = [phase EXCEPT ![v] = "committing"]
  /\ UNCHANGED <<decided, added>>

(* v's ledger adds the decided block.                                      *)
Commit(v) ==
  /\ phase[v] = "committing"
  /\ phase' = [phase EXCEPT ![v] = "committed"]
  /\ added' = [added EXCEPT ![v] = decided]
  /\ UNCHANGED decided

(* v's adapter stops before it committed.                                  *)
Stop(v) ==
  /\ phase[v] \in {"running", "committing"}
  /\ phase' = [phase EXCEPT ![v] = "stopped"]
  /\ UNCHANGED <<decided, added>>

Next ==
  \/ \E b \in Blocks : Decide(b)
  \/ \E v \in Validators : Start(v) \/ Commit(v) \/ Stop(v)

(* An adapter that has started to commit is not left hanging.              *)
Spec ==
  /\ Init /\ [][Next]_vars
  /\ \A v \in Validators : WF_vars(phase[v] = "committing" /\ (Commit(v) \/ Stop(v)))

=============================================================================
