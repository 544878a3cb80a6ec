# TLA+ models of serai (tributary consensus adapter, Monero tooling)

This directory holds TLA+ models of the parts of this repository that have
state, concurrency or protocol structure. It also holds the TLC
configurations that check those models. `PROJECT.json` lists:
- every component, with its status;
- every run and the properties it checks;
- the mutants that show each checked property can fail;
- the source lines each definition translates (`map`);
- the findings and the hazards.

## The system

The repository (`src/`) contains five files:

| file | part | state / concurrency |
|------|------|---------------------|
| `coordinator/tributary/src/tendermint.rs` | The adapter between a Tendermint engine and a tributary ledger. It has four parts: the transcript `challenge`, the `Signer`, `Validators` (signature scheme, weights, proposer schedule) and `Network` (validate, add_block, broadcast, slash). | Many validators run concurrently, some of them Byzantine. `add_block` has a sleep/retry loop. |
| `coins/monero/src/bin/reserialize_chain.rs` | A tool that checks every block of a Monero node. `main` polls the height and spawns up to `async_parallelism` `check_block` tasks. | Tokio tasks run concurrently with `main`'s join/drain loop. |
| `coins/monero/src/wallet/scan.rs` | Scans a transaction's outputs for a view key (modelled by `Scan`). | Pure and sequential. |
| `tests/processor/src/tests/batch.rs` | A test that drives coordinators and processors through batch signing (modelled by `BatchTest`). | A message exchange with random participant selection. |
| `substrate/client/src/serai/in_instructions.rs` | RPC queries and one transaction constructor. | Pure I/O with no own state. |

### How the tendermint.rs parts interact

The engine (not in `src/`) does the following:
- asks `Validators::proposer(block, round)` who proposes;
- calls `Network::validate` on a proposal and votes if it returns Ok;
- signs its messages with `Signer::sign`, and checks other validators'
  messages with `Validators::verify`;
- decides once more than 2/3 of the weight has voted, then calls
  `Network::add_block`.

The adapter side works like this:
- `validate` and `add_block` call the tributary ledger
  (`Blockchain::verify_block` and `add_block`, which are also not in `src/`).
- A `MissingProvided` error is temporal: `validate` returns
  `BlockError::Temporal`.
- `add_block` instead sleeps and retries until the provided transaction
  arrives.
- Any other ledger error is fatal in `validate` and a panic in `add_block`.

## Modules

| module | models | state | actions |
|--------|--------|-------|---------|
| `Weights` | `impl Weights for Validators`: `total_weight`, `weight`, `proposer` | none (operators) | — |
| `ProposerRounds` | how the engine queries `proposer` over heights and rounds | `robin`, `block`, `round`, `proposers` (who was asked at this height) | `Timeout`, `Decide`, `Done` |
| `SignatureScheme` | `challenge`, `Signer::{validator_id, sign}`, `Validators::{verify, aggregate, verify_aggregate}` | `signed` (the signing requests honest signers served) | `HonestSign(g,k,m)` |
| `TributaryNetwork` | `Network::{validate, add_block, broadcast}` and `TendermintBlock::id`, for all honest validators of one tributary, composed with `Weights`, an abstract engine and the ledger | `round`, `proposal`, `validated`, `decision` (engine); `pc` (each adapter); `provided`, `ledger` (ledger) | `Propose`, `Validate(v)`, `BlockId(v)`, `Broadcast(v)`, `Decide`, `Timeout`, `AddBlock(v)`, `AddBlockAttempt(v)`, `Wake(v)`, `Provide(v,t)`, `Stopped` |
| `BlockCommit` | what the block pipeline promises (spec.md 4.4): a decided block reaches each ledger or the adapter stops | `decided`, `phase`, `added` | `Decide(b)`, `Start(v)`, `Commit(v)`, `Stop(v)` |
| `Scan` | `Transaction::scan` of scan.rs, as RECURSIVE operators over its two loops, and a reference definition of the owned outputs | `tx`, `res` | `ScanCall`, `Returned` |
| `BatchTest` | `batch` / `batch_test` of batch.rs over two batches: the coordinators' side of preprocess, reattempt, share and batch messages; processors scan each published batch and answer as the test expects | `toProc`, `fromProc` (FIFO links), `scanned`, `published`, `pc`, `iter`, `idx`, `id`, `attempt`, `reattempts`, `preprocesses`, `shares`, `batch` | `RecvPreprocess`, `RecvPreprocessesDone`, `Reduce(p)`, `ReduceDone`, `SendReattempt`, `SignBatch`, `SkipUnselected`, `RecvShare`, `SendShares`, `RecvBatch`, `Finish`, `PublishTx`, `ProcessorRespond(i)`, `ProcessorScan(i)` |
| `ReserializeChain` | `main` of reserialize_chain.rs; `check_block` is reduced to its outcome | `parallelism` (`async_parallelism`), `pc`, `height`, `blockI` (`block_i`), `handles`, `i`, `status` | `Poll`, `LoopDone`, `AwaitOldest`, `DrainRemove`, `DrainSkip`, `DrainEnd`, `Spawn`, `CheckBlock(b)`, `Ended` |
| `CheckBlock` | one `check_block` call: the block fetch and asserts, the chunked `get_transactions` loop, the `zip` over `block.txs` and the replies | `pc`, `txs` (`block.txs`), `hashesHex`, `allTxs`, `k` (zip position), `checked` | `FetchBlock`, `FetchTxs`, `CheckTx`, `ZipDone`, `Ended` |

Each `MC*` module fixes the constants as model values and small definitions.

### Abstractions

**SignatureScheme.** The Ristretto group and the transcript hash are symbolic:
- `x*G` is the record `[g |-> x]`.
- A challenge or nonce is the tuple of what the transcript absorbed, in
  order. This treats the hash as injective.
- A response is `[k, c, x]`.

The adversary has these capabilities:
- it knows the Byzantine keys;
- it knows any key it can extract from two honest signatures that share a
  nonce and a key but have different challenges;
- it can replay any honest signature;
- it can present an unparseable signature.

What is checked is what goes into the transcripts and which checks
`verify` makes, not the curve arithmetic.

**TributaryNetwork.** Blocks are model values.
- `HeaderMalformed` and `BodyMalformed` are the payloads on which
  `BlockHeader::read` or `Block::read` fails.
- `LedgerInvalid` blocks are well formed but the ledger rejects them with a
  non-temporal error.
- `Needs[b]` is the set of provided transactions that block `b` references.
  The ledger returns `MissingProvided` while one of them has not arrived.

The adapter's `pc` records where each honest validator is:
- `consensus`: running consensus;
- `adding` / `sleeping`: inside `add_block`'s loop;
- one of the panic points (`panic_invalid_block`, `todo_commit`,
  `todo_broadcast`, `panic_block_id`).

The code's handlers translate into actions as follows:
- `Validate` is the whole handler: the read, the ledger call and the error
  mapping.
- `add_block` is `AddBlock` (the read and the panic on a malformed block),
  then `AddBlockAttempt` (one ledger call), then `Wake` (the 30-second sleep
  ends and the loop restarts).
- `add_block` ends in `todo!()` after the ledger accepts the block, so the
  model covers one height: the only one the code can finish.

`TributaryNetwork` also instantiates `BlockCommit` with the mapping:
`decided` is the engine's decision, `added` the ledger, and `pc` maps
`consensus` to running, `adding`/`sleeping` to committing, `todo_commit` (the
ledger accepted the block) to committed and every panic point to stopped.

**Scan.** The curve and hashes are symbolic. An output key is `Foreign` or
`[pk, d]`: the key derived for this wallet from transaction key `pk` with the
traditional or unique derivation. The shared-key hash is taken to be
injective, so `matches` holds for exactly that `pk` and `d`. An ecdh entry is
the amount it decrypts to; a commitment is `[ours, amount]`, ours meaning its
mask is this wallet's. The sender picks all of these, so `Init` takes every
transaction of the bounded set. `ScanKeys` keeps the order and the exits of
the inner loop: skip, push the clear amount, `continue` (no ecdh entry),
`break` (commitment differs), push and `break`.

**BatchTest.** The processors are not in `src/`; they are FIFO responders
that give the one answer per message the test's receives and asserts
expect. spec.md does not describe the processors, so these definitions are
inferred from the test itself (marked spec_modelled in `PROJECT.json`, the
mark for code outside `src/`). A loop that
sends one message to every coordinator is one step. The model covers both
iterations of the test's outer loop: `PublishTx` stands for publishing the
batch's InInstruction and resets the per-batch state, and each processor's
`ProcessorScan` notices a published batch and sends its first preprocess. A
batch's id carries its number, so a message left over from batch 0 would be
misread in batch 1. The random reduction of
the preprocesses to `THRESHOLD` is a nondeterministic choice of which
participant to drop.

**ReserializeChain.** `check_block` is reduced to its outcome: Ok, or a
panic from one of its `expect`s and asserts. `rpc_i` is left out because it
only selects a connection. `async_parallelism` is a variable chosen in
`Init` among the parsed values {0, 1, 2}. Each poll may panic on
`get_height`'s `expect`. The argument-parsing and `HttpRpc::new` panics
before the loop are left out: they happen before any state the model
tracks. With 0, `swap_remove(0)` panics on the empty vector at the first
block. That is a panic like the one for an unparsable argument, so no
property is stated about it.

**CheckBlock.** A transaction is its hash and a block is the sequence of its
distinct transaction hashes. A `get_transactions` reply returns any
transactions, at most as many as were requested, with `missed_tx` empty:
the node is the input, and nothing in the code compares the reply with the
request before the zip. Extra transactions at the end would be cut off by
the zip, so replies longer than the request add no behaviour. Every
`expect`/`assert` on the node's data (hex, deserialization, serialization
round-trips, proof verification, `get_outs`) is a nondeterministic panic;
the hash comparison of each zipped pair is kept exactly.

## Runs

| run | cfg | expect | what it shows |
|-----|-----|--------|---------------|
| proposer_coverage | MCProposerRounds.cfg | pass | Once a height has been retried for as many rounds as the schedule has slots, every validator of the schedule has proposed at it. |
| proposer_retry_slot | MCProposerRounds_retry.cfg | violation | spec.md §8 and the code comment say the first retries (rounds 1 and 2) do not reuse round 0's slot when the schedule is long enough. `(block + round + len/2) % len` gives round 1 round 0's slot for length 2 and round 2 its slot for lengths 3 and 4. |
| signature_isolation | MCSignatureScheme.cfg | pass | The setup has two tributaries and a key in both, plus a Byzantine key. No replayed or forged signature verifies, and no nonce is reused, so no key leaks. |
| aggregate_truncation | MCSignatureScheme_aggregate.cfg | violation | `verify_aggregate` uses `zip`, so a short or empty aggregate verifies for any list of signers. |
| block_pipeline | MCTributaryNetwork.cfg | pass | The setup has a Byzantine proposer and voter, a missing provided transaction, and invalid and malformed blocks. No honest adapter panics on an invalid decided block, and every `add_block` loop ends with the decided block in the ledger. `TributaryNetwork` also implements `BlockCommit` under the mapping above, fairness included (`ImplementsBlockCommit`). |
| malformed_header | MCTributaryNetwork_blockid.cfg | violation | A malformed header proposed by a Byzantine validator panics honest validators in `TendermintBlock::id`. |
| scan_reference | MCScan.cfg | pass | For every bounded transaction, `scan` returns exactly the owned, verified, non-zero outputs of the reference definition, each once and in output order (repeated keys, undecompressible keys, missing ecdh entries, forged commitments and zero amounts included). |
| batch_test | MCBatchTest.cfg | pass | No assertion of the test fails (preprocess senders, reattempt ids, share sets, the batch) and the test always reaches its end, whatever participants the random reduction drops and whatever the initial reattempt count, over two batches; whenever a batch is published, every link is empty (`LinksDrainedBetweenBatches`), so no message of batch 0 reaches batch 1. |
| reserialize_pool | MCReserializeChain.cfg | pass | For `async_parallelism` 0, 1 and 2, at most `async_parallelism` check tasks run at once, and `main` always ends once the node's height stops growing (the model bounds it by `MaxHeight`, so the poll loop's own termination is assumed). |
| reserialize_exit | MCReserializeChain_exit.cfg | violation | `main` returns without awaiting its remaining handles, so the last blocks are not all checked. |
| checkblock_truncation | MCCheckBlock_truncation.cfg | violation | `check_block` prints that all of the block's transactions were checked, but a reply that omits the trailing requested transactions (empty `missed_tx`) shortens the `zip`, and those transactions are never checked. |

### Bounds and why they are enough

**ProposerRounds.** The schedules have lengths 1 to 5:
- `<<v1>>`, `<<v1,v2>>`, `<<v1,v2,v3>>`;
- a schedule with a repeated validator, `<<v1,v2,v1,v3>>`;
- `<<v1,v2,v3,v1,v2>>`.

Blocks go up to 6 and rounds up to 6. Rounds ≥ len and every residue of
`block` mod len occur for every length up to 5.

**SignatureScheme.** Two tributaries (the smallest number that can show a
replay), with:
- a key `k1` in both;
- a key `k2` in one only;
- one Byzantine key;
- three messages and one adversary nonce.

**TributaryNetwork.**
- The validators are 4 with weight 1, one of them Byzantine (f = 1, the
  smallest BFT setting), so the quorum is 3.
- At height 3 the schedule gives rounds 0 and 2 to the Byzantine v4,
  round 1 to v3 and round 3 to v1, so Byzantine proposals, honest ones and
  an honest proposal after a Byzantine retry all happen.
- `MaxRound` = 3 (18,576 states, about 20 s).
- Every kind of block appears once.
- The initial `provided` sets cover every subset, so some honest validator
  may lack `t1` when `bA` is decided.

The `todo!()` at the end of `add_block` and in `broadcast` are listed as
hazards in `PROJECT.json`; the model stops an adapter there (`todo_commit`,
`todo_broadcast`). `ImplementsBlockCommit` and `AddBlockCompletes` show that
the panic in `add_block` comes only after the ledger holds the decided block.
The panic in `broadcast` happens on every call, so no property is stated for
it. The abstract engine decides as if votes were delivered, so that
`add_block` can still be reached.

**Scan.** Two decompressible transaction keys and one that does not
decompress, up to 2 outputs and 2 additional keys, amounts {0, 1}. That
covers a key repeated among the additional keys, a key of the wrong
derivation, a missing ecdh entry after a present one, and a zero amount.

**BatchTest.** 5 coordinators with threshold 3, so the reduction drops two
and the reattempt goes to unselected coordinators too. Two batches, the
test's own count, so state carried from one batch to the next is checked. The initial
reattempt count ranges over 0..3, all values of the code's `% 4`, so the
wrap-around of the id is reached.

**ReserializeChain.** Parallelism is 0, 1 or 2 and heights go up to 5 from block 1.
This is enough for the vector to fill, for the drain loop to meet finished
and running handles in both orders, and for several polls to happen.

**CheckBlock.** Three transaction hashes, blocks of up to 3 transactions,
and a chunk size of 2 for the code's 100, so a block spans two
`get_transactions` calls and a short reply can come from either.

### Fairness

**TributaryNetwork.** It has weak fairness on `AddBlockAttempt`, `Wake` and
`Provide`:
- The sleep always ends.
- A provided transaction is eventually delivered by the tributary. Without
  that delivery `add_block` waits forever, and the code has no bound.
  `AddBlockCompletes` therefore checks that the retry re-adds the same
  block and ends with it in the ledger. It does not check the unbounded
  wait, which spec.md calls a deliberate trade-off.

Engine steps have no fairness. Only the adapter's own loop is checked for
progress.

**BatchTest.** Weak fairness on the test's steps, on each processor's
answer and scan and on the reduction. The test is one sequential task, processors
answer every message and scan every published batch, and the reduction's fairness stands for the random
draw eventually picking a present participant. So `TestCompletes` assumes
the reduction loop ends (it does with probability 1); it checks that no
receive waits forever. `CHECK_DEADLOCK FALSE`: the
test really ends (`done` or a failed assertion); hangs are caught by
`TestCompletes`.

**BlockCommit.** Weak fairness on a committing adapter finishing; it is
implied by `TributaryNetwork`'s fairness, which `block_pipeline` checks.

**ReserializeChain.** It has weak fairness on `main`'s steps and on each task:
- Tokio runs a spawned task to completion.
- `main` is a single task that is never starved.

### Stuttering terminal steps

`Done`, `Stopped`, `Ended` and `Scan`'s `Returned` are stuttering steps. They mark the end of the
explored behaviour (a bound reached, or the process gone), so deadlock
checking stays on everywhere else.

## Not modelled, and why

**From tendermint.rs:**
- `Network::slash` only logs.
- The getters (`signer`, `signature_scheme`, `weights`) return handles.
- `Signer`'s zeroisation of its key has no observable state.
- The `Validators` constructor is not in the repository. The model takes
  `total_weight` as the sum of the weights.

**reserialize_chain.rs:** `check_block`'s RPC calls and the serialization
round-trip are I/O plus a byte-level check: in `ReserializeChain` they are
an outcome, and `CheckBlock` models one call's control flow with the byte
and curve checks as panic outcomes.

**scan.rs:** The curve arithmetic, `Commitment::calculate` and the byte
decoding of the extra field are abstracted (see Abstractions).

**batch.rs:** The docker and network setup, key generation and the wallet
are left out. So are the asserts on the batch's network, block hash and
instructions: they compare data only the processors produce, and the model
carries no block or instruction data. The processors are inferred from the
test's expectations (see Abstractions).

**Engine signatures and commits.** Composing `SignatureScheme` with the
engine's commit check (votes aggregated and checked by `verify_aggregate`)
would model how the engine (not in `src/`, and not described in spec.md)
uses the aggregate. It is left out; `aggregate_truncation` shows the
adapter-side flaw on its own.

**in_instructions.rs:** The file has four functions:
- `latest_block_for_network` and `last_batch_for_network` are single
  storage reads;
- `batch_events` is one event query filtered to `Batch` events;
- `execute_batch` wraps a `SignedBatch` in an unsigned call.

None of them has state, a loop or a caller in `src/`. A model would have
no behaviour for TLC to explore, so this file is not modelled.

**reserialize_chain.rs, node height:** `Poll` lets the node's height only
grow. A reorg that lowers the height makes `main` set `height` lower. All
blocks below `block_i` have already been spawned, so nothing is skipped.
An unboundedly oscillating height would be a node fault, not a behaviour
of the tool.

## Where to go next

The `todo!()` in `add_block` and `broadcast` limit the adapter to one
height. If the code fills them in, extend `TributaryNetwork` to several
heights and route votes through `broadcast`.

A refinement of `CheckBlock` to an ok/failed task outcome, the abstraction
`ReserializeChain` uses, was tried and left out. Each of check_block's steps
may panic, so weak fairness always ends the task by a panic. Its liveness
half would therefore hold whatever the loops do, and its safety half only
restates that `done` and `panicked` are final.
