------------------------------ MODULE CheckBlock ------------------------------
(***************************************************************************)
(* `check_block(rpc, block_i)` of coins/monero/src/bin/reserialize_chain.rs *)
(* for one block: fetch the block, check its hash and its serialization,  *)
(* fetch its transactions with get_transactions in chunks of at most 100  *)
(* hashes, then walk `block.txs.zip(all_txs)` checking each transaction. *)
(*                                                                         *)
(* The node's answers are inputs: a transaction is its hash, a block is  *)
(* the sequence of its (distinct) transaction hashes, and a reply to a   *)
(* get_transactions request carries the hashes of the transactions it    *)
(* returns.  The node may return other transactions than those requested,*)
(* or leave some out without listing them in `missed_tx`.  Every         *)
(* `expect`, `assert` and `unwrap` on the node's data (RPC errors, hex,  *)
(* deserialization, the serialization round-trips, the proofs) is one    *)
(* outcome: the task panics.  check_block shares no state with main or  *)
(* the other tasks, so one call is modelled on its own.                  *)
(***************************************************************************)
EXTENDS Naturals, Sequences, SequencesExt, FiniteSets, Functions

CONSTANTS
  TxHashes,   \* transaction hashes
  MaxTxs,     \* most transactions of a block in the explored runs
  ChunkSize   \* the 100 of `hashes_hex.len().min(100)`

ASSUME ChunkSize \in Nat \ {0}

(* block.txs: the hashes of a block's non-miner transactions.              *)
BlockTxs == {s \in BoundedSeq(TxHashes, MaxTxs) : IsInjective(s)}

(* What a get_transactions reply may return for a request: any            *)
(* transactions, no more than were requested.  Nothing checks the reply   *)
(* against the request before the zip; a reply with extra transactions    *)
(* behaves, for the zip, like one with the extras at the end cut off.     *)
Replies(request) == BoundedSeq(TxHashes, Len(request))

VARIABLES
  pc,         \* "fetch_block", "fetch_txs", "check_txs", "done" or "panicked"
  txs,        \* block.txs
  hashesHex,  \* hashes_hex: the hashes not yet requested
  allTxs,     \* all_txs, as the tx_hash of each response
  k,          \* position of the zip loop
  checked     \* the block's transactions whose checks passed

vars == <<pc, txs, hashesHex, allTxs, k, checked>>

-----------------------------------------------------------------------------
(* `hashes_hex.drain(.. hashes_hex.len().min(100))`: the next request.     *)
Chunk(s) == SubSeq(s, 1, IF Len(s) < ChunkSize THEN Len(s) ELSE ChunkSize)

(* The number of pairs `block.txs.into_iter().zip(all_txs)` yields.        *)
ZipLen(s, t) == IF Len(s) < Len(t) THEN Len(s) ELSE Len(t)

Init ==
  /\ pc = "fetch_block"
  /\ txs = <<>>
  /\ hashesHex = <<>>
  /\ allTxs = <<>>
  /\ k = 1
  /\ checked = {}

(* get_block_hash, get_block, hex::decode, Block::read and the hash and    *)
(* serialization asserts: the task panics, or it has the block, whose     *)
(* transaction hashes are queued when there are any.                      *)
FetchBlock ==
  /\ pc = "fetch_block"
  /\ \/ /\ pc' = "panicked"
        /\ UNCHANGED <<txs, hashesHex>>
     \/ \E b \in BlockTxs :
          /\ txs' = b
          /\ hashesHex' = b
          /\ pc' = IF b = <<>> THEN "done" ELSE "fetch_txs"
  /\ UNCHANGED <<allTxs, k, checked>>

(* One iteration of `while !hashes_hex.is_empty()`: the next chunk is      *)
(* drained and requested; an RPC error or a non-empty missed_tx panics,    *)
(* else the returned transactions are appended to all_txs.               *)
FetchTxs ==
  /\ pc = "fetch_txs"
  /\ hashesHex # <<>>
  /\ LET request == Chunk(hashesHex)
         rest    == SubSeq(hashesHex, Len(request) + 1, Len(hashesHex))
     IN  /\ hashesHex' = rest
         /\ \/ /\ pc' = "panicked"
               /\ UNCHANGED allTxs
            \/ \E reply \in Replies(request) :
                 /\ allTxs' = allTxs \o reply
                 /\ pc' = IF rest = <<>> THEN "check_txs" ELSE "fetch_txs"
  /\ UNCHANGED <<txs, k, checked>>

(* The k-th pair of the zip: the returned hash must equal the block's;    *)
(* then Transaction::read, the serialization and hash asserts and the     *)
(* proof verifications either pass or panic.                              *)
CheckTx ==
  /\ pc = "check_txs"
  /\ k <= ZipLen(txs, allTxs)
  /\ IF allTxs[k] # txs[k]
     THEN pc' = "panicked" /\ UNCHANGED <<k, checked>>
     ELSE \/ pc' = "panicked" /\ UNCHANGED <<k, checked>>
          \/ /\ checked' = checked \cup {txs[k]}
             /\ k' = k + 1
             /\ UNCHANGED pc
  /\ UNCHANGED <<txs, hashesHex, allTxs>>

(* The zip is exhausted: "Deserialized, hashed, and reserialized {block_i} *)
(* with {1 + block.txs.len()} TXs" is printed and the task returns.        *)
ZipDone ==
  /\ pc = "check_txs"
  /\ k > ZipLen(txs, allTxs)
  /\ pc' = "done"
  /\ UNCHANGED <<txs, hashesHex, allTxs, k, checked>>

(* The task has returned or panicked.                                      *)
Ended ==
  /\ pc \in {"done", "panicked"}
  /\ UNCHANGED vars

Next == FetchBlock \/ FetchTxs \/ CheckTx \/ ZipDone \/ Ended

Spec == Init /\ [][Next]_vars

-----------------------------------------------------------------------------
TypeOK ==
  /\ pc \in {"fetch_block", "fetch_txs", "check_txs", "done", "panicked"}
  /\ txs \in BlockTxs
  /\ hashesHex \in BoundedSeq(TxHashes, MaxTxs)
  /\ allTxs \in BoundedSeq(TxHashes, MaxTxs)
  /\ k \in 1..(MaxTxs + 1)
  /\ checked \subseteq ToSet(txs)

(* The line check_block prints on return claims every transaction of the *)
(* block was deserialized, hashed and reserialized: a task that returns   *)
(* has checked all of block.txs, whatever the node answered.              *)
AllTxsChecked ==
  pc = "done" => ToSet(txs) \subseteq checked

=============================================================================
