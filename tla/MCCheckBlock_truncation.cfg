\* check_block for blocks of up to three transactions, requested in chunks
\* of two so that a block spans two get_transactions calls.
CONSTANTS
  TxHashes = {t1, t2, t3}
  MaxTxs = 3
  ChunkSize = 2
SPECIFICATION Spec
INVARIANT AllTxsChecked
