----------------------------- MODULE MCBatchTest -----------------------------
(* Five coordinator/processor stacks with threshold 3 (MCBatchTest.cfg):   *)
(* two processors are left out of signing, and re-attempts go to all five. *)
EXTENDS BatchTest

CONSTANTS none

=============================================================================
