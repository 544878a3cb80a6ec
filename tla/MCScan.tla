-------------------------------- MODULE MCScan --------------------------------
(* Two transaction keys p1 and p2, one key that does not decompress, up to *)
(* two outputs and two additional keys: enough for a key repeated in the  *)
(* extra field, a matching key after a non-matching one, and an ecdh or   *)
(* commitment list shorter than the outputs.                              *)
EXTENDS Scan

CONSTANTS p1, p2, b0, f0, none

=============================================================================
