------------------------- MODULE MCTributaryNetwork -------------------------
(* Four validators of weight 1, v4 Byzantine (quorum: 3).  At height 3 the *)
(* schedule gives rounds 0 and 2 to v4, round 1 to v3, round 3 to v1.     *)
(* Blocks:                                                                 *)
(* bA references the provided transaction t1, bB none; bBad is rejected  *)
(* by the ledger; bHdr and bBody do not deserialize.                      *)
EXTENDS TributaryNetwork

CONSTANTS v1, v2, v3, v4, bA, bB, bBad, bHdr, bBody, t1

MCWeight == [v \in {v1, v2, v3, v4} |-> 1]
MCRobin == <<v1, v2, v3, v4>>
MCNeeds == [b \in {bA, bB, bBad, bHdr, bBody} |-> IF b = bA THEN {t1} ELSE {}]

=============================================================================
