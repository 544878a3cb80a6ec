--------------------------- MODULE MCProposerRounds ---------------------------
(* Schedules of one to five slots over three validators, including a      *)
(* weighted one in which v1 holds two slots.                              *)
EXTENDS ProposerRounds

CONSTANTS v1, v2, v3

MCRobins ==
  { <<v1>>, <<v1, v2>>, <<v1, v2, v3>>, <<v1, v2, v1, v3>>, <<v1, v2, v3, v1, v2>> }

=============================================================================
