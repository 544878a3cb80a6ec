-------------------------- MODULE MCSignatureScheme --------------------------
(* Two tributaries; honest k1 sits in both, honest k2 only in g1, the      *)
(* Byzantine kb in both; three messages; one adversary nonce.             *)
EXTENDS SignatureScheme

CONSTANTS g1, g2, k1, k2, kb, m1, m2, m3, n1

MCMembers == [g \in {g1, g2} |-> IF g = g1 THEN {k1, k2, kb} ELSE {k1, kb}]

=============================================================================
