---------------------------- MODULE SignatureScheme ----------------------------
(***************************************************************************)
(* The signing identity and the signature scheme of a tributary           *)
(* (coordinator/tributary/src/tendermint.rs): `challenge`, `Signer`       *)
(* (validator_id, sign) and `impl SignatureScheme for Validators`         *)
(* (verify, aggregate, verify_aggregate).                                 *)
(*                                                                         *)
(* The Ristretto group and the transcript hash are modelled symbolically: *)
(*  - x*G is the record [g |-> x], so two points are equal iff their      *)
(*    discrete logs are;                                                  *)
(*  - a transcript challenge is the tuple of its domain label and of what *)
(*    was appended, in order: the hash is taken to be injective;          *)
(*  - a Schnorr response s = k + c*x is the record of (k, c, x); the      *)
(*    verification equation s*G = R + c*A holds iff R = k*G, A = x*G and *)
(*    the challenge matches.                                              *)
(* What the model checks is therefore what the code puts into the         *)
(* transcripts and which checks `verify` makes, not the curve arithmetic. *)
(*                                                                         *)
(* The adversary knows the Byzantine keys and any key it can extract:     *)
(* two signatures with one nonce and key but different challenges give    *)
(* x = (s1 - s2) / (c1 - c2).  It can sign anything with a key it knows,  *)
(* with any nonce of its own, and replay any signature it has seen.       *)
(***************************************************************************)
EXTENDS Naturals, Sequences, SequencesExt, FiniteSets

CONSTANTS
  Chains,       \* genesis values, one per tributary
  Keys,         \* secret scalars of validators
  Byzantine,    \* keys held by the adversary from the start
  Members,      \* Members[g]: keys of the validator set of tributary g
  Msgs,         \* consensus messages to sign
  AdvNonces,    \* nonces the adversary may choose for its own signatures
  Unparseable   \* 64 bytes that SchnorrSignature::read rejects

ASSUME Byzantine \subseteq Keys
ASSUME Members \in [Chains -> SUBSET Keys]

Honest == Keys \ Byzantine

VARIABLES
  signed   \* <<genesis, key, msg>> for every Signer::sign an honest signer ran

vars == <<signed>>

-----------------------------------------------------------------------------
(* Symbolic group and transcripts *)

(* Ristretto::generator() * x, encoded with to_bytes().                   *)
ScalarMulG(x) == [g |-> x]

(* `challenge`: transcript labelled "Tributary Chain Tendermint Message"   *)
(* absorbing genesis, key, nonce commitment and message.                  *)
ChallengeNoGenesis(genesis, key, nonce, msg) ==
  <<"Tributary Chain Tendermint Message", key, nonce, msg>>

Challenge(genesis, key, nonce, msg) ==
  <<"Tributary Chain Tendermint Message", genesis, key, nonce, msg>>

(* The deterministic nonce of `sign`: transcript labelled "Tributary       *)
(* Chain Tendermint Nonce" absorbing genesis, the key's canonical         *)
(* encoding and the message, reduced mod the group order.  The hash is    *)
(* injective in this model, so the zero-nonce assertion never fires.      *)
SignNonceNoGenesis(genesis, key, msg) ==
  <<"Tributary Chain Tendermint Nonce", key, msg>>

SignNonce(genesis, key, msg) ==
  <<"Tributary Chain Tendermint Nonce", genesis, key, msg>>

(* SchnorrSignature::sign(key, nonce, challenge): R = nonce*G, s.          *)
SchnorrSign(key, nonce, c) == [R |-> ScalarMulG(nonce), s |-> [k |-> nonce, c |-> c, x |-> key]]

(* SchnorrSignature::verify(A, c): s*G == R + c*A.                          *)
SchnorrVerify(A, sig, c) ==
  /\ ScalarMulG(sig.s.k) = sig.R
  /\ sig.s.c = c
  /\ ScalarMulG(sig.s.x) = A

-----------------------------------------------------------------------------
(* Signer *)

(* Signer::validator_id: Some(G * key).                                    *)
ValidatorId(key) == ScalarMulG(key)

(* Signer::sign(msg) for the signer of tributary `genesis`.                *)
Sign(genesis, key, msg) ==
  LET nonce == SignNonce(genesis, key, msg)
  IN  SchnorrSign(key, nonce,
                  Challenge(genesis, ValidatorId(key), ScalarMulG(nonce), msg))

(* A signature made by the adversary with a key it knows, its own nonce.   *)
AdvSign(genesis, key, nonce, msg) ==
  SchnorrSign(key, nonce, Challenge(genesis, ValidatorId(key), ScalarMulG(nonce), msg))

-----------------------------------------------------------------------------
(* Validators as SignatureScheme for tributary `genesis` *)

(* `verify`: false for a non-member, false if the signature does not      *)
(* parse, else the Schnorr equation under challenge(genesis, validator,   *)
(* sig[..32], msg).                                                       *)
Verify(genesis, validator, msg, sig) ==
  /\ validator \in {ValidatorId(k) : k \in Members[genesis]}
  /\ sig # Unparseable
  /\ SchnorrVerify(validator, sig, Challenge(genesis, validator, sig.R, msg))

(* `aggregate`: the signatures, concatenated.                              *)
Aggregate(sigs) == sigs

(* `verify_aggregate`: every pair of signers.iter().zip(sig.iter())        *)
(* verifies; zip stops at the shorter of the two sequences.               *)
VerifyAggregate(genesis, signers, msg, agg) ==
  \A i \in 1..Len(Zip(signers, agg)) :
    Verify(genesis, Zip(signers, agg)[i][1], msg, Zip(signers, agg)[i][2])

-----------------------------------------------------------------------------
(* What the adversary has *)

HonestSigs == {Sign(e[1], e[2], e[3]) : e \in signed}

(* Keys recoverable from two signatures sharing nonce and key.             *)
Extracted ==
  {x \in Keys : \E s1, s2 \in HonestSigs :
                  s1.s.x = x /\ s2.s.x = x /\ s1.s.k = s2.s.k /\ s1.s.c # s2.s.c}

Known == Byzantine \cup Extracted

Forgeable ==
  {AdvSign(g, k, n, m) : g \in Chains, k \in Known, n \in AdvNonces, m \in Msgs}

(* Every signature the adversary can present to `verify`.                  *)
Presentable == HonestSigs \cup Forgeable \cup {Unparseable}

-----------------------------------------------------------------------------
Init == signed = {}

(* An honest validator of tributary g signs m (the engine's Signer::sign). *)
(* Signing a message again is allowed and yields the same signature.      *)
HonestSign(g, k, m) ==
  /\ k \in Members[g] \cap Honest
  /\ signed' = signed \cup {<<g, k, m>>}

Next == \E g \in Chains, k \in Keys, m \in Msgs : HonestSign(g, k, m)

Spec == Init /\ [][Next]_vars

(* Replay isolation and unforgeability: `verify` on tributary g accepts a  *)
(* signature under an honest member's id for m only if that validator's   *)
(* signer of tributary g signed m, whatever the adversary replays from    *)
(* other tributaries, other messages, or builds with the keys it knows.   *)
Unforgeable ==
  \A g \in Chains, k \in Honest, m \in Msgs, sig \in Presentable :
    Verify(g, ValidatorId(k), m, sig) => <<g, k, m>> \in signed

(* The deterministic nonce never repeats for two different challenges of  *)
(* one key, so no honest key becomes known to the adversary, even when    *)
(* the key sits in several tributaries and signs the same message there.  *)
NoKeyExtraction == Extracted = {}

(* spec.md 4.3: verify_aggregate is true iff every (id, signature) pair    *)
(* verifies, and a length mismatch yields false; so an aggregate that     *)
(* verifies carries a valid signature of every listed signer.             *)
AggregateCoversSigners ==
  \A g \in Chains, m \in Msgs :
    \A signers \in BoundedSeq({ValidatorId(k) : k \in Members[g]}, 2),
       agg \in BoundedSeq(HonestSigs, 1) :
      VerifyAggregate(g, signers, m, agg) =>
        \A i \in 1..Len(signers) : \E j \in 1..Len(agg) : Verify(g, signers[i], m, agg[j])

=============================================================================
