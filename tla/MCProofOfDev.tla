--------------------------- MODULE MCProofOfDev ---------------------------
(* Model-checking instances of ProofOfDev: MCTokens.cfg has two accounts   *)
(* and several mint/burn generations, MCAttestations.cfg one account and   *)
(* every dimension of an attestation (key, chain, kind, nonce, deadline).  *)
EXTENDS ProofOfDev

CONSTANTS a1, a2, d1, d2, zero
=============================================================================
