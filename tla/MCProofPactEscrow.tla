------------------------- MODULE MCProofPactEscrow --------------------------
(* Instances of ProofPactEscrow for TLC. *)
EXTENDS ProofPactEscrow
=============================================================================
