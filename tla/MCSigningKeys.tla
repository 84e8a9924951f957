---------------------------- MODULE MCSigningKeys ----------------------------
(* Instances of SigningKeys for TLC. *)
EXTENDS SigningKeys, TLC

(* Instances are alike until they act; only the runs of safety use it. *)
Symmetry == Permutations(Instances)
=============================================================================
