----------------------------- MODULE MCAddresses -----------------------------
(* Instances of Addresses for TLC. *)
EXTENDS Addresses, TLC

Symmetry == Permutations(Addresses) \cup Permutations(Workers)
=============================================================================
