--------------------------- MODULE MCClientSession ---------------------------
(* Instances of ClientSession for TLC. *)
EXTENDS ClientSession, TLC

Symmetry == Permutations(Companies) \cup Permutations(Requests)
=============================================================================
