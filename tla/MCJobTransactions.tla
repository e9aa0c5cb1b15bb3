------------------------- MODULE MCJobTransactions -------------------------
(* Instances of JobTransactions for TLC. *)
EXTENDS JobTransactions, TLC

MCZones   == {"eastern", "central"}
MCBehind  == [eastern |-> 5, central |-> 6]

Symmetry == Permutations(Workers) \cup Permutations(Members)
=============================================================================
