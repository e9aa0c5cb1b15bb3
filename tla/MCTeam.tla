------------------------------- MODULE MCTeam -------------------------------
(* Instances of Team for TLC. *)
EXTENDS Team, TLC

Symmetry == Permutations(People \ {Founder}) \cup Permutations(Invitations)
              \cup Permutations(Workers)
=============================================================================
