------------------------------ MODULE MCTenancy ------------------------------
(* An instance of Tenancy for TLC. *)
EXTENDS Tenancy, TLC

Symmetry == Permutations(People) \cup Permutations(Tenants)
            \cup Permutations(Slugs) \cup Permutations(Connections)
=============================================================================
