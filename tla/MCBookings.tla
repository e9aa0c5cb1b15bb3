----------------------------- MODULE MCBookings -----------------------------
(* Instances of Bookings for TLC. *)
EXTENDS Bookings, TLC

(* The night the clocks go forward in Denver, and not in Phoenix. *)
MCZones  == {"denver", "phoenix"}
MCBehind == [denver |-> 7, phoenix |-> 7]
MCChange == [denver |-> 9, phoenix |-> 9]
MCJump   == [denver |-> 1, phoenix |-> 0]

CONSTANTS night, early, dawn, home, cabin
MCAt     == night :> home @@ early :> home @@ dawn :> cabin
MCTyped   == home :> "denver" @@ cabin :> "phoenix"
MCCorrect == home :> "phoenix" @@ cabin :> None
MCWindow == night :> <<2, 4>> @@ early :> <<2, 3>> @@ dawn :> <<3, 5>>

Symmetry == Permutations(Workers) \cup Permutations(Crew)
=============================================================================
