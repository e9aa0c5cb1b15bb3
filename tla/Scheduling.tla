----------------------------- MODULE Scheduling -----------------------------
(***************************************************************************)
(* services/scheduling.py with clocks that change: a window is a promise   *)
(* in local time, the instants stored with it are derived, and clashes are *)
(* looked for among the instants.  No storage here: module Bookings has it.*)
(*                                                                         *)
(* Instants and clock times are numbers of the same unit.  Each zone has   *)
(* one changeover in the time that is looked at: at the instant Change[z]  *)
(* its clock jumps by Jump[z], forward in spring (a time is skipped), back *)
(* in autumn (a time is shown twice), or not at all.                       *)
(***************************************************************************)
EXTENDS Integers

CONSTANTS
  Zones,       \* the timezones an address may be in
  Behind,      \* Behind[z]: how far z is behind UTC before the changeover
  Change,      \* Change[z]: the instant of the changeover
  Jump,        \* Jump[z]: by how much the clock jumps
  DayLength,
  None

ASSUME ClocksAssumption ==
  /\ \A z \in Zones : Behind[z] \in Int /\ Change[z] \in Int /\ Jump[z] \in Int
  /\ DayLength \in Nat \ {0}
ASSUME NoneIsNoTime == None \notin Int /\ None \notin Int \X Int

Windows == {w \in Int \X Int : w[1] < w[2]}

(* window_start_utc and window_end_utc: two columns, either may be NULL. *)
Instants   == (Int \cup {None}) \X (Int \cup {None})
NoInstants == <<None, None>>

Whole(instants) == instants[1] # None /\ instants[2] # None

-----------------------------------------------------------------------------
(* The timezone database: what a clock in z shows at instant i. *)
Reads(z, i) == i - Behind[z] + (IF i < Change[z] THEN 0 ELSE Jump[z])

(* No clock in z ever shows t. *)
Skipped(z, t) == LET change == Change[z] - Behind[z]
                 IN  change <= t /\ t < change + Jump[z]

(* Definitions called ...Wrong are bugs that a property excludes; no         *)
(* specification uses them.                                                 *)

(* The second reading of a repeated hour, and a skipped one mapped back. *)
TurnWrong(z) == Change[z] - Behind[z] + (IF Jump[z] < 0 THEN Jump[z] ELSE 0)

(* ZoneInfo, fold=0: from which clock time on it uses the new distance. *)
Turn(z) == Change[z] - Behind[z] + (IF Jump[z] > 0 THEN Jump[z] ELSE 0)

(* to_utc *)
ToUtc(z, t) == t + Behind[z] - (IF t < Turn(z) THEN 0 ELSE Jump[z])

(* window_to_utc; a half window counts as none. *)
WindowToUtc(z, date, window) ==
  IF date = None \/ window = None THEN NoInstants
  ELSE <<ToUtc(z, DayLength * date + window[1]),
         ToUtc(z, DayLength * date + window[2])>>

(* Touching ends overlap. *)
OverlapWrong(a, b) == a[1] <= b[2] /\ b[1] <= a[2]

(* overlaps, and the comparison of find_conflicts *)
Overlap(a, b) == a[1] < b[2] /\ b[1] < a[2]

(* An interval of no length is let in. *)
InOrderWrong(instants) == Whole(instants) => instants[1] <= instants[2]

(* The CHECK of migration 0002 on the pair that is stored: half a pair      *)
(* passes it.                                                               *)
InOrder(instants) == Whole(instants) => instants[1] < instants[2]

-----------------------------------------------------------------------------
(* What these are to mean. *)

(* Instant i is what "at t" promises in z: the first at which the clock      *)
(* shows t, or, if it never does, the one at which it would have.           *)
Promised(z, t, i) ==
  IF Skipped(z, t) THEN Reads(z, i) = t + Jump[z]
  ELSE /\ Reads(z, i) = t
       /\ \A k \in {t + Behind[z], t + Behind[z] - Jump[z]} :
            Reads(z, k) = t => i <= k

(* Somebody who is bound in both intervals is needed twice at some moment. *)
Share(a, b) == \E m \in a[1] .. a[2] - 1 : m \in b[1] .. b[2] - 1
=============================================================================
