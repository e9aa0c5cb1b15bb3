-------------------------- MODULE SchedulingProofs --------------------------
(***************************************************************************)
(* What module Scheduling computes is what it is to mean, for every zone,  *)
(* changeover and window.                                                  *)
(***************************************************************************)
EXTENDS Scheduling, TLAPS

(* Only two instants can show a clock time, which is why Promised looks at  *)
(* no others.                                                               *)
LEMMA Readers ==
  ASSUME NEW z \in Zones, NEW t \in Int, NEW i \in Int, Reads(z, i) = t
  PROVE  i \in {t + Behind[z], t + Behind[z] - Jump[z]}
BY ClocksAssumption DEF Reads

(* `to_utc` keeps the promise: the first of the two instants when an hour    *)
(* is shown twice, and one jump later when it is not shown at all           *)
(* (services/scheduling.py, the docstring of to_utc).                       *)
THEOREM PromisesAreKept ==
  ASSUME NEW z \in Zones, NEW t \in Int
  PROVE  Promised(z, t, ToUtc(z, t))
<1> DEFINE i == ToUtc(z, t)
<1>1. /\ Behind[z] \in Int /\ Change[z] \in Int /\ Jump[z] \in Int
      /\ i \in Int
  BY ClocksAssumption DEF ToUtc, Turn
<1>2. CASE Skipped(z, t)
  <2>1. Reads(z, i) = t + Jump[z]
    BY <1>1, <1>2 DEF Skipped, Reads, ToUtc, Turn
  <2> QED BY <1>2, <2>1 DEF Promised
<1>3. CASE ~Skipped(z, t)
  <2>1. ~(Change[z] - Behind[z] <= t /\ t < Change[z] - Behind[z] + Jump[z])
    BY <1>3 DEF Skipped
  <2>2. Reads(z, i) = t
    BY <1>1, <2>1 DEF Reads, ToUtc, Turn
  <2>3. ASSUME NEW k \in {t + Behind[z], t + Behind[z] - Jump[z]}, Reads(z, k) = t
        PROVE  i <= k
    BY <1>1, <2>1, <2>3 DEF Reads, ToUtc, Turn
  <2> QED BY <1>3, <2>2, <2>3 DEF Promised
<1> QED BY <1>2, <1>3

(* No clock time is promised at two instants. *)
LEMMA PromisesAreUnique ==
  ASSUME NEW z \in Zones, NEW t \in Int, NEW i \in Int, NEW k \in Int,
         Promised(z, t, i), Promised(z, t, k)
  PROVE  i = k
<1>1. Behind[z] \in Int /\ Change[z] \in Int /\ Jump[z] \in Int
  BY ClocksAssumption
<1>2. CASE Skipped(z, t)
  BY <1>1, <1>2 DEF Promised, Skipped, Reads
<1>3. CASE ~Skipped(z, t)
  <2>1. i \in {t + Behind[z], t + Behind[z] - Jump[z]}
        /\ k \in {t + Behind[z], t + Behind[z] - Jump[z]}
    BY <1>3, Readers DEF Promised
  <2>2. Reads(z, i) = t /\ Reads(z, k) = t /\ i <= k /\ k <= i
    BY <1>3, <2>1 DEF Promised
  <2> QED BY <2>2
<1> QED BY <1>2, <1>3

(* As long as no clock skips a whole day, a clock time of another day is at *)
(* another instant.                                                         *)
LEMMA DaysAreApart ==
  ASSUME NEW z \in Zones, NEW t \in Int, NEW u \in Int, Jump[z] < DayLength,
         t + DayLength <= u
  PROVE  ToUtc(z, t) # ToUtc(z, u)
BY ClocksAssumption DEF ToUtc, Turn

(* The CHECK on stored instants refuses a valid window only if it begins in *)
(* an hour that is skipped and is no longer than the jump: any other keeps  *)
(* its order.                                                               *)
THEOREM OrderIsKept ==
  ASSUME NEW z \in Zones, NEW date \in Int, NEW window \in Windows
  PROVE  LET begin == DayLength * date + window[1] IN
         InOrder(WindowToUtc(z, date, window))
           <=> ~(/\ Skipped(z, begin)
                 /\ DayLength * date + window[2] >= Turn(z)
                 /\ window[2] - window[1] <= Jump[z])
<1> DEFINE begin == DayLength * date + window[1]
           end == DayLength * date + window[2]
<1>1. /\ Behind[z] \in Int /\ Change[z] \in Int /\ Jump[z] \in Int
      /\ window[1] \in Int /\ window[2] \in Int /\ window[1] < window[2]
      /\ DayLength * date \in Int
  BY ClocksAssumption DEF Windows
<1> HIDE DEF begin, end
<1>2. begin \in Int /\ end \in Int /\ begin < end
      /\ end - begin = window[2] - window[1]
  BY <1>1 DEF begin, end
<1>3. InOrder(WindowToUtc(z, date, window)) <=> ToUtc(z, begin) < ToUtc(z, end)
  <2>1. date # None /\ window # None
    BY NoneIsNoTime DEF Windows
  <2>2. WindowToUtc(z, date, window) = <<ToUtc(z, begin), ToUtc(z, end)>>
    BY <2>1 DEF WindowToUtc, begin, end
  <2>3. ToUtc(z, begin) # None /\ ToUtc(z, end) # None
    BY <1>1, <1>2, NoneIsNoTime DEF ToUtc, Turn
  <2> QED BY <2>2, <2>3 DEF InOrder, Whole
<1>4. ToUtc(z, begin) < ToUtc(z, end)
        <=> ~(begin < Turn(z) /\ Turn(z) <= end /\ end - begin <= Jump[z])
  BY <1>1, <1>2 DEF ToUtc, Turn
<1>5. ASSUME begin < Turn(z), Turn(z) <= end, end - begin <= Jump[z]
      PROVE  Skipped(z, begin)
  BY <1>1, <1>2, <1>5 DEF Turn, Skipped
<1>6. Skipped(z, begin) => begin < Turn(z)
  BY <1>1, <1>2 DEF Turn, Skipped
<1> QED BY <1>2, <1>3, <1>4, <1>5, <1>6, <1>1 DEF begin, end

(* Comparing ends, as find_conflicts does, finds exactly the bookings that   *)
(* need the same person at the same moment: touching ones do not clash,     *)
(* "Two jobs in different timezones do not falsely collide".                *)
THEOREM OverlapIsSharing ==
  ASSUME NEW a \in Instants, NEW b \in Instants, Whole(a), Whole(b),
         InOrder(a), InOrder(b)
  PROVE  Overlap(a, b) <=> Share(a, b)
<1>1. /\ a[1] \in Int /\ a[2] \in Int /\ b[1] \in Int /\ b[2] \in Int
      /\ a[1] < a[2] /\ b[1] < b[2]
  BY DEF Instants, InOrder, Whole
<1>2. ASSUME Overlap(a, b) PROVE Share(a, b)
  <2>1. CASE a[1] <= b[1]
    <3>1. b[1] \in a[1] .. a[2] - 1 /\ b[1] \in b[1] .. b[2] - 1
      BY <1>1, <1>2, <2>1 DEF Overlap
    <3> QED BY <3>1 DEF Share
  <2>2. CASE b[1] < a[1]
    <3>1. a[1] \in a[1] .. a[2] - 1 /\ a[1] \in b[1] .. b[2] - 1
      BY <1>1, <1>2, <2>2 DEF Overlap
    <3> QED BY <3>1 DEF Share
  <2> QED BY <1>1, <2>1, <2>2
<1>3. ASSUME Share(a, b) PROVE Overlap(a, b)
  BY <1>1, <1>3 DEF Share, Overlap
<1> QED BY <1>2, <1>3
=============================================================================
