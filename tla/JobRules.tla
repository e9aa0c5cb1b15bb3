------------------------------ MODULE JobRules ------------------------------
(***************************************************************************)
(* What the services behind a job compute, with no storage: the status     *)
(* machine (services/jobs.py, models/enums.py), the derivation of instants *)
(* from a promise in local time (services/scheduling.py) and the crew of a *)
(* job.  Dispatch runs these operators one request at a time;              *)
(* JobTransactions runs them in overlapping transactions.                  *)
(*                                                                         *)
(* A day is a number, and a time of day an hour.  A zone is its distance   *)
(* behind UTC in hours: zones whose distance changes with the season are   *)
(* not told apart here.                                                    *)
(***************************************************************************)
EXTENDS Integers, FiniteSets

CONSTANTS
  Jobs,         \* the jobs that may ever be created
  Members,      \* the people of the company who can be put on a job
  Office,       \* an owner who is never put on one and never deactivated
  Addresses,    \* the service addresses of the customer
  Zones,        \* the timezones an address may be in
  Behind,       \* Behind[z]: hours from zone z to UTC
  Days,         \* the dates a job can be booked on
  Starts,       \* the times at which an arrival window may start
  Ends,         \* ... and end
  None

ASSUME MembersAssumption == IsFiniteSet(Members)
ASSUME OfficeAssumption == Office \notin Members
ASSUME CalendarAssumption ==
  /\ Days \subseteq Int /\ Starts \subseteq Int /\ Ends \subseteq Int
  /\ \A z \in Zones : Behind[z] \in Int
ASSUME NoneAssumption == None \notin Members /\ None \notin Int

Dates == Days \cup {None}

(* An arrival window, <<start, end>>; a half one is a window to the table.  *)
Arrival == (Starts \cup {None}) \X (Ends \cup {None})

-----------------------------------------------------------------------------
(* The status machine. *)

Open     == {"unscheduled", "scheduled", "en_route", "in_progress"}
Statuses == Open \cup {"complete", "invoiced", "closed", "canceled"}

(* Wrong on purpose: the variants called ...Wrong, here and in the modules   *)
(* that build on this one, are bugs that a property excludes; no            *)
(* specification uses them.                                                 *)

(* A billed job can be called off. *)
NextStatusesWrong ==
  [unscheduled |-> {"scheduled", "canceled"},
   scheduled   |-> {"unscheduled", "en_route", "canceled"},
   en_route    |-> {"in_progress", "scheduled", "canceled"},
   in_progress |-> {"complete", "canceled"},
   complete    |-> {"invoiced", "in_progress"},
   invoiced    |-> {"closed", "canceled"},
   closed      |-> {},
   canceled    |-> {"unscheduled"}]

NextStatuses ==
  [unscheduled |-> {"scheduled", "canceled"},
   scheduled   |-> {"unscheduled", "en_route", "canceled"},
   en_route    |-> {"in_progress", "scheduled", "canceled"},
   in_progress |-> {"complete", "canceled"},
   complete    |-> {"invoiced", "in_progress"},
   invoiced    |-> {"closed"},
   closed      |-> {},
   canceled    |-> {"unscheduled"}]

(* What `transition` does to the two timestamps; TRUE is "has a value". *)
(* ... with the timestamp left to callers; *)
CanceledAfterWrong(from, to, canceled) ==
  canceled /\ ~(from = "canceled" /\ to = "unscheduled")

(* ... and as it is. *)
CompletedAfter(from, to, completed) ==
  \/ to = "complete"
  \/ completed /\ ~(from = "complete" /\ to = "in_progress")

CanceledAfter(from, to, canceled) ==
  \/ to = "canceled"
  \/ canceled /\ ~(from = "canceled" /\ to = "unscheduled")

Moved(row, target) ==
  [row EXCEPT !.status = target,
              !.completed = CompletedAfter(row.status, target, @),
              !.canceled  = CanceledAfter(row.status, target, @)]

CanMove(row, target) ==
  target = row.status \/ target \in NextStatuses[row.status]

(* "A job with a date and a lead is scheduled; one without either is not." *)
Honest(date, led) == IF date # None /\ led THEN "scheduled" ELSE "unscheduled"

-----------------------------------------------------------------------------
(* The row of a job, and the instants it is booked for.  The ends of the    *)
(* window and of the instants are columns of their own, any of them NULL.   *)

Instants == (Int \cup {None}) \X (Int \cup {None})

Row == [status    : Statuses \cup {"absent"},
        date      : Dates,
        start     : Starts \cup {None},
        end       : Ends \cup {None},
        start_utc : Int \cup {None},
        end_utc   : Int \cup {None},
        address   : Addresses,
        completed : BOOLEAN,
        canceled  : BOOLEAN]

Window(row) == <<row.start, row.end>>
Booked(row) == <<row.start_utc, row.end_utc>>

Whole(pair) == pair[1] # None /\ pair[2] # None
Half(pair)  == (pair[1] = None) # (pair[2] = None)

(* A window of no length is let in. *)
InOrderWrong(pair) == Whole(pair) => pair[1] <= pair[2]

InOrder(pair) == Whole(pair) => pair[1] < pair[2]

(* The CHECKs window_order and window_utc_order: half a pair passes them. *)
Stores(row) == InOrder(Window(row)) /\ InOrder(Booked(row))

WindowToUtc(date, window, z) ==
  IF date = None \/ ~Whole(window) THEN <<None, None>>
  ELSE <<24 * date + window[1] + Behind[z], 24 * date + window[2] + Behind[z]>>

(* recompute_window, `zones` being the zone of each address *)
Refreshed(row, zones) ==
  LET instants == WindowToUtc(row.date, Window(row), zones[row.address])
  IN  [row EXCEPT !.start_utc = instants[1], !.end_utc = instants[2]]

Fresh(row, zones) == Refreshed(row, zones) = row

(* Half-open intervals: touching ends do not overlap. *)
Overlap(a, b) == a[1] < b[2] /\ b[1] < a[2]

-----------------------------------------------------------------------------
(* Who is on a job. *)

Crews == [Members -> {"off", "helper", "lead"}]

Nobody == [m \in Members |-> "off"]

Leads(crew) == {m \in Members : crew[m] = "lead"}

(* set_lead: a former lead leaves the job, a helper is promoted. *)
WithLead(crew, lead) ==
  [m \in Members |-> IF m = lead THEN "lead"
                     ELSE IF crew[m] = "lead" THEN "off" ELSE crew[m]]

(* set_helpers: naming the lead is a no-op. *)
WithHelpers(crew, helpers) ==
  [m \in Members |-> IF crew[m] = "lead" THEN "lead"
                     ELSE IF m \in helpers THEN "helper" ELSE "off"]

(* find_conflicts: the open jobs member m is on, other than j, that overlap *)
(* the instants.                                                            *)
Clashes(rows, crews, j, m, instants) ==
  {k \in Jobs \ {j} :
     /\ Whole(instants)
     /\ crews[k][m] # "off"
     /\ rows[k].status \in Open
     /\ Whole(Booked(rows[k]))
     /\ Overlap(instants, Booked(rows[k]))}

-----------------------------------------------------------------------------
(* People: what their role and their active flag let them do. *)

Roles    == {"owner", "dispatcher", "technician", "accountant"}
Standing == [role : Roles, active : BOOLEAN]

(* _load_membership: who may be put on a job *)
Assignable(standing) == standing.active /\ standing.role # "accountant"

(* _load: whom a job exists for.  A technician sees only the jobs they are on. *)
MaySee(people, crew) ==
  {Office} \cup {m \in Members : /\ people[m].active
                                 /\ people[m].role = "technician" => crew[m] # "off"}

IsTechnician(people, who) == who \in Members /\ people[who].role = "technician"

-----------------------------------------------------------------------------
(* What each handler makes of the row it loaded.  The caller supplies the   *)
(* fields as they are after the request: a field the request does not send  *)
(* is the field it already had.                                             *)

(* create_job *)
NewJob(date, window, address, lead, zones) ==
  Refreshed([status    |-> Honest(date, lead # None),
             date      |-> date,
             start     |-> window[1],
             end       |-> window[2],
             start_utc |-> None,
             end_utc   |-> None,
             address   |-> address,
             completed |-> FALSE,
             canceled  |-> FALSE], zones)

(* JobBase.check_window: no window, or a whole one with a date *)
ValidBooking(date, window) ==
  \/ window = <<None, None>>
  \/ Whole(window) /\ window[1] < window[2] /\ date # None

(* update_job without recompute_window: "moving a job to a different service *)
(* address changes the timezone without touching a time".                   *)
EditedWrong(row, date, window, address, zones) ==
  [row EXCEPT !.date = date, !.start = window[1], !.end = window[2],
              !.address = address]

(* update_job: nothing about the window is validated *)
Edited(row, date, window, address, zones) ==
  Refreshed([row EXCEPT !.date = date, !.start = window[1], !.end = window[2],
                        !.address = address], zones)

(* schedule_job, before it looks for clashes *)
Rebooked(row, date, window, zones) ==
  Refreshed([row EXCEPT !.date = date, !.start = window[1], !.end = window[2]],
            zones)

(* schedule_job that only ever schedules *)
SettledWrong(row, led) ==
  IF row.status = "unscheduled" THEN Moved(row, Honest(row.date, led)) ELSE row

(* schedule_job, afterwards: unscheduled and scheduled follow date and lead *)
Settled(row, led) ==
  IF row.status \in {"unscheduled", "scheduled"}
  THEN Moved(row, Honest(row.date, led))
  ELSE row

(* change_status: the statuses a technician may ask for *)
TechnicianTargets == {"en_route", "in_progress", "complete"}
=============================================================================
