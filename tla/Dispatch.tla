------------------------------ MODULE Dispatch ------------------------------
(***************************************************************************)
(* The jobs of one customer as the requests of their company change them,  *)
(* each request an indivisible step: the handlers of routers/jobs.py,      *)
(* `update_address` of routers/customers.py and `update_member` of         *)
(* routers/memberships.py, run one at a time.                              *)
(*                                                                         *)
(* A request that is refused (400, 403, 404, 409), or whose row a CHECK of  *)
(* the table refuses (500), is rolled back and changes nothing, so it is   *)
(* no step here.                                                           *)
(***************************************************************************)
EXTENDS JobRules

CONSTANTS
  Overrides,   \* the values of allow_conflicts that clients send
  Hires        \* the roles people have, and may be given

VARIABLES
  jobs,        \* jobs[j]: the row, of status "absent" until it is created
  crew,        \* crew[j][m]: what member m is on job j
  zone,        \* zone[a]: the timezone of address a
  people       \* people[m]: role and active flag of member m

vars == <<jobs, crew, zone, people>>

Absent == [status : {"absent"}, date : {None}, start : {None}, end : {None},
           start_utc : {None}, end_utc : {None}, address : Addresses,
           completed : {FALSE}, canceled : {FALSE}]

Init ==
  /\ \E a \in Addresses : jobs \in [Jobs -> {r \in Absent : r.address = a}]
  /\ crew = [j \in Jobs |-> Nobody]
  /\ zone \in [Addresses -> Zones]
  /\ people \in [Members -> [role : Hires, active : {TRUE}]]

Exists(j) == jobs[j].status # "absent"

(* Who finds the job.  (The office may make every request below, so the     *)
(* requests kept for dispatchers need no guard of their own.)               *)
Viewers(j) == MaySee(people, crew[j])

-----------------------------------------------------------------------------
(* POST /jobs *)
CreateJob(j, date, window, address, lead, helpers) ==
  /\ ~Exists(j)
  /\ ValidBooking(date, window)
  /\ \A m \in helpers \cup ({lead} \ {None}) : Assignable(people[m])
  /\ jobs' = [jobs EXCEPT ![j] = NewJob(date, window, address, lead, zone)]
  /\ crew' = [crew EXCEPT ![j] = WithHelpers(WithLead(Nobody, lead), helpers)]
  /\ UNCHANGED <<zone, people>>

(* PATCH /jobs/{id} from somebody who is not a technician *)
UpdateJob(j, date, window, address) ==
  LET row == Edited(jobs[j], date, window, address, zone) IN
  /\ Exists(j)
  /\ Stores(row)
  /\ jobs' = [jobs EXCEPT ![j] = row]
  /\ UNCHANGED <<crew, zone, people>>

(* ... and from a technician, who may send none of these fields; the window *)
(* is recomputed all the same.                                              *)
AnnotateJob(who, j) ==
  /\ Exists(j)
  /\ who \in Viewers(j)
  /\ IsTechnician(people, who)
  /\ jobs' = [jobs EXCEPT ![j] = Refreshed(@, zone)]
  /\ UNCHANGED <<crew, zone, people>>

(* POST /jobs/{id}/schedule.  `leads` is {} when no lead is sent, otherwise *)
(* the one that is, None to clear it.  A lead who is sent must be assignable *)
(* even if already the lead; one who is kept need not be.                   *)
CrewAfter(j, leads) ==
  IF leads = {} THEN crew[j]
  ELSE WithLead(crew[j], CHOOSE m \in Members \cup {None} : m \in leads)

ScheduleJob(j, date, window, leads, allow) ==
  LET row   == Rebooked(jobs[j], date, window, zone)
      after == CrewAfter(j, leads)
  IN
  /\ Exists(j)
  /\ ~Half(window)
  /\ \A m \in leads \ {None} : Assignable(people[m])
  /\ Stores(row)
  /\ \/ allow
     \/ \A m \in Leads(after) : Clashes(jobs, crew, j, m, Booked(row)) = {}
  /\ jobs' = [jobs EXCEPT ![j] = Settled(row, Leads(after) # {})]
  /\ crew' = [crew EXCEPT ![j] = after]
  /\ UNCHANGED <<zone, people>>

(* POST /jobs/{id}/status *)
ChangeStatus(who, j, target) ==
  /\ Exists(j)
  /\ who \in Viewers(j)
  /\ IsTechnician(people, who) => target \in TechnicianTargets
  /\ CanMove(jobs[j], target)
  /\ jobs' = [jobs EXCEPT ![j] = Moved(@, target)]
  /\ UNCHANGED <<crew, zone, people>>

(* PATCH /customers/{id}/addresses/{id} with a timezone: every open job     *)
(* there is recomputed, the others are left as they are.                    *)
UpdateAddress(a, z) ==
  LET zones == [zone EXCEPT ![a] = z]
      Here  == {j \in Jobs : jobs[j].address = a /\ jobs[j].status \in Open}
  IN
  /\ zone' = zones
  /\ jobs' = [j \in Jobs |-> IF j \in Here THEN Refreshed(jobs[j], zones)
                             ELSE jobs[j]]
  /\ UNCHANGED <<crew, people>>

(* PATCH /memberships/{id} by the office.  Nobody is taken off their jobs.  *)
(* (The seat limit and the last owner are module Team's business.)          *)
UpdateMember(m, role, active) ==
  /\ people' = [people EXCEPT ![m] = [role |-> role, active |-> active]]
  /\ UNCHANGED <<jobs, crew, zone>>

-----------------------------------------------------------------------------
CreateSome ==
  \E j \in Jobs, date \in Dates, window \in Arrival, address \in Addresses,
     lead \in Members \cup {None}, helpers \in SUBSET Members :
    CreateJob(j, date, window, address, lead, helpers)

UpdateSome ==
  \E j \in Jobs, date \in Dates, window \in Arrival, address \in Addresses :
    UpdateJob(j, date, window, address)

AnnotateSome == \E j \in Jobs, who \in Members : AnnotateJob(who, j)

ScheduleSome ==
  \E j \in Jobs, date \in Dates, window \in Arrival, allow \in Overrides,
     leads \in {{}} \cup {{m} : m \in Members \cup {None}} :
    ScheduleJob(j, date, window, leads, allow)

StatusSome ==
  \E j \in Jobs, target \in Statuses, who \in Members \cup {Office} :
    ChangeStatus(who, j, target)

AddressSome == \E a \in Addresses, z \in Zones : UpdateAddress(a, z)

MemberSome ==
  \E m \in Members, role \in Hires, active \in BOOLEAN :
    UpdateMember(m, role, active)

Next ==
  \/ CreateSome \/ UpdateSome \/ AnnotateSome \/ ScheduleSome
  \/ StatusSome \/ AddressSome \/ MemberSome

Spec == Init /\ [][Next]_vars

-----------------------------------------------------------------------------
TypeOK ==
  /\ jobs \in [Jobs -> Row]
  /\ \A j \in Jobs : \A pair \in {Window(jobs[j]), Booked(jobs[j])} :
       Whole(pair) => pair[1] < pair[2]
  /\ crew \in [Jobs -> Crews]
  /\ zone \in [Addresses -> Zones]
  /\ people \in [Members -> Standing]

(* The table of transitions, with the timestamps, gives the life of a job   *)
(* its billing relies on (see JobLifecycle): "a completed_at that disagrees *)
(* with the status is the kind of inconsistency that only surfaces months   *)
(* later".                                                                  *)
Stage(status) ==
  CASE status = "absent"                          -> "none"
    [] status = "in_progress"                     -> "work"
    [] status = "complete"                        -> "done"
    [] status = "invoiced"                        -> "billed"
    [] status = "closed"                          -> "over"
    [] status = "canceled"                        -> "off"
    [] OTHER                                      -> "planned"

Life == INSTANCE JobLifecycle WITH
          stage     <- [j \in Jobs |-> Stage(jobs[j].status)],
          finished  <- [j \in Jobs |-> jobs[j].completed],
          calledOff <- [j \in Jobs |-> jobs[j].canceled]

FollowsLifecycle == Life!Spec

(* The instants of an open job never go stale while it stays open, whatever *)
(* changes under it: its date, its window, its address, or the timezone of  *)
(* that address.                                                            *)
FreshJob(j) == Fresh(jobs[j], zone)
OpenJob(j)  == jobs[j].status \in Open

OpenJobsStayFresh ==
  [][\A j \in Jobs : OpenJob(j) /\ FreshJob(j) /\ OpenJob(j)' => FreshJob(j)']_vars

(* Whenever somebody is put on a job or taken off it, and the job has not   *)
(* set off, its status is brought in line: scheduled with a date and a      *)
(* lead, unscheduled without.                                               *)
CrewChangesSettleStatus ==
  [][\A j \in Jobs :
       /\ crew'[j] # crew[j]
       /\ jobs'[j].status \in {"unscheduled", "scheduled"}
       => jobs'[j].status = Honest(jobs'[j].date, Leads(crew'[j]) # {})]_vars
=============================================================================
