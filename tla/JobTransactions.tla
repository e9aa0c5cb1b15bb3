-------------------------- MODULE JobTransactions --------------------------
(***************************************************************************)
(* The requests of module Dispatch as the code really runs them: each is a *)
(* transaction of one thread (`deps.get_db`) at READ COMMITTED.            *)
(*                                                                         *)
(*   load     the handler reads rows, validates, and computes in memory.   *)
(*            Its several SELECTs are taken as one moment.                 *)
(*   flush    an UPDATE of the fields that changed, by primary key, takes  *)
(*            the row (waiting for it) and is checked against the indexes. *)
(*            Nothing that was loaded is looked at again.                  *)
(*   commit   what was flushed becomes visible; anything that raises       *)
(*            before it rolls everything back.                             *)
(***************************************************************************)
EXTENDS JobRules

CONSTANTS
  Workers,     \* the threads that serve requests
  Endpoints,   \* the requests that are made
  Overrides,   \* the values of allow_conflicts that clients send
  Hires,       \* the roles people have, and may be given
  Targets      \* the statuses that clients ask for

ASSUME WorkersAssumption == None \notin Workers
ASSUME EndpointsAssumption ==
  Endpoints \subseteq {"create", "update", "schedule", "status", "address", "member"}
ASSUME ChoicesAssumption == /\ Overrides \subseteq BOOLEAN
                            /\ Hires \subseteq Roles
                            /\ Targets \subseteq Statuses
ASSUME NothingToDo == /\ None \notin Statuses
                      /\ None \notin [leads : SUBSET Members, instants : Instants]

VARIABLES
  jobs,        \* committed rows
  crew,        \* committed assignments
  zone,        \* committed timezones
  people,      \* committed memberships
  tx           \* tx[w]: the open transaction of worker w, or None

vars == <<jobs, crew, zone, people, tx>>
data == <<jobs, crew, zone, people>>

(* With one worker this is Dispatch, request for request. *)
Serial == INSTANCE Dispatch

Init == Serial!Init /\ tx = [w \in Workers |-> None]

Exists(j) == jobs[j].status # "absent"

Viewers(j) == MaySee(people, crew[j])

-----------------------------------------------------------------------------
(* The transaction of a request on one job: what it has still to do, the    *)
(* rows it holds, and what it writes.  `write` has the fields its first     *)
(* flush sends and `settle` the status the second flush of schedule_job     *)
(* sends.  The change of the crew is whose row is deleted (`leaves`), who   *)
(* becomes lead by a new row (`joins`) and who by an update of their        *)
(* helper's row (`promotes`); `gone` are those of them whose row, as it was *)
(* loaded, somebody else has deleted since.  `check` is what find_conflicts *)
(* will be asked.                                                           *)

(* The columns SQLAlchemy finds changed; a timestamp set to now always is.  *)
Changed(old, new) ==
  {f \in DOMAIN new : old[f] # new[f]}
    \cup {f \in {"completed"} : old.status # new.status /\ new.status = "complete"}
    \cup {f \in {"canceled"} : old.status # new.status /\ new.status = "canceled"}

Delta(old, new)   == [f \in Changed(old, new) |-> new[f]]
Merge(row, write) == [f \in DOMAIN row |-> IF f \in DOMAIN write THEN write[f]
                                           ELSE row[f]]

When(condition, step) == IF condition THEN {step} ELSE {}

(* A handler that turns jobs[j] and crew[j] into `row` and `newCrew`.       *)
JobRequest(kind, j, row, newCrew, check, settle) ==
  LET write    == Delta(jobs[j], row)
      leaves   == {m \in Members : crew[j][m] # "off" /\ newCrew[m] = "off"}
      newLeads == Leads(newCrew) \ Leads(crew[j])
      promotes == {m \in newLeads : crew[j][m] = "helper"}
  IN
  [kind     |-> kind,
   job      |-> j,
   todo     |-> When(DOMAIN write # {}, "row")
                  \cup When(leaves \cup newLeads # {}, "crew")
                  \cup When(check # None, "check")
                  \cup When(settle # None, "settle"),
   holds    |-> {},
   write    |-> write,
   leaves   |-> leaves,
   joins    |-> newLeads \ promotes,
   promotes |-> promotes,
   gone     |-> {},
   check    |-> check,
   settle   |-> settle]

(* The steps of a transaction, each with those that come before it. *)
Earlier == [row    |-> {},
            crew   |-> {"row"},
            check  |-> {"row", "crew"},
            settle |-> {"row", "crew", "check"},
            zone   |-> {},
            select |-> {"zone"},
            rows   |-> {"zone", "select"}]

Idle(w) == tx[w] = None

(* It is step s's turn in w's transaction. *)
Turn(w, s) == /\ ~Idle(w)
              /\ s \in tx[w].todo
              /\ tx[w].todo \cap Earlier[s] = {}

(* A row that an open transaction has written is its own until it ends. *)
Kind(w) == IF Idle(w) THEN "none" ELSE tx[w].kind

Held(w) == IF Idle(w) THEN {} ELSE tx[w].holds

Free(w, locks) == \A v \in Workers \ {w} : Held(v) \cap locks = {}

(* The rows that a step of transaction t writes. *)
Locks(t, s) ==
  CASE s \in {"row", "settle"} -> {<<"row", t.job>>}
    [] s = "crew"              -> {<<"crew", t.job>>}
    [] s = "zone"              -> {<<"zone", t.address>>}
    [] s = "rows"              -> {<<"row", j>> : j \in DOMAIN t.writes}
    [] s \in {"check", "select"} -> {}

Does(w, s) ==
  /\ Turn(w, s)
  /\ Free(w, Locks(tx[w], s))
  /\ tx' = [tx EXCEPT ![w].todo = @ \ {s}, ![w].holds = @ \cup Locks(tx[w], s)]
  /\ UNCHANGED data

Load(w, endpoint, t) ==
  /\ endpoint \in Endpoints
  /\ Idle(w)
  /\ tx' = [tx EXCEPT ![w] = t]
  /\ UNCHANGED data

-----------------------------------------------------------------------------
(* The handlers, up to their first flush.  The guards are those of the      *)
(* actions of Dispatch.                                                     *)

(* POST /jobs: the row is new, so nobody is waited for. *)
LoadCreate(w, j, date, window, address, lead, helpers) ==
  /\ ~Exists(j)
  /\ j \notin {tx[v].job : v \in {v \in Workers : Kind(v) = "create"}}
  /\ ValidBooking(date, window)
  /\ \A m \in helpers \cup ({lead} \ {None}) : Assignable(people[m])
  /\ Load(w, "create",
          [kind |-> "create", job |-> j, todo |-> {}, holds |-> {},
           row  |-> NewJob(date, window, address, lead, zone),
           crew |-> WithHelpers(WithLead(Nobody, lead), helpers)])

(* PATCH /jobs/{id} *)
LoadUpdate(w, j, date, window, address) ==
  /\ Exists(j)
  /\ Load(w, "update",
          JobRequest("update", j, Edited(jobs[j], date, window, address, zone),
                     crew[j], None, None))

LoadAnnotate(w, who, j) ==
  /\ Exists(j)
  /\ who \in Viewers(j)
  /\ IsTechnician(people, who)
  /\ Load(w, "update",
          JobRequest("update", j, Refreshed(jobs[j], zone), crew[j], None, None))

(* POST /jobs/{id}/schedule *)
LoadSchedule(w, j, date, window, leads, allow) ==
  LET row     == Rebooked(jobs[j], date, window, zone)
      newCrew == IF leads = {} THEN crew[j]
                 ELSE WithLead(crew[j], CHOOSE m \in Members \cup {None} : m \in leads)
      settled == Settled(row, Leads(newCrew) # {}).status
  IN
  /\ Exists(j)
  /\ ~Half(window)
  /\ \A m \in leads \ {None} : Assignable(people[m])
  /\ Load(w, "schedule",
          JobRequest("schedule", j, row, newCrew,
                     IF allow \/ ~Whole(Booked(row)) \/ Leads(newCrew) = {} THEN None
                     ELSE [leads |-> Leads(newCrew), instants |-> Booked(row)],
                     IF settled = row.status THEN None ELSE settled))

(* The technician who drives to the job becomes its lead. *)
LoadStatusWrong(w, who, j, target) ==
  /\ Exists(j)
  /\ who \in Viewers(j)
  /\ IsTechnician(people, who) => target \in TechnicianTargets
  /\ CanMove(jobs[j], target)
  /\ Load(w, "status",
          JobRequest("status", j, Moved(jobs[j], target),
                     IF IsTechnician(people, who) THEN WithLead(crew[j], who)
                     ELSE crew[j],
                     None, None))

(* POST /jobs/{id}/status *)
LoadStatus(w, who, j, target) ==
  /\ Exists(j)
  /\ who \in Viewers(j)
  /\ IsTechnician(people, who) => target \in TechnicianTargets
  /\ CanMove(jobs[j], target)
  /\ Load(w, "status",
          JobRequest("status", j, Moved(jobs[j], target), crew[j], None, None))

(* PATCH /customers/{id}/addresses/{id} *)
LoadAddress(w, a, z) ==
  Load(w, "address",
       [kind |-> "address", address |-> a, zone |-> z, moves |-> zone[a] # z,
        todo |-> When(zone[a] # z, "zone") \cup {"select"}, holds |-> {},
        writes |-> <<>>])

(* PATCH /memberships/{id} is one step: module Team takes it apart. *)
UpdateMember(w, m, role, active) ==
  /\ "member" \in Endpoints
  /\ Idle(w)
  /\ Serial!UpdateMember(m, role, active)
  /\ UNCHANGED tx

-----------------------------------------------------------------------------
(* Their flushes. *)

(* UPDATE jobs.  The CHECKs are on the row it leaves, not on the one that   *)
(* was loaded.                                                              *)
FlushRow(w) ==
  /\ Does(w, "row")
  /\ Stores(Merge(jobs[tx[w].job], tx[w].write))

(* The crew that a request leaves, given the committed one. *)
CrewAfter(t, c) ==
  [m \in Members |-> IF m \in t.joins \cup t.promotes THEN "lead"
                     ELSE IF m \in t.leaves \ t.gone THEN "off"
                     ELSE c[m]]

(* Without the partial unique index of migration 0002. *)
CrewRejectedWrong(t, c) ==
  \/ \E m \in t.joins : c[m] # "off"
  \/ t.promotes \cap t.gone # {}

(* One row per person, one lead per job, and no update of a row that is     *)
(* gone; a delete of one is only a warning.                                 *)
CrewRejected(t, c) ==
  \/ \E m \in t.joins : c[m] # "off"
  \/ t.promotes \cap t.gone # {}
  \/ Cardinality(Leads(CrewAfter(t, c))) > 1

(* DELETE, UPDATE and INSERT on job_assignments *)
FlushCrew(w) ==
  /\ Turn(w, "crew")
  /\ ~CrewRejected(tx[w], crew[tx[w].job])
  /\ Does(w, "crew")

(* find_conflicts sees what others have committed by now. *)
CheckClashes(w) ==
  /\ Turn(w, "check")
  /\ \A m \in tx[w].check.leads :
       Clashes(jobs, crew, tx[w].job, m, tx[w].check.instants) = {}
  /\ Does(w, "check")

(* UPDATE jobs SET status *)
FlushStatus(w) == Does(w, "settle")

(* UPDATE service_addresses *)
FlushZone(w) == Does(w, "zone")

(* The jobs of the address recomputed with its former timezone. *)
SelectJobsWrong(w) ==
  LET t     == tx[w]
      stale == {j \in Jobs : /\ jobs[j].address = t.address
                             /\ jobs[j].status \in Open
                             /\ ~Fresh(jobs[j], zone)}
  IN
  /\ Turn(w, "select")
  /\ tx' = [tx EXCEPT
              ![w].todo = (@ \ {"select"}) \cup When(stale # {}, "rows"),
              ![w].writes = [j \in stale |-> Delta(jobs[j], Refreshed(jobs[j], zone))]]
  /\ UNCHANGED data

(* The open jobs at the address, as committed now, and what their new       *)
(* instants change of them.                                                 *)
SelectJobs(w) ==
  LET t     == tx[w]
      zones == [zone EXCEPT ![t.address] = t.zone]
      stale == {j \in Jobs : /\ jobs[j].address = t.address
                             /\ jobs[j].status \in Open
                             /\ ~Fresh(jobs[j], zones)}
  IN
  /\ Turn(w, "select")
  /\ tx' = [tx EXCEPT
              ![w].todo = (@ \ {"select"}) \cup When(stale # {}, "rows"),
              ![w].writes = [j \in stale |-> Delta(jobs[j], Refreshed(jobs[j], zones))]]
  /\ UNCHANGED data

(* UPDATE jobs SET instants: sent when the commit flushes, and waiting for  *)
(* every one of the rows.                                                   *)
FlushInstants(w) ==
  /\ Does(w, "rows")
  /\ \A j \in DOMAIN tx[w].writes : Stores(Merge(jobs[j], tx[w].writes[j]))

-----------------------------------------------------------------------------
(* The end of a transaction. *)

(* A crew row that goes away is gone for the others that have loaded it. *)
LosesRows(t, j, removed) ==
  IF t # None /\ t.kind = "schedule" /\ t.job = j
  THEN [t EXCEPT !.gone = @ \cup (removed \cap (t.leaves \cup t.promotes))]
  ELSE t

CommitCreate(w) ==
  LET t == tx[w] IN
  /\ Kind(w) = "create"
  /\ jobs' = [jobs EXCEPT ![t.job] = t.row]
  /\ crew' = [crew EXCEPT ![t.job] = t.crew]
  /\ tx' = [tx EXCEPT ![w] = None]
  /\ UNCHANGED <<zone, people>>

CommitJob(w) ==
  LET t == tx[w]
      settled == [f \in {f \in {"status"} : t.settle # None} |-> t.settle]
      removed == t.leaves \ t.gone
  IN
  /\ Kind(w) \in {"update", "schedule", "status"}
  /\ t.todo = {}
  /\ jobs' = [jobs EXCEPT ![t.job] = Merge(Merge(@, t.write), settled)]
  /\ crew' = [crew EXCEPT ![t.job] = CrewAfter(t, @)]
  /\ tx' = [v \in Workers |-> IF v = w THEN None
                              ELSE LosesRows(tx[v], t.job, removed)]
  /\ UNCHANGED <<zone, people>>

CommitAddress(w) ==
  LET t == tx[w] IN
  /\ Kind(w) = "address"
  /\ t.todo = {}
  /\ zone' = IF t.moves THEN [zone EXCEPT ![t.address] = t.zone] ELSE zone
  /\ jobs' = [j \in Jobs |-> IF j \in DOMAIN t.writes
                             THEN Merge(jobs[j], t.writes[j]) ELSE jobs[j]]
  /\ tx' = [tx EXCEPT ![w] = None]
  /\ UNCHANGED <<crew, people>>

(* A flush that the database refuses, a clash (409), a deadlock the         *)
(* database ends by cancelling this transaction, a lost connection or a     *)
(* dead process: nothing is left of the request.                            *)
Abort(w) ==
  /\ ~Idle(w)
  /\ tx' = [tx EXCEPT ![w] = None]
  /\ UNCHANGED data

-----------------------------------------------------------------------------
LoadSome(w) ==
  \/ \E j \in Jobs, date \in Dates, window \in Arrival, address \in Addresses,
        lead \in Members \cup {None}, helpers \in SUBSET Members :
       LoadCreate(w, j, date, window, address, lead, helpers)
  \/ \E j \in Jobs, date \in Dates, window \in Arrival, address \in Addresses :
       LoadUpdate(w, j, date, window, address)
  \/ \E j \in Jobs, who \in Members : LoadAnnotate(w, who, j)
  \/ \E j \in Jobs, date \in Dates, window \in Arrival, allow \in Overrides,
        leads \in {{}} \cup {{m} : m \in Members \cup {None}} :
       LoadSchedule(w, j, date, window, leads, allow)
  \/ \E j \in Jobs, target \in Targets, who \in Members \cup {Office} :
       LoadStatus(w, who, j, target)
  \/ \E a \in Addresses, z \in Zones : LoadAddress(w, a, z)

MemberSome(w) ==
  \E m \in Members, role \in Hires, active \in BOOLEAN :
    UpdateMember(w, m, role, active)

Advance(w) ==
  \/ FlushRow(w) \/ FlushCrew(w) \/ CheckClashes(w) \/ FlushStatus(w)
  \/ FlushZone(w) \/ SelectJobs(w) \/ FlushInstants(w)

End(w) == CommitCreate(w) \/ CommitJob(w) \/ CommitAddress(w) \/ Abort(w)

Next == \E w \in Workers : LoadSome(w) \/ MemberSome(w) \/ Advance(w) \/ End(w)

Spec == Init /\ [][Next]_vars

-----------------------------------------------------------------------------
JobTxOK(t) ==
  /\ t.job \in Jobs
  /\ t.todo \subseteq {"row", "crew", "check", "settle"}
  /\ t.holds \subseteq {"row", "crew"} \X {t.job}
  /\ Merge(jobs[t.job], t.write) \in Row
  /\ t.leaves \subseteq Members /\ t.joins \subseteq Members
  /\ t.promotes \subseteq Members /\ t.gone \subseteq t.leaves \cup t.promotes
  /\ t.check \in [leads : SUBSET Members, instants : Instants] \cup {None}
  /\ t.settle \in {"scheduled", "unscheduled", None}

CreateTxOK(t) ==
  /\ t.job \in Jobs /\ t.todo = {} /\ t.holds = {}
  /\ t.row \in Row /\ t.crew \in Crews

AddressTxOK(t) ==
  /\ t.address \in Addresses /\ t.zone \in Zones /\ t.moves \in BOOLEAN
  /\ t.todo \subseteq {"zone", "select", "rows"}
  /\ DOMAIN t.writes \subseteq Jobs
  /\ \A j \in DOMAIN t.writes : Merge(jobs[j], t.writes[j]) \in Row
  /\ t.holds \subseteq {<<"zone", t.address>>} \cup ({"row"} \X Jobs)

TypeOK ==
  /\ Serial!TypeOK
  /\ DOMAIN tx = Workers
  /\ \A w \in Workers : ~Idle(w) =>
       CASE tx[w].kind = "create"  -> CreateTxOK(tx[w])
         [] tx[w].kind = "address" -> AddressTxOK(tx[w])
         [] tx[w].kind \in {"update", "schedule", "status"} -> JobTxOK(tx[w])

(* Whatever two dispatchers do to one job at once, it has one lead at most: *)
(* "exactly one may be the lead -- enforced by a partial unique index".     *)
OneLead == \A j \in Jobs : Cardinality(Leads(crew[j])) <= 1

(* What is left of "timestamps are set here rather than left to callers"    *)
(* when requests overlap: a complete job has a completion time, a canceled  *)
(* one a cancellation time.  (That they have no other is lost.)             *)
ReachedMeansStamped ==
  \A j \in Jobs : /\ jobs[j].status = "complete" => jobs[j].completed
                  /\ jobs[j].status = "canceled" => jobs[j].canceled

(* Two transactions that wait for each other are two drags of a card: the   *)
(* only handler that flushes twice is schedule_job.                         *)
WaitsFor(v, w) ==
  \E s \in DOMAIN Earlier :
    Turn(v, s) /\ Locks(tx[v], s) \cap Held(w) # {}

DeadlocksAreBetweenSchedules ==
  \A v, w \in Workers :
    v # w /\ WaitsFor(v, w) /\ WaitsFor(w, v) =>
      Kind(v) = "schedule" /\ Kind(w) = "schedule"

(* A transaction that runs alone is the indivisible request of Dispatch.    *)
ImplementsDispatch == Serial!Spec

(* What Dispatch says of requests one at a time, of one worker's            *)
(* transactions.  The table of services/jobs.py and the timestamps that     *)
(* `transition` sets give a job the life of JobLifecycle.                   *)
FollowsLifecycle == Serial!FollowsLifecycle

(* The instants of an open job stay those of its date, window and address   *)
(* whatever changes under it (recompute_window in every handler).           *)
OpenJobsStayFresh == Serial!OpenJobsStayFresh

(* Whoever is put on a job that has not set off or taken off it, its status *)
(* says whether it has a date and a lead (`should_be` in schedule_job).     *)
CrewChangesSettleStatus == Serial!CrewChangesSettleStatus

(* "A job ... cannot reopen a closed job by replaying a stale request":     *)
(* every status a job takes is one the table allows from the one it had.    *)
(* It is not so: the status that is checked is the one that was loaded.     *)
StatusFollowsTable ==
  [][\A j \in Jobs :
       Exists(j) /\ jobs'[j].status # jobs[j].status =>
         jobs'[j].status \in NextStatuses[jobs[j].status]]_vars
=============================================================================
