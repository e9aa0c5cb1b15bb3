------------------------------ MODULE Bookings ------------------------------
(***************************************************************************)
(* Several dispatchers at their boards (pages/DispatchBoard.tsx) book open *)
(* jobs (`create_job` from the New job page, `schedule_job` from a board)  *)
(* while the timezones of their addresses are corrected                    *)
(* (`update_address`): who is told of which clash, and when the stored     *)
(* instants are right.  Module JobTransactions has these handlers with     *)
(* status, helpers and every flush; here are the parts that two jobs and   *)
(* two people can disturb for each other.                                  *)
(***************************************************************************)
EXTENDS Scheduling

CONSTANTS
  Jobs,        \* the jobs that will ever be created; they stay open
  Waiting,     \* those that are there already, with neither date nor lead
  Addresses,
  Typed,       \* Typed[a]: the zone a was entered with
  Correct,     \* Correct[a]: the zone a is corrected to, None if it never is
  At,          \* At[j]: the service address of job j
  Window,      \* Window[j]: its arrival window or None; no board changes it
  Crew,        \* the columns of the boards: active members who can be leads
  Days,        \* the rows of the boards
  Dispatchers,
  Workers      \* the threads that serve requests

ASSUME BookingsAssumption ==
  /\ At \in [Jobs -> Addresses]
  /\ Typed \in [Addresses -> Zones]
  /\ Correct \in [Addresses -> Zones \cup {None}]
  /\ Waiting \subseteq Jobs
  /\ Window \in [Jobs -> Windows \cup {None}]
  /\ Days \subseteq Int
  /\ None \notin Crew \cup Jobs \cup Zones

(* As Samoa's did in 2011. *)
ASSUME NoClockSkipsADay == \A z \in Zones : Jump[z] < DayLength

VARIABLES
  jobs,        \* jobs[j]: the committed row and lead, None until it is created
  zone,        \* zone[a]: the committed timezone
  tx,          \* tx[w]: the open transaction of worker w, or None
  dialog       \* dialog[d]: what "That would double-book them" shows, or None

vars == <<jobs, zone, tx, dialog>>

Dates == Days \cup {None}
Leads == Crew \cup {None}
Rows  == [date : Dates, lead : Leads, instants : Instants]

Init ==
  /\ jobs = [j \in Jobs |->
               IF j \in Waiting THEN [date |-> None, lead |-> None, instants |-> NoInstants]
               ELSE None]
  /\ zone = Typed
  /\ tx = [w \in Workers |-> None]
  /\ dialog = [d \in Dispatchers |-> None]

Booking(j, date, lead) ==
  [date |-> date, lead |-> lead,
   instants |-> WindowToUtc(zone[At[j]], date, Window[j])]

(* The instants of a job are the ones its date and window promise. *)
InstantsRight(j) ==
  IF jobs[j].date = None \/ Window[j] = None THEN jobs[j].instants = NoInstants
  ELSE \A n \in {1, 2} :
         /\ jobs[j].instants[n] # None
         /\ Promised(zone[At[j]], DayLength * jobs[j].date + Window[j][n],
                     jobs[j].instants[n])

(* Where the board puts a card: in the cell of its lead and day, or in the  *)
(* tray of jobs with neither.                                               *)
OnBoard(j) ==
  \/ jobs[j].lead \in Crew /\ jobs[j].date \in Days
  \/ jobs[j].lead = None /\ jobs[j].date = None

-----------------------------------------------------------------------------
(* Transactions.  `job` and `from` are what a handler loaded, `to` what it   *)
(* is to become; `allow` is allow_conflicts; `gone` says that somebody has  *)
(* deleted the lead's row it loaded; `newest` that its board has sent       *)
(* nothing since.  Three fields are kept for the properties only: `met`,    *)
(* the jobs over which it has met a transaction that leaves their instants  *)
(* to it or takes them from it; `checked`, the instants that are looked at  *)
(* for clashes, by an override's in the check that opened its dialog; and   *)
(* `told`, the jobs that its dispatcher was shown or that were rebooked     *)
(* after that check.                                                        *)

Idle(w) == tx[w] = None

Stands(w, kind, step) == ~Idle(w) /\ tx[w].kind = kind /\ tx[w].at = step

From(w, d) == ~Idle(w) /\ tx[w].kind = "schedule" /\ tx[w].by = d
Latest(w, d) == From(w, d) /\ tx[w].newest

JobsOf(t) == IF t.kind = "address" THEN {j \in Jobs : At[j] = t.address}
             ELSE {t.job}

(* A booking and a correction of its address meet over the job.  Two        *)
(* bookings that found its instants right leave them right together, but    *)
(* one that found them wrong can hurt another that puts them right; and     *)
(* who is open beside one that has met another meets that other too.        *)
Meet(t, u) ==
  {j \in JobsOf(t) \cap JobsOf(u) :
     \/ (t.kind = "address") # (u.kind = "address")
     \/ j \in t.met \cup u.met
     \/ t.kind = "schedule" /\ u.kind = "schedule" /\ ~InstantsRight(j)}

Begin(w, t, olders) ==
  LET Open == {v \in Workers : ~Idle(v)} IN
  /\ Idle(w)
  /\ tx' = [v \in Workers |->
              IF v = w
              THEN [t EXCEPT !.met = UNION {Meet(t, tx[u]) : u \in Open}]
              ELSE IF v \in Open
              THEN [tx[v] EXCEPT !.met = @ \cup Meet(tx[v], t),
                                 !.newest = @ /\ v \notin olders]
              ELSE None]
  /\ UNCHANGED <<jobs, zone, dialog>>

(* POST /jobs from the New job page, which has no field for a lead and      *)
(* drops the window of a job without a date.                                *)
BeginCreate(w, j, date) ==
  /\ jobs[j] = None
  /\ date = None => Window[j] = None
  /\ \A v \in Workers : Stands(v, "create", "commit") => tx[v].job # j
  /\ Begin(w, [kind |-> "create", at |-> "commit", job |-> j, from |-> None,
               to |-> Booking(j, date, None), newest |-> FALSE, met |-> {}], {})

(* POST /jobs/{id}/schedule from d's board. *)
Ask(w, d, j, date, lead, allow, checked, told) ==
  Begin(w, [kind |-> "schedule", at |-> "flush", by |-> d, job |-> j,
            from |-> jobs[j], to |-> Booking(j, date, lead), allow |-> allow,
            gone |-> FALSE, newest |-> TRUE, met |-> {},
            checked |-> checked, told |-> told],
        {v \in Workers : From(v, d)})

(* A card is dropped on a cell, or on the tray.  The board shows what is    *)
(* committed (it is fetched again after each success); nothing keeps the    *)
(* dispatcher from dropping the next card at once.                          *)
Drop(w, d, j, date, lead) ==
  /\ jobs[j] # None
  /\ OnBoard(j)
  /\ (date = None) = (lead = None)
  /\ Ask(w, d, j, date, lead, FALSE, Booking(j, date, lead).instants, {})

(* "Book it anyway": a button that waits for the latest request. *)
Confirm(w, d) ==
  /\ dialog[d] # None
  /\ \A v \in Workers : ~Latest(v, d)
  /\ Ask(w, d, dialog[d].job, dialog[d].date, dialog[d].lead, TRUE,
         dialog[d].checked, dialog[d].told)

(* "Leave it" *)
Dismiss(d) ==
  /\ dialog[d] # None
  /\ dialog' = [dialog EXCEPT ![d] = None]
  /\ UNCHANGED <<jobs, zone, tx>>

(* PATCH /customers/{id}/addresses/{id} with a timezone, and its flush.      *)
(* One that changes it waits for another that does; one that sends the zone *)
(* it has writes nothing yet.                                               *)
BeginAddress(w, a) ==
  /\ Correct[a] # None
  /\ zone[a] # Correct[a] =>
       \A v \in Workers : ~Idle(v) /\ tx[v].kind = "address" => tx[v].address # a
  /\ Begin(w, [kind |-> "address", at |-> "select", address |-> a,
               instants |-> <<>>, newest |-> FALSE, met |-> {}], {})

-----------------------------------------------------------------------------
(* What is left in a column by an UPDATE, which sets those that were changed *)
(* since they were loaded, and in the two columns of the instants.          *)
Updated(from, to, stored) == IF from # to THEN to ELSE stored
UpdatedPair(from, to, stored) ==
  <<Updated(from[1], to[1], stored[1]), Updated(from[2], to[2], stored[2])>>

(* What a schedule request writes: the row of the job, its lead.            *)
NewRow(t)  == t.from.date # t.to.date \/ t.from.instants # t.to.instants
NewLead(t) == t.from.lead # t.to.lead

(* It still finds the row of the lead it loaded. *)
Finds(t, row) == row.lead = t.from.lead /\ ~t.gone

(* A lead's row that is gone already is deleted in vain. *)
Merged(t, row) ==
  [date     |-> Updated(t.from.date, t.to.date, row.date),
   instants |-> UpdatedPair(t.from.instants, t.to.instants, row.instants),
   lead     |-> IF ~NewLead(t) THEN row.lead
                ELSE IF t.to.lead # None THEN t.to.lead
                ELSE IF Finds(t, row) THEN None ELSE row.lead]

(* The partial unique index: one lead per job. *)
LeadRefused(t, row) ==
  NewLead(t) /\ t.to.lead # None /\ row.lead # None /\ ~Finds(t, row)

Needs(t) == (IF NewRow(t) THEN {<<t.job, "row">>} ELSE {})
              \cup (IF NewLead(t) THEN {<<t.job, "crew">>} ELSE {})

(* What it holds from its flush to its end. *)
Holds(v) == IF Stands(v, "schedule", "commit") THEN Needs(tx[v]) ELSE {}

Free(w, locks) == \A v \in Workers \ {w} : Holds(v) \cap locks = {}

(* It asks for the lead that this request takes the job from. *)
ClashesWrong(t) ==
  {k \in Jobs \ {t.job} :
     /\ jobs[k] # None
     /\ t.from.lead # None /\ jobs[k].lead = t.from.lead
     /\ Whole(t.to.instants) /\ Whole(jobs[k].instants)
     /\ Overlap(jobs[k].instants, t.to.instants)}

(* find_conflicts, for the lead this request leaves. *)
Clashes(t) ==
  {k \in Jobs \ {t.job} :
     /\ jobs[k] # None
     /\ t.to.lead # None /\ jobs[k].lead = t.to.lead
     /\ Whole(t.to.instants) /\ Whole(jobs[k].instants)
     /\ Overlap(jobs[k].instants, t.to.instants)}

(* schedule_job up to and with its clash check: flush, then look.  The      *)
(* CHECK is on the row that the UPDATE leaves.                              *)
CanFlush(w) ==
  /\ Stands(w, "schedule", "flush")
  /\ Free(w, Needs(tx[w]))
  /\ InOrder(Merged(tx[w], jobs[tx[w].job]).instants)
  /\ ~LeadRefused(tx[w], jobs[tx[w].job])

Pass(w) ==
  /\ CanFlush(w)
  /\ tx[w].allow \/ Clashes(tx[w]) = {}
  /\ tx' = [tx EXCEPT ![w].at = "commit"]
  /\ UNCHANGED <<jobs, zone, dialog>>

(* 409: rolled back, and the board offers to book it anyway. *)
Refuse(w) ==
  LET t == tx[w] IN
  /\ CanFlush(w)
  /\ ~t.allow
  /\ Clashes(t) # {}
  /\ dialog' = [dialog EXCEPT ![t.by] =
                  [job |-> t.job, date |-> t.to.date, lead |-> t.to.lead,
                   checked |-> t.checked, told |-> Clashes(t)]]
  /\ tx' = [tx EXCEPT ![w] = None]
  /\ UNCHANGED <<jobs, zone>>

(* Whether t deletes the lead's row that the open request u has loaded. *)
Deletes(t, u) ==
  /\ t.kind = "schedule" /\ u.kind = "schedule" /\ t.job = u.job
  /\ NewLead(t) /\ t.from.lead # None /\ NewLead(u)
  /\ \A v \in {t, u} : Finds(v, jobs[t.job])

(* Other jobs that a commit rebooks after a check are not known to whoever  *)
(* asked for it, nor, after a dialog has opened, to its reader.             *)
Rebooked(j, newJobs) ==
  {k \in Jobs \ {j} : newJobs[k] # jobs[k] /\ newJobs[k].lead # None}

Checked(t) == t.allow \/ t.at = "commit"

ToldAfter(t, newJobs) ==
  IF Checked(t) THEN t.told \cup Rebooked(t.job, newJobs) ELSE t.told

Commit(w, newJobs, newZone) ==
  /\ jobs' = newJobs
  /\ zone' = newZone
  /\ tx' = [v \in Workers |->
              IF v = w THEN None
              ELSE IF Idle(v) \/ tx[v].kind # "schedule" THEN tx[v]
              ELSE [tx[v] EXCEPT !.told = ToldAfter(tx[v], newJobs),
                                 !.gone = @ \/ Deletes(tx[w], tx[v])]]
  /\ \E closed \in {{}, IF tx[w].kind = "schedule" THEN {tx[w].by} ELSE {}} :
       dialog' = [d \in Dispatchers |->
                    IF d \in closed \/ dialog[d] = None THEN None
                    ELSE [dialog[d] EXCEPT !.told = @ \cup Rebooked(dialog[d].job, newJobs)]]

(* The answer to a success closes the dialog of its board, whatever is      *)
(* shown there; if it is lost the dialog stays.                             *)
CommitSchedule(w) ==
  LET t == tx[w] IN
  /\ Stands(w, "schedule", "commit")
  /\ Commit(w, [jobs EXCEPT ![t.job] = Merged(t, @)], zone)

CommitCreate(w) ==
  LET t == tx[w] IN
  /\ Stands(w, "create", "commit")
  /\ InOrder(t.to.instants)
  /\ Commit(w, [jobs EXCEPT ![t.job] = t.to], zone)

(* The SELECT of the open jobs at the address, and their new instants. *)
SelectJobs(w) ==
  LET t == tx[w]
      Here == {j \in Jobs : jobs[j] # None /\ At[j] = t.address}
      Rebuilt(j) == WindowToUtc(Correct[t.address], jobs[j].date, Window[j])
      Stale == {j \in Here : jobs[j].instants # Rebuilt(j)}
  IN
  /\ Stands(w, "address", "select")
  /\ tx' = [tx EXCEPT ![w].at = "commit",
                      ![w].instants = [j \in Stale |-> [from |-> jobs[j].instants,
                                                        to |-> Rebuilt(j)]]]
  /\ UNCHANGED <<jobs, zone, dialog>>

(* The commit flushes them, waiting for the rows. *)
CommitAddress(w) ==
  LET t == tx[w]
      Left(j) == UpdatedPair(t.instants[j].from, t.instants[j].to, jobs[j].instants)
  IN
  /\ Stands(w, "address", "commit")
  /\ Free(w, {<<j, "row">> : j \in DOMAIN t.instants})
  /\ \A j \in DOMAIN t.instants : InOrder(Left(j))
  /\ Commit(w, [j \in Jobs |-> IF j \in DOMAIN t.instants
                               THEN [jobs[j] EXCEPT !.instants = Left(j)]
                               ELSE jobs[j]],
               [zone EXCEPT ![t.address] = Correct[t.address]])

(* A constraint refuses (500), the connection or the thread is lost. *)
Abort(w) ==
  /\ ~Idle(w)
  /\ tx' = [tx EXCEPT ![w] = None]
  /\ UNCHANGED <<jobs, zone, dialog>>

-----------------------------------------------------------------------------
Request(w) ==
  \/ \E j \in Jobs, date \in Dates : BeginCreate(w, j, date)
  \/ \E d \in Dispatchers, j \in Jobs, date \in Dates, lead \in Leads :
       Drop(w, d, j, date, lead)
  \/ \E d \in Dispatchers : Confirm(w, d)
  \/ \E a \in Addresses : BeginAddress(w, a)

Serve(w) ==
  \/ Pass(w) \/ Refuse(w) \/ SelectJobs(w)
  \/ CommitSchedule(w) \/ CommitCreate(w) \/ CommitAddress(w)
  \/ Abort(w)

Next ==
  \/ \E w \in Workers : Request(w) \/ Serve(w)
  \/ \E d \in Dispatchers : Dismiss(d)

Spec == Init /\ [][Next]_vars

-----------------------------------------------------------------------------
Requests ==
  [kind : {"create"}, at : {"commit"}, job : Jobs, from : {None}, to : Rows,
   newest : {FALSE}, met : SUBSET Jobs]
  \cup
  [kind : {"schedule"}, at : {"flush", "commit"}, by : Dispatchers, job : Jobs,
   from : Rows, to : Rows, allow : BOOLEAN, gone : BOOLEAN, newest : BOOLEAN,
   met : SUBSET Jobs, checked : Instants, told : SUBSET Jobs]

Corrections(js) ==
  [kind : {"address"}, at : {"select", "commit"},
   address : {a \in Addresses : Correct[a] # None /\ \A j \in js : At[j] = a},
   instants : [js -> [from : Instants, to : Instants]], newest : {FALSE},
   met : SUBSET Jobs]

Boxes == [job : Jobs, date : Dates, lead : Leads, checked : Instants, told : SUBSET Jobs]

ASSUME NoneIsNoRecord ==
  /\ None \notin Rows /\ None \notin Requests /\ None \notin Boxes
  /\ \A js \in SUBSET Jobs : None \notin Corrections(js)

(* Every variable keeps its type, no job is stored with an interval that is *)
(* empty or reversed (the CHECK of migration 0002, which `create_job`,      *)
(* `schedule_job` and `update_address` each meet at their own flush, for    *)
(* the row that their UPDATE of some columns leaves), and no board has two  *)
(* requests that are both its latest.                                       *)
TypeOK ==
  /\ jobs \in [Jobs -> Rows \cup {None}]
  /\ \A j \in Jobs : jobs[j] # None /\ Whole(jobs[j].instants)
                      => jobs[j].instants[1] < jobs[j].instants[2]
  /\ zone \in [Addresses -> Zones]
  /\ DOMAIN tx = Workers
  /\ \A w \in Workers :
       \/ tx[w] \in Requests \cup {None}
       \/ \E js \in SUBSET Jobs : tx[w] \in Corrections(js)
  /\ \A v, w \in Workers, d \in Dispatchers : Latest(v, d) /\ Latest(w, d) => v = w
  /\ dialog \in [Dispatchers -> Boxes \cup {None}]

(* Every request that writes a job's date, or the zone of its address,      *)
(* leaves the instants of that job the ones its date and window promise on  *)
(* the clock of its address, through the night of a clock change too        *)
(* (recompute_window in `create_job`, `schedule_job` and `update_address`,  *)
(* routers/jobs.py and customers.py).  It holds unless two of them          *)
(* overlapped over the job: update_address selects the jobs once and        *)
(* writes at its commit, and a booking reads the zone once and writes after *)
(* it.                                                                      *)
RequestsLeaveInstantsRight ==
  [][\A w \in Workers :
       ~Idle(w) /\ tx'[w] = None /\ <<jobs, zone>>' # <<jobs, zone>> =>
         \A j \in JobsOf(tx[w]) :
           jobs'[j] # None /\ j \notin tx[w].met => InstantsRight(j)']_vars

(* The two jobs need their one lead at the same moment. *)
DoubleBooked(j, k) ==
  /\ jobs[j] # None /\ jobs[k] # None
  /\ jobs[j].lead # None /\ jobs[j].lead = jobs[k].lead
  /\ Whole(jobs[j].instants) /\ Whole(jobs[k].instants)
  /\ Share(jobs[j].instants, jobs[k].instants)

(* The commit of w leaves the booking that was looked at for clashes. *)
AsChecked(w) ==
  /\ jobs'[tx[w].job].lead = tx[w].to.lead
  /\ jobs'[tx[w].job].instants = tx[w].checked

(* When the booking that a board checked is committed and needs somebody    *)
(* twice at one moment, the dispatcher who made it had been shown the other *)
(* job in a dialog, or that other job was rebooked after the check          *)
(* (find_conflicts reads what is committed, `schedule_job` takes no lock on *)
(* the lead, and an override of a dialog checks nothing).  However the      *)
(* drops, refusals, overrides, lost answers and closed dialogs of several   *)
(* boards interleave, such a booking is made over nothing else.             *)
(* It is not said of a commit that leaves other instants or another lead    *)
(* than were checked.  `schedule_job` checks the values of its own session  *)
(* and writes the columns it changed: when another request has changed the  *)
(* others since it loaded the job, or has corrected the zone of the address *)
(* since a dialog opened, what is stored was never checked and may be over  *)
(* any job, in silence.                                                     *)
NobodyIsSurprised ==
  [][\A w \in Workers, j \in Jobs :
       /\ Stands(w, "schedule", "commit") /\ tx[w].job = j
       /\ tx'[w] = None /\ jobs'[j] # jobs[j] /\ AsChecked(w)
       => \A k \in Jobs \ {j} : DoubleBooked(j, k)' => k \in tx[w].told]_vars

(* A move is refused only for jobs that would need the same person at a     *)
(* moment of its own: jobs back to back, in one zone or in two, in one      *)
(* order or the other, are never reported (find_conflicts: "Touching        *)
(* endpoints are not an overlap").  Only an interval of no length can be,   *)
(* which the CHECK does not see when the request sends one column and       *)
(* another request has changed the other.                                   *)
RefusedForAClash ==
  [][\A w \in Workers :
       Stands(w, "schedule", "flush") /\ tx'[w] = None /\ dialog' # dialog =>
         \A k \in dialog'[tx[w].by].told :
           /\ jobs[k].lead = tx[w].to.lead
           /\ \/ Share(jobs[k].instants, tx[w].to.instants)
              \/ /\ ~InOrder(tx[w].to.instants)
                 /\ jobs[tx[w].job].instants # tx[w].from.instants]_vars
=============================================================================
