--------------------------- MODULE BookingsProofs ---------------------------
(***************************************************************************)
(* Proofs about Bookings: the types, that nobody is surprised by a double  *)
(* booking, that refusals are founded, and which requests leave instants   *)
(* right, for any number of jobs, leads, boards, days, zones and of        *)
(* overlapping requests.                                                   *)
(***************************************************************************)
EXTENDS Bookings, SchedulingProofs, TLAPS

Schedules == {t \in Requests : t.kind = "schedule"}

(* What the CHECK lets through at the flush is what is committed ...        *)
Flushed(js, t) ==
  t.kind = "schedule" /\ t.at = "commit" => InOrder(Merged(t, js[t.job]).instants)

FlushedOK == \A w \in Workers : ~Idle(w) => Flushed(jobs, tx[w])

(* ... because nobody else writes the row before it is,                     *)
LocksApart ==
  \A v, w \in Workers : v # w => Holds(v) \cap Holds(w) = {}

(* and a job that is being created is not there, and nobody else creates it. *)
CreatesApart ==
  \A v \in Workers : ~Idle(v) /\ tx[v].kind = "create" =>
    /\ jobs[tx[v].job] = None
    /\ \A u \in Workers \ {v} : ~Idle(u) /\ tx[u].kind = "create" => tx[u].job # tx[v].job

-----------------------------------------------------------------------------
(* The instants of a window are a pair of numbers, or of none. *)
LEMMA InstantsType ==
  ASSUME NEW z \in Zones, NEW date \in Dates, NEW window \in Windows \cup {None}
  PROVE  WindowToUtc(z, date, window) \in Instants
<1>1. CASE date = None \/ window = None
  BY <1>1 DEF WindowToUtc, NoInstants, Instants
<1>2. CASE date # None /\ window # None
  <2>1. date \in Int /\ window[1] \in Int /\ window[2] \in Int
    BY <1>2, BookingsAssumption DEF Dates, Windows
  <2>2. \A t \in Int : ToUtc(z, t) \in Int
    BY ClocksAssumption DEF ToUtc, Turn
  <2>3. DayLength * date + window[1] \in Int /\ DayLength * date + window[2] \in Int
    BY <2>1, ClocksAssumption
  <2> QED BY <1>2, <2>2, <2>3 DEF WindowToUtc, Instants
<1> QED BY <1>1, <1>2

(* What a request is to make of a job is a row. *)
LEMMA BookingType ==
  ASSUME TypeOK, NEW j \in Jobs, NEW date \in Dates, NEW lead \in Leads
  PROVE  Booking(j, date, lead) \in Rows
<1>1. zone[At[j]] \in Zones /\ Window[j] \in Windows \cup {None}
  BY BookingsAssumption DEF TypeOK
<1>2. WindowToUtc(zone[At[j]], date, Window[j]) \in Instants
  BY <1>1, InstantsType
<1> QED BY <1>2 DEF Booking, Rows

(* An UPDATE of some columns leaves a pair ... *)
LEMMA UpdatedPairType ==
  ASSUME NEW from \in Instants, NEW to \in Instants, NEW stored \in Instants
  PROVE  UpdatedPair(from, to, stored) \in Instants
BY DEF UpdatedPair, Updated, Instants

(* ... that is the wanted one if nobody has changed the stored one, or has  *)
(* changed it to the wanted one.                                            *)
LEMMA UpdatedPairIs ==
  ASSUME NEW from \in Instants, NEW to \in Instants
  PROVE  UpdatedPair(from, to, from) = to /\ UpdatedPair(from, to, to) = to
BY DEF UpdatedPair, Updated, Instants

(* An UPDATE that changes neither column leaves what is stored. *)
LEMMA UpdatedPairStays ==
  ASSUME NEW from \in Instants, NEW stored \in Instants
  PROVE  UpdatedPair(from, from, stored) = stored
BY DEF UpdatedPair, Updated, Instants

(* ... and what is left of a row beside others is a row too. *)
LEMMA MergedType ==
  ASSUME NEW t \in Schedules, NEW row \in Rows
  PROVE  Merged(t, row) \in Rows
<1>1. t.to \in Rows /\ t.from \in Rows
  BY DEF Schedules, Requests
<1>2. UpdatedPair(t.from.instants, t.to.instants, row.instants) \in Instants
  BY <1>1, UpdatedPairType DEF Rows
<1> QED BY <1>1, <1>2 DEF Merged, Rows, Leads, Updated

(* The bookkeeping of an open transaction keeps its type. *)
LEMMA RequestType ==
  ASSUME NEW t \in Requests, NEW m \in SUBSET Jobs, NEW b \in BOOLEAN
  PROVE  [t EXCEPT !.met = @ \cup m, !.newest = @ /\ b] \in Requests
<1>1. CASE t.kind = "create"
  BY <1>1 DEF Requests
<1>2. CASE t.kind = "schedule"
  BY <1>2 DEF Requests
<1> QED BY <1>1, <1>2 DEF Requests

(* A correction keeps its type while it meets others. *)
LEMMA CorrectionType ==
  ASSUME NEW js \in SUBSET Jobs, NEW t \in Corrections(js),
         NEW m \in SUBSET Jobs, NEW b \in BOOLEAN
  PROVE  [t EXCEPT !.met = @ \cup m, !.newest = @ /\ b] \in Corrections(js)
BY DEF Corrections

(* An open transaction, as TypeOK has it. *)
Open(t) == t \in Requests \/ \E js \in SUBSET Jobs : t \in Corrections(js)

(* What TypeOK says of one open transaction. *)
LEMMA OpenType ==
  ASSUME TypeOK, NEW w \in Workers, ~Idle(w)
  PROVE  Open(tx[w]) /\ (tx[w].kind = "schedule" => tx[w] \in Schedules)
<1>1. Open(tx[w])
  BY DEF TypeOK, Idle, Open
<1>2. ASSUME NEW js \in SUBSET Jobs, tx[w] \in Corrections(js)
      PROVE  tx[w].kind # "schedule"
  BY <1>2 DEF Corrections
<1> QED BY <1>1, <1>2 DEF Open, Schedules

(* An open transaction is not mistaken for none. *)
LEMMA OpenIsBusy ==
  ASSUME NEW t, Open(t)
  PROVE  t # None
BY NoneIsNoRecord DEF Open

(* Transactions meet over jobs. *)
LEMMA MeetType ==
  ASSUME NEW t, NEW u, Open(t)
  PROVE  Meet(t, u) \in SUBSET Jobs
<1>1. CASE t.kind = "address"
  BY <1>1 DEF Meet, JobsOf
<1>2. CASE t.kind # "address"
  <2>1. t \in Requests
    BY <1>2 DEF Open, Corrections
  <2>2. t.job \in Jobs
    BY <2>1 DEF Requests
  <2> QED BY <1>2, <2>2 DEF Meet, JobsOf
<1> QED BY <1>1, <1>2

-----------------------------------------------------------------------------
(* What becomes of an open transaction when another one begins. *)
Met(v, t, olders) ==
  [tx[v] EXCEPT !.met = @ \cup Meet(tx[v], t), !.newest = @ /\ v \notin olders]

(* One that was open stays open and of its kind when another begins. *)
LEMMA BegunOthers ==
  ASSUME TypeOK, NEW w \in Workers, NEW t, NEW olders, Begin(w, t, olders),
         NEW v \in Workers, v # w
  PROVE  IF Idle(v) THEN tx'[v] = None
         ELSE /\ tx'[v] = Met(v, t, olders)
              /\ Open(tx'[v])
              /\ tx[v] \in Schedules => tx'[v] \in Schedules
<1>1. CASE Idle(v)
  BY <1>1 DEF Begin
<1>2. CASE ~Idle(v)
  <2>1. tx'[v] = Met(v, t, olders)
    BY <1>2 DEF Begin, Met
  <2>2. Open(tx[v])
    BY <1>2, OpenType
  <2>3. Meet(tx[v], t) \in SUBSET Jobs
    BY <2>2, MeetType
  <2>4. CASE tx[v] \in Requests
    <3>1. Met(v, t, olders) \in Requests
      BY <2>3, <2>4, RequestType DEF Met
    <3>2. tx[v] \in Schedules => Met(v, t, olders).kind = "schedule"
      BY DEF Met, Schedules, Requests
    <3> QED BY <1>2, <2>1, <3>1, <3>2 DEF Open, Schedules
  <2>5. ASSUME NEW js \in SUBSET Jobs, tx[v] \in Corrections(js)
        PROVE  Open(tx'[v]) /\ tx[v] \notin Schedules
    <3>1. Met(v, t, olders) \in Corrections(js)
      BY <2>3, <2>5, CorrectionType DEF Met
    <3>2. tx[v] \notin Schedules
      BY <2>5 DEF Corrections, Schedules
    <3> QED BY <2>1, <3>1, <3>2 DEF Open
  <2> QED BY <1>2, <2>1, <2>2, <2>4, <2>5 DEF Open
<1> QED BY <1>1, <1>2

(* A transaction and what it becomes while its handler does nothing. *)
Same(t, u) ==
  /\ u.kind = t.kind
  /\ t \in Schedules =>
       /\ u \in Schedules
       /\ u.at = t.at /\ u.by = t.by /\ u.job = t.job /\ u.allow = t.allow
       /\ u.from = t.from /\ u.to = t.to /\ u.gone = t.gone
       /\ u.checked = t.checked /\ u.told = t.told

(* Meeting others changes nothing else of a transaction. *)
LEMMA SameWhenMet ==
  ASSUME NEW t, Open(t), NEW m \in SUBSET Jobs
  PROVE  Open([t EXCEPT !.met = m]) /\ Same(t, [t EXCEPT !.met = m])
<1> DEFINE u == [t EXCEPT !.met = m]
<1> SUFFICES Open(u) /\ Same(t, u)
  OBVIOUS
<1>1. CASE t \in Requests
  <2>1. CASE t.kind = "create"
    <3>1. u \in Requests /\ u.kind = t.kind
      BY <1>1, <2>1 DEF Requests
    <3>2. t \notin Schedules
      BY <2>1 DEF Schedules
    <3> QED BY <3>1, <3>2 DEF Open, Same
  <2>2. CASE t.kind = "schedule"
    <3>1. u \in Requests /\ u.kind = "schedule"
      BY <1>1, <2>2 DEF Requests
    <3>2. /\ u.at = t.at /\ u.by = t.by /\ u.job = t.job /\ u.allow = t.allow
          /\ u.from = t.from /\ u.to = t.to /\ u.gone = t.gone
          /\ u.checked = t.checked /\ u.told = t.told
      BY <1>1, <2>2 DEF Requests
    <3> HIDE DEF u
    <3> QED BY <2>2, <3>1, <3>2 DEF Open, Same, Schedules
  <2> QED BY <1>1, <2>1, <2>2 DEF Requests
<1>2. ASSUME NEW js \in SUBSET Jobs, t \in Corrections(js)
      PROVE  Open(u) /\ Same(t, u)
  <2>1. u \in Corrections(js) /\ u.kind = t.kind
    BY <1>2 DEF Corrections
  <2>2. t \notin Schedules
    BY <1>2 DEF Corrections, Schedules
  <2> HIDE DEF u
  <2> QED BY <2>1, <2>2 DEF Open, Same
<1> HIDE DEF u
<1> QED BY <1>1, <1>2 DEF Open

(* The request that begins, having met the open ones. *)
LEMMA BegunOwn ==
  ASSUME TypeOK, NEW w \in Workers, NEW t, NEW olders, Begin(w, t, olders), Open(t)
  PROVE  Open(tx'[w]) /\ Same(t, tx'[w])
<1> DEFINE m == UNION {Meet(t, tx[u]) : u \in {v \in Workers : ~Idle(v)}}
<1>1. tx'[w] = [t EXCEPT !.met = m]
  BY DEF Begin
<1>2. m \in SUBSET Jobs
  BY MeetType
<1> HIDE DEF m
<1>3. Open([t EXCEPT !.met = m]) /\ Same(t, [t EXCEPT !.met = m])
  BY <1>2, SameWhenMet
<1> QED BY ONLY <1>1, <1>3, Zenon

(* A request that begins keeps the types.                                   *)
LEMMA BeginKeeps ==
  ASSUME TypeOK, NEW w \in Workers, NEW t, NEW olders, Begin(w, t, olders),
         Open(t),
         t.kind = "schedule" =>
           t \in Schedules /\ t.at = "flush"
           /\ \A v \in Workers : From(v, t.by) => v \in olders
  PROVE  TypeOK'
<1>1. Open(tx'[w]) /\ Same(t, tx'[w])
  BY BegunOwn
<1>2. \A v \in Workers \ {w} :
        IF Idle(v) THEN tx'[v] = None
        ELSE /\ tx'[v] = Met(v, t, olders)
             /\ Open(tx'[v])
             /\ tx[v] \in Schedules => tx'[v] \in Schedules
  BY BegunOthers
<1>3. DOMAIN tx' = Workers /\ jobs' = jobs /\ zone' = zone /\ dialog' = dialog
  BY DEF Begin
<1>4. tx'[w].kind = t.kind /\ (t \in Schedules => tx'[w].by = t.by)
  BY <1>1 DEF Same
<1>5. ASSUME NEW v \in Workers \ {w}, ~Idle(v)
      PROVE  /\ tx'[v].kind = tx[v].kind
             /\ tx[v] \in Schedules =>
                  /\ tx'[v].by = tx[v].by
                  /\ tx'[v].newest => tx[v].newest /\ v \notin olders
  <2>1. Open(tx[v])
    BY <1>5, OpenType
  <2>2. tx'[v] = Met(v, t, olders)
    BY <1>2, <1>5
  <2> QED BY <2>1, <2>2 DEF Met, Open, Requests, Corrections, Schedules
<1>6. ASSUME NEW v \in Workers \ {w}, NEW d \in Dispatchers, Latest(v, d)'
      PROVE  Latest(v, d) /\ v \notin olders
  <2>1. ~Idle(v)
    BY <1>2, <1>6 DEF Latest, From, Idle
  <2>2. tx[v] \in Schedules
    BY <1>5, <1>6, <2>1, OpenType DEF Latest, From
  <2> QED BY <1>5, <1>6, <2>1, <2>2 DEF Latest, From
<1>7. ASSUME NEW v \in Workers, NEW u \in Workers, NEW d \in Dispatchers,
             Latest(v, d)', Latest(u, d)'
      PROVE  v = u
  <2>1. CASE v # w /\ u # w
    BY <1>6, <1>7, <2>1 DEF TypeOK
  <2>2. ASSUME NEW x \in Workers \ {w}, Latest(x, d)', Latest(w, d)'
        PROVE  FALSE
    <3>1. t.kind = "schedule" /\ t.by = d
      BY <1>4, <2>2 DEF Latest, From
    <3>2. From(x, d) /\ x \notin olders
      BY <1>6, <2>2 DEF Latest
    <3> QED BY <3>1, <3>2
  <2> QED BY <1>7, <2>1, <2>2
<1>8. ASSUME NEW v \in Workers
      PROVE  tx'[v] = None \/ Open(tx'[v])
  <2>1. CASE v = w
    BY <1>1, <2>1
  <2>2. CASE v # w
    <3>1. CASE Idle(v)
      BY <1>2, <2>2, <3>1
    <3>2. CASE ~Idle(v)
      BY <1>2, <2>2, <3>2
    <3> QED BY <3>1, <3>2
  <2> QED BY <2>1, <2>2
<1> QED BY <1>3, <1>7, <1>8 DEF TypeOK, Open

-----------------------------------------------------------------------------
(* What an open transaction may become without beginning anything. *)
Continues(t, u) ==
  /\ Open(u)
  /\ u.kind = "schedule" => t.kind = "schedule" /\ u.by = t.by /\ u.newest = t.newest

OrderedJobs(newJobs) ==
  /\ newJobs \in [Jobs -> Rows \cup {None}]
  /\ \A j \in Jobs : newJobs[j] # None => InOrder(newJobs[j].instants)

(* A step that begins no transaction keeps the types. *)
LEMMA ContinuesKeeps ==
  ASSUME TypeOK, OrderedJobs(jobs'), zone' \in [Addresses -> Zones],
         dialog' \in [Dispatchers -> Boxes \cup {None}],
         DOMAIN tx' = Workers,
         \A v \in Workers : tx'[v] = None \/ (~Idle(v) /\ Continues(tx[v], tx'[v]))
  PROVE  TypeOK'
<1>1. \A v \in Workers, d \in Dispatchers : Latest(v, d)' => Latest(v, d)
  BY DEF Latest, From, Idle, Continues
<1>2. \A v \in Workers : tx'[v] = None \/ Open(tx'[v])
  BY DEF Continues
<1>3. \A v, u \in Workers, d \in Dispatchers : Latest(v, d)' /\ Latest(u, d)' => v = u
  BY <1>1 DEF TypeOK
<1>4. \A j \in Jobs : jobs'[j] # None /\ Whole(jobs'[j].instants)
                         => jobs'[j].instants[1] < jobs'[j].instants[2]
  BY DEF OrderedJobs, InOrder
<1> QED BY <1>2, <1>3, <1>4 DEF TypeOK, OrderedJobs, Open

(* TypeOK says of the stored intervals what the CHECK says. *)
LEMMA JobsOrdered ==
  ASSUME TypeOK
  PROVE  OrderedJobs(jobs)
BY DEF TypeOK, OrderedJobs, InOrder

(* A transaction that does nothing continues. *)
LEMMA ContinuesItself ==
  ASSUME TypeOK, NEW v \in Workers, ~Idle(v)
  PROVE  Continues(tx[v], tx[v])
BY OpenType DEF Continues

(* What a commit does to the other open transactions. *)
LEMMA CommitOthers ==
  ASSUME TypeOK, NEW w \in Workers, NEW newJobs, NEW newZone,
         Commit(w, newJobs, newZone), NEW v \in Workers, v # w, ~Idle(v)
  PROVE  IF tx[v].kind # "schedule" THEN tx'[v] = tx[v]
         ELSE /\ tx'[v] \in Schedules
              /\ tx'[v].at = tx[v].at /\ tx'[v].by = tx[v].by
              /\ tx'[v].job = tx[v].job /\ tx'[v].allow = tx[v].allow
              /\ tx'[v].from = tx[v].from /\ tx'[v].to = tx[v].to
              /\ tx'[v].newest = tx[v].newest /\ tx'[v].met = tx[v].met
              /\ tx'[v].checked = tx[v].checked
              /\ tx'[v].told = ToldAfter(tx[v], newJobs)
              /\ tx'[v].gone = (tx[v].gone \/ Deletes(tx[w], tx[v]))
<1>1. CASE tx[v].kind # "schedule"
  BY <1>1 DEF Commit
<1>2. CASE tx[v].kind = "schedule"
  <2> DEFINE told == ToldAfter(tx[v], newJobs)
             gone == tx[v].gone \/ Deletes(tx[w], tx[v])
  <2>1. tx[v] \in Requests
    BY <1>2, OpenType DEF Schedules
  <2>2. told \in SUBSET Jobs
    <3>1. tx[v].told \in SUBSET Jobs
      BY <1>2, <2>1 DEF Requests
    <3> QED BY <3>1 DEF ToldAfter, Rebooked
  <2>3. gone \in BOOLEAN
    OBVIOUS
  <2>4. tx'[v] = [tx[v] EXCEPT !.told = told, !.gone = gone]
    BY <1>2 DEF Commit
  <2> HIDE DEF told, gone
  <2> DEFINE u == [tx[v] EXCEPT !.told = told, !.gone = gone]
  <2>5. u \in Requests /\ u.kind = "schedule"
    BY <1>2, <2>1, <2>2, <2>3 DEF Requests
  <2>6. /\ u.at = tx[v].at /\ u.by = tx[v].by
        /\ u.job = tx[v].job /\ u.allow = tx[v].allow
        /\ u.from = tx[v].from /\ u.to = tx[v].to
        /\ u.newest = tx[v].newest /\ u.met = tx[v].met
        /\ u.checked = tx[v].checked /\ u.told = told
        /\ u.gone = gone
    BY <1>2, <2>1 DEF Requests
  <2>7. tx'[v] = u
    BY <2>4
  <2> HIDE DEF u
  <2> QED BY <1>2, <2>5, <2>6, <2>7 DEF Schedules, told, gone
<1> QED BY <1>1, <1>2

(* ... and to the dialogs. *)
LEMMA CommitDialogs ==
  ASSUME TypeOK, NEW w \in Workers, NEW newJobs, NEW newZone,
         Commit(w, newJobs, newZone)
  PROVE  /\ dialog' \in [Dispatchers -> Boxes \cup {None}]
         /\ \A d \in Dispatchers : dialog'[d] # None =>
              /\ dialog[d] # None
              /\ dialog'[d].job = dialog[d].job /\ dialog'[d].date = dialog[d].date
              /\ dialog'[d].lead = dialog[d].lead
              /\ dialog'[d].checked = dialog[d].checked
              /\ dialog'[d].told = dialog[d].told \cup Rebooked(dialog[d].job, newJobs)
<1>1. PICK closed : dialog' =
        [d \in Dispatchers |->
           IF d \in closed \/ dialog[d] = None THEN None
           ELSE [dialog[d] EXCEPT !.told = @ \cup Rebooked(dialog[d].job, newJobs)]]
  BY DEF Commit
<1>2. ASSUME NEW d \in Dispatchers, dialog[d] # None
      PROVE  /\ dialog[d] \in Boxes
             /\ dialog[d].told \cup Rebooked(dialog[d].job, newJobs) \in SUBSET Jobs
  <2>1. dialog[d] \in Boxes
    BY <1>2 DEF TypeOK
  <2>2. dialog[d].told \in SUBSET Jobs
    BY <2>1 DEF Boxes
  <2> QED BY <2>1, <2>2 DEF Rebooked
<1>3. ASSUME NEW d \in Dispatchers
      PROVE  /\ dialog'[d] \in Boxes \cup {None}
             /\ dialog'[d] # None =>
                  /\ dialog[d] # None
                  /\ dialog'[d].job = dialog[d].job /\ dialog'[d].date = dialog[d].date
                  /\ dialog'[d].lead = dialog[d].lead
                  /\ dialog'[d].checked = dialog[d].checked
                  /\ dialog'[d].told = dialog[d].told \cup Rebooked(dialog[d].job, newJobs)
  BY <1>1, <1>2 DEF Boxes
<1> QED BY <1>1, <1>3

(* A commit keeps the types when what it writes has them. *)
LEMMA CommitKeeps ==
  ASSUME TypeOK, NEW w \in Workers, NEW newJobs, NEW newZone,
         Commit(w, newJobs, newZone), OrderedJobs(newJobs),
         newZone \in [Addresses -> Zones]
  PROVE  TypeOK'
<1>1. tx'[w] = None /\ DOMAIN tx' = Workers /\ jobs' = newJobs /\ zone' = newZone
  BY DEF Commit
<1>2. ASSUME NEW v \in Workers, v # w, Idle(v)
      PROVE  tx'[v] = None
  BY <1>2 DEF Commit, Idle
<1>3. ASSUME NEW v \in Workers, v # w, ~Idle(v)
      PROVE  Continues(tx[v], tx'[v])
  <2>1. Continues(tx[v], tx[v])
    BY <1>3, ContinuesItself
  <2>2. CASE tx[v].kind # "schedule"
    BY <1>3, <2>1, <2>2, CommitOthers
  <2>3. CASE tx[v].kind = "schedule"
    <3>1. /\ tx'[v] \in Schedules
          /\ tx'[v].at = tx[v].at /\ tx'[v].by = tx[v].by
          /\ tx'[v].from = tx[v].from /\ tx'[v].to = tx[v].to
          /\ tx'[v].newest = tx[v].newest
      BY <1>3, <2>3, CommitOthers
    <3> QED BY <2>1, <2>3, <3>1 DEF Continues, Open, Schedules
  <2> QED BY <2>2, <2>3
<1>4. dialog' \in [Dispatchers -> Boxes \cup {None}]
  BY CommitDialogs
<1>5. OrderedJobs(jobs') /\ zone' \in [Addresses -> Zones]
  BY <1>1 DEF OrderedJobs
<1>6. \A v \in Workers : tx'[v] = None \/ (~Idle(v) /\ Continues(tx[v], tx'[v]))
  BY <1>1, <1>2, <1>3
<1> QED BY <1>1, <1>4, <1>5, <1>6, ContinuesKeeps

-----------------------------------------------------------------------------
(* What is to be changed is there. *)
SelectedOK ==
  \A w \in Workers : ~Idle(w) =>
    /\ tx[w].kind = "address" => \A j \in DOMAIN tx[w].instants : jobs[j] # None
    /\ tx[w].kind = "schedule" => jobs[tx[w].job] # None

(* A step that writes no job leaves the selected jobs where they are. *)
LEMMA SelectionStays ==
  ASSUME SelectedOK, jobs' = jobs,
         \A v \in Workers :
           \/ tx'[v] = None
           \/ /\ ~Idle(v) /\ tx'[v].kind = tx[v].kind
              /\ tx[v].kind = "address" => tx'[v].instants = tx[v].instants
              /\ tx[v].kind = "schedule" => tx'[v].job = tx[v].job
  PROVE  SelectedOK'
BY DEF SelectedOK, Idle

(* A request that begins, on a job that is there, keeps this. *)
LEMMA BeginSelects ==
  ASSUME TypeOK, SelectedOK, NEW w \in Workers, NEW t, NEW olders,
         Begin(w, t, olders), Open(t), t.kind = "address" => t \in Corrections({}),
         t.kind = "schedule" => t \in Schedules /\ jobs[t.job] # None
  PROVE  SelectedOK'
<1>1. jobs' = jobs
  BY DEF Begin
<1>2. ASSUME tx'[w].kind = "address"
      PROVE  DOMAIN tx'[w].instants = {}
  <2>1. t \in Corrections({})
    BY <1>2, BegunOwn DEF Same
  <2> DEFINE m == UNION {Meet(t, tx[u]) : u \in {v \in Workers : ~Idle(v)}}
  <2>2. tx'[w] = [t EXCEPT !.met = m]
    BY DEF Begin
  <2> HIDE DEF m
  <2>3. [t EXCEPT !.met = m].instants = t.instants
    BY <2>1 DEF Corrections
  <2>4. DOMAIN t.instants = {}
    BY <2>1 DEF Corrections
  <2> QED BY ONLY <2>2, <2>3, <2>4, Zenon
<1>3. ASSUME NEW v \in Workers, v # w, ~Idle(v)
      PROVE  /\ tx'[v].kind = tx[v].kind
             /\ tx[v].kind = "address" => tx'[v].instants = tx[v].instants
             /\ tx[v].kind = "schedule" => tx'[v].job = tx[v].job
  <2>1. tx'[v] = Met(v, t, olders)
    BY <1>3, BegunOthers
  <2>2. /\ Met(v, t, olders).kind = tx[v].kind
        /\ tx[v].kind = "address" => Met(v, t, olders).instants = tx[v].instants
        /\ tx[v].kind = "schedule" => Met(v, t, olders).job = tx[v].job
    BY <1>3, OpenType DEF Met, Open, Requests, Corrections
  <2> QED BY <2>1, <2>2
<1>4. ASSUME NEW v \in Workers, v # w, Idle(v)
      PROVE  tx'[v] = None
  BY <1>4 DEF Begin, Idle
<1>5. tx'[w].kind = "schedule" => jobs'[tx'[w].job] # None
  BY <1>1, BegunOwn DEF Same
<1>6. ASSUME NEW v \in Workers, v # w, ~Idle(v)
      PROVE  /\ tx'[v].kind = "address" =>
                  \A j \in DOMAIN tx'[v].instants : jobs'[j] # None
             /\ tx'[v].kind = "schedule" => jobs'[tx'[v].job] # None
  BY <1>1, <1>3, <1>6 DEF SelectedOK
<1> QED BY <1>2, <1>4, <1>5, <1>6 DEF SelectedOK, Idle

-----------------------------------------------------------------------------
(* Each action keeps the types. *)
LEMMA AskKeeps ==
  ASSUME TypeOK, SelectedOK, NEW w \in Workers, NEW d \in Dispatchers, NEW j \in Jobs,
         NEW date \in Dates, NEW lead \in Leads, NEW allow \in BOOLEAN,
         NEW checked \in Instants, NEW told \in SUBSET Jobs,
         jobs[j] # None, Ask(w, d, j, date, lead, allow, checked, told)
  PROVE  TypeOK' /\ SelectedOK'
<1> DEFINE t == [kind |-> "schedule", at |-> "flush", by |-> d, job |-> j,
                 from |-> jobs[j], to |-> Booking(j, date, lead), allow |-> allow,
                 gone |-> FALSE, newest |-> TRUE, met |-> {},
                 checked |-> checked, told |-> told]
           olders == {v \in Workers : From(v, d)}
<1>1. t \in Schedules
  <2>1. jobs[j] \in Rows
    BY DEF TypeOK
  <2>2. Booking(j, date, lead) \in Rows
    BY BookingType
  <2> QED BY <2>1, <2>2 DEF Schedules, Requests
<1>2. Open(t)
  BY <1>1 DEF Open, Schedules
<1>3. Begin(w, t, olders)
  BY DEF Ask
<1>4. t.kind = "schedule" /\ t.at = "flush" /\ t.by = d
  OBVIOUS
<1>5. \A v \in Workers : From(v, t.by) => v \in olders
  BY <1>4
<1>6. jobs[t.job] # None
  OBVIOUS
<1> HIDE DEF t, olders
<1> QED BY <1>1, <1>2, <1>3, <1>4, <1>5, <1>6, BeginKeeps, BeginSelects

(* POST /jobs keeps the types. *)
LEMMA BeginCreateKeeps ==
  ASSUME TypeOK, SelectedOK, NEW w \in Workers, NEW j \in Jobs, NEW date \in Dates,
         BeginCreate(w, j, date)
  PROVE  TypeOK' /\ SelectedOK'
<1> DEFINE t == [kind |-> "create", at |-> "commit", job |-> j, from |-> None,
                 to |-> Booking(j, date, None), newest |-> FALSE, met |-> {}]
<1>1. t \in Requests
  <2>1. Booking(j, date, None) \in Rows
    BY BookingType DEF Leads
  <2> QED BY <2>1 DEF Requests
<1>2. Open(t) /\ t.kind # "schedule" /\ t.kind # "address"
  BY <1>1 DEF Open
<1>3. Begin(w, t, {})
  BY DEF BeginCreate
<1> HIDE DEF t
<1> QED BY <1>2, <1>3, BeginKeeps, BeginSelects

(* A correction that begins keeps the types. *)
LEMMA BeginAddressKeeps ==
  ASSUME TypeOK, SelectedOK, NEW w \in Workers, NEW a \in Addresses, BeginAddress(w, a)
  PROVE  TypeOK' /\ SelectedOK'
<1> DEFINE t == [kind |-> "address", at |-> "select", address |-> a,
                 instants |-> <<>>, newest |-> FALSE, met |-> {}]
<1>1. t \in Corrections({})
  BY DEF Corrections, BeginAddress
<1>2. Open(t) /\ t.kind # "schedule"
  BY <1>1 DEF Open
<1>3. Begin(w, t, {})
  BY DEF BeginAddress
<1> HIDE DEF t
<1> QED BY <1>1, <1>2, <1>3, BeginKeeps, BeginSelects

(* A flush without a clash keeps the types. *)
LEMMA PassKeeps ==
  ASSUME TypeOK, SelectedOK, NEW w \in Workers, Pass(w)
  PROVE  TypeOK' /\ SelectedOK'
<1>1. ~Idle(w) /\ tx[w] \in Schedules /\ tx[w] \in Requests /\ tx[w].kind = "schedule"
  BY OpenType DEF Pass, CanFlush, Stands, Schedules
<1> DEFINE u == [tx[w] EXCEPT !.at = "commit"]
<1>2. u \in Requests /\ u.kind = "schedule" /\ u.by = tx[w].by /\ u.newest = tx[w].newest
      /\ u.to = tx[w].to /\ u.from = tx[w].from /\ u.job = tx[w].job
  BY <1>1 DEF Requests
<1>3. tx'[w] = u /\ DOMAIN tx' = Workers /\ \A v \in Workers \ {w} : tx'[v] = tx[v]
  BY DEF Pass, TypeOK
<1> HIDE DEF u
<1>5. Continues(tx[w], u)
  BY <1>1, <1>2 DEF Continues, Open
<1>6. ASSUME NEW v \in Workers
      PROVE  tx'[v] = None \/ (~Idle(v) /\ Continues(tx[v], tx'[v]))
  <2>1. CASE v = w
    BY ONLY <1>1, <1>3, <1>5, <2>1, Zenon
  <2>2. CASE v # w
    BY <1>3, <2>2, ContinuesItself DEF Idle
  <2> QED BY <2>1, <2>2
<1>7. jobs' = jobs /\ zone' = zone /\ dialog' = dialog
  BY DEF Pass
<1>8. /\ OrderedJobs(jobs') /\ zone' \in [Addresses -> Zones]
      /\ dialog' \in [Dispatchers -> Boxes \cup {None}]
  BY <1>7, JobsOrdered DEF TypeOK, OrderedJobs
<1>9. SelectedOK'
  BY <1>1, <1>2, <1>3, <1>7, SelectionStays DEF Idle
<1> QED BY <1>3, <1>6, <1>8, <1>9, ContinuesKeeps

(* A request that ends without writing keeps the types. *)
LEMMA EndKeeps ==
  ASSUME TypeOK, SelectedOK, NEW w \in Workers, tx' = [tx EXCEPT ![w] = None],
         jobs' = jobs, zone' = zone, dialog' \in [Dispatchers -> Boxes \cup {None}]
  PROVE  TypeOK' /\ SelectedOK'
<1>1. /\ OrderedJobs(jobs') /\ zone' \in [Addresses -> Zones] /\ DOMAIN tx' = Workers
  BY JobsOrdered DEF TypeOK, OrderedJobs
<1>2. \A v \in Workers : tx'[v] = None \/ (~Idle(v) /\ Continues(tx[v], tx'[v]))
  BY ContinuesItself DEF TypeOK, Idle
<1>3. SelectedOK'
  BY SelectionStays DEF TypeOK, Idle
<1> QED BY <1>1, <1>2, <1>3, ContinuesKeeps

(* A refusal keeps the types. *)
LEMMA RefuseKeeps ==
  ASSUME TypeOK, SelectedOK, NEW w \in Workers, Refuse(w)
  PROVE  TypeOK' /\ SelectedOK'
<1> DEFINE t == tx[w]
           box == [job |-> t.job, date |-> t.to.date, lead |-> t.to.lead,
                   checked |-> t.checked, told |-> Clashes(t)]
<1>1. t \in Requests /\ t.kind = "schedule"
  BY OpenType DEF Refuse, CanFlush, Stands, Schedules
<1>2. box \in Boxes
  BY <1>1 DEF Requests, Rows, Boxes, Clashes
<1>3. dialog' = [dialog EXCEPT ![t.by] = box] /\ tx' = [tx EXCEPT ![w] = None]
      /\ jobs' = jobs /\ zone' = zone
  BY DEF Refuse
<1> HIDE DEF box
<1>4. dialog' \in [Dispatchers -> Boxes \cup {None}]
  BY <1>2, <1>3 DEF TypeOK
<1> HIDE DEF t
<1> QED BY <1>3, <1>4, EndKeeps

(* A rollback keeps the types. *)
LEMMA AbortKeeps ==
  ASSUME TypeOK, SelectedOK, NEW w \in Workers, Abort(w)
  PROVE  TypeOK' /\ SelectedOK'
<1>1. dialog' \in [Dispatchers -> Boxes \cup {None}]
  BY DEF Abort, TypeOK
<1> QED BY <1>1, EndKeeps DEF Abort

(* Closing a dialog keeps the types. *)
LEMMA DismissKeeps ==
  ASSUME TypeOK, SelectedOK, NEW d \in Dispatchers, Dismiss(d)
  PROVE  TypeOK' /\ SelectedOK'
<1>1. /\ OrderedJobs(jobs') /\ zone' \in [Addresses -> Zones] /\ DOMAIN tx' = Workers
      /\ dialog' \in [Dispatchers -> Boxes \cup {None}]
  BY JobsOrdered DEF TypeOK, OrderedJobs, Dismiss
<1>2. \A v \in Workers : tx'[v] = None \/ (~Idle(v) /\ Continues(tx[v], tx'[v]))
  BY ContinuesItself DEF Dismiss, Idle
<1>3. SelectedOK'
  BY SelectionStays DEF Dismiss, Idle
<1> QED BY <1>1, <1>2, <1>3, ContinuesKeeps

(* A dialog is about a job that is there. *)
DialogsOK == \A d \in Dispatchers : dialog[d] # None => jobs[dialog[d].job] # None

(* A commit leaves the dialogs about jobs that are there. *)
LEMMA CommitDialogsOK ==
  ASSUME TypeOK, DialogsOK, NEW w \in Workers, NEW newJobs, NEW newZone,
         Commit(w, newJobs, newZone),
         \A j \in Jobs : jobs[j] # None => newJobs[j] # None
  PROVE  DialogsOK'
<1>1. jobs' = newJobs
  BY DEF Commit
<1>2. ASSUME NEW d \in Dispatchers, dialog'[d] # None
      PROVE  newJobs[dialog'[d].job] # None
  <2>1. dialog[d] # None /\ dialog'[d].job = dialog[d].job
    BY <1>2, CommitDialogs
  <2>2. dialog[d].job \in Jobs
    BY <2>1 DEF TypeOK, Boxes
  <2> QED BY <2>1, <2>2 DEF DialogsOK
<1> QED BY <1>1, <1>2 DEF DialogsOK

(* A commit that deletes no job leaves the selected ones there. *)
LEMMA CommitSelects ==
  ASSUME TypeOK, SelectedOK, NEW w \in Workers, NEW newJobs, NEW newZone,
         Commit(w, newJobs, newZone),
         \A j \in Jobs : jobs[j] # None => newJobs[j] # None
  PROVE  SelectedOK'
<1>1. tx'[w] = None /\ jobs' = newJobs
  BY DEF Commit
<1>2. ASSUME NEW v \in Workers, v # w, Idle(v)
      PROVE  tx'[v] = None
  BY <1>2 DEF Commit, Idle
<1>3. ASSUME NEW v \in Workers, v # w, ~Idle(v), tx'[v].kind = "address"
      PROVE  \A j \in DOMAIN tx'[v].instants : jobs'[j] # None
  <2>1. tx[v].kind # "schedule"
    BY <1>3, CommitOthers DEF Schedules
  <2>2. tx'[v] = tx[v]
    BY <1>3, <2>1, CommitOthers
  <2>3. DOMAIN tx[v].instants \subseteq Jobs
    BY <1>3, <2>2, OpenType DEF Open, Requests, Corrections
  <2> QED BY <1>1, <1>3, <2>2, <2>3 DEF SelectedOK
<1>4. ASSUME NEW v \in Workers, v # w, ~Idle(v), tx'[v].kind = "schedule"
      PROVE  jobs'[tx'[v].job] # None
  <2>1. tx[v].kind = "schedule"
    BY <1>4, CommitOthers
  <2>2. tx'[v].job = tx[v].job
    BY <1>4, <2>1, CommitOthers
  <2>3. tx[v].job \in Jobs
    BY <1>4, <2>1, OpenType DEF Schedules, Requests
  <2> QED BY <1>1, <1>4, <2>1, <2>2, <2>3 DEF SelectedOK
<1> QED BY <1>1, <1>2, <1>3, <1>4 DEF SelectedOK, Idle

(* The SELECT of a correction keeps the types. *)
LEMMA SelectKeeps ==
  ASSUME TypeOK, SelectedOK, NEW w \in Workers, SelectJobs(w)
  PROVE  TypeOK' /\ SelectedOK'
<1> DEFINE t == tx[w]
           Rebuilt(j) == WindowToUtc(Correct[t.address], jobs[j].date, Window[j])
           Stale == {j \in {k \in Jobs : jobs[k] # None /\ At[k] = t.address} :
                       jobs[j].instants # Rebuilt(j)}
           f == [j \in Stale |-> [from |-> jobs[j].instants, to |-> Rebuilt(j)]]
<1>1. ~Idle(w) /\ t.kind = "address"
  BY DEF SelectJobs, Stands
<1>2. PICK js \in SUBSET Jobs : t \in Corrections(js)
  BY <1>1, OpenType DEF Open, Requests
<1>3. Correct[t.address] \in Zones
  BY <1>2, BookingsAssumption DEF Corrections
<1>4. \A j \in Stale : j \in Jobs /\ jobs[j] # None /\ At[j] = t.address
                        /\ Rebuilt(j) \in Instants /\ jobs[j].instants \in Instants
  <2>1. ASSUME NEW j \in Stale
        PROVE  j \in Jobs /\ jobs[j] # None /\ At[j] = t.address
               /\ Rebuilt(j) \in Instants /\ jobs[j].instants \in Instants
    <3>1. j \in Jobs /\ jobs[j] # None /\ At[j] = t.address
      OBVIOUS
    <3>2. jobs[j].date \in Dates /\ Window[j] \in Windows \cup {None}
          /\ jobs[j].instants \in Instants
      BY <3>1, BookingsAssumption DEF TypeOK, Rows
    <3> QED BY <1>3, <3>1, <3>2, InstantsType
  <2> QED BY <2>1
<1>5. f \in [Stale -> [from : Instants, to : Instants]] /\ Stale \in SUBSET Jobs /\ DOMAIN f = Stale
  BY <1>4
<1> DEFINE u == [t EXCEPT !.at = "commit", !.instants = f]
<1>6. tx'[w] = u /\ DOMAIN tx' = Workers /\ \A v \in Workers \ {w} : tx'[v] = tx[v]
  BY DEF SelectJobs, TypeOK
<1>7. jobs' = jobs /\ zone' = zone /\ dialog' = dialog
  BY DEF SelectJobs
<1> HIDE DEF f, Stale
<1>8. u \in Corrections(Stale) /\ u.kind = "address" /\ u.instants = f
  BY <1>2, <1>4, <1>5 DEF Corrections
<1> HIDE DEF u
<1>9. Continues(tx[w], u)
  BY <1>5, <1>8 DEF Continues, Open
<1>10. ASSUME NEW v \in Workers
       PROVE  tx'[v] = None \/ (~Idle(v) /\ Continues(tx[v], tx'[v]))
  <2>1. CASE v = w
    BY ONLY <1>1, <1>6, <1>9, <2>1, Zenon
  <2>2. CASE v # w
    BY <1>6, <2>2, ContinuesItself DEF Idle
  <2> QED BY <2>1, <2>2
<1>11. /\ OrderedJobs(jobs') /\ zone' \in [Addresses -> Zones]
       /\ dialog' \in [Dispatchers -> Boxes \cup {None}]
  BY <1>7, JobsOrdered DEF TypeOK, OrderedJobs
<1>12. TypeOK'
  BY <1>6, <1>10, <1>11, ContinuesKeeps
<1>13. \A j \in DOMAIN tx'[w].instants : jobs'[j] # None
  BY <1>4, <1>5, <1>6, <1>7, <1>8
<1>14. SelectedOK'
  BY <1>6, <1>7, <1>8, <1>13 DEF SelectedOK, Idle
<1> QED BY <1>12, <1>14

(* The commit of a schedule request keeps the types and the dialogs. *)
LEMMA CommitScheduleKeeps ==
  ASSUME TypeOK, FlushedOK, SelectedOK, DialogsOK, NEW w \in Workers, CommitSchedule(w)
  PROVE  TypeOK' /\ SelectedOK' /\ DialogsOK'
<1> DEFINE t == tx[w]
           row == jobs[t.job]
           newJobs == [jobs EXCEPT ![t.job] = Merged(t, row)]
<1>1. Commit(w, newJobs, zone)
  BY DEF CommitSchedule
<1>2. ~Idle(w) /\ t \in Schedules /\ t.job \in Jobs /\ t.kind = "schedule"
      /\ t.at = "commit"
  BY OpenType DEF CommitSchedule, Stands, Schedules, Requests
<1>3. row \in Rows
  BY <1>2 DEF TypeOK, SelectedOK
<1>4. Merged(t, row) \in Rows
  BY <1>2, <1>3, MergedType
<1>5. InOrder(Merged(t, row).instants)
  BY <1>2 DEF FlushedOK, Flushed
<1>6. newJobs \in [Jobs -> Rows \cup {None}]
      /\ \A j \in Jobs : newJobs[j] = IF j = t.job THEN Merged(t, row) ELSE jobs[j]
  BY <1>2, <1>4 DEF TypeOK
<1> HIDE DEF newJobs, t, row
<1>7. OrderedJobs(newJobs)
  BY <1>5, <1>6, JobsOrdered DEF OrderedJobs
<1>8. \A j \in Jobs : jobs[j] # None => newJobs[j] # None
  BY <1>4, <1>6, NoneIsNoRecord
<1>9. zone \in [Addresses -> Zones]
  BY DEF TypeOK
<1> QED BY <1>1, <1>7, <1>8, <1>9, CommitKeeps, CommitSelects, CommitDialogsOK

(* The commit of a new job keeps the types and the dialogs. *)
LEMMA CommitCreateKeeps ==
  ASSUME TypeOK, SelectedOK, DialogsOK, NEW w \in Workers, CommitCreate(w)
  PROVE  TypeOK' /\ SelectedOK' /\ DialogsOK'
<1> DEFINE t == tx[w]
           newJobs == [jobs EXCEPT ![t.job] = t.to]
<1>1. Commit(w, newJobs, zone) /\ InOrder(t.to.instants)
  BY DEF CommitCreate
<1>2. t.to \in Rows /\ t.job \in Jobs
  BY OpenType DEF CommitCreate, Stands, Open, Requests, Corrections
<1>3. newJobs \in [Jobs -> Rows \cup {None}]
      /\ \A j \in Jobs : newJobs[j] = IF j = t.job THEN t.to ELSE jobs[j]
  BY <1>2 DEF TypeOK
<1> HIDE DEF newJobs, t
<1>4. OrderedJobs(newJobs)
  BY <1>1, <1>3, JobsOrdered DEF OrderedJobs
<1>5. \A j \in Jobs : jobs[j] # None => newJobs[j] # None
  BY <1>2, <1>3, NoneIsNoRecord
<1>6. zone \in [Addresses -> Zones]
  BY DEF TypeOK
<1> QED BY <1>1, <1>4, <1>5, <1>6, CommitKeeps, CommitSelects, CommitDialogsOK

(* The commit of a correction keeps the types and the dialogs. *)
LEMMA CommitAddressKeeps ==
  ASSUME TypeOK, SelectedOK, DialogsOK, NEW w \in Workers, CommitAddress(w)
  PROVE  TypeOK' /\ SelectedOK' /\ DialogsOK'
<1> DEFINE t == tx[w]
           Left(j) == UpdatedPair(t.instants[j].from, t.instants[j].to, jobs[j].instants)
           newJobs == [j \in Jobs |-> IF j \in DOMAIN t.instants
                                      THEN [jobs[j] EXCEPT !.instants = Left(j)]
                                      ELSE jobs[j]]
           newZone == [zone EXCEPT ![t.address] = Correct[t.address]]
<1>1. Commit(w, newJobs, newZone) /\ \A j \in DOMAIN t.instants : InOrder(Left(j))
  BY DEF CommitAddress
<1>2. ~Idle(w) /\ t.kind = "address"
  BY DEF CommitAddress, Stands
<1>3. PICK js \in SUBSET Jobs : t \in Corrections(js)
  BY <1>2, OpenType DEF Open, Requests
<1>4. DOMAIN t.instants = js /\ t.instants \in [js -> [from : Instants, to : Instants]]
      /\ t.address \in Addresses /\ Correct[t.address] \in Zones
  BY <1>3, BookingsAssumption DEF Corrections
<1>5. newZone \in [Addresses -> Zones]
  BY <1>4 DEF TypeOK
<1>6. ASSUME NEW j \in js
      PROVE  /\ [jobs[j] EXCEPT !.instants = Left(j)] \in Rows
             /\ [jobs[j] EXCEPT !.instants = Left(j)].instants = Left(j)
  <2>1. jobs[j] \in Rows
    BY <1>2, <1>4 DEF TypeOK, SelectedOK
  <2>2. Left(j) \in Instants
    <3>1. t.instants[j] \in [from : Instants, to : Instants] /\ jobs[j].instants \in Instants
      BY <1>4, <2>1 DEF Rows
    <3>2. t.instants[j].from \in Instants /\ t.instants[j].to \in Instants
      BY <3>1
    <3> QED BY <3>1, <3>2, UpdatedPairType
  <2> HIDE DEF Left
  <2> QED BY <2>1, <2>2 DEF Rows
<1>7. ASSUME NEW j \in Jobs
      PROVE  /\ newJobs[j] \in Rows \cup {None}
             /\ newJobs[j] # None => InOrder(newJobs[j].instants)
             /\ jobs[j] # None => newJobs[j] # None
  <2>1. CASE j \in js
    BY <1>1, <1>4, <1>6, <2>1, NoneIsNoRecord
  <2>2. CASE j \notin js
    BY <1>4, <2>2, JobsOrdered DEF OrderedJobs
  <2> QED BY <2>1, <2>2
<1> HIDE DEF Left
<1>8. newJobs \in [Jobs -> Rows \cup {None}]
  BY <1>7
<1> HIDE DEF newJobs, newZone, t
<1>9. OrderedJobs(newJobs)
  BY <1>7, <1>8 DEF OrderedJobs
<1> QED BY <1>1, <1>5, <1>7, <1>9, CommitKeeps, CommitSelects, CommitDialogsOK

-----------------------------------------------------------------------------
(* Who writes a row keeps the others from it until the end. *)
Apart == FlushedOK /\ LocksApart /\ CreatesApart

(* A transaction that only meets another stands where it stood. *)
StandsStill(v) ==
  /\ ~Idle(v) /\ tx'[v].kind = tx[v].kind
  /\ tx[v].kind # "address" => tx'[v].job = tx[v].job
  /\ tx[v].kind = "schedule" =>
       tx'[v].at = tx[v].at /\ tx'[v].from = tx[v].from /\ tx'[v].to = tx[v].to

(* What it holds it holds on to, and would leave what it would have left. *)
LEMMA StillHolds ==
  ASSUME NEW v \in Workers, StandsStill(v)
  PROVE  /\ Holds(v)' \subseteq Holds(v)
         /\ \A js, row : tx[v].kind = "schedule" =>
              /\ Flushed(js, tx'[v]) <=> Flushed(js, tx[v])
              /\ Merged(tx'[v], row).instants = Merged(tx[v], row).instants
<1>1. Holds(v)' \subseteq Holds(v)
  BY DEF StandsStill, Holds, Stands, Needs, NewRow, NewLead
<1>2. ASSUME NEW row, tx[v].kind = "schedule"
      PROVE  Merged(tx'[v], row).instants = Merged(tx[v], row).instants
  BY <1>2 DEF StandsStill, Merged
<1> QED BY <1>1, <1>2 DEF StandsStill, Flushed

(* A step that writes no job, and after which at most w, which has the locks *)
(* it needs, stands at its commit anew.                                     *)
LEMMA RestApart ==
  ASSUME TypeOK, Apart, jobs' = jobs, NEW w \in Workers,
         \A v \in Workers \ {w} : Idle(v)' \/ StandsStill(v),
         \/ Idle(w)' \/ StandsStill(w)
         \/ /\ tx'[w].kind = "schedule" /\ tx'[w].at # "commit"
         \/ tx'[w].kind = "address"
         \/ /\ tx'[w].kind = "create" /\ jobs[tx'[w].job] = None
            /\ \A v \in Workers : ~Idle(v) /\ tx[v].kind = "create" => tx[v].job # tx'[w].job
         \/ /\ tx'[w].kind = "schedule" /\ Flushed(jobs, tx'[w]) /\ Free(w, Holds(w)')
  PROVE  Apart'
<1> USE DEF Apart
<1>1. \A v \in Workers : Idle(v)' => Holds(v)' = {}
  BY DEF Holds, Stands, Idle
<1>2. ASSUME NEW v \in Workers, StandsStill(v)
      PROVE  Holds(v)' \subseteq Holds(v) /\ (~Idle(v)' => Flushed(jobs', tx'[v]))
  BY <1>2, StillHolds DEF FlushedOK, StandsStill, Flushed
<1>3. FlushedOK'
  <2>1. ~Idle(w)' => Flushed(jobs', tx'[w])
    BY <1>2 DEF Flushed
  <2> QED BY <1>2, <2>1 DEF FlushedOK
<1>4. ASSUME NEW v \in Workers \ {w}
      PROVE  Holds(v)' \subseteq Holds(v)
  BY <1>1, <1>2
<1>5. \/ Holds(w)' \subseteq Holds(w)
      \/ Free(w, Holds(w)')
  <2>1. tx'[w].kind # "schedule" \/ tx'[w].at # "commit" => Holds(w)' = {}
    BY DEF Holds, Stands
  <2> QED BY <1>1, <1>2, <2>1
<1>6. LocksApart'
  <2>1. \A v, u \in Workers \ {w} : v # u => Holds(v)' \cap Holds(u)' = {}
    BY <1>4 DEF LocksApart
  <2>2. \A v \in Workers \ {w} : Holds(v)' \cap Holds(w)' = {}
    BY <1>4, <1>5 DEF LocksApart, Free
  <2> QED BY <2>1, <2>2 DEF LocksApart
<1>7. CreatesApart'
  <2>1. \A v \in Workers \ {w} : ~Idle(v)' /\ tx'[v].kind = "create" =>
          ~Idle(v) /\ tx[v].kind = "create" /\ tx'[v].job = tx[v].job
    BY DEF StandsStill
  <2>2. ~Idle(w)' /\ tx'[w].kind = "create" =>
          /\ jobs[tx'[w].job] = None
          /\ \A v \in Workers \ {w} : ~Idle(v) /\ tx[v].kind = "create" => tx[v].job # tx'[w].job
    BY DEF StandsStill, CreatesApart
  <2> QED BY <2>1, <2>2 DEF CreatesApart
<1> QED BY <1>3, <1>6, <1>7

(* A request that begins stands at no flush yet. *)
LEMMA BeginApart ==
  ASSUME TypeOK, Apart, NEW w \in Workers, NEW t, NEW olders, Begin(w, t, olders), Open(t),
         t.kind = "schedule" => t \in Schedules /\ t.at = "flush",
         t.kind = "create" =>
           /\ jobs[t.job] = None
           /\ \A v \in Workers : ~Idle(v) /\ tx[v].kind = "create" => tx[v].job # t.job
  PROVE  Apart'
<1>1. jobs' = jobs
  BY DEF Begin
<1>2. ASSUME NEW v \in Workers \ {w}
      PROVE  Idle(v)' \/ StandsStill(v)
  <2>1. CASE Idle(v)
    BY <2>1, BegunOthers DEF Idle
  <2>2. CASE ~Idle(v)
    <3>1. tx'[v] = Met(v, t, olders) /\ Open(tx[v])
      BY <2>2, BegunOthers, OpenType
    <3> QED BY <2>2, <3>1 DEF Met, Open, Requests, Corrections, StandsStill
  <2> QED BY <2>1, <2>2
<1>3. /\ tx'[w].kind = t.kind
      /\ t \in Schedules => tx'[w].at = t.at
      /\ t.kind = "create" => tx'[w].job = t.job
  <2>1. Same(t, tx'[w])
    BY BegunOwn
  <2>2. t.kind = "create" => t \in Requests
    BY DEF Open, Corrections
  <2>3. t.kind = "create" => tx'[w].job = t.job
    BY <2>2 DEF Begin, Requests
  <2> QED BY <2>1, <2>3 DEF Same
<1>4. t.kind \in {"create", "schedule", "address"}
  BY DEF Open, Requests, Corrections
<1>5. \/ tx'[w].kind = "schedule" /\ tx'[w].at # "commit"
      \/ tx'[w].kind = "address"
      \/ /\ tx'[w].kind = "create" /\ jobs[tx'[w].job] = None
         /\ \A v \in Workers : ~Idle(v) /\ tx[v].kind = "create" => tx[v].job # tx'[w].job
  BY <1>3, <1>4
<1> QED BY <1>1, <1>2, <1>5, RestApart

(* A commit writes only rows that nobody else has flushed. *)
LEMMA CommitApart ==
  ASSUME TypeOK, SelectedOK, Apart, NEW w \in Workers, ~Idle(w), NEW newJobs, NEW newZone,
         Commit(w, newJobs, newZone), OrderedJobs(newJobs),
         \A j \in Jobs : \/ newJobs[j] = jobs[j]
                         \/ jobs[j] # None /\ newJobs[j] # None
                         \/ tx[w].kind = "create" /\ tx[w].job = j,
         \A j \in Jobs : jobs[j] # None =>
           newJobs[j] # None /\ (newJobs[j].instants = jobs[j].instants
                                  \/ Free(w, {<<j, "row">>}))
  PROVE  Apart'
<1> USE DEF Apart
<1>1. tx'[w] = None /\ jobs' = newJobs
  BY DEF Commit
<1>2. ASSUME NEW v \in Workers, v # w, Idle(v)
      PROVE  Idle(v)'
  BY <1>2 DEF Commit, Idle
<1>3. ASSUME NEW v \in Workers, v # w, ~Idle(v)
      PROVE  StandsStill(v)
  <2>1. CASE tx[v].kind = "schedule"
    BY <1>3, <2>1, CommitOthers DEF StandsStill, Schedules
  <2>2. CASE tx[v].kind # "schedule"
    BY <1>3, <2>2, CommitOthers DEF StandsStill
  <2> QED BY <2>1, <2>2
<1>4. ASSUME NEW v \in Workers, v # w, ~Idle(v), tx[v].kind = "schedule", tx[v].at = "commit"
      PROVE  InOrder(Merged(tx'[v], newJobs[tx[v].job]).instants)
  <2> DEFINE t == tx[v]
             j == t.job
  <2>1. t \in Schedules /\ j \in Jobs /\ t.from \in Rows /\ t.to \in Rows
    BY <1>4, OpenType DEF Schedules, Requests
  <2>2. jobs[j] # None /\ newJobs[j] # None
    BY <1>4, <2>1 DEF SelectedOK
  <2>3. Merged(tx'[v], newJobs[j]).instants = Merged(t, newJobs[j]).instants
    BY <1>3, <1>4, StillHolds
  <2>4. CASE NewRow(t)
    <3>1. <<j, "row">> \in Holds(v)
      BY <1>4, <2>4 DEF Holds, Stands, Needs
    <3>2. newJobs[j].instants = jobs[j].instants
      BY <1>4, <2>1, <2>2, <3>1 DEF Free
    <3>3. Merged(t, newJobs[j]).instants = Merged(t, jobs[j]).instants
      BY <3>2 DEF Merged
    <3>4. InOrder(Merged(t, jobs[j]).instants)
      BY <1>4 DEF FlushedOK, Flushed
    <3> QED BY <2>3, <3>3, <3>4
  <2>5. CASE ~NewRow(t)
    <3>1. newJobs[j] \in Rows /\ InOrder(newJobs[j].instants)
      BY <2>1, <2>2 DEF OrderedJobs
    <3>2. Merged(t, newJobs[j]).instants = newJobs[j].instants
      BY <2>1, <2>5, <3>1, UpdatedPairStays DEF Merged, NewRow, Rows
    <3> QED BY <2>3, <3>1, <3>2
  <2> QED BY <2>4, <2>5
<1>5. FlushedOK'
  <2>1. ASSUME NEW v \in Workers, ~Idle(v)', tx'[v].kind = "schedule", tx'[v].at = "commit"
        PROVE  InOrder(Merged(tx'[v], jobs'[tx'[v].job]).instants)
    <3>1. v # w /\ ~Idle(v)
      BY <1>1, <1>2, <2>1 DEF Idle
    <3>2. tx[v].kind = "schedule" /\ tx[v].at = "commit" /\ tx'[v].job = tx[v].job
      BY <1>3, <2>1, <3>1 DEF StandsStill
    <3> QED BY <1>1, <1>4, <3>1, <3>2
  <2> QED BY <2>1 DEF FlushedOK, Flushed
<1>6. \A v \in Workers : Holds(v)' \subseteq Holds(v)
  <2>1. ASSUME NEW v \in Workers, Idle(v)'
        PROVE  Holds(v)' = {}
    BY <2>1 DEF Holds, Stands, Idle
  <2>2. Idle(w)'
    BY <1>1 DEF Idle
  <2> QED BY <1>2, <1>3, <2>1, <2>2, StillHolds
<1>7. LocksApart'
  BY <1>6 DEF LocksApart
<1>8. ASSUME NEW v \in Workers, ~Idle(v)', tx'[v].kind = "create"
      PROVE  /\ v # w /\ ~Idle(v) /\ tx[v].kind = "create" /\ tx'[v].job = tx[v].job
             /\ jobs'[tx'[v].job] = None
  <2>1. v # w /\ ~Idle(v)
    BY <1>1, <1>2, <1>8 DEF Idle
  <2>2. tx[v].kind = "create" /\ tx'[v].job = tx[v].job
    BY <1>3, <1>8, <2>1 DEF StandsStill
  <2>3. tx[v].job \in Jobs
    BY <2>1, <2>2, OpenType DEF Open, Requests, Corrections
  <2>4. jobs[tx[v].job] = None /\ ~(tx[w].kind = "create" /\ tx[w].job = tx[v].job)
    BY <2>1, <2>2 DEF CreatesApart
  <2> QED BY <1>1, <2>1, <2>2, <2>3, <2>4
<1>9. CreatesApart'
  BY <1>8 DEF CreatesApart
<1> QED BY <1>5, <1>7, <1>9

(* The commit of a schedule request holds the row that it changes. *)
LEMMA CommitScheduleApart ==
  ASSUME TypeOK, TypeOK', SelectedOK, Apart, NEW w \in Workers, CommitSchedule(w)
  PROVE  Apart'
<1> DEFINE t == tx[w]
           newJobs == [jobs EXCEPT ![t.job] = Merged(t, jobs[t.job])]
<1>1. Commit(w, newJobs, zone) /\ jobs' = newJobs
  BY DEF CommitSchedule, Commit
<1>2. ~Idle(w) /\ t \in Schedules /\ t.job \in Jobs /\ jobs[t.job] # None
      /\ t.from \in Rows /\ t.to \in Rows
  BY OpenType DEF CommitSchedule, Stands, Schedules, Requests, SelectedOK
<1>3. newJobs[t.job] = Merged(t, jobs[t.job]) /\ \A j \in Jobs \ {t.job} : newJobs[j] = jobs[j]
  BY <1>2 DEF TypeOK
<1>4. jobs[t.job] \in Rows /\ newJobs[t.job] # None
  BY <1>2, <1>3, MergedType, NoneIsNoRecord DEF TypeOK
<1>5. newJobs[t.job].instants = jobs[t.job].instants \/ Free(w, {<<t.job, "row">>})
  <2>1. CASE NewRow(t)
    <3>1. <<t.job, "row">> \in Holds(w)
      BY <2>1 DEF CommitSchedule, Holds, Needs
    <3> QED BY <3>1 DEF Apart, LocksApart, Free
  <2>2. CASE ~NewRow(t)
    BY <1>2, <1>3, <1>4, <2>2, UpdatedPairStays DEF NewRow, Merged, Rows
  <2> QED BY <2>1, <2>2
<1>6. OrderedJobs(newJobs)
  BY <1>1 DEF TypeOK, OrderedJobs, InOrder
<1> HIDE DEF newJobs, t
<1>7. \A j \in Jobs : newJobs[j] = jobs[j] \/ (jobs[j] # None /\ newJobs[j] # None)
  BY <1>2, <1>3, <1>4
<1>8. \A j \in Jobs : jobs[j] # None =>
        newJobs[j] # None /\ (newJobs[j].instants = jobs[j].instants
                               \/ Free(w, {<<j, "row">>}))
  BY <1>3, <1>4, <1>5
<1> QED BY <1>1, <1>2, <1>6, <1>7, <1>8, CommitApart

(* The commit of a new job touches no other. *)
LEMMA CommitCreateApart ==
  ASSUME TypeOK, TypeOK', SelectedOK, Apart, NEW w \in Workers, CommitCreate(w)
  PROVE  Apart'
<1> DEFINE t == tx[w]
           newJobs == [jobs EXCEPT ![t.job] = t.to]
<1>1. Commit(w, newJobs, zone) /\ jobs' = newJobs
  BY DEF CommitCreate, Commit
<1>2. ~Idle(w) /\ t.kind = "create" /\ t.job \in Jobs /\ jobs[t.job] = None
  BY OpenType DEF CommitCreate, Stands, Open, Requests, Corrections, Apart, CreatesApart
<1>3. \A j \in Jobs \ {t.job} : newJobs[j] = jobs[j]
  BY <1>2 DEF TypeOK
<1>4. OrderedJobs(newJobs)
  BY <1>1 DEF TypeOK, OrderedJobs, InOrder
<1> HIDE DEF newJobs
<1> QED BY <1>1, <1>2, <1>3, <1>4, CommitApart

(* The commit of a correction waits for the rows it writes. *)
LEMMA CommitAddressApart ==
  ASSUME TypeOK, TypeOK', SelectedOK, Apart, NEW w \in Workers, CommitAddress(w)
  PROVE  Apart'
<1> DEFINE t == tx[w]
           Left(j) == UpdatedPair(t.instants[j].from, t.instants[j].to, jobs[j].instants)
           newJobs == [j \in Jobs |-> IF j \in DOMAIN t.instants
                                      THEN [jobs[j] EXCEPT !.instants = Left(j)]
                                      ELSE jobs[j]]
           newZone == [zone EXCEPT ![t.address] = Correct[t.address]]
<1>1. Commit(w, newJobs, newZone) /\ jobs' = newJobs
      /\ Free(w, {<<j, "row">> : j \in DOMAIN t.instants})
  BY DEF CommitAddress, Commit
<1>2. ~Idle(w) /\ t.kind = "address"
  BY DEF CommitAddress, Stands
<1>3. OrderedJobs(newJobs)
  BY <1>1 DEF TypeOK, OrderedJobs, InOrder
<1>4. ASSUME NEW j \in Jobs, j \in DOMAIN t.instants
      PROVE  jobs[j] # None /\ newJobs[j] # None /\ Free(w, {<<j, "row">>})
  <2>1. jobs[j] # None /\ jobs[j] \in Rows
    BY <1>2, <1>4 DEF SelectedOK, TypeOK
  <2>2. newJobs[j] = [jobs[j] EXCEPT !.instants = Left(j)]
    BY <1>4
  <2>3. newJobs[j] # None
    <3>1. newJobs[j] \in Rows \cup {None}
      BY <1>3 DEF OrderedJobs
    <3>2. newJobs[j].date = jobs[j].date /\ newJobs[j].lead = jobs[j].lead
          /\ newJobs[j].instants = Left(j)
          /\ newJobs[j] = [date |-> jobs[j].date, lead |-> jobs[j].lead, instants |-> Left(j)]
      BY <2>1, <2>2 DEF Rows
    <3>3. Left(j) \in Instants
      <4>1. PICK js \in SUBSET Jobs : t \in Corrections(js)
        BY <1>2, OpenType DEF Open, Requests
      <4>2. t.instants[j] \in [from : Instants, to : Instants] /\ jobs[j].instants \in Instants
        BY <1>4, <2>1, <4>1 DEF Corrections, Rows
      <4>3. t.instants[j].from \in Instants /\ t.instants[j].to \in Instants
        BY <4>2
      <4> QED BY <4>2, <4>3, UpdatedPairType
    <3> HIDE DEF newJobs, Left
    <3>4. newJobs[j] \in Rows
      BY <2>1, <3>2, <3>3 DEF Rows
    <3> QED BY <3>4, NoneIsNoRecord
  <2>4. Free(w, {<<j, "row">>})
    BY <1>1, <1>4 DEF Free
  <2> QED BY <2>1, <2>3, <2>4
<1>5. \A j \in Jobs : j \notin DOMAIN t.instants => newJobs[j] = jobs[j]
  OBVIOUS
<1> HIDE DEF newJobs, newZone, t
<1> QED BY <1>1, <1>2, <1>3, <1>4, <1>5, CommitApart

TypesInv == TypeOK /\ SelectedOK /\ DialogsOK /\ Apart

(* The types hold initially. *)
LEMMA InitTypes ==
  ASSUME Init
  PROVE  TypesInv
<1>1. \A w \in Workers : Idle(w)
  BY DEF Init, Idle
<1>2. [date |-> None, lead |-> None, instants |-> NoInstants] \in Rows
  BY DEF Rows, Dates, Leads, Instants, NoInstants
<1>3. jobs \in [Jobs -> Rows \cup {None}]
      /\ \A j \in Jobs : jobs[j] # None => ~Whole(jobs[j].instants)
  BY <1>2 DEF Init, NoInstants, Whole
<1>4. zone \in [Addresses -> Zones] /\ DOMAIN tx = Workers
      /\ dialog \in [Dispatchers -> Boxes \cup {None}]
  BY BookingsAssumption DEF Init
<1>5. \A v \in Workers, d \in Dispatchers : ~Latest(v, d)
  BY <1>1 DEF Latest, From
<1>6. Apart
  BY <1>1 DEF Apart, FlushedOK, LocksApart, CreatesApart, Holds, Stands
<1> QED BY <1>1, <1>3, <1>4, <1>5, <1>6 DEF TypesInv, TypeOK, SelectedOK, DialogsOK, Idle, Init

(* A refusal opens a dialog about a job that is there. *)
LEMMA RefuseDialogsOK ==
  ASSUME TypeOK, SelectedOK, DialogsOK, NEW w \in Workers, Refuse(w)
  PROVE  DialogsOK'
<1> DEFINE t == tx[w]
           box == [job |-> t.job, date |-> t.to.date, lead |-> t.to.lead,
                   checked |-> t.checked, told |-> Clashes(t)]
<1>1. box.job = t.job /\ jobs[t.job] # None
  BY DEF SelectedOK, Refuse, CanFlush, Stands
<1>2. dialog' = [dialog EXCEPT ![t.by] = box] /\ jobs' = jobs
  BY DEF Refuse
<1> HIDE DEF box
<1>3. \A d \in Dispatchers : dialog'[d] = IF d = t.by THEN box ELSE dialog[d]
  BY <1>2 DEF TypeOK
<1> HIDE DEF t
<1> QED BY <1>1, <1>2, <1>3 DEF DialogsOK

(* Every request that begins from a board is one. *)
Asks(w, d, j, lead, allow) ==
  /\ jobs[j] # None
  /\ \E date \in Dates, checked \in Instants, told \in SUBSET Jobs :
       Ask(w, d, j, date, lead, allow, checked, told)

(* What a drop asks for is well formed, *)
LEMMA DropAsks ==
  ASSUME TypeOK, NEW w \in Workers, NEW d \in Dispatchers, NEW j \in Jobs,
         NEW date \in Dates, NEW lead \in Leads, Drop(w, d, j, date, lead)
  PROVE  Asks(w, d, j, lead, FALSE)
<1>1. jobs[j] # None
      /\ Ask(w, d, j, date, lead, FALSE, Booking(j, date, lead).instants, {})
  BY DEF Drop
<1>2. Booking(j, date, lead).instants \in Instants /\ {} \in SUBSET Jobs
  BY BookingType DEF Rows
<1> QED BY <1>1, <1>2 DEF Asks

(* ... and what a confirmation repeats. *)
LEMMA ConfirmAsks ==
  ASSUME TypeOK, DialogsOK, NEW w \in Workers, NEW d \in Dispatchers, Confirm(w, d)
  PROVE  /\ dialog[d].job \in Jobs /\ dialog[d].lead \in Leads
         /\ Asks(w, d, dialog[d].job, dialog[d].lead, TRUE)
<1> DEFINE b == dialog[d]
<1>1. b \in Boxes /\ jobs[b.job] # None
  BY DEF Confirm, TypeOK, DialogsOK
<1>2. /\ b.job \in Jobs /\ b.date \in Dates /\ b.lead \in Leads
      /\ b.checked \in Instants /\ b.told \in SUBSET Jobs
  BY <1>1 DEF Boxes
<1>3. Ask(w, d, b.job, b.date, b.lead, TRUE, b.checked, b.told)
  BY DEF Confirm
<1> HIDE DEF b
<1>4. Asks(w, d, b.job, b.lead, TRUE)
  BY <1>1, <1>2, <1>3 DEF Asks
<1> QED BY <1>2, <1>4 DEF b

(* A schedule request that begins keeps the types. *)
LEMMA AsksKeeps ==
  ASSUME TypesInv, NEW w \in Workers, NEW d \in Dispatchers, NEW j \in Jobs,
         NEW lead \in Leads, NEW allow \in BOOLEAN, Asks(w, d, j, lead, allow)
  PROVE  TypesInv'
<1>1. PICK date \in Dates, checked \in Instants, told \in SUBSET Jobs :
        Ask(w, d, j, date, lead, allow, checked, told)
  BY DEF Asks
<1>2. TypeOK' /\ SelectedOK'
  BY <1>1, AskKeeps DEF TypesInv, Asks
<1>3. DialogsOK'
  BY <1>1 DEF Ask, Begin, DialogsOK, TypesInv
<1> DEFINE t == [kind |-> "schedule", at |-> "flush", by |-> d, job |-> j,
                 from |-> jobs[j], to |-> Booking(j, date, lead), allow |-> allow,
                 gone |-> FALSE, newest |-> TRUE, met |-> {},
                 checked |-> checked, told |-> told]
           olders == {v \in Workers : From(v, d)}
<1>4. t \in Schedules /\ Open(t) /\ t.kind = "schedule" /\ t.at = "flush"
      /\ Begin(w, t, olders)
  <2>1. jobs[j] \in Rows /\ Booking(j, date, lead) \in Rows
    BY BookingType DEF TypeOK, TypesInv, Asks
  <2> QED BY <1>1, <2>1 DEF Schedules, Requests, Open, Ask
<1> HIDE DEF t, olders
<1>5. Apart'
  BY <1>4, BeginApart DEF TypesInv
<1> QED BY <1>2, <1>3, <1>5 DEF TypesInv

(* POST /jobs keeps the types and creates no job that is there. *)
LEMMA BeginCreateTypes ==
  ASSUME TypesInv, NEW w \in Workers, NEW j \in Jobs, NEW date \in Dates,
         BeginCreate(w, j, date)
  PROVE  TypesInv'
<1> USE DEF TypesInv
<1> DEFINE t == [kind |-> "create", at |-> "commit", job |-> j, from |-> None,
                 to |-> Booking(j, date, None), newest |-> FALSE, met |-> {}]
<1>1. Booking(j, date, None) \in Rows
  BY BookingType DEF Leads
<1>2. Open(t) /\ t.kind = "create" /\ t.job = j /\ Begin(w, t, {})
  BY <1>1 DEF Open, Requests, BeginCreate
<1> HIDE DEF t
<1>3. jobs[j] = None
      /\ \A v \in Workers : ~Idle(v) /\ tx[v].kind = "create" => tx[v].job # j
  <2>1. ASSUME NEW v \in Workers, ~Idle(v), tx[v].kind = "create"
        PROVE  tx[v].at = "commit"
    BY <2>1, OpenType DEF Open, Requests, Corrections
  <2> QED BY <2>1 DEF BeginCreate, Stands
<1>4. Apart'
  BY <1>2, <1>3, BeginApart
<1> QED BY <1>4, BeginCreateKeeps DEF BeginCreate, Begin, DialogsOK

(* A correction that begins keeps the types. *)
LEMMA BeginAddressTypes ==
  ASSUME TypesInv, NEW w \in Workers, NEW a \in Addresses, BeginAddress(w, a)
  PROVE  TypesInv'
<1> USE DEF TypesInv
<1> DEFINE t == [kind |-> "address", at |-> "select", address |-> a,
                 instants |-> <<>>, newest |-> FALSE, met |-> {}]
<1>1. t \in Corrections({}) /\ t.kind = "address" /\ Begin(w, t, {})
  BY DEF Corrections, BeginAddress
<1> HIDE DEF t
<1>2. Apart'
  BY <1>1, BeginApart DEF Open
<1> QED BY <1>2, BeginAddressKeeps DEF BeginAddress, Begin, DialogsOK

(* A step that writes no job and begins nothing but, perhaps, a commit. *)
LEMMA PassTypes ==
  ASSUME TypesInv, NEW w \in Workers, Pass(w)
  PROVE  TypesInv'
<1> USE DEF TypesInv
<1> DEFINE t == tx[w]
           u == [t EXCEPT !.at = "commit"]
<1>1. ~Idle(w) /\ t \in Schedules /\ t.kind = "schedule"
  BY OpenType DEF Pass, CanFlush, Stands
<1>2. u.kind = "schedule" /\ u.job = t.job /\ u.from = t.from /\ u.to = t.to
  BY <1>1 DEF Schedules, Requests
<1>3. tx'[w] = u /\ \A v \in Workers \ {w} : tx'[v] = tx[v]
  BY DEF Pass, TypeOK
<1>4. Free(w, Needs(t)) /\ InOrder(Merged(t, jobs[t.job]).instants)
      /\ jobs' = jobs
  BY DEF Pass, CanFlush
<1> HIDE DEF u
<1>5. Flushed(jobs, tx'[w])
  <2>1. Merged(u, jobs[u.job]).instants = Merged(t, jobs[t.job]).instants
    BY <1>2 DEF Merged
  <2> QED BY <1>3, <1>4, <2>1 DEF Flushed
<1>6. Free(w, Holds(w)')
  <2>1. Holds(w)' \subseteq Needs(t)
    BY <1>2, <1>3 DEF Holds, Needs, NewRow, NewLead
  <2> QED BY <1>4, <2>1 DEF Free
<1>7. \A v \in Workers \ {w} : Idle(v)' \/ StandsStill(v)
  BY <1>3 DEF Idle, StandsStill
<1>8. tx'[w].kind = "schedule"
  BY <1>2, <1>3
<1>9. Apart'
  BY <1>4, <1>5, <1>6, <1>7, <1>8, RestApart
<1> QED BY <1>9, PassKeeps DEF Pass, DialogsOK

(* A step that writes no job and takes no lock. *)
LEMMA IdleApart ==
  ASSUME TypeOK, Apart, jobs' = jobs,
         \A v \in Workers : \/ tx'[v] = None
                            \/ tx'[v] = tx[v]
                            \/ ~Idle(v) /\ tx[v].kind = "address" /\ tx'[v].kind = "address"
  PROVE  Apart'
<1>1. \A v \in Workers : Idle(v)' \/ StandsStill(v)
  BY DEF Idle, StandsStill
<1>2. CASE Workers = {}
  BY <1>2 DEF Apart, FlushedOK, LocksApart, CreatesApart
<1>3. ASSUME NEW w \in Workers
      PROVE  Apart'
  BY <1>1, RestApart
<1> QED BY <1>2, <1>3

(* Every step keeps the types. *)
LEMMA StepTypes ==
  ASSUME TypesInv, [Next]_vars
  PROVE  TypesInv'
<1> USE DEF TypesInv
<1>1. ASSUME NEW w \in Workers, NEW j \in Jobs, NEW date \in Dates,
             BeginCreate(w, j, date)
      PROVE  TypesInv'
  BY <1>1, BeginCreateTypes
<1>2. ASSUME NEW w \in Workers, NEW d \in Dispatchers, NEW j \in Jobs, NEW date \in Dates,
             NEW lead \in Leads, Drop(w, d, j, date, lead)
      PROVE  TypesInv'
  <2>1. Asks(w, d, j, lead, FALSE)
    BY <1>2, DropAsks
  <2> QED BY <2>1, AsksKeeps
<1>3. ASSUME NEW w \in Workers, NEW d \in Dispatchers, Confirm(w, d)
      PROVE  TypesInv'
  BY <1>3, ConfirmAsks, AsksKeeps
<1>4. ASSUME NEW w \in Workers, NEW a \in Addresses, BeginAddress(w, a)
      PROVE  TypesInv'
  BY <1>4, BeginAddressTypes
<1>5. ASSUME NEW w \in Workers, Pass(w)
      PROVE  TypesInv'
  BY <1>5, PassTypes
<1>6. ASSUME NEW w \in Workers, Refuse(w)
      PROVE  TypesInv'
  <2>1. Apart'
    BY <1>6, IdleApart DEF Refuse, TypeOK
  <2> QED BY <1>6, <2>1, RefuseKeeps, RefuseDialogsOK
<1>7. ASSUME NEW w \in Workers, SelectJobs(w)
      PROVE  TypesInv'
  <2>1. ~Idle(w) /\ tx[w].kind = "address"
    BY <1>7 DEF SelectJobs, Stands
  <2>2. PICK js \in SUBSET Jobs : tx[w] \in Corrections(js)
    BY <2>1, OpenType DEF Open, Requests
  <2>3. tx'[w].kind = "address" /\ \A v \in Workers \ {w} : tx'[v] = tx[v]
    BY <1>7, <2>2 DEF SelectJobs, Corrections, TypeOK
  <2>4. jobs' = jobs
    BY <1>7 DEF SelectJobs
  <2>5. Apart'
    BY <2>1, <2>3, <2>4, IdleApart
  <2> QED BY <1>7, <2>5, SelectKeeps DEF SelectJobs, DialogsOK
<1>8. ASSUME NEW w \in Workers, CommitSchedule(w)
      PROVE  TypesInv'
  BY <1>8, CommitScheduleKeeps, CommitScheduleApart DEF Apart
<1>9. ASSUME NEW w \in Workers, CommitCreate(w)
      PROVE  TypesInv'
  BY <1>9, CommitCreateKeeps, CommitCreateApart
<1>10. ASSUME NEW w \in Workers, CommitAddress(w)
       PROVE  TypesInv'
  BY <1>10, CommitAddressKeeps, CommitAddressApart
<1>11. ASSUME NEW w \in Workers, Abort(w)
       PROVE  TypesInv'
  <2>1. Apart'
    BY <1>11, IdleApart DEF Abort, TypeOK
  <2> QED BY <1>11, <2>1, AbortKeeps DEF Abort, DialogsOK
<1>12. ASSUME NEW d \in Dispatchers, Dismiss(d)
       PROVE  TypesInv'
  <2>1. TypeOK' /\ SelectedOK'
    BY <1>12, DismissKeeps
  <2>2. DialogsOK'
    BY <1>12 DEF Dismiss, DialogsOK, TypeOK
  <2>3. Apart'
    BY <1>12, IdleApart DEF Dismiss
  <2> QED BY <2>1, <2>2, <2>3
<1>13. CASE UNCHANGED vars
  <2>1. Apart'
    BY <1>13, IdleApart DEF vars
  <2> QED BY <1>13, <2>1 DEF vars, TypeOK, SelectedOK, DialogsOK, Idle, Latest, From
<1> QED
  BY <1>1, <1>2, <1>3, <1>4, <1>5, <1>6, <1>7, <1>8, <1>9, <1>10, <1>11, <1>12, <1>13
  DEF Next, Request, Serve

(* Every variable keeps its type, no job is stored with an empty or a       *)
(* reversed interval, and no board has two latest requests (the CHECK of    *)
(* migration 0002, met at the flushes of `create_job`, `schedule_job` and   *)
(* `update_address`).                                                       *)
THEOREM TypeCorrect == Spec => []TypeOK
<1>1. Init => TypesInv
  BY InitTypes
<1>2. TypesInv /\ [Next]_vars => TypesInv'
  BY StepTypes
<1>3. TypesInv => TypeOK
  BY DEF TypesInv
<1> QED BY <1>1, <1>2, <1>3, PTL DEF Spec

-----------------------------------------------------------------------------
(* Nobody is surprised.  Whatever would collide with the lead and the       *)
(* instants that an open request has had checked is either known to its     *)
(* dispatcher or has been rebooked since the check; and so is whatever      *)
(* would collide with the booking that a dialog is about.  `js` are the     *)
(* jobs, before a step or after it.                                         *)

(* Somebody booked for these instants would be needed by job k at one moment. *)
Surprise(js, lead, instants, k) ==
  /\ js[k] # None
  /\ lead # None /\ lead = js[k].lead
  /\ Whole(instants) /\ Whole(js[k].instants)
  /\ Share(instants, js[k].instants)

Informed(js, t) ==
  /\ ~t.allow => t.checked = t.to.instants
  /\ Checked(t) => \A k \in Jobs \ {t.job} :
       k \in t.told \/ ~Surprise(js, t.to.lead, t.checked, k)

Warned(js, b) ==
  \A k \in Jobs \ {b.job} : k \in b.told \/ ~Surprise(js, b.lead, b.checked, k)

AllInformed ==
  \A w \in Workers : ~Idle(w) /\ tx[w].kind = "schedule" => Informed(jobs, tx[w])

AllWarned ==
  \A d \in Dispatchers : dialog[d] # None => Warned(jobs, dialog[d])

(* Who is bound twice at one moment is bound in overlapping intervals. *)
LEMMA SharedIsOverlapping ==
  ASSUME NEW a \in Instants, NEW b \in Instants, Whole(a), Whole(b), Share(a, b)
  PROVE  Overlap(a, b) /\ Overlap(b, a)
<1>1. a[1] \in Int /\ a[2] \in Int /\ b[1] \in Int /\ b[2] \in Int
  BY DEF Instants, Whole
<1>2. PICK m \in a[1] .. a[2] - 1 : m \in b[1] .. b[2] - 1
  BY DEF Share
<1> QED BY <1>1, <1>2 DEF Overlap

(* find_conflicts reports whatever the booking would collide with. *)
LEMMA ClashesAreSurprises ==
  ASSUME TypeOK, NEW t \in Schedules, NEW k \in Jobs \ {t.job},
         Surprise(jobs, t.to.lead, t.to.instants, k)
  PROVE  k \in Clashes(t)
<1>1. jobs[k] \in Rows /\ t.to \in Rows
  BY DEF Surprise, TypeOK, Schedules, Requests
<1>2. jobs[k].instants \in Instants /\ t.to.instants \in Instants
  BY <1>1 DEF Rows
<1>3. Overlap(jobs[k].instants, t.to.instants)
  BY <1>2, SharedIsOverlapping DEF Surprise
<1> QED BY <1>1, <1>3 DEF Surprise, Clashes

(* A commit is a surprise only to those who are told of it. *)
LEMMA CommitSurprises ==
  ASSUME NEW newJobs, NEW j \in Jobs, NEW k \in Jobs \ {j},
         k \notin Rebooked(j, newJobs), NEW lead, NEW instants,
         ~Surprise(jobs, lead, instants, k)
  PROVE  ~Surprise(newJobs, lead, instants, k)
<1>1. newJobs[k] = jobs[k] \/ newJobs[k].lead = None
  BY DEF Rebooked
<1> QED BY <1>1 DEF Surprise

(* What a request knows, it knows after the commit of another. *)
LEMMA StaysInformed ==
  ASSUME NEW t, NEW u, NEW newJobs, t.job \in Jobs, Informed(jobs, t),
         u.at = t.at, u.job = t.job, u.allow = t.allow, u.to = t.to,
         u.checked = t.checked, u.told = ToldAfter(t, newJobs)
  PROVE  Informed(newJobs, u)
<1>1. Checked(u) = Checked(t)
  BY DEF Checked
<1>2. ASSUME Checked(t), NEW k \in Jobs \ {t.job}, k \notin u.told
      PROVE  ~Surprise(newJobs, t.to.lead, t.checked, k)
  BY <1>2, CommitSurprises DEF Informed, ToldAfter
<1> QED BY <1>1, <1>2 DEF Informed

(* A dialog stays warned over a commit, given what the commit adds to it. *)
LEMMA StaysWarned ==
  ASSUME NEW b, NEW c, NEW newJobs, b.job \in Jobs, Warned(jobs, b),
         c.job = b.job, c.lead = b.lead, c.checked = b.checked,
         c.told = b.told \cup Rebooked(b.job, newJobs)
  PROVE  Warned(newJobs, c)
BY CommitSurprises DEF Warned

(* A commit leaves everybody else informed and warned. *)
LEMMA CommitInforms ==
  ASSUME TypeOK, AllInformed, AllWarned, NEW w \in Workers, NEW newJobs, NEW newZone,
         Commit(w, newJobs, newZone)
  PROVE  AllInformed' /\ AllWarned'
<1>1. tx'[w] = None /\ jobs' = newJobs
  BY DEF Commit
<1>2. ASSUME NEW v \in Workers, v # w, Idle(v)
      PROVE  tx'[v] = None
  BY <1>2 DEF Commit, Idle
<1>3. ASSUME NEW v \in Workers, v # w, ~Idle(v), tx'[v].kind = "schedule"
      PROVE  Informed(newJobs, tx'[v])
  <2>1. tx[v].kind = "schedule"
    BY <1>3, CommitOthers
  <2>2. /\ tx'[v].at = tx[v].at /\ tx'[v].job = tx[v].job /\ tx'[v].allow = tx[v].allow
        /\ tx'[v].to = tx[v].to /\ tx'[v].checked = tx[v].checked
        /\ tx'[v].told = ToldAfter(tx[v], newJobs)
    BY <1>3, <2>1, CommitOthers
  <2>3. tx[v].job \in Jobs
    BY <1>3, <2>1, OpenType DEF Schedules, Requests
  <2>4. Informed(jobs, tx[v])
    BY <1>3, <2>1 DEF AllInformed
  <2> QED BY <2>2, <2>3, <2>4, StaysInformed
<1>4. ASSUME NEW d \in Dispatchers, dialog'[d] # None
      PROVE  Warned(newJobs, dialog'[d])
  <2>1. /\ dialog[d] # None /\ dialog'[d].job = dialog[d].job
        /\ dialog'[d].lead = dialog[d].lead /\ dialog'[d].checked = dialog[d].checked
        /\ dialog'[d].told = dialog[d].told \cup Rebooked(dialog[d].job, newJobs)
    BY <1>4, CommitDialogs
  <2>2. dialog[d].job \in Jobs /\ Warned(jobs, dialog[d])
    BY <2>1 DEF TypeOK, Boxes, AllWarned
  <2> QED BY <2>1, <2>2, StaysWarned
<1> QED BY <1>1, <1>2, <1>3, <1>4 DEF AllInformed, AllWarned, Idle

(* Meeting others leaves a request informed. *)
LEMMA SameIsInformed ==
  ASSUME NEW t \in Schedules, NEW u, Same(t, u), Informed(jobs, t)
  PROVE  Informed(jobs, u)
BY DEF Same, Informed, Checked

(* A request that begins knows what it has to. *)
LEMMA BeginInforms ==
  ASSUME TypeOK, AllInformed, AllWarned, NEW w \in Workers, NEW t, NEW olders,
         Begin(w, t, olders), Open(t),
         t.kind = "schedule" => t \in Schedules /\ Informed(jobs, t)
  PROVE  AllInformed' /\ AllWarned'
<1>1. jobs' = jobs /\ zone' = zone /\ dialog' = dialog
  BY DEF Begin
<1>2. AllWarned'
  BY <1>1 DEF AllWarned, Warned
<1>3. tx'[w].kind = "schedule" => Informed(jobs, tx'[w])
  <2>1. tx'[w].kind = t.kind /\ Same(t, tx'[w])
    BY BegunOwn DEF Same
  <2> QED BY <2>1, SameIsInformed
<1>4. ASSUME NEW v \in Workers, v # w
      PROVE  /\ Idle(v) => tx'[v] = None
             /\ ~Idle(v) /\ tx'[v].kind = "schedule" => Informed(jobs, tx'[v])
  <2>1. CASE Idle(v)
    BY <1>4, <2>1, BegunOthers
  <2>2. CASE ~Idle(v) /\ tx'[v].kind = "schedule"
    <3>1. tx'[v] = Met(v, t, olders) /\ Open(tx[v])
      BY <1>4, <2>2, BegunOthers, OpenType
    <3>2. Met(v, t, olders).kind = tx[v].kind
      BY <3>1 DEF Met, Open, Requests, Corrections
    <3>3. tx[v] \in Schedules /\ Informed(jobs, tx[v])
      BY <2>2, <3>1, <3>2, OpenType DEF AllInformed
    <3>4. /\ tx'[v].at = tx[v].at /\ tx'[v].job = tx[v].job /\ tx'[v].allow = tx[v].allow
          /\ tx'[v].to = tx[v].to
          /\ tx'[v].checked = tx[v].checked /\ tx'[v].told = tx[v].told
      BY <3>1, <3>3 DEF Met, Schedules, Requests
    <3>5. Informed(jobs, tx'[v])
      BY <3>3, <3>4 DEF Informed, Checked
    <3> QED BY <2>2, <3>5
  <2>3. CASE ~Idle(v) /\ tx'[v].kind # "schedule"
    BY <2>3
  <2> QED BY <2>1, <2>2, <2>3
<1>5. AllInformed'
  BY <1>1, <1>3, <1>4 DEF AllInformed, Idle
<1> QED BY <1>2, <1>5

(* A drop is unchecked, and an override keeps what its dialog showed. *)
LEMMA AskInforms ==
  ASSUME TypeOK, AllInformed, AllWarned, NEW w \in Workers, NEW d \in Dispatchers,
         NEW j \in Jobs, NEW date \in Dates, NEW lead \in Leads, NEW allow \in BOOLEAN,
         NEW checked \in Instants, NEW told \in SUBSET Jobs, jobs[j] # None,
         Ask(w, d, j, date, lead, allow, checked, told),
         ~allow => checked = Booking(j, date, lead).instants,
         allow => \A k \in Jobs \ {j} : k \in told \/ ~Surprise(jobs, lead, checked, k)
  PROVE  AllInformed' /\ AllWarned'
<1> DEFINE t == [kind |-> "schedule", at |-> "flush", by |-> d, job |-> j,
                 from |-> jobs[j], to |-> Booking(j, date, lead), allow |-> allow,
                 gone |-> FALSE, newest |-> TRUE, met |-> {},
                 checked |-> checked, told |-> told]
           olders == {v \in Workers : From(v, d)}
<1>1. t \in Schedules
  <2>1. jobs[j] \in Rows
    BY DEF TypeOK
  <2>2. Booking(j, date, lead) \in Rows
    BY BookingType
  <2> QED BY <2>1, <2>2 DEF Schedules, Requests
<1>2. Open(t) /\ Begin(w, t, olders)
  BY <1>1 DEF Open, Schedules, Ask
<1>3. /\ t.at = "flush" /\ t.job = j /\ t.to = Booking(j, date, lead) /\ t.to.lead = lead
      /\ t.allow = allow /\ t.checked = checked /\ t.told = told
  BY DEF Booking
<1> HIDE DEF t, olders
<1>5. Informed(jobs, t)
  BY <1>3 DEF Informed, Checked
<1> QED BY <1>1, <1>2, <1>5, BeginInforms

(* A step that commits nothing and begins nothing. *)
LEMMA RestInforms ==
  ASSUME TypeOK, AllInformed, AllWarned, jobs' = jobs, zone' = zone,
         \A d \in Dispatchers : \/ dialog'[d] = None
                                \/ dialog'[d] = dialog[d]
                                \/ Warned(jobs, dialog'[d]),
         \A v \in Workers : \/ tx'[v] = None
                            \/ tx'[v] = tx[v]
                            \/ Informed(jobs, tx'[v])
                            \/ tx'[v].kind # "schedule"
  PROVE  AllInformed' /\ AllWarned'
<1>1. AllWarned'
  BY DEF AllWarned
<1>2. AllInformed'
  BY DEF AllInformed, Idle
<1> QED BY <1>1, <1>2

(* The check finds what the request would collide with. *)
LEMMA PassInforms ==
  ASSUME TypeOK, AllInformed, AllWarned, NEW w \in Workers, Pass(w)
  PROVE  AllInformed' /\ AllWarned'
<1>1. tx[w] \in Schedules /\ ~Idle(w) /\ Informed(jobs, tx[w])
  BY OpenType DEF Pass, CanFlush, Stands, AllInformed
<1> DEFINE t == tx[w]
           u == [t EXCEPT !.at = "commit"]
<1>2. /\ u.job = t.job /\ u.allow = t.allow /\ u.to = t.to
      /\ u.checked = t.checked /\ u.told = t.told
  BY <1>1 DEF Schedules, Requests
<1>3. /\ tx'[w] = u /\ \A v \in Workers \ {w} : tx'[v] = tx[v]
      /\ jobs' = jobs /\ zone' = zone /\ dialog' = dialog
      /\ t.allow \/ Clashes(t) = {}
  BY DEF Pass, TypeOK
<1> HIDE DEF u, t
<1>4. ASSUME NEW k \in Jobs \ {t.job}, k \notin t.told
      PROVE  ~Surprise(jobs, t.to.lead, t.checked, k)
  <2>1. CASE t.allow
    BY <1>1, <1>4, <2>1 DEF Informed, Checked, t
  <2>2. CASE ~t.allow
    BY <1>1, <1>3, <1>4, <2>2, ClashesAreSurprises DEF Informed, t
  <2> QED BY <2>1, <2>2
<1>5. Informed(jobs, u)
  BY <1>1, <1>2, <1>4 DEF Informed, t
<1>6. \A v \in Workers : tx'[v] = tx[v] \/ Informed(jobs, tx'[v])
  <2>1. Informed(jobs, tx'[w])
    BY ONLY <1>3, <1>5, Zenon
  <2> QED BY <1>3, <2>1
<1>7. \A d \in Dispatchers : dialog'[d] = dialog[d]
  BY <1>3
<1> QED BY <1>3, <1>6, <1>7, RestInforms

(* What a refusal shows is what its booking would collide with. *)
LEMMA RefuseInforms ==
  ASSUME TypeOK, AllInformed, AllWarned, NEW w \in Workers, Refuse(w)
  PROVE  AllInformed' /\ AllWarned'
<1> DEFINE t == tx[w]
           box == [job |-> t.job, date |-> t.to.date, lead |-> t.to.lead,
                   checked |-> t.checked, told |-> Clashes(t)]
<1>1. t \in Schedules /\ ~t.allow /\ Informed(jobs, t)
  BY OpenType DEF Refuse, CanFlush, Stands, AllInformed
<1>2. /\ dialog' = [dialog EXCEPT ![t.by] = box] /\ tx' = [tx EXCEPT ![w] = None]
      /\ jobs' = jobs /\ zone' = zone
  BY DEF Refuse
<1>3. box.job = t.job /\ box.lead = t.to.lead /\ box.checked = t.checked
      /\ box.told = Clashes(t)
  OBVIOUS
<1> HIDE DEF t, box
<1>4. ASSUME NEW k \in Jobs \ {box.job}, k \notin box.told
      PROVE  ~Surprise(jobs, box.lead, box.checked, k)
  BY <1>1, <1>3, <1>4, ClashesAreSurprises DEF Informed
<1>5. Warned(jobs, box)
  BY <1>4 DEF Warned
<1>6. \A d \in Dispatchers : dialog'[d] = dialog[d] \/ Warned(jobs, dialog'[d])
  <2>1. ASSUME NEW d \in Dispatchers
        PROVE  dialog'[d] = dialog[d] \/ dialog'[d] = box
    BY <1>2 DEF TypeOK
  <2> QED BY ONLY <2>1, <1>5, Zenon
<1>7. \A v \in Workers : tx'[v] = None \/ tx'[v] = tx[v]
  BY <1>2 DEF TypeOK
<1> QED BY <1>2, <1>5, <1>6, <1>7, RestInforms

KnowsInv == TypesInv /\ AllInformed /\ AllWarned

(* Every step leaves everybody informed. *)
LEMMA StepKnows ==
  ASSUME KnowsInv, [Next]_vars
  PROVE  KnowsInv'
<1>1. TypesInv' /\ TypeOK /\ SelectedOK /\ DialogsOK /\ AllInformed /\ AllWarned
  BY StepTypes DEF KnowsInv, TypesInv
<1> SUFFICES AllInformed' /\ AllWarned'
  BY <1>1 DEF KnowsInv
<1>2. ASSUME NEW w \in Workers, NEW j \in Jobs, NEW date \in Dates,
             BeginCreate(w, j, date)
      PROVE  AllInformed' /\ AllWarned'
  <2> DEFINE t == [kind |-> "create", at |-> "commit", job |-> j, from |-> None,
                   to |-> Booking(j, date, None), newest |-> FALSE, met |-> {}]
  <2>1. Booking(j, date, None) \in Rows
    BY <1>1, BookingType DEF Leads
  <2>2. Open(t) /\ t.kind # "schedule" /\ Begin(w, t, {})
    BY <1>2, <2>1 DEF Open, Requests, BeginCreate
  <2> HIDE DEF t
  <2> QED BY <1>1, <2>2, BeginInforms
<1>3. ASSUME NEW w \in Workers, NEW d \in Dispatchers, NEW j \in Jobs, NEW date \in Dates,
             NEW lead \in Leads, Drop(w, d, j, date, lead)
      PROVE  AllInformed' /\ AllWarned'
  <2> DEFINE checked == Booking(j, date, lead).instants
  <2>1. jobs[j] # None /\ Ask(w, d, j, date, lead, FALSE, checked, {})
    BY <1>3 DEF Drop
  <2>2. FALSE \in BOOLEAN /\ {} \in SUBSET Jobs /\ checked \in Instants
    BY <1>1, BookingType DEF Rows
  <2>3. checked = Booking(j, date, lead).instants
    OBVIOUS
  <2> HIDE DEF checked
  <2> QED BY <1>1, <2>1, <2>2, <2>3, AskInforms
<1>4. ASSUME NEW w \in Workers, NEW d \in Dispatchers, Confirm(w, d)
      PROVE  AllInformed' /\ AllWarned'
  <2> DEFINE b == dialog[d]
  <2>1. b \in Boxes /\ jobs[b.job] # None /\ Warned(jobs, b)
    BY <1>1, <1>4 DEF Confirm, TypeOK, DialogsOK, AllWarned
  <2>2. /\ b.job \in Jobs /\ b.date \in Dates /\ b.lead \in Leads
        /\ b.checked \in Instants /\ b.told \in SUBSET Jobs
    BY <2>1 DEF Boxes
  <2>3. Ask(w, d, b.job, b.date, b.lead, TRUE, b.checked, b.told)
    BY <1>4 DEF Confirm
  <2> HIDE DEF b
  <2>4. \A k \in Jobs \ {b.job} :
          k \in b.told \/ ~Surprise(jobs, b.lead, b.checked, k)
    BY <2>1 DEF Warned
  <2> QED BY <1>1, <2>1, <2>2, <2>3, <2>4, AskInforms
<1>5. ASSUME NEW w \in Workers, NEW a \in Addresses, BeginAddress(w, a)
      PROVE  AllInformed' /\ AllWarned'
  <2> DEFINE t == [kind |-> "address", at |-> "select", address |-> a,
                   instants |-> <<>>, newest |-> FALSE, met |-> {}]
  <2>1. t \in Corrections({}) /\ t.kind # "schedule"
    BY <1>5 DEF Corrections, BeginAddress
  <2>2. Open(t) /\ Begin(w, t, {})
    BY <1>5, <2>1 DEF Open, BeginAddress
  <2> HIDE DEF t
  <2> QED BY <1>1, <2>1, <2>2, BeginInforms
<1>6. ASSUME NEW w \in Workers, Pass(w)
      PROVE  AllInformed' /\ AllWarned'
  BY <1>1, <1>6, PassInforms
<1>7. ASSUME NEW w \in Workers, Refuse(w)
      PROVE  AllInformed' /\ AllWarned'
  BY <1>1, <1>7, RefuseInforms
<1>8. ASSUME NEW w \in Workers, SelectJobs(w)
      PROVE  AllInformed' /\ AllWarned'
  <2>1. jobs' = jobs /\ zone' = zone /\ dialog' = dialog
        /\ \A v \in Workers \ {w} : tx'[v] = tx[v]
    BY <1>1, <1>8 DEF SelectJobs, TypeOK
  <2>2. tx'[w].kind # "schedule"
    <3>1. tx[w].kind = "address" /\ ~Idle(w)
      BY <1>8 DEF SelectJobs, Stands
    <3>2. PICK js \in SUBSET Jobs : tx[w] \in Corrections(js)
      BY <1>1, <3>1, OpenType DEF Open, Requests
    <3> QED BY <1>1, <1>8, <3>2 DEF SelectJobs, Corrections, TypeOK
  <2> QED BY <1>1, <2>1, <2>2, RestInforms
<1>9. ASSUME NEW w \in Workers, CommitSchedule(w) \/ CommitCreate(w) \/ CommitAddress(w)
      PROVE  AllInformed' /\ AllWarned'
  <2>1. \E newJobs, newZone : Commit(w, newJobs, newZone)
    BY <1>9 DEF CommitSchedule, CommitCreate, CommitAddress
  <2> QED BY <1>1, <2>1, CommitInforms
<1>12. ASSUME NEW w \in Workers, Abort(w)
       PROVE  AllInformed' /\ AllWarned'
  BY <1>1, <1>12, RestInforms DEF Abort, TypeOK
<1>13. ASSUME NEW d \in Dispatchers, Dismiss(d)
       PROVE  AllInformed' /\ AllWarned'
  BY <1>1, <1>13, RestInforms DEF Dismiss, TypeOK
<1>14. CASE UNCHANGED vars
  BY <1>1, <1>14 DEF vars, AllInformed, AllWarned, Idle
<1> QED
  BY <1>2, <1>3, <1>4, <1>5, <1>6, <1>7, <1>8, <1>9, <1>12, <1>13, <1>14
  DEF Next, Request, Serve

(* Initially there is nobody to inform. *)
LEMMA InitKnows ==
  ASSUME Init
  PROVE  KnowsInv
<1>1. \A w \in Workers : Idle(w)
  BY DEF Init, Idle
<1>2. \A d \in Dispatchers : dialog[d] = None
  BY DEF Init
<1> QED BY <1>1, <1>2, InitTypes DEF KnowsInv, AllInformed, AllWarned

(* A request that comes in begins a transaction. *)
LEMMA RequestsBegin ==
  ASSUME NEW u \in Workers, Request(u)
  PROVE  \E t, olders : Begin(u, t, olders)
<1>1. ASSUME NEW j \in Jobs, NEW date \in Dates, BeginCreate(u, j, date)
      PROVE  \E t, olders : Begin(u, t, olders)
  BY <1>1 DEF BeginCreate
<1>2. ASSUME NEW d, NEW j, NEW date, NEW lead, NEW allow, NEW checked, NEW told,
             Ask(u, d, j, date, lead, allow, checked, told)
      PROVE  \E t, olders : Begin(u, t, olders)
  BY <1>2 DEF Ask
<1>3. ASSUME NEW d \in Dispatchers, NEW j \in Jobs, NEW date \in Dates, NEW lead \in Leads,
             Drop(u, d, j, date, lead)
      PROVE  \E t, olders : Begin(u, t, olders)
  BY <1>2, <1>3 DEF Drop
<1>4. ASSUME NEW d \in Dispatchers, Confirm(u, d)
      PROVE  \E t, olders : Begin(u, t, olders)
  BY <1>2, <1>4 DEF Confirm
<1>5. ASSUME NEW a \in Addresses, BeginAddress(u, a)
      PROVE  \E t, olders : Begin(u, t, olders)
  BY <1>5 DEF BeginAddress
<1> QED BY <1>1, <1>3, <1>4, <1>5 DEF Request

(* Only a commit changes a job or a zone, and it ends nobody else's          *)
(* transaction.                                                             *)
LEMMA OnlyCommitsWrite ==
  ASSUME [Next]_vars, <<jobs, zone>>' # <<jobs, zone>>
  PROVE  \E u \in Workers : CommitSchedule(u) \/ CommitCreate(u) \/ CommitAddress(u)
<1>1. ASSUME NEW u \in Workers
      PROVE  ~Request(u)
  BY RequestsBegin DEF Begin
<1>2. ASSUME NEW u \in Workers
      PROVE  ~(Pass(u) \/ Refuse(u) \/ SelectJobs(u) \/ Abort(u))
  BY DEF Pass, Refuse, SelectJobs, Abort
<1>3. \A d \in Dispatchers : ~Dismiss(d)
  BY DEF Dismiss
<1> QED BY <1>1, <1>2, <1>3 DEF vars, Next, Serve

(* A commit ends no request but its own. *)
LEMMA CommitsEndNobody ==
  ASSUME TypesInv, NEW u \in Workers, NEW newJobs, NEW newZone,
         Commit(u, newJobs, newZone), NEW w \in Workers, w # u, ~Idle(w)
  PROVE  tx'[w] # None
<1>1. CASE tx[w].kind = "schedule"
  BY <1>1, CommitOthers, NoneIsNoRecord DEF Schedules, TypesInv
<1>2. CASE tx[w].kind # "schedule"
  BY <1>2, CommitOthers DEF Idle, TypesInv
<1> QED BY <1>1, <1>2

(* When the booking that a board checked is committed and needs somebody    *)
(* twice at one moment, its dispatcher had been shown the other job, or     *)
(* that other job was rebooked after the check (find_conflicts in           *)
(* `schedule_job` and the dialog of DispatchBoard.tsx).  A commit that      *)
(* leaves another lead or other instants than were checked is outside it.   *)
THEOREM NoSurprises == Spec => NobodyIsSurprised
<1>1. ASSUME KnowsInv, [Next]_vars, NEW w \in Workers, NEW j \in Jobs,
             Stands(w, "schedule", "commit"), tx[w].job = j,
             tx'[w] = None, jobs'[j] # jobs[j], AsChecked(w),
             NEW k \in Jobs \ {j}, DoubleBooked(j, k)'
      PROVE  k \in tx[w].told
  <2> DEFINE t == tx[w]
  <2>1. TypeOK /\ TypesInv /\ ~Idle(w) /\ Informed(jobs, t)
    BY <1>1 DEF KnowsInv, TypesInv, AllInformed, Stands
  <2>2. PICK u \in Workers : CommitSchedule(u) \/ CommitCreate(u) \/ CommitAddress(u)
    BY <1>1, OnlyCommitsWrite
  <2>3. PICK newJobs, newZone : Commit(u, newJobs, newZone)
    BY <2>2 DEF CommitSchedule, CommitCreate, CommitAddress
  <2>4. CommitSchedule(w)
    <3>1. u = w
      BY <1>1, <2>1, <2>3, CommitsEndNobody
    <3> QED BY <1>1, <2>2, <3>1 DEF CommitCreate, CommitAddress, Stands
  <2>5. jobs' = [jobs EXCEPT ![t.job] = Merged(t, jobs[t.job])]
    BY <2>4 DEF CommitSchedule, Commit
  <2>6. jobs'[k] = jobs[k]
    BY <1>1, <2>1, <2>5 DEF TypeOK
  <2>7. Surprise(jobs, t.to.lead, t.checked, k)
    BY <1>1, <2>6 DEF DoubleBooked, AsChecked, Surprise
  <2>8. Checked(t)
    BY <1>1 DEF Stands, Checked
  <2> QED BY <1>1, <2>1, <2>7, <2>8 DEF Informed
<1>2. KnowsInv /\ [Next]_vars =>
        [\A w \in Workers, j \in Jobs :
           /\ Stands(w, "schedule", "commit") /\ tx[w].job = j
           /\ tx'[w] = None /\ jobs'[j] # jobs[j] /\ AsChecked(w)
           => \A k \in Jobs \ {j} : DoubleBooked(j, k)' => k \in tx[w].told]_vars
  BY <1>1
<1>3. Init => KnowsInv
  BY InitKnows
<1>4. KnowsInv /\ [Next]_vars => KnowsInv'
  BY StepKnows
<1> QED BY <1>2, <1>3, <1>4, PTL DEF Spec, NobodyIsSurprised

-----------------------------------------------------------------------------
(* A clash that is reported is one: both intervals are in order, the stored *)
(* one because of the CHECK, the wanted one because the flush is first and, *)
(* unless somebody else has changed the job, leaves what is wanted.         *)
LEMMA ClashesShare ==
  ASSUME TypesInv, NEW w \in Workers, CanFlush(w), NEW k \in Clashes(tx[w])
  PROVE  /\ jobs[k].lead = tx[w].to.lead
         /\ \/ Share(jobs[k].instants, tx[w].to.instants)
            \/ /\ ~InOrder(tx[w].to.instants)
               /\ jobs[tx[w].job].instants # tx[w].from.instants
<1> DEFINE t == tx[w]
<1>1. t \in Schedules /\ ~Idle(w) /\ t.from \in Rows /\ t.to \in Rows
  BY OpenType DEF CanFlush, Stands, TypesInv, Schedules, Requests
<1>2. /\ t.to.instants \in Instants /\ k \in Jobs /\ jobs[k] # None
      /\ t.to.lead # None /\ jobs[k].lead = t.to.lead
      /\ Whole(t.to.instants) /\ Whole(jobs[k].instants)
      /\ Overlap(jobs[k].instants, t.to.instants)
  BY <1>1 DEF Clashes, Rows
<1>3. jobs[t.job].instants = t.from.instants => InOrder(t.to.instants)
  <2>1. t.from.instants \in Instants /\ t.to.instants \in Instants
    BY <1>1 DEF Rows
  <2>2. ASSUME jobs[t.job].instants = t.from.instants
        PROVE  Merged(t, jobs[t.job]).instants = t.to.instants
    BY <2>1, <2>2, UpdatedPairIs DEF Merged
  <2> QED BY <2>2 DEF CanFlush
<1>4. jobs[k].instants \in Instants /\ InOrder(jobs[k].instants)
  BY <1>2, JobsOrdered DEF OrderedJobs, TypesInv, TypeOK, Rows
<1>5. InOrder(t.to.instants) => Share(jobs[k].instants, t.to.instants)
  BY <1>2, <1>4, OverlapIsSharing
<1> QED BY <1>2, <1>3, <1>5

(* Only a refusal ends a request before its commit and changes a dialog. *)
LEMMA OnlyRefusalsShow ==
  ASSUME TypesInv, [Next]_vars, NEW w \in Workers, Stands(w, "schedule", "flush"),
         tx'[w] = None, dialog' # dialog
  PROVE  Refuse(w)
<1>1. ~Idle(w) /\ tx[w] # None /\ TypeOK
  BY DEF Stands, Idle, TypesInv
<1>2. ASSUME NEW u \in Workers
      PROVE  ~Request(u) /\ ~Pass(u) /\ ~SelectJobs(u) /\ ~Abort(u)
  BY RequestsBegin DEF Begin, Pass, SelectJobs, Abort
<1>3. ASSUME NEW u \in Workers, Refuse(u)
      PROVE  u = w
  BY <1>1, <1>3 DEF Refuse, TypeOK
<1>4. ASSUME NEW u \in Workers, NEW newJobs, NEW newZone, Commit(u, newJobs, newZone)
      PROVE  u = w
  <2>1. u # w => tx'[w] \in Schedules
    BY <1>1, <1>4, CommitOthers DEF Stands
  <2> QED BY <2>1, NoneIsNoRecord DEF Schedules
<1>5. ASSUME NEW u \in Workers
      PROVE  ~CommitSchedule(u) /\ ~CommitCreate(u) /\ ~CommitAddress(u)
  <2>1. CommitSchedule(u) => u = w
    BY <1>4 DEF CommitSchedule
  <2>2. CommitCreate(u) => u = w
    BY <1>4 DEF CommitCreate
  <2>3. CommitAddress(u) => u = w
    BY <1>4 DEF CommitAddress
  <2> QED BY <2>1, <2>2, <2>3 DEF CommitSchedule, CommitCreate, CommitAddress, Stands
<1>6. ASSUME NEW d \in Dispatchers
      PROVE  ~Dismiss(d)
  BY <1>1 DEF Dismiss
<1> QED BY <1>2, <1>3, <1>5, <1>6 DEF Next, Serve, vars

(* A move is refused only for jobs that would need the same person at a     *)
(* moment of its own; jobs back to back are never reported (find_conflicts: *)
(* "Touching endpoints are not an overlap").  Only an interval of no length *)
(* that is wanted beside another change of the job can be.                  *)
THEOREM RefusalsAreFounded == Spec => RefusedForAClash
<1>1. ASSUME TypesInv, [Next]_vars, NEW w \in Workers, Stands(w, "schedule", "flush"),
             tx'[w] = None, dialog' # dialog,
             NEW k \in dialog'[tx[w].by].told
      PROVE  /\ jobs[k].lead = tx[w].to.lead
             /\ \/ Share(jobs[k].instants, tx[w].to.instants)
                \/ /\ ~InOrder(tx[w].to.instants)
                   /\ jobs[tx[w].job].instants # tx[w].from.instants
  <2> DEFINE t == tx[w]
  <2>1. Refuse(w)
    BY <1>1, OnlyRefusalsShow
  <2>2. t.by \in Dispatchers
    BY <1>1, OpenType DEF Stands, TypesInv, Schedules, Requests
  <2>3. dialog'[t.by].told = Clashes(t)
    BY <1>1, <2>1, <2>2 DEF Refuse, TypesInv, TypeOK
  <2>4. k \in Clashes(t) /\ CanFlush(w)
    BY <1>1, <2>1, <2>3 DEF Refuse
  <2> QED BY <1>1, <2>4, ClashesShare
<1>2. TypesInv /\ [Next]_vars =>
        [\A w \in Workers :
           Stands(w, "schedule", "flush") /\ tx'[w] = None /\ dialog' # dialog =>
             \A k \in dialog'[tx[w].by].told :
               /\ jobs[k].lead = tx[w].to.lead
               /\ \/ Share(jobs[k].instants, tx[w].to.instants)
                  \/ /\ ~InOrder(tx[w].to.instants)
                     /\ jobs[tx[w].job].instants # tx[w].from.instants]_vars
  BY <1>1
<1>3. Init => TypesInv
  BY InitTypes
<1>4. TypesInv /\ [Next]_vars => TypesInv'
  BY StepTypes
<1> QED BY <1>2, <1>3, <1>4, PTL DEF Spec, RefusedForAClash

-----------------------------------------------------------------------------
(* Instants that are right. *)

(* Row r of job j has the instants of its date and window in zone z. *)
Right(z, r, j) == r.instants = WindowToUtc(z, r.date, Window[j])

Kept(z, r, j) ==
  IF r.date = None \/ Window[j] = None THEN r.instants = NoInstants
  ELSE \A n \in {1, 2} :
         /\ r.instants[n] # None
         /\ Promised(z, DayLength * r.date + Window[j][n], r.instants[n])

(* What is promised is what `recompute_window` stores, and nothing else. *)
LEMMA KeptIsRight ==
  ASSUME NEW z \in Zones, NEW r \in Rows, NEW j \in Jobs
  PROVE  Kept(z, r, j) <=> Right(z, r, j)
<1>1. CASE r.date = None \/ Window[j] = None
  BY <1>1 DEF Kept, Right, WindowToUtc
<1>2. CASE r.date # None /\ Window[j] # None
  <2> DEFINE t(n) == DayLength * r.date + Window[j][n]
  <2>1. r.date \in Int /\ Window[j][1] \in Int /\ Window[j][2] \in Int
    BY <1>2, BookingsAssumption DEF Rows, Dates, Windows
  <2>2. t(1) \in Int /\ t(2) \in Int
    BY <2>1, ClocksAssumption
  <2>3. ToUtc(z, t(1)) \in Int /\ ToUtc(z, t(2)) \in Int
    BY <2>2, ClocksAssumption DEF ToUtc, Turn
  <2>4. Promised(z, t(1), ToUtc(z, t(1))) /\ Promised(z, t(2), ToUtc(z, t(2)))
    BY <2>2, PromisesAreKept
  <2>5. WindowToUtc(z, r.date, Window[j]) = <<ToUtc(z, t(1)), ToUtc(z, t(2))>>
    BY <1>2 DEF WindowToUtc
  <2>6. r.instants \in Instants
    BY DEF Rows
  <2>7. Kept(z, r, j) <=> /\ r.instants[1] # None /\ r.instants[2] # None
                          /\ Promised(z, t(1), r.instants[1])
                          /\ Promised(z, t(2), r.instants[2])
    BY <1>2 DEF Kept
  <2> HIDE DEF t
  <2>8. ASSUME Kept(z, r, j)
        PROVE  Right(z, r, j)
    <3>1. r.instants \in Int \X Int
      BY <2>6, <2>7, <2>8 DEF Instants
    <3>2. r.instants[1] = ToUtc(z, t(1)) /\ r.instants[2] = ToUtc(z, t(2))
      BY <2>2, <2>3, <2>4, <2>7, <2>8, <3>1, PromisesAreUnique
    <3> QED BY <2>5, <3>1, <3>2 DEF Right
  <2>9. ASSUME Right(z, r, j)
        PROVE  Kept(z, r, j)
    <3>1. r.instants = <<ToUtc(z, t(1)), ToUtc(z, t(2))>>
      BY <2>5, <2>9 DEF Right
    <3>2. r.instants[1] # None /\ r.instants[2] # None
      BY <2>3, <3>1, NoneIsNoTime
    <3> QED BY <2>4, <2>7, <3>1, <3>2
  <2> QED BY <2>8, <2>9
<1> QED BY <1>1, <1>2

(* Another date gives both ends of a window another instant. *)
LEMMA OtherDateOtherInstants ==
  ASSUME NEW z \in Zones, NEW window \in Windows, NEW c \in Dates, NEW d \in Dates,
         c # d, NEW n \in {1, 2}
  PROVE  WindowToUtc(z, c, window)[n] # WindowToUtc(z, d, window)[n]
<1>1. window # None /\ window[1] \in Int /\ window[2] \in Int
  BY NoneIsNoTime DEF Windows
<1>2. \A e \in Dates \ {None} :
        WindowToUtc(z, e, window) = <<ToUtc(z, DayLength * e + window[1]),
                                      ToUtc(z, DayLength * e + window[2])>>
  BY <1>1 DEF WindowToUtc
<1>3. \A e \in Dates \ {None} : /\ e \in Int
                                /\ ToUtc(z, DayLength * e + window[1]) \in Int
                                /\ ToUtc(z, DayLength * e + window[2]) \in Int
  <2> SUFFICES ASSUME NEW e \in Dates \ {None}
               PROVE  /\ e \in Int
                      /\ ToUtc(z, DayLength * e + window[1]) \in Int
                      /\ ToUtc(z, DayLength * e + window[2]) \in Int
    OBVIOUS
  <2>1. e \in Int /\ DayLength \in Int
    BY BookingsAssumption, ClocksAssumption DEF Dates
  <2>2. DayLength * e \in Int
    BY <2>1
  <2>3. DayLength * e + window[1] \in Int /\ DayLength * e + window[2] \in Int
    BY <1>1, <2>2
  <2> QED BY <2>1, <2>3, ClocksAssumption DEF ToUtc, Turn
<1>4. \A e \in Dates \ {None} : WindowToUtc(z, e, window)[n] # None
  BY <1>2, <1>3, NoneIsNoTime
<1>5. WindowToUtc(z, None, window)[n] = None
  BY DEF WindowToUtc, NoInstants
<1>6. ASSUME NEW e \in Dates \ {None}, NEW f \in Dates \ {None}, e < f
      PROVE  WindowToUtc(z, e, window)[n] # WindowToUtc(z, f, window)[n]
  <2>1. e + 1 <= f /\ e \in Int /\ f \in Int
    BY <1>3, <1>6
  <2>2. DayLength * e + DayLength <= DayLength * f
    <3>1. PICK m \in Nat : f = e + 1 + m
      <4>1. f - e - 1 \in Nat /\ f = e + 1 + (f - e - 1)
        BY <2>1
      <4> QED BY <4>1
    <3>2. DayLength * f = DayLength * e + DayLength + DayLength * m
      BY <2>1, <3>1, ClocksAssumption
    <3>3. DayLength * m \in Nat
      BY <3>1, ClocksAssumption
    <3> QED BY <2>1, <3>2, <3>3, ClocksAssumption
  <2>3. ToUtc(z, DayLength * e + window[n]) # ToUtc(z, DayLength * f + window[n])
    <3>1. DayLength * e \in Int /\ DayLength * f \in Int /\ DayLength \in Int
          /\ window[n] \in Int
      BY <1>1, <2>1, ClocksAssumption
    <3>2. DayLength * e + window[n] \in Int /\ DayLength * f + window[n] \in Int
          /\ (DayLength * e + window[n]) + DayLength <= DayLength * f + window[n]
      BY <2>2, <3>1
    <3> QED BY <3>2, DaysAreApart, NoClockSkipsADay
  <2> QED BY <1>2, <2>3
<1> QED BY <1>3, <1>4, <1>5, <1>6

(* A request that found its job right, or found it as it still is, leaves it *)
(* right.                                                                   *)
LEMMA RightMerges ==
  ASSUME NEW z \in Zones, NEW t \in Schedules, NEW row \in Rows,
         Right(z, t.to, t.job),
         row = t.from \/ (Right(z, row, t.job) /\ Right(z, t.from, t.job))
  PROVE  Right(z, Merged(t, row), t.job)
<1> DEFINE m == Merged(t, row)
           window == Window[t.job]
<1>1. /\ m.date = Updated(t.from.date, t.to.date, row.date)
      /\ m.instants = UpdatedPair(t.from.instants, t.to.instants, row.instants)
  BY DEF Merged
<1> HIDE DEF m
<1>2. /\ t.from \in Rows /\ t.to \in Rows /\ t.job \in Jobs
      /\ t.from.instants \in Instants /\ t.to.instants \in Instants /\ row.instants \in Instants
      /\ t.from.date \in Dates /\ t.to.date \in Dates
      /\ window \in Windows \cup {None}
  BY BookingsAssumption DEF Schedules, Requests, Rows
<1>3. CASE row = t.from
  <2>1. m.date = t.to.date
    BY <1>1, <1>3 DEF Updated
  <2>2. m.instants = t.to.instants
    BY <1>1, <1>2, <1>3, UpdatedPairIs
  <2> QED BY <2>1, <2>2 DEF Right, m
<1>4. CASE Right(z, row, t.job) /\ Right(z, t.from, t.job)
  <2>1. CASE t.from.date = t.to.date
    <3>1. t.from.instants = t.to.instants
      BY <1>4, <2>1 DEF Right
    <3>2. m.instants = row.instants
      BY <1>1, <1>2, <3>1, UpdatedPairStays
    <3>3. m.date = row.date
      BY <1>1, <2>1 DEF Updated
    <3> QED BY <1>4, <3>2, <3>3 DEF Right, m
  <2>2. CASE t.from.date # t.to.date /\ window = None
    <3>1. /\ t.from.instants = NoInstants /\ t.to.instants = NoInstants
          /\ row.instants = NoInstants
      BY <1>4, <2>2 DEF Right, WindowToUtc
    <3>2. m.instants = NoInstants
      BY <1>1, <1>2, <3>1, UpdatedPairStays
    <3> QED BY <2>2, <3>2 DEF Right, WindowToUtc, m
  <2>3. CASE t.from.date # t.to.date /\ window # None
    <3>1. m.date = t.to.date
      BY <1>1, <2>3 DEF Updated
    <3>2. \A n \in {1, 2} : t.from.instants[n] # t.to.instants[n]
      BY <1>2, <1>4, <2>3, OtherDateOtherInstants DEF Right
    <3>3. m.instants = t.to.instants
      BY <1>1, <1>2, <3>2 DEF UpdatedPair, Updated, Instants
    <3> QED BY <3>1, <3>3 DEF Right, m
  <2> QED BY <2>1, <2>2, <2>3
<1> QED BY <1>3, <1>4

-----------------------------------------------------------------------------
(* What an open request has met.  Those that are open over one job have all *)
(* met another over it or none has (Agreed), and none that has not is       *)
(* disturbed: a booking still has the zone it was built with, and the job   *)
(* is as it loaded it or has been right ever since (Unhurt); two bookings   *)
(* find the job right (Paired); and a correction that has selected its jobs *)
(* writes, or leaves, what it should (Unhurt again).                        *)

Mixed(t, u) == (t.kind = "address") # (u.kind = "address")

(* What the commit of a correction makes of row r of job j. *)
Corrected(t, j, r) ==
  IF j \in DOMAIN t.instants
  THEN UpdatedPair(t.instants[j].from, t.instants[j].to, r.instants)
  ELSE r.instants

LeavesRight(t, j, r) ==
  LET wanted == WindowToUtc(Correct[t.address], r.date, Window[j])
  IN  /\ Corrected(t, j, r) = wanted
      /\ j \in DOMAIN t.instants => t.instants[j].to = wanted

Unhurt(js, zs, t) ==
  \A j \in JobsOf(t) \ t.met :
    /\ t.kind # "address" => Right(zs[At[j]], t.to, j)
    /\ t.kind = "schedule" =>
         js[j] = t.from \/ (Right(zs[At[j]], js[j], j) /\ Right(zs[At[j]], t.from, j))
    /\ t.kind = "address" /\ t.at = "commit" /\ js[j] # None =>
         LeavesRight(t, j, js[j])

Agreed ==
  \A v, u \in Workers : ~Idle(v) /\ ~Idle(u) =>
    \A j \in JobsOf(tx[v]) \cap JobsOf(tx[u]) :
      /\ j \in tx[v].met => j \in tx[u].met
      /\ Mixed(tx[v], tx[u]) => j \in tx[v].met

AllUnhurt == \A v \in Workers : ~Idle(v) => Unhurt(jobs, zone, tx[v])

Twins(v, u) ==
  /\ v # u /\ ~Idle(v) /\ ~Idle(u)
  /\ tx[v].kind = "schedule" /\ tx[u].kind = "schedule"
  /\ tx[v].job = tx[u].job /\ tx[v].job \notin tx[v].met

Paired ==
  \A v, u \in Workers : Twins(v, u) =>
    Right(zone[At[tx[v].job]], jobs[tx[v].job], tx[v].job)

MetInv == Agreed /\ AllUnhurt /\ Paired

(* An open transaction whose handler does nothing but meet others. *)
Like(t, u) ==
  /\ u.kind = t.kind /\ JobsOf(u) = JobsOf(t)
  /\ t.kind # "address" => u.job = t.job /\ u.to = t.to
  /\ t.kind = "schedule" => u.from = t.from
  /\ t.kind = "address" => u.address = t.address /\ u.at = t.at /\ u.instants = t.instants

(* Meeting more hurts nobody. *)
LEMMA LikeIsUnhurt ==
  ASSUME NEW t, NEW u, Like(t, u), t.met \subseteq u.met, Unhurt(jobs, zone, t)
  PROVE  Unhurt(jobs, zone, u)
BY DEF Like, Unhurt, LeavesRight, Corrected

(* What a transaction is about: one job, or those of an address. *)
LEMMA JobsOfType ==
  ASSUME NEW t, Open(t)
  PROVE  /\ JobsOf(t) \in SUBSET Jobs
         /\ t.kind # "address" => t.job \in Jobs /\ JobsOf(t) = {t.job}
         /\ t.kind \in {"create", "schedule", "address"}
<1>1. CASE t \in Requests
  BY <1>1 DEF JobsOf, Requests
<1>2. ASSUME NEW js \in SUBSET Jobs, t \in Corrections(js)
      PROVE  t.kind = "address"
  BY <1>2 DEF Corrections
<1> QED BY <1>1, <1>2 DEF Open, JobsOf

(* One that was open only meets the one that begins. *)
LEMMA BegunLike ==
  ASSUME TypeOK, NEW w \in Workers, NEW t, NEW olders, Begin(w, t, olders),
         NEW v \in Workers, v # w, ~Idle(v)
  PROVE  Like(tx[v], tx'[v]) /\ tx'[v].met = tx[v].met \cup Meet(tx[v], t)
<1>1. tx'[v] = Met(v, t, olders) /\ Open(tx[v])
  BY BegunOthers, OpenType
<1> DEFINE u == Met(v, t, olders)
<1>2. CASE tx[v] \in Requests
  <2>1. CASE tx[v].kind = "create"
    BY <1>1, <1>2, <2>1 DEF Met, Like, Requests, JobsOf
  <2>2. CASE tx[v].kind = "schedule"
    BY <1>1, <1>2, <2>2 DEF Met, Like, Requests, JobsOf
  <2> QED BY <1>2, <2>1, <2>2 DEF Requests
<1>3. ASSUME NEW js \in SUBSET Jobs, tx[v] \in Corrections(js)
      PROVE  Like(tx[v], tx'[v]) /\ tx'[v].met = tx[v].met \cup Meet(tx[v], t)
  BY <1>1, <1>3 DEF Met, Like, Corrections, JobsOf
<1> QED BY <1>1, <1>2, <1>3 DEF Open

(* The one that begins only meets those that were open. *)
LEMMA BegunOwnLike ==
  ASSUME TypeOK, NEW w \in Workers, NEW t, NEW olders, Begin(w, t, olders), Open(t)
  PROVE  /\ Like(t, tx'[w])
         /\ \A j : j \in tx'[w].met <=>
                    \E u \in Workers : ~Idle(u) /\ j \in Meet(t, tx[u])
<1> DEFINE m == UNION {Meet(t, tx[u]) : u \in {v \in Workers : ~Idle(v)}}
<1>1. tx'[w] = [t EXCEPT !.met = m]
  BY DEF Begin
<1>2. m \in SUBSET Jobs
  BY MeetType
<1>3. \A j : j \in m <=> \E u \in Workers : ~Idle(u) /\ j \in Meet(t, tx[u])
  OBVIOUS
<1> HIDE DEF m
<1> DEFINE u == [t EXCEPT !.met = m]
<1>4. Like(t, u) /\ u.met = m
  <2>1. CASE t \in Requests
    <3>1. CASE t.kind = "create"
      BY <2>1, <3>1 DEF Like, Requests, JobsOf
    <3>2. CASE t.kind = "schedule"
      BY <2>1, <3>2 DEF Like, Requests, JobsOf
    <3> QED BY <2>1, <3>1, <3>2 DEF Requests
  <2>2. ASSUME NEW js \in SUBSET Jobs, t \in Corrections(js)
        PROVE  Like(t, u) /\ u.met = m
    BY <2>2 DEF Like, Corrections, JobsOf
  <2> QED BY <2>1, <2>2 DEF Open
<1>5. tx'[w] = u
  BY <1>1
<1> HIDE DEF u
<1> QED BY <1>3, <1>4, <1>5

(* What one of them meets over a job, the others that are open over it do. *)
LEMMA MeetingSpreads ==
  ASSUME TypesInv, Agreed, NEW t, Open(t), t.met = {},
         t.kind = "schedule" => jobs[t.job] # None,
         NEW u \in Workers, NEW v \in Workers, ~Idle(u), ~Idle(v),
         NEW j \in Meet(t, tx[u]), j \in JobsOf(tx[v])
  PROVE  j \in tx[v].met \cup Meet(t, tx[v])
<1>1. j \in JobsOf(t) /\ j \in JobsOf(tx[u])
      /\ (Mixed(t, tx[u]) \/ j \in tx[u].met
           \/ (t.kind = "schedule" /\ tx[u].kind = "schedule" /\ ~InstantsRight(j)))
  BY DEF Meet, Mixed
<1>2. Mixed(t, tx[v]) => j \in Meet(t, tx[v])
  BY <1>1 DEF Meet, Mixed
<1>3. Mixed(tx[u], tx[v]) => j \in tx[v].met
  BY <1>1 DEF Agreed, Mixed
<1>4. CASE Mixed(t, tx[u])
  BY <1>2, <1>3, <1>4 DEF Mixed
<1>5. CASE j \in tx[u].met
  BY <1>1, <1>5 DEF Agreed
<1>6. CASE t.kind = "schedule" /\ tx[u].kind = "schedule" /\ ~InstantsRight(j)
  <2>1. Open(tx[v])
    BY OpenType DEF TypesInv
  <2>2. CASE tx[v].kind = "schedule"
    BY <1>1, <1>6, <2>2 DEF Meet
  <2>3. CASE tx[v].kind = "create"
    <3>1. t.job = j /\ tx[v].job = j
      BY <1>1, <1>6, <2>1, <2>3, JobsOfType
    <3> QED BY <1>6, <2>3, <3>1 DEF CreatesApart, Apart, TypesInv
  <2>4. CASE tx[v].kind = "address"
    BY <1>2, <1>6, <2>4 DEF Mixed
  <2> QED BY <2>1, <2>2, <2>3, <2>4, JobsOfType
<1> QED BY <1>1, <1>4, <1>5, <1>6

(* A request that begins unhurt keeps the invariant. *)
LEMMA BeginMeets ==
  ASSUME TypesInv, MetInv, NEW w \in Workers, NEW t, NEW olders, Begin(w, t, olders),
         Open(t), t.met = {}, Unhurt(jobs, zone, t),
         t.kind = "schedule" => jobs[t.job] # None
  PROVE  MetInv'
<1> USE DEF MetInv
<1>1. jobs' = jobs /\ zone' = zone /\ Idle(w) /\ TypeOK
  BY DEF Begin, TypesInv
<1>2. Like(t, tx'[w])
      /\ \A j : j \in tx'[w].met <=> \E u \in Workers : ~Idle(u) /\ j \in Meet(t, tx[u])
  BY <1>1, BegunOwnLike
<1>3. ASSUME NEW v \in Workers \ {w}
      PROVE  /\ Idle(v)' <=> Idle(v)
             /\ ~Idle(v) => Like(tx[v], tx'[v])
                           /\ tx'[v].met = tx[v].met \cup Meet(tx[v], t)
  <2>1. CASE Idle(v)
    BY <1>1, <2>1, BegunOthers DEF Idle
  <2>2. CASE ~Idle(v)
    <3>1. Open(tx'[v])
      BY <1>1, <2>2, BegunOthers
    <3>2. ~Idle(v)'
      BY <3>1, OpenIsBusy DEF Idle
    <3> QED BY <1>1, <2>2, <3>2, BegunLike
  <2> QED BY <2>1, <2>2
<1>4. ASSUME NEW v \in Workers
      PROVE  Meet(tx[v], t) = Meet(t, tx[v])
  BY DEF Meet
<1>5. ASSUME NEW v \in Workers \ {w}, ~Idle(v), NEW j \in JobsOf(t) \cap JobsOf(tx[v])
      PROVE  /\ j \in tx[v].met => j \in Meet(t, tx[v])
             /\ Mixed(t, tx[v]) => j \in Meet(t, tx[v])
  BY <1>5 DEF Meet, Mixed
<1>6. Agreed'
  <2>1. ASSUME NEW v \in Workers, NEW u \in Workers, ~Idle(v)', ~Idle(u)',
               NEW j \in JobsOf(tx'[v]) \cap JobsOf(tx'[u])
        PROVE  /\ j \in tx'[v].met => j \in tx'[u].met
               /\ Mixed(tx'[v], tx'[u]) => j \in tx'[v].met
    <3>1. CASE v # w /\ u # w
      <4>1. /\ ~Idle(v) /\ ~Idle(u) /\ j \in JobsOf(tx[v]) \cap JobsOf(tx[u])
            /\ Mixed(tx'[v], tx'[u]) <=> Mixed(tx[v], tx[u])
            /\ tx'[v].met = tx[v].met \cup Meet(t, tx[v])
            /\ tx'[u].met = tx[u].met \cup Meet(t, tx[u])
        BY <1>3, <1>4, <2>1, <3>1 DEF Like, Mixed
      <4>2. j \in Meet(t, tx[v]) => j \in tx[u].met \cup Meet(t, tx[u])
        BY <4>1, MeetingSpreads
      <4>3. (j \in tx[v].met => j \in tx[u].met) /\ (Mixed(tx[v], tx[u]) => j \in tx[v].met)
        BY <4>1 DEF Agreed
      <4> QED BY <4>1, <4>2, <4>3
    <3>2. CASE v = w /\ u # w
      <4>1. /\ ~Idle(u) /\ j \in JobsOf(t) \cap JobsOf(tx[u])
            /\ Mixed(tx'[v], tx'[u]) <=> Mixed(t, tx[u])
            /\ tx'[u].met = tx[u].met \cup Meet(t, tx[u])
        BY <1>2, <1>3, <1>4, <2>1, <3>2 DEF Like, Mixed
      <4>2. ASSUME j \in tx'[v].met
            PROVE  j \in tx'[u].met
        <5>1. PICK x \in Workers : ~Idle(x) /\ j \in Meet(t, tx[x])
          BY <1>2, <3>2, <4>2
        <5> QED BY <4>1, <5>1, MeetingSpreads
      <4>3. Mixed(t, tx[u]) => j \in tx'[v].met
        BY <1>2, <1>5, <3>2, <4>1
      <4> QED BY <4>1, <4>2, <4>3
    <3>3. CASE v # w /\ u = w
      <4>1. /\ ~Idle(v) /\ j \in JobsOf(t) \cap JobsOf(tx[v])
            /\ Mixed(tx'[v], tx'[u]) <=> Mixed(t, tx[v])
            /\ tx'[v].met = tx[v].met \cup Meet(t, tx[v])
        BY <1>2, <1>3, <1>4, <2>1, <3>3 DEF Like, Mixed
      <4> QED BY <1>2, <1>5, <3>3, <4>1
    <3>4. CASE v = w /\ u = w
      BY <3>4 DEF Mixed
    <3> QED BY <3>1, <3>2, <3>3, <3>4
  <2> QED BY <2>1 DEF Agreed
<1>7. AllUnhurt'
  <2>1. Unhurt(jobs, zone, tx'[w])
    BY <1>2, LikeIsUnhurt
  <2>2. ASSUME NEW v \in Workers \ {w}, ~Idle(v)
        PROVE  Unhurt(jobs, zone, tx'[v])
    BY <1>3, <2>2, LikeIsUnhurt DEF AllUnhurt
  <2> QED BY <1>1, <1>3, <2>1, <2>2 DEF AllUnhurt
<1>8. Paired'
  <2>1. ASSUME NEW v \in Workers, NEW u \in Workers, Twins(v, u)'
        PROVE  Right(zone[At[tx'[v].job]], jobs[tx'[v].job], tx'[v].job)
    <3>1. CASE v # w /\ u # w
      <4>1. Twins(v, u) /\ tx'[v].job = tx[v].job
        BY <1>3, <2>1, <3>1 DEF Twins, Like
      <4> QED BY <4>1 DEF Paired
    <3>2. ASSUME NEW x \in Workers \ {w}, ~Idle(x), tx[x].kind = "schedule",
                 t.kind = "schedule", tx[x].job = t.job, t.job \notin Meet(t, tx[x])
          PROVE  Right(zone[At[t.job]], jobs[t.job], t.job)
      <4>1. t.job \in Jobs /\ JobsOf(t) = {t.job} /\ JobsOf(tx[x]) = {t.job}
        BY <3>2, JobsOfType DEF JobsOf
      <4>2. InstantsRight(t.job)
        BY <3>2, <4>1 DEF Meet
      <4>3. Kept(zone[At[t.job]], jobs[t.job], t.job)
        BY <4>2 DEF InstantsRight, Kept
      <4>4. zone[At[t.job]] \in Zones /\ jobs[t.job] \in Rows
        BY <1>1, <3>2, <4>1, BookingsAssumption DEF TypeOK
      <4> QED BY <4>1, <4>3, <4>4, KeptIsRight
    <3>3. CASE v = w /\ u # w
      <4>1. /\ ~Idle(u) /\ tx[u].kind = "schedule" /\ t.kind = "schedule"
            /\ tx[u].job = t.job /\ tx'[v].job = t.job /\ t.job \notin tx'[w].met
        BY <1>2, <1>3, <2>1, <3>3 DEF Twins, Like
      <4>2. t.job \notin Meet(t, tx[u])
        BY <1>2, <4>1
      <4> QED BY <3>2, <3>3, <4>1, <4>2
    <3>4. CASE v # w /\ u = w
      <4>1. /\ ~Idle(v) /\ tx[v].kind = "schedule" /\ t.kind = "schedule"
            /\ tx[v].job = t.job /\ tx'[v].job = t.job /\ t.job \notin tx'[v].met
        BY <1>2, <1>3, <2>1, <3>4 DEF Twins, Like
      <4>2. t.job \notin Meet(t, tx[v])
        BY <1>3, <1>4, <3>4, <4>1
      <4> QED BY <3>2, <3>4, <4>1, <4>2
    <3>5. v # u
      BY <2>1 DEF Twins
    <3> QED BY <3>1, <3>3, <3>4, <3>5
  <2> QED BY <1>1, <2>1 DEF Paired
<1> QED BY <1>6, <1>7, <1>8

(* A step after which every open transaction is still about the same jobs,  *)
(* has met the same, and is unhurt.                                         *)
Stays(t, u) ==
  /\ u.kind = t.kind /\ JobsOf(u) = JobsOf(t) /\ u.met = t.met
  /\ t.kind # "address" => u.job = t.job

(* Such a step keeps the invariant if jobs that are paired stay right. *)
LEMMA StaysMet ==
  ASSUME TypesInv, MetInv,
         \A v \in Workers : Idle(v)' \/ (~Idle(v) /\ Stays(tx[v], tx'[v])
                                         /\ Unhurt(jobs', zone', tx'[v])),
         \A v, u \in Workers : Twins(v, u) /\ ~Idle(v)' /\ ~Idle(u)' =>
           Right(zone'[At[tx[v].job]], jobs'[tx[v].job], tx[v].job)
  PROVE  MetInv'
<1> USE DEF MetInv
<1>1. ASSUME NEW v \in Workers, ~Idle(v)'
      PROVE  ~Idle(v) /\ Stays(tx[v], tx'[v]) /\ Unhurt(jobs', zone', tx'[v])
  BY <1>1
<1>2. Agreed'
  BY <1>1 DEF Agreed, Stays, Mixed
<1>3. AllUnhurt'
  BY <1>1 DEF AllUnhurt
<1>4. ASSUME NEW v \in Workers, NEW u \in Workers, Twins(v, u)'
      PROVE  Right(zone'[At[tx'[v].job]], jobs'[tx'[v].job], tx'[v].job)
  <2>1. ~Idle(v)' /\ ~Idle(u)'
    BY <1>4 DEF Twins
  <2>2. Twins(v, u) /\ tx'[v].job = tx[v].job
    BY <1>1, <1>4, <2>1 DEF Twins, Stays
  <2> QED BY <2>1, <2>2
<1> QED BY <1>2, <1>3, <1>4 DEF Paired

(* Pass, SelectJobs, and whatever ends a transaction without a commit. *)
LEMMA RestMeets ==
  ASSUME TypesInv, MetInv, jobs' = jobs, zone' = zone,
         \A v \in Workers : \/ Idle(v)'
                            \/ tx'[v] = tx[v]
                            \/ /\ ~Idle(v) /\ Stays(tx[v], tx'[v])
                               /\ Unhurt(jobs, zone, tx'[v])
  PROVE  MetInv'
<1> USE DEF MetInv
<1>1. \A v \in Workers : Idle(v)' \/ (~Idle(v) /\ Stays(tx[v], tx'[v])
                                      /\ Unhurt(jobs', zone', tx'[v]))
  BY DEF AllUnhurt, Stays, Idle
<1>2. \A v, u \in Workers : Twins(v, u) /\ ~Idle(v)' /\ ~Idle(u)' =>
        Right(zone'[At[tx[v].job]], jobs'[tx[v].job], tx[v].job)
  BY DEF Paired
<1> QED BY <1>1, <1>2, StaysMet

(* A commit writes nothing that is not its own, and what it has met nobody  *)
(* over it leaves right.                                                    *)
Careful(w, newJobs, newZone) ==
  /\ \A j \in Jobs \ JobsOf(tx[w]) : newJobs[j] = jobs[j] /\ newZone[At[j]] = zone[At[j]]
  /\ tx[w].kind # "address" => newZone = zone
  /\ tx[w].kind = "address" => \A j \in JobsOf(tx[w]) :
       /\ newZone[At[j]] = Correct[tx[w].address]
       /\ newJobs[j] # None => newJobs[j].date = jobs[j].date
  /\ \A j \in Jobs : (jobs[j] = None <=> newJobs[j] = None)
                     \/ (tx[w].kind = "create" /\ tx[w].job = j)
  /\ \A j \in JobsOf(tx[w]) \ tx[w].met : newJobs[j] # None =>
       Right(newZone[At[j]], newJobs[j], j)

(* A careful commit keeps the invariant. *)
LEMMA CommitMeets ==
  ASSUME TypesInv, MetInv, NEW w \in Workers, ~Idle(w), NEW newJobs, NEW newZone,
         Commit(w, newJobs, newZone), Careful(w, newJobs, newZone)
  PROVE  MetInv'
<1> USE DEF MetInv
<1>1. tx'[w] = None /\ jobs' = newJobs /\ zone' = newZone /\ TypeOK /\ SelectedOK
  BY DEF Commit, TypesInv
<1>2. ASSUME NEW v \in Workers \ {w}, Idle(v)
      PROVE  Idle(v)'
  BY <1>2 DEF Commit, Idle
<1>3. ASSUME NEW v \in Workers \ {w}, ~Idle(v)
      PROVE  Stays(tx[v], tx'[v]) /\ Like(tx[v], tx'[v])
  <2>1. CASE tx[v].kind = "schedule"
    BY <1>1, <1>3, <2>1, CommitOthers DEF Stays, Like, JobsOf, Schedules
  <2>2. CASE tx[v].kind # "schedule"
    <3>1. tx'[v] = tx[v]
      BY <1>1, <1>3, <2>2, CommitOthers
    <3> QED BY <2>2, <3>1 DEF Stays, Like
  <2> QED BY <2>1, <2>2
<1>4. ASSUME NEW v \in Workers \ {w}, ~Idle(v), NEW j \in JobsOf(tx[v]) \ tx[v].met,
             j \in JobsOf(tx[w])
      PROVE  j \notin tx[w].met /\ ~Mixed(tx[v], tx[w])
  BY <1>4 DEF Agreed
<1>5. ASSUME NEW v \in Workers \ {w}, ~Idle(v), tx[v].kind = "schedule",
             NEW j \in JobsOf(tx[v]) \ tx[v].met
      PROVE  /\ j \in Jobs /\ j = tx[v].job /\ jobs[j] # None /\ newZone[At[j]] = zone[At[j]]
             /\ newJobs[j] = jobs[j]
                \/ (/\ Right(zone[At[j]], jobs[j], j)
                    /\ Right(zone[At[j]], newJobs[j], j))
  <2>1. j \in Jobs /\ j = tx[v].job /\ jobs[j] # None
    BY <1>1, <1>5, OpenType, JobsOfType DEF SelectedOK
  <2>2. CASE j \notin JobsOf(tx[w])
    BY <2>1, <2>2 DEF Careful
  <2>3. CASE j \in JobsOf(tx[w])
    <3>1. j \notin tx[w].met /\ tx[w].kind # "address"
      BY <1>4, <1>5, <2>3 DEF Mixed
    <3>2. newZone = zone /\ j = tx[w].job
      BY <1>1, <2>3, <3>1, OpenType, JobsOfType DEF Careful
    <3>3. tx[w].kind = "schedule"
      BY <1>1, <2>1, <3>1, <3>2, OpenType, JobsOfType DEF CreatesApart, Apart, TypesInv
    <3>4. Twins(v, w)
      BY <1>5, <2>1, <3>2, <3>3 DEF Twins
    <3>5. Right(zone[At[j]], jobs[j], j)
      BY <2>1, <3>4 DEF Paired
    <3>6. newJobs[j] # None
      BY <2>1, <3>3 DEF Careful
    <3>7. Right(zone[At[j]], newJobs[j], j)
      BY <2>3, <3>1, <3>2, <3>6 DEF Careful
    <3> QED BY <2>1, <3>2, <3>5, <3>7
  <2> QED BY <2>2, <2>3
<1>6. ASSUME NEW v \in Workers \ {w}, ~Idle(v)
      PROVE  Unhurt(newJobs, newZone, tx'[v])
  <2> DEFINE t == tx[v]
             u == tx'[v]
  <2>1. u.kind = t.kind /\ JobsOf(u) = JobsOf(t) /\ u.met = t.met /\ Unhurt(jobs, zone, t)
        /\ Open(t) /\ JobsOf(t) \subseteq Jobs
    BY <1>1, <1>3, <1>6, OpenType, JobsOfType DEF Stays, AllUnhurt
  <2>2. Like(t, u)
    BY <1>3, <1>6
  <2> SUFFICES ASSUME NEW j \in JobsOf(t) \ t.met
               PROVE  /\ t.kind # "address" => Right(newZone[At[j]], t.to, j)
                      /\ t.kind = "schedule" =>
                           newJobs[j] = t.from
                           \/ (Right(newZone[At[j]], newJobs[j], j)
                               /\ Right(newZone[At[j]], t.from, j))
                      /\ t.kind = "address" /\ t.at = "commit" /\ newJobs[j] # None =>
                           LeavesRight(t, j, newJobs[j])
    BY <2>1, <2>2 DEF Unhurt, Like, LeavesRight, Corrected
  <2>3. ASSUME t.kind # "address"
        PROVE  Right(newZone[At[j]], t.to, j)
    <3>1. newZone[At[j]] = zone[At[j]]
      <4>1. CASE j \in JobsOf(tx[w])
        BY <1>4, <1>6, <2>3, <4>1 DEF Mixed, Careful
      <4>2. CASE j \notin JobsOf(tx[w])
        BY <2>1, <4>2 DEF Careful
      <4> QED BY <4>1, <4>2
    <3> QED BY <2>1, <2>3, <3>1 DEF Unhurt
  <2>4. ASSUME t.kind = "schedule"
        PROVE  newJobs[j] = t.from \/ (Right(newZone[At[j]], newJobs[j], j)
                                       /\ Right(newZone[At[j]], t.from, j))
    <3>1. jobs[j] = t.from \/ (Right(zone[At[j]], jobs[j], j) /\ Right(zone[At[j]], t.from, j))
      BY <2>1, <2>4 DEF Unhurt
    <3>2. newZone[At[j]] = zone[At[j]]
          /\ (newJobs[j] = jobs[j] \/ (Right(zone[At[j]], jobs[j], j)
                                       /\ Right(zone[At[j]], newJobs[j], j)))
      BY <1>5, <1>6, <2>4
    <3> QED BY <3>1, <3>2
  <2>5. ASSUME t.kind = "address", t.at = "commit", newJobs[j] # None
        PROVE  LeavesRight(t, j, newJobs[j])
    <3>1. CASE j \notin JobsOf(tx[w])
      BY <2>1, <2>5, <3>1 DEF Careful, Unhurt
    <3>2. CASE j \in JobsOf(tx[w])
      <4>1. j \notin tx[w].met /\ tx[w].kind = "address"
        BY <1>4, <1>6, <2>5, <3>2 DEF Mixed
      <4>2. tx[w].address = t.address
        BY <2>5, <3>2, <4>1 DEF JobsOf
      <4>3. newZone[At[j]] = Correct[t.address] /\ newJobs[j].date = jobs[j].date
            /\ jobs[j] # None
        BY <2>1, <2>5, <3>2, <4>1, <4>2 DEF Careful
      <4>4. Right(newZone[At[j]], newJobs[j], j)
        BY <2>5, <3>2, <4>1 DEF Careful
      <4> DEFINE wanted == WindowToUtc(Correct[t.address], jobs[j].date, Window[j])
      <4>5. newJobs[j].instants = wanted
            /\ WindowToUtc(Correct[t.address], newJobs[j].date, Window[j]) = wanted
        BY <4>3, <4>4 DEF Right
      <4>6. j \in DOMAIN t.instants => t.instants[j].to = wanted
        BY <2>1, <2>5, <4>3 DEF Unhurt, LeavesRight
      <4>7. ASSUME j \in DOMAIN t.instants
            PROVE  t.instants[j].from \in Instants /\ t.instants[j].to \in Instants
        <5>1. PICK js \in SUBSET Jobs : t \in Corrections(js)
          BY <2>1, <2>5 DEF Open, Requests
        <5>2. t.instants[j] \in [from : Instants, to : Instants]
          BY <4>7, <5>1 DEF Corrections
        <5> QED BY <5>2
      <4> HIDE DEF wanted, t
      <4>8. Corrected(t, j, newJobs[j]) = wanted
        BY <4>5, <4>6, <4>7, UpdatedPairIs DEF Corrected
      <4> QED BY <4>5, <4>6, <4>8 DEF LeavesRight
    <3> QED BY <3>1, <3>2
  <2> QED BY <2>3, <2>4, <2>5
<1>7. \A v \in Workers : Idle(v)' \/ (~Idle(v) /\ Stays(tx[v], tx'[v])
                                      /\ Unhurt(jobs', zone', tx'[v]))
  <2>1. Idle(w)'
    BY <1>1 DEF Idle
  <2> QED BY <1>1, <1>2, <1>3, <1>6, <2>1
<1>8. ASSUME NEW v \in Workers, NEW u \in Workers, Twins(v, u), ~Idle(v)', ~Idle(u)'
      PROVE  Right(zone'[At[tx[v].job]], jobs'[tx[v].job], tx[v].job)
  <2>1. v # w /\ ~Idle(v) /\ tx[v].kind = "schedule" /\ tx[v].job \in JobsOf(tx[v]) \ tx[v].met
    BY <1>1, <1>8 DEF Twins, Idle, JobsOf
  <2>2. Right(zone[At[tx[v].job]], jobs[tx[v].job], tx[v].job)
    BY <1>8 DEF Paired
  <2>3. newZone[At[tx[v].job]] = zone[At[tx[v].job]]
        /\ (newJobs[tx[v].job] = jobs[tx[v].job]
             \/ Right(zone[At[tx[v].job]], newJobs[tx[v].job], tx[v].job))
    BY <1>5, <2>1
  <2> QED BY <1>1, <2>2, <2>3
<1> QED BY <1>7, <1>8, StaysMet

(* Each of the three commits is one. *)
CommitsCarefully(w) ==
  ~Idle(w) /\ \E newJobs, newZone : Commit(w, newJobs, newZone) /\ Careful(w, newJobs, newZone)

(* The commit of a schedule request is careful. *)
LEMMA CommitScheduleCareful ==
  ASSUME TypesInv, MetInv, NEW w \in Workers, CommitSchedule(w)
  PROVE  CommitsCarefully(w)
<1> DEFINE t == tx[w]
           row == jobs[t.job]
           newJobs == [jobs EXCEPT ![t.job] = Merged(t, row)]
<1>1. Commit(w, newJobs, zone)
  BY DEF CommitSchedule
<1>2. ~Idle(w) /\ t \in Schedules /\ t.job \in Jobs /\ JobsOf(t) = {t.job}
      /\ t.kind = "schedule" /\ TypeOK
  BY OpenType, JobsOfType DEF CommitSchedule, Stands, TypesInv
<1>3. row \in Rows /\ row # None
  BY <1>2 DEF TypeOK, SelectedOK, TypesInv
<1>4. Merged(t, row) \in Rows /\ Merged(t, row) # None
  BY <1>2, <1>3, MergedType, NoneIsNoRecord
<1>5. newJobs[t.job] = Merged(t, row) /\ \A j \in Jobs \ {t.job} : newJobs[j] = jobs[j]
  BY <1>2 DEF TypeOK
<1>6. ASSUME t.job \notin t.met
      PROVE  Right(zone[At[t.job]], Merged(t, row), t.job)
  <2>1. Unhurt(jobs, zone, t)
    BY <1>2 DEF MetInv, AllUnhurt
  <2>2. Right(zone[At[t.job]], t.to, t.job)
        /\ (row = t.from \/ (Right(zone[At[t.job]], row, t.job)
                             /\ Right(zone[At[t.job]], t.from, t.job)))
    BY <1>2, <1>6, <2>1 DEF Unhurt
  <2>3. zone[At[t.job]] \in Zones
    BY <1>2, BookingsAssumption DEF TypeOK
  <2> HIDE DEF t, row
  <2> QED BY <1>2, <1>3, <2>2, <2>3, RightMerges
<1> HIDE DEF newJobs, t, row
<1>7. Careful(w, newJobs, zone)
  <2>1. \A j \in Jobs : jobs[j] = None <=> newJobs[j] = None
    BY <1>3, <1>4, <1>5 DEF row
  <2> QED BY <1>2, <1>5, <1>6, <2>1 DEF Careful, t
<1> QED BY <1>1, <1>2, <1>7 DEF CommitsCarefully

(* The commit of a new job is careful. *)
LEMMA CommitCreateCareful ==
  ASSUME TypesInv, MetInv, NEW w \in Workers, CommitCreate(w)
  PROVE  CommitsCarefully(w)
<1> DEFINE t == tx[w]
           newJobs == [jobs EXCEPT ![t.job] = t.to]
<1>1. Commit(w, newJobs, zone)
  BY DEF CommitCreate
<1>2. ~Idle(w) /\ t.job \in Jobs /\ JobsOf(t) = {t.job} /\ t.kind = "create" /\ TypeOK
  BY OpenType, JobsOfType DEF CommitCreate, Stands, TypesInv
<1>3. newJobs[t.job] = t.to /\ \A j \in Jobs \ {t.job} : newJobs[j] = jobs[j]
  BY <1>2 DEF TypeOK
<1>4. Unhurt(jobs, zone, t)
  BY <1>2 DEF MetInv, AllUnhurt
<1>5. t.job \notin t.met => Right(zone[At[t.job]], t.to, t.job)
  BY <1>2, <1>4 DEF Unhurt
<1> HIDE DEF newJobs, t
<1>6. Careful(w, newJobs, zone)
  BY <1>2, <1>3, <1>5 DEF Careful, t
<1> QED BY <1>1, <1>2, <1>6 DEF CommitsCarefully

(* The commit of a correction is careful. *)
LEMMA CommitAddressCareful ==
  ASSUME TypesInv, MetInv, NEW w \in Workers, CommitAddress(w)
  PROVE  CommitsCarefully(w)
<1> DEFINE t == tx[w]
           Left(j) == UpdatedPair(t.instants[j].from, t.instants[j].to, jobs[j].instants)
           newJobs == [j \in Jobs |-> IF j \in DOMAIN t.instants
                                      THEN [jobs[j] EXCEPT !.instants = Left(j)]
                                      ELSE jobs[j]]
           newZone == [zone EXCEPT ![t.address] = Correct[t.address]]
<1>1. Commit(w, newJobs, newZone)
  BY DEF CommitAddress
<1>2. ~Idle(w) /\ t.kind = "address" /\ t.at = "commit" /\ TypeOK /\ SelectedOK
  BY DEF CommitAddress, Stands, TypesInv
<1>3. PICK js \in SUBSET Jobs : t \in Corrections(js)
  BY <1>2, OpenType DEF Open, Requests
<1>4. DOMAIN t.instants = js /\ t.address \in Addresses
      /\ JobsOf(t) = {j \in Jobs : At[j] = t.address}
  BY <1>2, <1>3 DEF Corrections, JobsOf
<1>5. ASSUME NEW j \in Jobs
      PROVE  newZone[At[j]] = IF j \in JobsOf(t) THEN Correct[t.address] ELSE zone[At[j]]
  <2>1. At[j] \in Addresses
    BY BookingsAssumption
  <2>2. newZone[At[j]] = IF At[j] = t.address THEN Correct[t.address] ELSE zone[At[j]]
    BY <1>2, <1>4, <2>1 DEF TypeOK
  <2>3. j \in JobsOf(t) <=> At[j] = t.address
    BY <1>4
  <2> HIDE DEF newZone
  <2> QED BY <2>2, <2>3
<1>6. ASSUME NEW j \in js
      PROVE  /\ jobs[j] # None /\ newJobs[j] # None /\ newJobs[j].date = jobs[j].date
             /\ newJobs[j].instants = Left(j)
  <2>1. jobs[j] \in Rows /\ jobs[j] # None
    BY <1>2, <1>4 DEF TypeOK, SelectedOK
  <2>2. Left(j) \in Instants
    <3>1. t.instants[j] \in [from : Instants, to : Instants] /\ jobs[j].instants \in Instants
      BY <1>3, <1>4, <2>1 DEF Corrections, Rows
    <3>2. t.instants[j].from \in Instants /\ t.instants[j].to \in Instants
      BY <3>1
    <3> QED BY <3>1, <3>2, UpdatedPairType
  <2>3. newJobs[j] = [jobs[j] EXCEPT !.instants = Left(j)]
    BY <1>4
  <2> HIDE DEF Left, newJobs
  <2>4. newJobs[j] \in Rows /\ newJobs[j].date = jobs[j].date
        /\ newJobs[j].instants = Left(j)
    BY <2>1, <2>2, <2>3 DEF Rows
  <2> QED BY <2>1, <2>4, NoneIsNoRecord
<1>7. \A j \in Jobs \ js : newJobs[j] = jobs[j]
  BY <1>4
<1>8. js \subseteq JobsOf(t)
  BY <1>3, <1>4 DEF Corrections
<1>9. ASSUME NEW j \in JobsOf(t) \ t.met, newJobs[j] # None
      PROVE  Right(newZone[At[j]], newJobs[j], j)
  <2>1. j \in Jobs /\ jobs[j] # None /\ newJobs[j].date = jobs[j].date
        /\ newJobs[j].instants = Corrected(t, j, jobs[j])
    BY <1>4, <1>6, <1>7, <1>9 DEF Corrected
  <2>2. Unhurt(jobs, zone, t)
    BY <1>2 DEF MetInv, AllUnhurt
  <2>3. WindowToUtc(Correct[t.address], jobs[j].date, Window[j])
          = Corrected(t, j, jobs[j])
    BY <1>2, <1>4, <1>9, <2>1, <2>2 DEF Unhurt, LeavesRight
  <2> HIDE DEF newJobs, newZone
  <2> QED BY <1>5, <1>9, <2>1, <2>3 DEF Right
<1> HIDE DEF newJobs, newZone, t
<1>10. Careful(w, newJobs, newZone)
  <2>1. \A j \in Jobs \ JobsOf(t) : newJobs[j] = jobs[j] /\ newZone[At[j]] = zone[At[j]]
    BY <1>5, <1>7, <1>8
  <2>2. ASSUME NEW j \in JobsOf(t)
        PROVE  /\ newZone[At[j]] = Correct[t.address]
               /\ newJobs[j] # None => newJobs[j].date = jobs[j].date
    BY <1>4, <1>5, <1>6, <1>7
  <2>3. \A j \in Jobs : jobs[j] = None <=> newJobs[j] = None
    BY <1>4, <1>6, <1>7
  <2> QED BY <1>2, <1>9, <2>1, <2>2, <2>3 DEF Careful, t
<1> QED BY <1>1, <1>2, <1>10 DEF CommitsCarefully

(* Every step keeps the invariant. *)
LEMMA StepMeets ==
  ASSUME TypesInv, MetInv, [Next]_vars
  PROVE  MetInv'
<1>1. TypeOK /\ SelectedOK /\ DialogsOK
  BY DEF TypesInv
<1>2. ASSUME NEW w \in Workers, CommitsCarefully(w)
      PROVE  MetInv'
  BY <1>2, CommitMeets DEF CommitsCarefully
<1>3. ASSUME NEW w \in Workers, NEW j \in Jobs, NEW date \in Dates,
             BeginCreate(w, j, date)
      PROVE  MetInv'
  <2> DEFINE t == [kind |-> "create", at |-> "commit", job |-> j, from |-> None,
                   to |-> Booking(j, date, None), newest |-> FALSE, met |-> {}]
  <2>1. Booking(j, date, None) \in Rows
    BY <1>1, BookingType DEF Leads
  <2>2. t \in Requests /\ Begin(w, t, {})
    BY <1>3, <2>1 DEF Requests, BeginCreate
  <2>3. t.kind = "create" /\ t.met = {} /\ t.job = j /\ JobsOf(t) = {j}
        /\ t.to = Booking(j, date, None)
    BY DEF JobsOf
  <2> HIDE DEF t
  <2>4. Unhurt(jobs, zone, t)
    BY <2>3 DEF Unhurt, Right, Booking
  <2> QED BY <2>2, <2>3, <2>4, BeginMeets DEF Open
<1>4. ASSUME NEW w \in Workers, NEW d \in Dispatchers, NEW j \in Jobs,
             NEW lead \in Leads, NEW allow \in BOOLEAN, Asks(w, d, j, lead, allow)
      PROVE  MetInv'
  <2>0. PICK date \in Dates, checked \in Instants, told \in SUBSET Jobs :
          jobs[j] # None /\ Ask(w, d, j, date, lead, allow, checked, told)
    BY <1>4 DEF Asks
  <2> DEFINE t == [kind |-> "schedule", at |-> "flush", by |-> d, job |-> j,
                   from |-> jobs[j], to |-> Booking(j, date, lead), allow |-> allow,
                   gone |-> FALSE, newest |-> TRUE, met |-> {},
                   checked |-> checked, told |-> told]
             olders == {v \in Workers : From(v, d)}
  <2>1. jobs[j] \in Rows /\ Booking(j, date, lead) \in Rows
    BY <1>1, <2>0, BookingType DEF TypeOK
  <2>2. t \in Requests /\ Begin(w, t, olders)
    BY <2>0, <2>1 DEF Requests, Ask
  <2>3. t.kind = "schedule" /\ t.met = {} /\ t.job = j /\ JobsOf(t) = {j}
        /\ t.to = Booking(j, date, lead) /\ t.from = jobs[j]
    BY DEF JobsOf
  <2> HIDE DEF t, olders
  <2>4. Unhurt(jobs, zone, t)
    BY <2>3 DEF Unhurt, Right, Booking
  <2> QED BY <2>0, <2>2, <2>3, <2>4, BeginMeets DEF Open
<1>5. ASSUME NEW w \in Workers, NEW d \in Dispatchers, NEW j \in Jobs, NEW date \in Dates,
             NEW lead \in Leads, Drop(w, d, j, date, lead)
      PROVE  MetInv'
  <2>1. Asks(w, d, j, lead, FALSE)
    BY <1>1, <1>5, DropAsks
  <2> QED BY <1>4, <2>1
<1>6. ASSUME NEW w \in Workers, NEW d \in Dispatchers, Confirm(w, d)
      PROVE  MetInv'
  <2> QED BY <1>1, <1>4, <1>6, ConfirmAsks
<1>7. ASSUME NEW w \in Workers, NEW a \in Addresses, BeginAddress(w, a)
      PROVE  MetInv'
  <2> DEFINE t == [kind |-> "address", at |-> "select", address |-> a,
                   instants |-> <<>>, newest |-> FALSE, met |-> {}]
  <2>1. t \in Corrections({}) /\ Begin(w, t, {})
    BY <1>7 DEF Corrections, BeginAddress
  <2>2. t.kind = "address" /\ t.at = "select" /\ t.met = {}
    OBVIOUS
  <2> HIDE DEF t
  <2>3. Unhurt(jobs, zone, t)
    BY <2>2 DEF Unhurt
  <2> QED BY <2>1, <2>2, <2>3, BeginMeets DEF Open
<1>8. ASSUME NEW w \in Workers, Pass(w)
      PROVE  MetInv'
  <2> DEFINE t == tx[w]
             u == [t EXCEPT !.at = "commit"]
  <2>1. ~Idle(w) /\ t \in Schedules /\ t.kind = "schedule" /\ Unhurt(jobs, zone, t)
    BY <1>1, <1>8, OpenType DEF Pass, CanFlush, Stands, MetInv, AllUnhurt
  <2>2. /\ u.kind = t.kind /\ u.job = t.job /\ u.met = t.met
        /\ u.from = t.from /\ u.to = t.to
    BY <2>1 DEF Schedules, Requests
  <2>3. tx'[w] = u /\ \A v \in Workers \ {w} : tx'[v] = tx[v]
    BY <1>1, <1>8 DEF Pass, TypeOK
  <2>4. jobs' = jobs /\ zone' = zone
    BY <1>8 DEF Pass
  <2> HIDE DEF u
  <2>5. Stays(t, u) /\ Unhurt(jobs, zone, u)
    BY <2>1, <2>2 DEF Stays, Unhurt, JobsOf
  <2>6. Stays(tx[w], tx'[w]) /\ Unhurt(jobs, zone, tx'[w])
    BY ONLY <2>3, <2>5, Zenon
  <2> QED BY <2>1, <2>3, <2>4, <2>6, RestMeets
<1>9. ASSUME NEW w \in Workers, SelectJobs(w)
      PROVE  MetInv'
  <2> DEFINE t == tx[w]
             Here == {j \in Jobs : jobs[j] # None /\ At[j] = t.address}
             Rebuilt(j) == WindowToUtc(Correct[t.address], jobs[j].date, Window[j])
             Stale == {j \in Here : jobs[j].instants # Rebuilt(j)}
             f == [j \in Stale |-> [from |-> jobs[j].instants, to |-> Rebuilt(j)]]
             u == [t EXCEPT !.at = "commit", !.instants = f]
  <2>1. ~Idle(w) /\ t.kind = "address"
    BY <1>9 DEF SelectJobs, Stands
  <2>2. PICK js \in SUBSET Jobs : t \in Corrections(js)
    BY <1>1, <2>1, OpenType DEF Open, Requests
  <2>3. tx'[w] = u /\ \A v \in Workers \ {w} : tx'[v] = tx[v]
    BY <1>1, <1>9 DEF SelectJobs, TypeOK
  <2>4. jobs' = jobs /\ zone' = zone
    BY <1>9 DEF SelectJobs
  <2>5. ASSUME NEW j \in JobsOf(t), jobs[j] # None
        PROVE  IF j \in DOMAIN f
               THEN UpdatedPair(f[j].from, f[j].to, jobs[j].instants) = Rebuilt(j)
                    /\ f[j].to = Rebuilt(j)
               ELSE jobs[j].instants = Rebuilt(j)
    <3>1. j \in Jobs /\ At[j] = t.address
      BY <2>1 DEF JobsOf
    <3>2. jobs[j].instants \in Instants /\ jobs[j].date \in Dates
      BY <1>1, <2>5, <3>1 DEF TypeOK, Rows
    <3>3. Rebuilt(j) \in Instants
      BY <2>2, <3>1, <3>2, InstantsType, BookingsAssumption DEF Corrections
    <3>4. UpdatedPair(jobs[j].instants, Rebuilt(j), jobs[j].instants) = Rebuilt(j)
      BY <3>2, <3>3, UpdatedPairIs
    <3>5. j \in Stale <=> jobs[j].instants # Rebuilt(j)
      BY <2>5, <3>1
    <3>6. j \in Stale => f[j].from = jobs[j].instants /\ f[j].to = Rebuilt(j)
      OBVIOUS
    <3>7. DOMAIN f = Stale
      OBVIOUS
    <3> HIDE DEF f, Stale, Rebuilt
    <3> QED BY <3>4, <3>5, <3>6, <3>7
  <2> HIDE DEF f
  <2>6. u.kind = t.kind /\ u.address = t.address /\ u.met = t.met /\ u.instants = f
    BY <2>2 DEF Corrections
  <2> HIDE DEF u
  <2>7. Stays(t, u)
    BY <2>1, <2>6 DEF Stays, JobsOf
  <2>8. Unhurt(jobs, zone, u)
    BY <2>1, <2>5, <2>6, <2>7 DEF Unhurt, Stays, LeavesRight, Corrected
  <2>9. Stays(tx[w], tx'[w]) /\ Unhurt(jobs, zone, tx'[w])
    BY ONLY <2>3, <2>7, <2>8, Zenon
  <2> QED BY <2>1, <2>3, <2>4, <2>9, RestMeets
<1>10. ASSUME NEW w \in Workers, Refuse(w) \/ Abort(w)
       PROVE  MetInv'
  <2>1. jobs' = jobs /\ zone' = zone
        /\ \A v \in Workers : tx'[v] = None \/ tx'[v] = tx[v]
    BY <1>1, <1>10 DEF Refuse, Abort, TypeOK
  <2> QED BY <2>1, RestMeets DEF Idle
<1>11. ASSUME NEW d \in Dispatchers, Dismiss(d)
       PROVE  MetInv'
  BY <1>11, RestMeets DEF Dismiss
<1>12. CASE UNCHANGED vars
  BY <1>12, RestMeets DEF vars
<1>13. ASSUME NEW w \in Workers, CommitSchedule(w) \/ CommitCreate(w) \/ CommitAddress(w)
       PROVE  MetInv'
  BY <1>2, <1>13, CommitScheduleCareful, CommitCreateCareful, CommitAddressCareful
<1> QED
  BY <1>3, <1>5, <1>6, <1>7, <1>8, <1>9, <1>10, <1>11, <1>12, <1>13 DEF Next, Request, Serve

(* Initially nobody has met anybody. *)
LEMMA InitMeets ==
  ASSUME Init
  PROVE  MetInv
<1>1. \A w \in Workers : Idle(w)
  BY DEF Init, Idle
<1> QED BY <1>1 DEF MetInv, Agreed, AllUnhurt, Paired, Twins

(* Every request that writes leaves the instants of its jobs the ones their *)
(* dates and windows promise, unless it overlapped one that could disturb   *)
(* them (recompute_window in `create_job`, `schedule_job` and               *)
(* `update_address`).                                                       *)
THEOREM InstantsLeftRight == Spec => RequestsLeaveInstantsRight
<1> DEFINE I == TypesInv /\ MetInv
<1>1. Init => I
  BY InitTypes, InitMeets
<1>2. I /\ [Next]_vars => I'
  BY StepTypes, StepMeets
<1>3. ASSUME I, I', [Next]_vars, NEW w \in Workers, ~Idle(w), tx'[w] = None,
             <<jobs, zone>>' # <<jobs, zone>>, NEW j \in JobsOf(tx[w]),
             jobs'[j] # None, j \notin tx[w].met
      PROVE  InstantsRight(j)'
  <2>1. CommitsCarefully(w)
    <3>1. PICK u \in Workers : CommitSchedule(u) \/ CommitCreate(u) \/ CommitAddress(u)
      BY <1>3, OnlyCommitsWrite
    <3>2. CommitsCarefully(u)
      BY <1>3, <3>1, CommitScheduleCareful, CommitCreateCareful, CommitAddressCareful
    <3>3. u = w
      BY <1>3, <3>2, CommitsEndNobody DEF CommitsCarefully
    <3> QED BY <3>2, <3>3
  <2>2. PICK newJobs, newZone : Commit(w, newJobs, newZone) /\ Careful(w, newJobs, newZone)
    BY <2>1 DEF CommitsCarefully
  <2>3. jobs' = newJobs /\ zone' = newZone
    BY <2>2 DEF Commit
  <2>4. Right(zone'[At[j]], jobs'[j], j)
    BY <1>3, <2>2, <2>3 DEF Careful
  <2>5. j \in Jobs
    BY <1>3, OpenType, JobsOfType DEF TypesInv
  <2>6. zone'[At[j]] \in Zones /\ jobs'[j] \in Rows
    BY <1>3, <2>5, BookingsAssumption DEF TypesInv, TypeOK
  <2>7. Kept(zone'[At[j]], jobs'[j], j)
    BY <2>4, <2>5, <2>6, KeptIsRight
  <2> QED BY <2>7 DEF Kept, InstantsRight
<1>4. I /\ I' /\ [Next]_vars =>
        [\A w \in Workers :
           ~Idle(w) /\ tx'[w] = None /\ <<jobs, zone>>' # <<jobs, zone>> =>
             \A j \in JobsOf(tx[w]) :
               jobs'[j] # None /\ j \notin tx[w].met => InstantsRight(j)']_vars
  BY <1>3
<1> QED BY <1>1, <1>2, <1>4, PTL DEF Spec, RequestsLeaveInstantsRight
=============================================================================
