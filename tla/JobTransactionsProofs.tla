----------------------- MODULE JobTransactionsProofs -----------------------
(***************************************************************************)
(* Proofs about JobTransactions: for any number of workers, jobs, members, *)
(* addresses and windows, what survives overlapping requests; and, for one *)
(* worker, that transactions are the indivisible requests of Dispatch.     *)
(***************************************************************************)
EXTENDS JobTransactions, FiniteSetTheorems, TLAPS

JobKinds == {"update", "schedule", "status"}

Fields == {"status", "date", "start", "end", "start_utc", "end_utc", "address",
           "completed", "canceled"}

JobFields == {"kind", "job", "todo", "holds", "write", "leaves", "joins", "promotes",
              "gone", "check", "settle"}

AddressFields == {"kind", "address", "zone", "moves", "todo", "holds", "writes"}

(* A complete job has a completion time, a canceled one a cancellation time. *)
Stamped(row) == /\ row.status = "complete" => row.completed
                /\ row.status = "canceled" => row.canceled

LeadsAgree(c) == \A m, n \in Members : c[m] = "lead" /\ c[n] = "lead" => m = n

(* Whatever others have made of the row meanwhile, what a request writes    *)
(* leaves it a row, of a job that exists, with its timestamps.              *)
Harmless(write) ==
  \A row \in Row : row.status # "absent" =>
    /\ Merge(row, write) \in Row
    /\ Merge(row, write).status # "absent"
    /\ Stamped(row) => Stamped(Merge(row, write))

(* The request changes the crew. *)
Touches(t) == t.leaves \cup t.joins \cup t.promotes # {}

CreateShape(t) ==
  /\ t.job \in Jobs /\ t.todo = {} /\ t.holds = {}
  /\ t.row \in Row /\ t.row.status # "absent" /\ Stamped(t.row) /\ Stores(t.row)
  /\ t.crew \in Crews /\ LeadsAgree(t.crew)

(* Only schedule_job flushes twice: what the others hold, they hold when    *)
(* they have nothing left to wait for.                                      *)
JobShape(t) ==
  /\ DOMAIN t = JobFields
  /\ t.job \in Jobs
  /\ t.todo \subseteq {"row", "crew", "check", "settle"}
  /\ t.holds \subseteq {<<"row", t.job>>, <<"crew", t.job>>}
  /\ Harmless(t.write)
  /\ t.leaves \subseteq Members /\ t.joins \subseteq Members
  /\ t.promotes \subseteq Members /\ t.gone \subseteq t.leaves \cup t.promotes
  /\ t.check \in [leads : SUBSET Members, instants : Instants] \cup {None}
  /\ t.settle \in {"scheduled", "unscheduled", None}
  /\ t.kind # "schedule" =>
       t.todo \subseteq {"row"} /\ ~Touches(t) /\ (t.todo # {} => t.holds = {})

AddressShape(t) ==
  /\ DOMAIN t = AddressFields
  /\ t.address \in Addresses /\ t.zone \in Zones /\ t.moves \in BOOLEAN
  /\ t.todo \subseteq {"zone", "select", "rows"}
  /\ DOMAIN t.writes \subseteq Jobs
  /\ \A j \in DOMAIN t.writes : Harmless(t.writes[j])
  /\ t.holds \subseteq {<<"zone", t.address>>} \cup ({"row"} \X Jobs)
  /\ "zone" \in t.todo => t.holds = {}
  /\ t.todo # {} => t.holds \subseteq {<<"zone", t.address>>}

(* A request whose crew has passed the indexes holds the crew until it ends, *)
(* and will leave one lead.                                                 *)
CrewSettled(t, c) ==
  Touches(t) /\ "crew" \notin t.todo =>
    <<"crew", t.job>> \in t.holds /\ LeadsAgree(CrewAfter(t, c))

(* A request whose row has passed the CHECKs holds the row until it ends, so *)
(* that they will hold of what it leaves; so does one that sends no row.    *)
RowSettled(t, row) ==
  "row" \notin t.todo =>
    /\ Stores(Merge(row, t.write))
    /\ DOMAIN t.write # {} => <<"row", t.job>> \in t.holds

(* The same of the rows that a correction of an address rewrites.           *)
RowsSettled(t, rows) ==
  "rows" \notin t.todo =>
    \A j \in DOMAIN t.writes : /\ Stores(Merge(rows[j], t.writes[j]))
                               /\ <<"row", j>> \in t.holds

(* What is true of an open transaction, with the committed rows and crews.  *)
Sound(t, rows, crews) ==
  /\ t.kind \in {"create", "address"} \cup JobKinds
  /\ t.kind = "create" => CreateShape(t) /\ rows[t.job].status = "absent"
  /\ t.kind \in JobKinds =>
       /\ JobShape(t) /\ rows[t.job].status # "absent"
       /\ CrewSettled(t, crews[t.job]) /\ RowSettled(t, rows[t.job])
  /\ t.kind = "address" =>
       /\ AddressShape(t) /\ RowsSettled(t, rows)
       /\ \A j \in DOMAIN t.writes : rows[j].status # "absent"

AllSound == \A w \in Workers : ~Idle(w) => Sound(tx[w], jobs, crew)

(* No row is two transactions' own, and no job is created twice.            *)
Apart ==
  \A v, w \in Workers : v # w =>
    /\ Held(v) \cap Held(w) = {}
    /\ Kind(v) = "create" /\ Kind(w) = "create" => tx[v].job # tx[w].job

Committed == \A j \in Jobs : Stamped(jobs[j]) /\ Stores(jobs[j]) /\ LeadsAgree(crew[j])

Types == /\ jobs \in [Jobs -> Row] /\ crew \in [Jobs -> Crews]
         /\ zone \in [Addresses -> Zones] /\ people \in [Members -> Standing]
         /\ DOMAIN tx = Workers

JInv == Types /\ AllSound /\ Apart /\ Committed

-----------------------------------------------------------------------------
(* The operators of JobRules, and what the services compute.                *)

(* A row has its fields and no others.                                      *)
LEMMA RowFields ==
  ASSUME NEW row \in Row
  PROVE  DOMAIN row = Fields /\ row = [f \in Fields |-> row[f]]
BY DEF Row, Fields

(* Date, window and zone give instants, in order if the window is, or none. *)
LEMMA InstantsType ==
  ASSUME NEW date \in Dates, NEW window \in Arrival, NEW z \in Zones
  PROVE  /\ WindowToUtc(date, window, z) \in Instants
         /\ InOrder(window) => InOrder(WindowToUtc(date, window, z))
<1> DEFINE none == <<None, None>>
           i == <<24 * date + window[1] + Behind[z], 24 * date + window[2] + Behind[z]>>
<1>1. CASE date = None \/ ~Whole(window)
  <2>1. WindowToUtc(date, window, z) = none
    BY <1>1 DEF WindowToUtc
  <2>2. none \in Instants /\ InOrder(none)
    BY DEF Instants, InOrder, Whole
  <2> QED BY <2>1, <2>2
<1>2. CASE date # None /\ Whole(window)
  <2>1. date \in Int /\ Behind[z] \in Int
    BY <1>2, CalendarAssumption DEF Dates
  <2>2. window[1] \in Int /\ window[2] \in Int
    BY <1>2, CalendarAssumption DEF Arrival, Whole
  <2>3. i[1] \in Int /\ i[2] \in Int /\ i \in Instants /\ (window[1] < window[2] => i[1] < i[2])
    BY <2>1, <2>2 DEF Instants
  <2>4. WindowToUtc(date, window, z) = i
    BY <1>2 DEF WindowToUtc
  <2> HIDE DEF i
  <2> QED BY <1>2, <2>3, <2>4 DEF InOrder
<1> QED BY <1>1, <1>2

(* The window and the instants of a row.                                    *)
LEMMA RowPairs ==
  ASSUME NEW row \in Row
  PROVE  Window(row) \in Arrival /\ Booked(row) \in Instants
BY DEF Row, Window, Booked, Arrival, Instants

(* A recomputed window changes nothing else of the row.                     *)
LEMMA RefreshedType ==
  ASSUME NEW row \in Row, NEW zones \in [Addresses -> Zones]
  PROVE  /\ Refreshed(row, zones) \in Row
         /\ \A f \in Fields \ {"start_utc", "end_utc"} : Refreshed(row, zones)[f] = row[f]
         /\ Booked(Refreshed(row, zones))
              = WindowToUtc(row.date, Window(row), zones[row.address])
<1> DEFINE i == WindowToUtc(row.date, Window(row), zones[row.address])
           new == [row EXCEPT !.start_utc = i[1], !.end_utc = i[2]]
<1>1. i \in Instants
  BY InstantsType, RowPairs DEF Row
<1>2. Refreshed(row, zones) = new
  BY DEF Refreshed
<1> HIDE DEF i
<1>3. i = <<i[1], i[2]>> /\ i[1] \in Int \cup {None} /\ i[2] \in Int \cup {None}
  BY <1>1 DEF Instants
<1>4. /\ new \in Row /\ new.start_utc = i[1] /\ new.end_utc = i[2]
      /\ \A f \in Fields \ {"start_utc", "end_utc"} : new[f] = row[f]
  BY <1>3 DEF Row, Fields
<1> HIDE DEF new
<1>5. Booked(new) = i
  BY <1>3, <1>4 DEF Booked
<1> QED BY <1>2, <1>4, <1>5 DEF i

(* Recomputed instants are in order, if the window is.                      *)
LEMMA RefreshedStores ==
  ASSUME NEW row \in Row, NEW zones \in [Addresses -> Zones], InOrder(Window(row))
  PROVE  Stores(Refreshed(row, zones))
<1> DEFINE new == Refreshed(row, zones)
<1>1. /\ \A f \in Fields \ {"start_utc", "end_utc"} : new[f] = row[f]
      /\ Booked(new) = WindowToUtc(row.date, Window(row), zones[row.address])
  BY RefreshedType
<1>2. InOrder(Booked(new))
  BY <1>1, InstantsType, RowPairs DEF Row
<1> HIDE DEF new
<1>3. Window(new) = Window(row)
  BY <1>1 DEF Window, Fields
<1> QED BY <1>2, <1>3 DEF Stores, new

(* Whether a row is stored depends on four of its columns.                  *)
LEMMA StoresIs ==
  ASSUME NEW row, NEW new,
         \A f \in {"start", "end", "start_utc", "end_utc"} : new[f] = row[f], Stores(row)
  PROVE  Stores(new)
<1>1. Window(new) = Window(row) /\ Booked(new) = Booked(row)
  BY DEF Window, Booked
<1> QED BY <1>1 DEF Stores

(* The row that POST /jobs inserts.                                         *)
LEMMA NewJobIs ==
  ASSUME NEW date \in Dates, NEW window \in Arrival, NEW address \in Addresses, NEW lead,
         NEW zones \in [Addresses -> Zones],
         NEW new, new = NewJob(date, window, address, lead, zones)
  PROVE  /\ new \in Row /\ new.date = date /\ ~new.completed /\ ~new.canceled
         /\ new.status \in {"scheduled", "unscheduled"}
         /\ new.status = "scheduled" <=> date # None /\ lead # None
         /\ ValidBooking(date, window) => Stores(new)
<1> DEFINE status == Honest(date, lead # None)
           row == [status |-> status, date |-> date, start |-> window[1], end |-> window[2],
                   start_utc |-> None, end_utc |-> None, address |-> address,
                   completed |-> FALSE, canceled |-> FALSE]
<1>1. /\ status \in Statuses /\ status \in {"scheduled", "unscheduled"}
      /\ status = "scheduled" <=> date # None /\ lead # None
  BY DEF Honest, Statuses, Open
<1>2. new = Refreshed(row, zones)
  BY DEF NewJob
<1> HIDE DEF status
<1>3. window = <<window[1], window[2]>> /\ window[1] \in Starts \cup {None}
      /\ window[2] \in Ends \cup {None}
  BY DEF Arrival
<1>4. /\ row \in Row /\ row.status = status /\ row.date = date
      /\ row.completed = FALSE /\ row.canceled = FALSE
      /\ row.start = window[1] /\ row.end = window[2]
  BY <1>1, <1>3 DEF Row
<1> HIDE DEF row
<1>5. /\ new \in Row /\ new.status = status /\ new.date = date
      /\ new.completed = FALSE /\ new.canceled = FALSE
  BY <1>2, <1>4, RefreshedType DEF Fields
<1>6. ASSUME ValidBooking(date, window) PROVE Stores(new)
  <2>1. Window(row) = window
    BY <1>3, <1>4 DEF Window
  <2>2. InOrder(window)
    BY <1>6 DEF ValidBooking, InOrder, Whole
  <2> QED BY <1>2, <1>4, <2>1, <2>2, RefreshedStores
<1> QED BY <1>1, <1>5, <1>6

(* The status machine moves a row and its timestamps.                       *)
LEMMA MovedType ==
  ASSUME NEW row \in Row, NEW target \in Statuses
  PROVE  /\ Moved(row, target) \in Row /\ Moved(row, target).status = target
         /\ Moved(row, target).completed = CompletedAfter(row.status, target, row.completed)
         /\ Moved(row, target).canceled = CanceledAfter(row.status, target, row.canceled)
         /\ \A f \in Fields \ {"status", "completed", "canceled"} :
              Moved(row, target)[f] = row[f]
<1>1. CompletedAfter(row.status, target, row.completed) \in BOOLEAN
  BY DEF CompletedAfter, Row
<1>2. CanceledAfter(row.status, target, row.canceled) \in BOOLEAN
  BY DEF CanceledAfter, Row
<1> QED BY <1>1, <1>2 DEF Moved, Row, Fields

(* A merged row has each field from the row or from what is written.        *)
LEMMA MergeFields ==
  ASSUME NEW row \in Row, NEW write
  PROVE  \A f \in Fields : Merge(row, write)[f] = IF f \in DOMAIN write THEN write[f] ELSE row[f]
BY RowFields DEF Merge

(* What SQLAlchemy finds changed are fields of the row, and the two         *)
(* timestamps when they are set.                                            *)
LEMMA DeltaFields ==
  ASSUME NEW old \in Row, NEW new \in Row
  PROVE  /\ DOMAIN Delta(old, new) \subseteq Fields
         /\ \A f \in DOMAIN Delta(old, new) : Delta(old, new)[f] = new[f]
         /\ \A f \in Fields \ DOMAIN Delta(old, new) : old[f] = new[f]
         /\ old.status # new.status /\ new.status = "complete" =>
              "completed" \in DOMAIN Delta(old, new)
         /\ old.status # new.status /\ new.status = "canceled" =>
              "canceled" \in DOMAIN Delta(old, new)
         /\ old.status = new.status =>
              \A f \in DOMAIN Delta(old, new) : old[f] # new[f]
<1>1. DOMAIN old = Fields /\ DOMAIN new = Fields
  BY RowFields
<1>2. DOMAIN Delta(old, new) = Changed(old, new)
  BY DEF Delta
<1> QED BY <1>1, <1>2 DEF Changed, Delta, Fields

(* Somebody else's row with the fields that changed in ours.                *)
LEMMA MergeDelta ==
  ASSUME NEW old \in Row, NEW new \in Row, NEW row \in Row
  PROVE  /\ Merge(row, Delta(old, new)) \in Row
         /\ \A f \in Fields : Merge(row, Delta(old, new))[f]
                                = IF f \in DOMAIN Delta(old, new) THEN new[f] ELSE row[f]
<1> DEFINE g == Merge(row, Delta(old, new))
<1>1. \A f \in Fields : g[f] = IF f \in DOMAIN Delta(old, new) THEN new[f] ELSE row[f]
  BY MergeFields, DeltaFields
<1>2. g = [f \in Fields |-> g[f]]
  BY RowFields DEF Merge
<1> HIDE DEF g
<1>3. g = [f \in Fields |-> g[f]] /\ \A f \in Fields : g[f] = row[f] \/ g[f] = new[f]
  BY <1>1, <1>2
<1>4. g \in Row
  BY <1>3 DEF Row, Fields
<1> QED BY <1>1, <1>4 DEF g

(* A request that writes nothing leaves the row as it is.                   *)
LEMMA MergeNothing ==
  ASSUME NEW row \in Row, NEW write, DOMAIN write = {}
  PROVE  Merge(row, write) = row
BY RowFields DEF Merge

(* A merged row is stored if one with the same four columns is.             *)
LEMMA MergeStores ==
  ASSUME NEW row \in Row, NEW new \in Row, NEW write,
         \A f \in {"start", "end", "start_utc", "end_utc"} : new[f] = row[f],
         Stores(Merge(row, write))
  PROVE  Stores(Merge(new, write))
<1>1. /\ \A f \in Fields : Merge(row, write)[f] = IF f \in DOMAIN write THEN write[f] ELSE row[f]
      /\ \A f \in Fields : Merge(new, write)[f] = IF f \in DOMAIN write THEN write[f] ELSE new[f]
  BY MergeFields
<1>2. \A f \in {"start", "end", "start_utc", "end_utc"} : Merge(new, write)[f] = Merge(row, write)[f]
  BY <1>1 DEF Fields
<1> QED BY <1>2, StoresIs

(* Our own row with the fields that changed in it.                          *)
LEMMA MergeOwn ==
  ASSUME NEW old \in Row, NEW new \in Row
  PROVE  Merge(old, Delta(old, new)) = new
<1> DEFINE g == Merge(old, Delta(old, new))
<1>1. g \in Row /\ \A f \in Fields : g[f] = new[f]
  BY MergeDelta, DeltaFields
<1> HIDE DEF g
<1>2. g = [f \in Fields |-> g[f]] /\ new = [f \in Fields |-> new[f]]
  BY <1>1, RowFields
<1>3. g = new
  BY <1>1, <1>2
<1> QED BY <1>3 DEF g

(* The handler has moved the job with its timestamps, or left both alone.   *)
Follows(old, new) ==
  /\ old.status # new.status => Stamped(new)
  /\ old.completed /\ ~new.completed => old.status # new.status
  /\ old.canceled /\ ~new.canceled => old.status # new.status

(* What such a handler writes does no harm to whatever the row has become.  *)
LEMMA DeltaIsHarmless ==
  ASSUME NEW old \in Row, NEW new \in Row, new.status # "absent", Follows(old, new)
  PROVE  Harmless(Delta(old, new))
<1> SUFFICES ASSUME NEW row \in Row, row.status # "absent"
             PROVE  /\ Merge(row, Delta(old, new)) \in Row
                    /\ Merge(row, Delta(old, new)).status # "absent"
                    /\ Stamped(row) => Stamped(Merge(row, Delta(old, new)))
  BY DEF Harmless
<1> DEFINE g == Merge(row, Delta(old, new))
           D == DOMAIN Delta(old, new)
<1>1. g \in Row /\ \A f \in Fields : g[f] = IF f \in D THEN new[f] ELSE row[f]
  BY MergeDelta
<1>2. /\ D \subseteq Fields /\ \A f \in Fields \ D : old[f] = new[f]
      /\ old.status # new.status /\ new.status = "complete" => "completed" \in D
      /\ old.status # new.status /\ new.status = "canceled" => "canceled" \in D
      /\ old.status = new.status => \A f \in D : old[f] # new[f]
  BY DeltaFields
<1> HIDE DEF g, D
<1>3. /\ g.status = IF "status" \in D THEN new.status ELSE row.status
      /\ g.completed = IF "completed" \in D THEN new.completed ELSE row.completed
      /\ g.canceled = IF "canceled" \in D THEN new.canceled ELSE row.canceled
  BY <1>1 DEF Fields
<1>4. g.status # "absent"
  BY <1>3
<1>5. ASSUME Stamped(row) PROVE Stamped(g)
  <2>1. CASE old.status # new.status
    <3>1. "status" \in D
      BY <1>2, <2>1 DEF Fields
    <3> QED BY <1>2, <1>3, <2>1, <3>1 DEF Follows, Stamped
  <2>2. CASE old.status = new.status
    <3>1. "status" \notin D
      BY <1>2, <2>2
    <3>2. new.completed \in BOOLEAN /\ new.canceled \in BOOLEAN
      BY DEF Row
    <3>3. "completed" \in D => new.completed
      BY <1>2, <2>2, <3>2 DEF Follows, Row
    <3>4. "canceled" \in D => new.canceled
      BY <1>2, <2>2, <3>2 DEF Follows, Row
    <3> QED BY <1>3, <1>5, <3>1, <3>3, <3>4 DEF Stamped
  <2> QED BY <2>1, <2>2
<1> QED BY <1>1, <1>4, <1>5 DEF g

(* A set of members with at most one element, either way.                   *)
LEMMA OneLeadAtMost ==
  ASSUME NEW c \in Crews
  PROVE  Cardinality(Leads(c)) <= 1 <=> LeadsAgree(c)
<1>1. Leads(c) \subseteq Members /\ IsFiniteSet(Leads(c))
  BY MembersAssumption, FS_Subset DEF Leads
<1>2. ASSUME LeadsAgree(c) PROVE Cardinality(Leads(c)) <= 1
  <2>1. CASE Leads(c) = {}
    BY <2>1, FS_EmptySet
  <2>2. ASSUME NEW m \in Leads(c) PROVE Cardinality(Leads(c)) <= 1
    <3>1. Leads(c) = {m}
      BY <1>1, <1>2, <2>2 DEF LeadsAgree, Leads
    <3> QED BY <3>1, FS_Singleton
  <2> QED BY <2>1, <2>2
<1>3. ASSUME Cardinality(Leads(c)) <= 1, NEW m \in Leads(c), NEW n \in Leads(c), m # n
      PROVE  FALSE
  <2>1. IsFiniteSet({m}) /\ Cardinality({m}) = 1
    BY FS_Singleton
  <2>2. Cardinality({m} \cup {n}) = 2
    BY <1>3, <2>1, FS_AddElement
  <2>3. {m} \cup {n} \subseteq Leads(c)
    OBVIOUS
  <2>4. Cardinality({m} \cup {n}) <= Cardinality(Leads(c))
    BY <1>1, <2>3, FS_Subset
  <2>5. Cardinality(Leads(c)) \in Nat
    BY <1>1, FS_CardinalityType
  <2> QED BY <1>3, <2>2, <2>4, <2>5
<1> QED BY <1>2, <1>3 DEF LeadsAgree, Leads

(* set_lead leaves one lead, or none; set_helpers touches no lead.          *)
LEMMA CrewTypes ==
  ASSUME NEW c \in Crews, NEW lead, NEW helpers
  PROVE  /\ WithLead(c, lead) \in Crews /\ LeadsAgree(WithLead(c, lead))
         /\ WithHelpers(c, helpers) \in Crews
         /\ LeadsAgree(c) => LeadsAgree(WithHelpers(c, helpers))
BY DEF Crews, WithLead, WithHelpers, LeadsAgree

-----------------------------------------------------------------------------
(* The requests, as they are when they have loaded.                         *)

(* What a handler that turns one row and crew into another will do.         *)
LEMMA JobRequestFields ==
  ASSUME NEW kind, NEW j, NEW row, NEW newCrew, NEW check, NEW settle,
         NEW t, t = JobRequest(kind, j, row, newCrew, check, settle)
  PROVE  /\ DOMAIN t = JobFields
         /\ t.kind = kind /\ t.job = j /\ t.holds = {} /\ t.gone = {}
         /\ t.write = Delta(jobs[j], row) /\ t.check = check /\ t.settle = settle
         /\ t.todo \subseteq {"row", "crew", "check", "settle"}
         /\ "row" \in t.todo <=> DOMAIN t.write # {}
         /\ "check" \in t.todo <=> check # None
         /\ "settle" \in t.todo <=> settle # None
         /\ t.leaves = {m \in Members : crew[j][m] # "off" /\ newCrew[m] = "off"}
         /\ t.promotes = {m \in Leads(newCrew) \ Leads(crew[j]) : crew[j][m] = "helper"}
         /\ t.joins = (Leads(newCrew) \ Leads(crew[j])) \ t.promotes
         /\ "crew" \in t.todo <=> Touches(t)
<1> DEFINE leaves == {m \in Members : crew[j][m] # "off" /\ newCrew[m] = "off"}
           newLeads == Leads(newCrew) \ Leads(crew[j])
           promotes == {m \in newLeads : crew[j][m] = "helper"}
           todo == When(DOMAIN Delta(jobs[j], row) # {}, "row")
                     \cup When(leaves \cup newLeads # {}, "crew")
                     \cup When(check # None, "check")
                     \cup When(settle # None, "settle")
<1>1. t = [kind |-> kind, job |-> j, todo |-> todo, holds |-> {},
           write |-> Delta(jobs[j], row), leaves |-> leaves,
           joins |-> newLeads \ promotes, promotes |-> promotes, gone |-> {},
           check |-> check, settle |-> settle]
  BY DEF JobRequest
<1>2. /\ todo \subseteq {"row", "crew", "check", "settle"}
      /\ "row" \in todo <=> DOMAIN Delta(jobs[j], row) # {}
      /\ "check" \in todo <=> check # None
      /\ "settle" \in todo <=> settle # None
      /\ "crew" \in todo <=> leaves \cup newLeads # {}
  BY DEF When
<1>3. leaves \cup newLeads # {} <=> leaves \cup (newLeads \ promotes) \cup promotes # {}
  OBVIOUS
<1> HIDE DEF todo
<1>4. /\ DOMAIN t = JobFields
      /\ t.kind = kind /\ t.job = j /\ t.holds = {} /\ t.gone = {} /\ t.todo = todo
      /\ t.write = Delta(jobs[j], row) /\ t.check = check /\ t.settle = settle
      /\ t.leaves = leaves /\ t.promotes = promotes /\ t.joins = newLeads \ promotes
  BY <1>1 DEF JobFields
<1> QED BY <1>2, <1>3, <1>4 DEF Touches

(* The handlers of jobs: the request of one is sound when it begins.        *)
LEMMA JobRequestSound ==
  ASSUME Types, Committed, NEW j \in Jobs, Exists(j), NEW row \in Row,
         row.status # "absent", Follows(jobs[j], row), NEW newCrew \in Crews,
         NEW check \in [leads : SUBSET Members, instants : Instants] \cup {None},
         NEW settle \in {"scheduled", "unscheduled", None}, NEW kind \in JobKinds,
         kind # "schedule" => newCrew = crew[j] /\ check = None /\ settle = None
  PROVE  /\ Sound(JobRequest(kind, j, row, newCrew, check, settle), jobs, crew)
         /\ JobRequest(kind, j, row, newCrew, check, settle).holds = {}
         /\ JobRequest(kind, j, row, newCrew, check, settle).kind # "create"
<1> DEFINE t == JobRequest(kind, j, row, newCrew, check, settle)
<1>1. /\ DOMAIN t = JobFields
      /\ t.kind = kind /\ t.job = j /\ t.holds = {} /\ t.gone = {}
      /\ t.write = Delta(jobs[j], row) /\ t.check = check /\ t.settle = settle
      /\ t.todo \subseteq {"row", "crew", "check", "settle"}
      /\ "row" \in t.todo <=> DOMAIN t.write # {}
      /\ "check" \in t.todo <=> check # None
      /\ "settle" \in t.todo <=> settle # None
      /\ t.leaves = {m \in Members : crew[j][m] # "off" /\ newCrew[m] = "off"}
      /\ t.promotes = {m \in Leads(newCrew) \ Leads(crew[j]) : crew[j][m] = "helper"}
      /\ t.joins = (Leads(newCrew) \ Leads(crew[j])) \ t.promotes
      /\ "crew" \in t.todo <=> Touches(t)
  BY JobRequestFields
<1> HIDE DEF t
<1>2. jobs[j] \in Row
  BY DEF Types
<1>3. Harmless(t.write)
  BY <1>1, <1>2, DeltaIsHarmless
<1>4. t.leaves \subseteq Members /\ t.joins \subseteq Members /\ t.promotes \subseteq Members
  BY <1>1 DEF Leads
<1>5. kind # "schedule" => ~Touches(t)
  BY <1>1 DEF Touches
<1>6. kind # "schedule" => t.todo \subseteq {"row"}
  BY <1>1, <1>5
<1>7. JobShape(t)
  BY <1>1, <1>3, <1>4, <1>5, <1>6 DEF JobShape
<1>8. CrewSettled(t, crew[j])
  BY <1>1 DEF CrewSettled
<1>9. RowSettled(t, jobs[j])
  <2>1. Stores(jobs[j])
    BY DEF Committed
  <2>2. ASSUME "row" \notin t.todo
        PROVE  DOMAIN t.write = {} /\ Merge(jobs[j], t.write) = jobs[j]
    <3>1. DOMAIN t.write = {}
      BY <1>1, <2>2
    <3> QED BY <1>2, <3>1, MergeNothing
  <2> QED BY <1>1, <2>1, <2>2 DEF RowSettled
<1>10. kind # "create" /\ kind # "address"
  BY DEF JobKinds
<1> QED BY <1>1, <1>7, <1>8, <1>9, <1>10 DEF Sound, Exists, t

(* A transaction begins, holding nothing.                                   *)
LEMMA LoadKeeps ==
  ASSUME JInv, NEW w \in Workers, Idle(w), NEW t, Sound(t, jobs, crew), t.holds = {},
         t.kind = "create" =>
           \A v \in Workers : Kind(v) = "create" => tx[v].job # t.job,
         tx' = [tx EXCEPT ![w] = t], UNCHANGED data
  PROVE  JInv'
<1>1. tx'[w] = t /\ \A v \in Workers \ {w} : tx'[v] = tx[v]
  BY DEF JInv, Types
<1>2. Types' /\ Committed'
  BY DEF JInv, Types, Committed, data
<1>3. AllSound'
  BY <1>1 DEF JInv, AllSound, Idle, data
<1>4. Apart'
  <2>1. ASSUME NEW v \in Workers \ {w}
        PROVE  /\ Held(v) \cap Held(w)' = {}
               /\ Kind(v) = "create" /\ Kind(w)' = "create" => tx[v].job # tx'[w].job
    BY <1>1 DEF Held, Kind, Idle
  <2>2. \A v \in Workers \ {w} : Held(v)' = Held(v) /\ Kind(v)' = Kind(v) /\ tx'[v] = tx[v]
    BY <1>1 DEF Held, Kind, Idle
  <2> QED BY <2>1, <2>2 DEF JInv, Apart
<1> QED BY <1>2, <1>3, <1>4 DEF JInv

(* POST /jobs begins. *)
LEMMA LoadCreateKeeps ==
  ASSUME JInv, NEW w \in Workers, NEW j \in Jobs, NEW date \in Dates, NEW window \in Arrival,
         NEW address \in Addresses, NEW lead, NEW helpers,
         LoadCreate(w, j, date, window, address, lead, helpers)
  PROVE  JInv'
<1> DEFINE row == NewJob(date, window, address, lead, zone)
           c == WithHelpers(WithLead(Nobody, lead), helpers)
           t == [kind |-> "create", job |-> j, todo |-> {}, holds |-> {}, row |-> row, crew |-> c]
<1>1. zone \in [Addresses -> Zones]
  BY DEF JInv, Types
<1>2. /\ Idle(w) /\ tx' = [tx EXCEPT ![w] = t] /\ UNCHANGED data
      /\ jobs[j].status = "absent" /\ ValidBooking(date, window)
      /\ j \notin {tx[v].job : v \in {v \in Workers : Kind(v) = "create"}}
  BY DEF LoadCreate, Load, Exists
<1>3. row \in Row /\ row.status \in {"scheduled", "unscheduled"} /\ Stores(row)
  BY <1>1, <1>2, NewJobIs
<1>4. row.status # "absent" /\ Stamped(row)
  BY <1>3 DEF Stamped
<1>5. c \in Crews /\ LeadsAgree(c)
  <2>1. Nobody \in Crews
    BY DEF Nobody, Crews
  <2>2. WithLead(Nobody, lead) \in Crews /\ LeadsAgree(WithLead(Nobody, lead))
    BY <2>1, CrewTypes
  <2> QED BY <2>2, CrewTypes
<1> HIDE DEF row, c
<1>6. CreateShape(t) /\ t.kind = "create" /\ t.job = j /\ t.holds = {}
  BY <1>3, <1>4, <1>5 DEF CreateShape
<1>7. Sound(t, jobs, crew)
  BY <1>2, <1>6 DEF Sound, JobKinds
<1> HIDE DEF t
<1> QED BY <1>2, <1>6, <1>7, LoadKeeps

(* The requests on one job begin.                                           *)
LEMMA LoadJobKeeps ==
  ASSUME JInv, NEW w \in Workers, NEW j \in Jobs, Exists(j), NEW row \in Row,
         row.status # "absent", Follows(jobs[j], row), NEW newCrew \in Crews,
         NEW check \in [leads : SUBSET Members, instants : Instants] \cup {None},
         NEW settle \in {"scheduled", "unscheduled", None}, NEW kind \in JobKinds,
         kind # "schedule" => newCrew = crew[j] /\ check = None /\ settle = None,
         Load(w, kind, JobRequest(kind, j, row, newCrew, check, settle))
  PROVE  JInv'
<1> DEFINE t == JobRequest(kind, j, row, newCrew, check, settle)
<1>0. Types /\ Committed
  BY DEF JInv
<1>1. Sound(t, jobs, crew) /\ t.holds = {} /\ t.kind # "create"
  BY <1>0, JobRequestSound, SMTT(30)
<1>2. Idle(w) /\ tx' = [tx EXCEPT ![w] = t] /\ UNCHANGED data
  BY DEF Load
<1> HIDE DEF t
<1> QED BY <1>1, <1>2, LoadKeeps

(* PATCH /jobs begins: it touches neither status nor timestamps.            *)
LEMMA LoadUpdateKeeps ==
  ASSUME JInv, NEW w \in Workers, NEW j \in Jobs, NEW date \in Dates, NEW window \in Arrival,
         NEW address \in Addresses, LoadUpdate(w, j, date, window, address)
  PROVE  JInv'
<1> DEFINE row0 == [jobs[j] EXCEPT !.date = date, !.start = window[1], !.end = window[2],
                                   !.address = address]
           row == Edited(jobs[j], date, window, address, zone)
<1>1. Exists(j) /\ Load(w, "update", JobRequest("update", j, row, crew[j], None, None))
  BY DEF LoadUpdate
<1>2. jobs[j] \in Row /\ crew[j] \in Crews /\ zone \in [Addresses -> Zones]
  BY DEF JInv, Types
<1>3. /\ row0 \in Row /\ row0.status = jobs[j].status
      /\ row0.completed = jobs[j].completed /\ row0.canceled = jobs[j].canceled
  BY <1>2 DEF Row, Arrival
<1>4. row = Refreshed(row0, zone)
  BY DEF Edited
<1> HIDE DEF row, row0
<1>5. /\ row \in Row /\ row.status = jobs[j].status
      /\ row.completed = jobs[j].completed /\ row.canceled = jobs[j].canceled
  BY <1>2, <1>3, <1>4, RefreshedType DEF Fields
<1>6. row.status # "absent" /\ Follows(jobs[j], row)
  BY <1>1, <1>5 DEF Exists, Follows
<1> QED BY <1>1, <1>2, <1>5, <1>6, LoadJobKeeps DEF JobKinds

(* So does a technician's.                                                  *)
LEMMA LoadAnnotateKeeps ==
  ASSUME JInv, NEW w \in Workers, NEW who, NEW j \in Jobs, LoadAnnotate(w, who, j)
  PROVE  JInv'
<1> DEFINE row == Refreshed(jobs[j], zone)
<1>1. Exists(j) /\ Load(w, "update", JobRequest("update", j, row, crew[j], None, None))
  BY DEF LoadAnnotate
<1>2. jobs[j] \in Row /\ crew[j] \in Crews /\ zone \in [Addresses -> Zones]
  BY DEF JInv, Types
<1>3. /\ row \in Row /\ row.status = jobs[j].status
      /\ row.completed = jobs[j].completed /\ row.canceled = jobs[j].canceled
  BY <1>2, RefreshedType DEF Fields
<1> HIDE DEF row
<1>4. row.status # "absent" /\ Follows(jobs[j], row)
  BY <1>1, <1>3 DEF Exists, Follows
<1> QED BY <1>1, <1>2, <1>3, <1>4, LoadJobKeeps DEF JobKinds

(* The lead that is sent, if one is. *)
NewCrew(c, leads) ==
  IF leads = {} THEN c ELSE WithLead(c, CHOOSE m \in Members \cup {None} : m \in leads)

(* A drag of a card begins. *)
LEMMA LoadScheduleKeeps ==
  ASSUME JInv, NEW w \in Workers, NEW j \in Jobs, NEW date \in Dates, NEW window \in Arrival,
         NEW leads, NEW allow, LoadSchedule(w, j, date, window, leads, allow)
  PROVE  JInv'
<1> DEFINE row0 == [jobs[j] EXCEPT !.date = date, !.start = window[1], !.end = window[2]]
           row == Rebooked(jobs[j], date, window, zone)
           newCrew == NewCrew(crew[j], leads)
           settled == Settled(row, Leads(newCrew) # {}).status
           check == IF allow \/ ~Whole(Booked(row)) \/ Leads(newCrew) = {} THEN None
                    ELSE [leads |-> Leads(newCrew), instants |-> Booked(row)]
           settle == IF settled = row.status THEN None ELSE settled
<1>1. /\ Exists(j)
      /\ Load(w, "schedule", JobRequest("schedule", j, row, newCrew, check, settle))
  BY DEF LoadSchedule, NewCrew
<1>2. jobs[j] \in Row /\ crew[j] \in Crews /\ zone \in [Addresses -> Zones]
  BY DEF JInv, Types
<1>3. /\ row0 \in Row /\ row0.status = jobs[j].status
      /\ row0.completed = jobs[j].completed /\ row0.canceled = jobs[j].canceled
  BY <1>2 DEF Row, Arrival
<1>4. row = Refreshed(row0, zone)
  BY DEF Rebooked
<1> HIDE DEF row, row0, newCrew
<1>5. /\ row \in Row /\ row.status = jobs[j].status
      /\ row.completed = jobs[j].completed /\ row.canceled = jobs[j].canceled
  BY <1>2, <1>3, <1>4, RefreshedType DEF Fields
<1>6. row.status # "absent" /\ Follows(jobs[j], row)
  BY <1>1, <1>5 DEF Exists, Follows
<1>7. newCrew \in Crews
  <2>1. \A m : WithLead(crew[j], m) \in Crews
    BY <1>2, CrewTypes
  <2> QED BY <1>2, <2>1 DEF NewCrew, newCrew
<1>8. Leads(newCrew) \subseteq Members /\ Booked(row) \in Instants
  BY <1>5, RowPairs DEF Leads
<1>9. check \in [leads : SUBSET Members, instants : Instants] \cup {None}
  BY <1>8
<1>10. settle \in {"scheduled", "unscheduled", None}
  <2>1. Honest(row.date, Leads(newCrew) # {}) \in {"scheduled", "unscheduled"}
    BY DEF Honest
  <2>2. CASE row.status \in {"unscheduled", "scheduled"}
    <3>1. Honest(row.date, Leads(newCrew) # {}) \in Statuses
      BY <2>1 DEF Statuses, Open
    <3>2. settled = Honest(row.date, Leads(newCrew) # {})
      BY <1>5, <2>2, <3>1, MovedType DEF Settled
    <3> QED BY <2>1, <3>2
  <2>3. CASE row.status \notin {"unscheduled", "scheduled"}
    BY <2>3 DEF Settled
  <2> QED BY <2>2, <2>3
<1> HIDE DEF check, settle
<1> QED BY <1>1, <1>5, <1>6, <1>7, <1>9, <1>10, LoadJobKeeps DEF JobKinds

(* A change of status begins, which the table allows and which brings the   *)
(* timestamps along.                                                        *)
LEMMA LoadStatusKeeps ==
  ASSUME JInv, NEW w \in Workers, NEW who, NEW j \in Jobs, NEW target \in Statuses,
         LoadStatus(w, who, j, target)
  PROVE  JInv'
<1> DEFINE old == jobs[j]
           row == Moved(old, target)
<1>1. /\ Exists(j) /\ CanMove(old, target)
      /\ Load(w, "status", JobRequest("status", j, row, crew[j], None, None))
  BY DEF LoadStatus
<1>2. old \in Row /\ crew[j] \in Crews
  BY DEF JInv, Types
<1>3. /\ row \in Row /\ row.status = target
      /\ row.completed = CompletedAfter(old.status, target, old.completed)
      /\ row.canceled = CanceledAfter(old.status, target, old.canceled)
  BY <1>2, MovedType
<1> HIDE DEF row
<1>4. row.status # "absent"
  BY <1>3 DEF Statuses, Open
<1>5. Stamped(row)
  BY <1>3 DEF CompletedAfter, CanceledAfter, Stamped
<1>6. Follows(old, row)
  BY <1>3, <1>5 DEF Follows, CompletedAfter, CanceledAfter
<1> QED BY <1>1, <1>2, <1>3, <1>4, <1>6, LoadJobKeeps DEF JobKinds

(* A correction of an address begins. *)
LEMMA LoadAddressKeeps ==
  ASSUME JInv, NEW w \in Workers, NEW a \in Addresses, NEW z \in Zones, LoadAddress(w, a, z)
  PROVE  JInv'
<1> DEFINE t == [kind |-> "address", address |-> a, zone |-> z, moves |-> zone[a] # z,
                 todo |-> When(zone[a] # z, "zone") \cup {"select"}, holds |-> {},
                 writes |-> <<>>]
<1>1. Idle(w) /\ tx' = [tx EXCEPT ![w] = t] /\ UNCHANGED data
  BY DEF LoadAddress, Load
<1>2. /\ DOMAIN t = AddressFields /\ t.kind = "address" /\ t.address = a /\ t.zone = z
      /\ t.moves \in BOOLEAN /\ t.todo = When(zone[a] # z, "zone") \cup {"select"}
      /\ t.holds = {} /\ t.writes = <<>>
  BY DEF AddressFields
<1>3. DOMAIN <<>> = {}
  OBVIOUS
<1> HIDE DEF t
<1>4. AddressShape(t)
  BY <1>2, <1>3 DEF AddressShape, When
<1>5. Sound(t, jobs, crew)
  BY <1>2, <1>3, <1>4 DEF Sound, RowsSettled, JobKinds
<1> QED BY <1>1, <1>2, <1>5, LoadKeeps

(* Whatever request begins, the invariant is kept. *)
LEMMA LoadSomeKeeps ==
  ASSUME JInv, NEW w \in Workers, LoadSome(w)
  PROVE  JInv'
BY LoadCreateKeeps, LoadUpdateKeeps, LoadAnnotateKeeps, LoadScheduleKeeps, LoadStatusKeeps,
   LoadAddressKeeps, ChoicesAssumption DEF LoadSome

-----------------------------------------------------------------------------
(* The flushes. *)

(* A transaction goes on, and may take rows that nobody else has.           *)
LEMMA StepKeeps ==
  ASSUME JInv, NEW w \in Workers, ~Idle(w), NEW n, Sound(n, jobs, crew),
         n.kind = tx[w].kind, n.kind # "create",
         NEW L, Free(w, L), n.holds \subseteq tx[w].holds \cup L,
         DOMAIN tx' = Workers, tx'[w] = n, \A v \in Workers \ {w} : tx'[v] = tx[v],
         UNCHANGED data
  PROVE  JInv'
<1>1. Types' /\ Committed'
  BY DEF JInv, Types, Committed, data
<1>2. AllSound'
  BY DEF JInv, AllSound, Idle, data
<1>3. Apart'
  <2>1. ASSUME NEW v \in Workers \ {w}
        PROVE  /\ Held(v) \cap Held(w)' = {}
               /\ ~(Kind(w)' = "create")
    <3>1. Held(v) \cap L = {}
      BY DEF Free
    <3>2. Held(v) \cap tx[w].holds = {}
      BY DEF JInv, Apart, Held
    <3> QED BY <3>1, <3>2 DEF Held, Kind, Idle
  <2>2. \A v \in Workers \ {w} : Held(v)' = Held(v) /\ Kind(v)' = Kind(v) /\ tx'[v] = tx[v]
    BY DEF Held, Kind, Idle
  <2> QED BY <2>1, <2>2 DEF JInv, Apart
<1> QED BY <1>1, <1>2, <1>3 DEF JInv

(* The rows that the steps write. *)
LEMMA LocksAre ==
  ASSUME NEW t, NEW s
  PROVE  /\ s \in {"row", "settle"} => Locks(t, s) = {<<"row", t.job>>}
         /\ s = "crew" => Locks(t, s) = {<<"crew", t.job>>}
         /\ s = "zone" => Locks(t, s) = {<<"zone", t.address>>}
         /\ s = "rows" => Locks(t, s) = {<<"row", j>> : j \in DOMAIN t.writes}
         /\ s \in {"check", "select"} => Locks(t, s) = {}
BY DEF Locks

(* A step of a request on one job.                                          *)
LEMMA JobDoes ==
  ASSUME JInv, NEW w \in Workers, NEW s, Does(w, s), tx[w].kind \in JobKinds,
         s = "crew" => LeadsAgree(CrewAfter(tx[w], crew[tx[w].job])),
         s = "row" => Stores(Merge(jobs[tx[w].job], tx[w].write))
  PROVE  JInv'
<1> DEFINE t == tx[w]
           n == [[t EXCEPT !.todo = t.todo \ {s}] EXCEPT !.holds = t.holds \cup Locks(t, s)]
<1>1. /\ ~Idle(w) /\ s \in t.todo /\ Free(w, Locks(t, s)) /\ UNCHANGED data
      /\ tx' = [tx EXCEPT ![w].todo = @ \ {s}, ![w].holds = @ \cup Locks(tx[w], s)]
  BY DEF Does, Turn
<1>2. DOMAIN tx = Workers /\ Sound(t, jobs, crew)
  BY <1>1 DEF JInv, Types, AllSound
<1>3. /\ JobShape(t) /\ jobs[t.job].status # "absent"
      /\ CrewSettled(t, crew[t.job]) /\ RowSettled(t, jobs[t.job])
  BY <1>2 DEF Sound
<1>4. DOMAIN t = JobFields
  BY <1>3 DEF JobShape
<1>5. /\ DOMAIN n = JobFields /\ n.todo = t.todo \ {s} /\ n.holds = t.holds \cup Locks(t, s)
      /\ n.kind = t.kind /\ n.job = t.job /\ n.write = t.write /\ n.leaves = t.leaves
      /\ n.joins = t.joins /\ n.promotes = t.promotes /\ n.gone = t.gone
      /\ n.check = t.check /\ n.settle = t.settle
  BY <1>4 DEF JobFields
<1>6. DOMAIN tx' = Workers /\ tx'[w] = n /\ \A v \in Workers \ {w} : tx'[v] = tx[v]
  BY <1>1, <1>2
<1> HIDE DEF n
<1>7. Locks(t, s) \subseteq {<<"row", t.job>>, <<"crew", t.job>>}
  BY <1>1, <1>3, LocksAre DEF JobShape
<1>8. JobShape(n)
  <2>1. Touches(n) <=> Touches(t)
    BY <1>5 DEF Touches
  <2> QED BY <1>1, <1>3, <1>5, <1>7, <2>1 DEF JobShape
<1>9. CrewSettled(n, crew[t.job])
  <2>1. Touches(n) <=> Touches(t)
    BY <1>5 DEF Touches
  <2>2. CrewAfter(n, crew[t.job]) = CrewAfter(t, crew[t.job])
    BY <1>5 DEF CrewAfter
  <2>3. s = "crew" => <<"crew", t.job>> \in n.holds
    BY <1>5, LocksAre
  <2> QED BY <1>3, <1>5, <2>1, <2>2, <2>3 DEF CrewSettled
<1>10. RowSettled(n, jobs[t.job])
  <2>1. s = "row" => <<"row", t.job>> \in n.holds
    BY <1>5, LocksAre
  <2> QED BY <1>3, <1>5, <2>1 DEF RowSettled
<1>11. Sound(n, jobs, crew)
  BY <1>2, <1>3, <1>5, <1>8, <1>9, <1>10 DEF Sound, JobKinds
<1>12. n.kind # "create"
  BY <1>5 DEF JobKinds
<1> QED BY <1>1, <1>5, <1>6, <1>11, <1>12, StepKeeps

(* A step of a correction of an address that writes.                        *)
LEMMA AddressDoes ==
  ASSUME JInv, NEW w \in Workers, NEW s \in {"zone", "rows"}, Does(w, s),
         tx[w].kind = "address",
         s = "rows" => \A j \in DOMAIN tx[w].writes :
                         Stores(Merge(jobs[j], tx[w].writes[j]))
  PROVE  JInv'
<1> DEFINE t == tx[w]
           n == [[t EXCEPT !.todo = t.todo \ {s}] EXCEPT !.holds = t.holds \cup Locks(t, s)]
<1>1. /\ ~Idle(w) /\ s \in t.todo /\ Free(w, Locks(t, s)) /\ UNCHANGED data
      /\ t.todo \cap Earlier[s] = {}
      /\ tx' = [tx EXCEPT ![w].todo = @ \ {s}, ![w].holds = @ \cup Locks(tx[w], s)]
  BY DEF Does, Turn
<1>2. DOMAIN tx = Workers /\ Sound(t, jobs, crew)
  BY <1>1 DEF JInv, Types, AllSound
<1>3. /\ AddressShape(t) /\ RowsSettled(t, jobs)
      /\ \A j \in DOMAIN t.writes : jobs[j].status # "absent"
  BY <1>2 DEF Sound
<1>4. DOMAIN t = AddressFields
  BY <1>3 DEF AddressShape
<1>5. /\ DOMAIN n = AddressFields /\ n.todo = t.todo \ {s}
      /\ n.holds = t.holds \cup Locks(t, s) /\ n.kind = t.kind
      /\ n.address = t.address /\ n.zone = t.zone /\ n.moves = t.moves
      /\ n.writes = t.writes
  BY <1>4 DEF AddressFields
<1>6. DOMAIN tx' = Workers /\ tx'[w] = n /\ \A v \in Workers \ {w} : tx'[v] = tx[v]
  BY <1>1, <1>2
<1> HIDE DEF n
<1>7. AddressShape(n)
  <2>1. CASE s = "zone"
    <3>1. Locks(t, s) = {<<"zone", t.address>>}
      BY <2>1, LocksAre
    <3> QED BY <1>1, <1>3, <1>5, <2>1, <3>1 DEF AddressShape
  <2>2. CASE s = "rows"
    <3>1. t.todo = {"rows"}
      BY <1>1, <1>3, <2>2 DEF AddressShape, Earlier
    <3>2. Locks(t, s) \subseteq {"row"} \X Jobs
      BY <1>3, <2>2, LocksAre DEF AddressShape
    <3> QED BY <1>3, <1>5, <2>2, <3>1, <3>2 DEF AddressShape
  <2> QED BY <2>1, <2>2
<1>8. RowsSettled(n, jobs)
  <2>1. s = "rows" => \A j \in DOMAIN n.writes : <<"row", j>> \in n.holds
    BY <1>5, LocksAre
  <2> QED BY <1>3, <1>5, <2>1 DEF RowsSettled
<1>9. Sound(n, jobs, crew)
  BY <1>2, <1>3, <1>5, <1>7, <1>8 DEF Sound, JobKinds
<1> QED BY <1>1, <1>5, <1>6, <1>9, StepKeeps

(* The SELECT of the jobs at an address: none of it is locked.              *)
LEMMA SelectKeeps ==
  ASSUME JInv, NEW w \in Workers, SelectJobs(w), tx[w].kind = "address"
  PROVE  JInv'
<1> DEFINE t == tx[w]
           zones == [zone EXCEPT ![t.address] = t.zone]
           stale == {j \in Jobs : /\ jobs[j].address = t.address
                                  /\ jobs[j].status \in Open
                                  /\ ~Fresh(jobs[j], zones)}
           todo == (t.todo \ {"select"}) \cup When(stale # {}, "rows")
           new == [j \in stale |-> Delta(jobs[j], Refreshed(jobs[j], zones))]
           n == [[t EXCEPT !.todo = todo] EXCEPT !.writes = new]
<1>1. /\ ~Idle(w) /\ "select" \in t.todo /\ t.todo \cap Earlier["select"] = {}
      /\ UNCHANGED data
      /\ tx' = [tx EXCEPT ![w].todo = (@ \ {"select"}) \cup When(stale # {}, "rows"),
                          ![w].writes = new]
  BY DEF SelectJobs, Turn
<1>2. DOMAIN tx = Workers /\ Sound(t, jobs, crew)
  BY <1>1 DEF JInv, Types, AllSound
<1>3. AddressShape(t)
  BY <1>2 DEF Sound
<1>4. DOMAIN t = AddressFields
  BY <1>3 DEF AddressShape
<1> HIDE DEF new, stale
<1>5. /\ DOMAIN n = AddressFields /\ n.todo = todo
      /\ n.holds = t.holds /\ n.kind = t.kind
      /\ n.address = t.address /\ n.zone = t.zone /\ n.moves = t.moves
      /\ n.writes = new
  BY <1>4 DEF AddressFields
<1>6. DOMAIN tx' = Workers /\ tx'[w] = n /\ \A v \in Workers \ {w} : tx'[v] = tx[v]
  BY <1>1, <1>2
<1>7. todo \subseteq {"select", "rows"}
  BY <1>1, <1>3 DEF AddressShape, Earlier, When
<1>8. DOMAIN new = stale /\ stale \subseteq Jobs
  BY DEF new, stale
<1>9. ASSUME NEW j \in stale PROVE Harmless(new[j]) /\ jobs[j].status # "absent"
  <2> DEFINE old == jobs[j]
             row == Refreshed(old, zones)
  <2>1. zones \in [Addresses -> Zones] /\ old \in Row /\ old.status \in Open
    BY <1>3, <1>8 DEF AddressShape, JInv, Types, stale
  <2>2. /\ row \in Row /\ row.status = old.status /\ row.completed = old.completed
        /\ row.canceled = old.canceled
    BY <2>1, RefreshedType DEF Fields
  <2> HIDE DEF row, zones
  <2>3. old.status # "absent" /\ Follows(old, row)
    BY <2>1, <2>2 DEF Open, Follows
  <2>4. Harmless(Delta(old, row))
    BY <2>1, <2>2, <2>3, DeltaIsHarmless
  <2> QED BY <2>3, <2>4 DEF new, row
<1> HIDE DEF n
<1>10. AddressShape(n)
  <2> HIDE DEF todo
  <2> QED BY <1>1, <1>3, <1>5, <1>7, <1>8, <1>9 DEF AddressShape
<1>11. RowsSettled(n, jobs)
  <2>1. "rows" \notin todo => stale = {}
    BY DEF When
  <2> QED BY <1>5, <1>8, <2>1 DEF RowsSettled
<1>12. Sound(n, jobs, crew)
  BY <1>2, <1>5, <1>8, <1>9, <1>10, <1>11 DEF Sound, JobKinds
<1>13. Free(w, {})
  BY DEF Free
<1> QED BY <1>1, <1>5, <1>6, <1>12, <1>13, StepKeeps

(* What a transaction has to do tells its kind. *)
LEMMA TurnTellsKind ==
  ASSUME JInv, NEW w \in Workers, NEW s, Turn(w, s)
  PROVE  /\ s \in {"row", "crew", "check", "settle", "zone", "select", "rows"}
         /\ s \in {"row", "crew", "check", "settle"} => tx[w].kind \in JobKinds
         /\ s \in {"zone", "select", "rows"} => tx[w].kind = "address"
<1>1. ~Idle(w) /\ s \in tx[w].todo /\ Sound(tx[w], jobs, crew)
  BY DEF Turn, JInv, AllSound
<1> QED BY <1>1 DEF Sound, CreateShape, JobShape, AddressShape

(* Whatever flush or SELECT comes next, the invariant is kept: the partial  *)
(* unique index lets no second lead pass.                                   *)
LEMMA AdvanceKeeps ==
  ASSUME JInv, NEW w \in Workers, Advance(w)
  PROVE  JInv'
<1>1. ASSUME NEW s \in {"row", "check", "settle"}, Does(w, s),
             s = "row" => Stores(Merge(jobs[tx[w].job], tx[w].write))
      PROVE  JInv'
  <2>1. tx[w].kind \in JobKinds
    BY <1>1, TurnTellsKind DEF Does
  <2> QED BY <1>1, <2>1, JobDoes
<1>2. ASSUME NEW s \in {"zone", "rows"}, Does(w, s),
             s = "rows" => \A j \in DOMAIN tx[w].writes :
                             Stores(Merge(jobs[j], tx[w].writes[j]))
      PROVE  JInv'
  <2>1. tx[w].kind = "address"
    BY <1>2, TurnTellsKind DEF Does
  <2> QED BY <1>2, <2>1, AddressDoes
<1>3. CASE FlushCrew(w)
  <2> DEFINE t == tx[w]
             after == CrewAfter(t, crew[t.job])
  <2>1. t.kind \in JobKinds /\ Does(w, "crew") /\ ~CrewRejected(t, crew[t.job])
    BY <1>3, TurnTellsKind DEF FlushCrew
  <2>2. t.job \in Jobs
    BY <2>1 DEF Does, Turn, JInv, AllSound, Sound, JobShape
  <2>3. after \in Crews
    BY <2>2 DEF JInv, Types, CrewAfter, Crews
  <2>4. Cardinality(Leads(after)) \in Nat
    <3>1. IsFiniteSet(Leads(after))
      BY MembersAssumption, FS_Subset DEF Leads
    <3> QED BY <3>1, FS_CardinalityType
  <2>5. Cardinality(Leads(after)) <= 1
    BY <2>1, <2>4 DEF CrewRejected
  <2>6. LeadsAgree(after)
    BY <2>3, <2>5, OneLeadAtMost
  <2> QED BY <2>1, <2>6, JobDoes
<1>4. CASE SelectJobs(w)
  BY <1>4, TurnTellsKind, SelectKeeps DEF SelectJobs
<1>5. CASE FlushRow(w) \/ CheckClashes(w) \/ FlushStatus(w)
  BY <1>1, <1>5 DEF FlushRow, CheckClashes, FlushStatus
<1>6. CASE FlushZone(w) \/ FlushInstants(w)
  BY <1>2, <1>6 DEF FlushZone, FlushInstants
<1> QED BY <1>3, <1>4, <1>5, <1>6 DEF Advance

-----------------------------------------------------------------------------
(* The ends. *)

(* A transaction ends: nobody holds more, no job is created by more.        *)
LEMMA EndApart ==
  ASSUME JInv, NEW w \in Workers, DOMAIN tx' = Workers, tx'[w] = None,
         \A v \in Workers \ {w} :
           \/ tx'[v] = None
           \/ tx'[v] = tx[v]
           \/ /\ ~Idle(v) /\ tx'[v].holds = tx[v].holds
              /\ tx'[v].kind = tx[v].kind /\ tx'[v].job = tx[v].job
  PROVE  Apart'
<1>1. ASSUME NEW v \in Workers \ {w}
      PROVE  /\ Held(v)' \subseteq Held(v)
             /\ Kind(v)' = "create" => Kind(v) = "create" /\ tx'[v].job = tx[v].job
  BY <1>1 DEF Held, Kind, Idle
<1>2. Held(w)' = {} /\ Kind(w)' # "create"
  BY DEF Held, Kind, Idle
<1>3. ASSUME NEW u \in Workers, NEW v \in Workers, u # v
      PROVE  /\ Held(u)' \cap Held(v)' = {}
             /\ Kind(u)' = "create" /\ Kind(v)' = "create" => tx'[u].job # tx'[v].job
  <2>1. CASE u = w \/ v = w
    BY <1>2, <2>1
  <2>2. CASE u # w /\ v # w
    BY <1>1, <1>3, <2>2 DEF JInv, Apart
  <2> QED BY <2>1, <2>2
<1> QED BY <1>3 DEF Apart

(* A rollback leaves nothing. *)
LEMMA AbortKeeps ==
  ASSUME JInv, NEW w \in Workers, Abort(w)
  PROVE  JInv'
<1>1. /\ tx'[w] = None /\ \A v \in Workers \ {w} : tx'[v] = tx[v]
      /\ DOMAIN tx' = Workers /\ UNCHANGED data
  BY DEF Abort, JInv, Types
<1>2. Types' /\ Committed'
  BY <1>1 DEF JInv, Types, Committed, data
<1>3. AllSound'
  BY <1>1 DEF JInv, AllSound, Idle, data
<1>4. Apart'
  BY <1>1, EndApart
<1> QED BY <1>2, <1>3, <1>4 DEF JInv

(* A job is created: nobody else was creating it or had found it.           *)
LEMMA CommitCreateKeeps ==
  ASSUME JInv, NEW w \in Workers, CommitCreate(w)
  PROVE  JInv'
<1> DEFINE t == tx[w]
<1>1. /\ ~Idle(w) /\ t.kind = "create" /\ Sound(t, jobs, crew)
      /\ jobs' = [jobs EXCEPT ![t.job] = t.row]
      /\ crew' = [crew EXCEPT ![t.job] = t.crew]
      /\ tx' = [tx EXCEPT ![w] = None] /\ UNCHANGED <<zone, people>>
  BY DEF CommitCreate, Kind, JInv, AllSound
<1>2. CreateShape(t) /\ jobs[t.job].status = "absent"
  BY <1>1 DEF Sound
<1>3. /\ tx'[w] = None /\ \A v \in Workers \ {w} : tx'[v] = tx[v]
      /\ DOMAIN tx' = Workers
  BY <1>1 DEF JInv, Types
<1>4. Types' /\ Committed'
  BY <1>1, <1>2, <1>3 DEF JInv, Types, Committed, CreateShape
<1>5. ASSUME NEW v \in Workers \ {w}, ~Idle(v)
      PROVE  Sound(tx[v], jobs', crew')
  <2> DEFINE u == tx[v]
  <2>1. Sound(u, jobs, crew)
    BY <1>5 DEF JInv, AllSound
  <2>2. CASE u.kind = "create"
    <3>1. u.job # t.job
      BY <1>1, <1>5, <2>2 DEF JInv, Apart, Kind
    <3>2. u.job \in Jobs
      BY <2>1, <2>2 DEF Sound, CreateShape
    <3>3. jobs'[u.job] = jobs[u.job]
      BY <1>1, <3>1, <3>2 DEF JInv, Types
    <3> QED BY <2>1, <2>2, <3>3 DEF Sound, JobKinds
  <2>3. CASE u.kind \in JobKinds
    <3>1. JobShape(u) /\ jobs[u.job].status # "absent"
      BY <2>1, <2>3 DEF Sound
    <3>2. u.job \in Jobs /\ u.job # t.job
      BY <1>2, <3>1 DEF JobShape
    <3>3. jobs'[u.job] = jobs[u.job] /\ crew'[u.job] = crew[u.job]
      BY <1>1, <3>2 DEF JInv, Types
    <3> QED BY <2>1, <2>3, <3>3 DEF Sound, JobKinds
  <2>4. CASE u.kind = "address"
    <3>1. /\ AddressShape(u) /\ RowsSettled(u, jobs)
          /\ \A k \in DOMAIN u.writes : k \in Jobs /\ jobs[k].status # "absent"
      BY <2>1, <2>4 DEF Sound, AddressShape
    <3>2. \A k \in DOMAIN u.writes : jobs'[k] = jobs[k]
      BY <1>1, <1>2, <3>1 DEF JInv, Types
    <3>3. RowsSettled(u, jobs')
      BY <3>1, <3>2 DEF RowsSettled
    <3> QED BY <2>1, <2>4, <3>1, <3>2, <3>3 DEF Sound, JobKinds
  <2> QED BY <2>1, <2>2, <2>3, <2>4 DEF Sound
<1>6. AllSound'
  BY <1>3, <1>5 DEF AllSound, Idle
<1>7. Apart'
  BY <1>3, EndApart
<1> QED BY <1>4, <1>6, <1>7 DEF JInv

(* The crew that a request leaves has one lead.                             *)
LEMMA CrewAfterType ==
  ASSUME NEW t, JobShape(t), NEW c \in Crews, LeadsAgree(c), CrewSettled(t, c),
         "crew" \notin t.todo
  PROVE  CrewAfter(t, c) \in Crews /\ LeadsAgree(CrewAfter(t, c))
<1>1. CrewAfter(t, c) \in Crews
  BY DEF CrewAfter, Crews
<1>2. CASE Touches(t)
  BY <1>1, <1>2 DEF CrewSettled
<1>3. CASE ~Touches(t)
  <2>1. CrewAfter(t, c) = c
    BY <1>3 DEF Touches, CrewAfter, Crews
  <2> QED BY <1>1, <2>1
<1> QED BY <1>2, <1>3

(* A request on one job commits.  Who holds the crew is the only one to     *)
(* change it, so that the look at the indexes is still true.                *)
LEMMA CommitJobKeeps ==
  ASSUME JInv, NEW w \in Workers, CommitJob(w)
  PROVE  JInv'
<1> DEFINE t == tx[w]
           j == t.job
           settled == [f \in {f \in {"status"} : t.settle # None} |-> t.settle]
           removed == t.leaves \ t.gone
           merged == Merge(jobs[j], t.write)
           final == Merge(merged, settled)
           after == CrewAfter(t, crew[j])
<1>1. /\ ~Idle(w) /\ t.kind \in JobKinds /\ t.todo = {} /\ Sound(t, jobs, crew)
      /\ jobs' = [jobs EXCEPT ![j] = final]
      /\ crew' = [crew EXCEPT ![j] = after]
      /\ tx' = [v \in Workers |-> IF v = w THEN None ELSE LosesRows(tx[v], j, removed)]
      /\ UNCHANGED <<zone, people>>
  BY DEF CommitJob, Kind, JInv, AllSound, JobKinds
<1>2. /\ JobShape(t) /\ jobs[j].status # "absent" /\ CrewSettled(t, crew[j])
      /\ RowSettled(t, jobs[j]) /\ j \in Jobs
  BY <1>1 DEF Sound, JobShape
<1>3. /\ jobs[j] \in Row /\ crew[j] \in Crews /\ Stamped(jobs[j]) /\ LeadsAgree(crew[j])
  BY <1>2 DEF JInv, Types, Committed
<1>4. /\ merged \in Row /\ merged.status # "absent" /\ Stamped(merged) /\ Stores(merged)
      /\ DOMAIN t.write # {} => <<"row", j>> \in t.holds
      /\ DOMAIN t.write = {} => merged = jobs[j]
  BY <1>1, <1>2, <1>3, MergeNothing DEF JobShape, Harmless, RowSettled
<1>5. /\ final \in Row /\ final.status # "absent" /\ Stamped(final) /\ Stores(final)
      /\ \A f \in {"start", "end", "start_utc", "end_utc"} : final[f] = merged[f]
  <2> HIDE DEF merged
  <2>1. \A f \in Fields : final[f] = IF f = "status" /\ t.settle # None THEN t.settle
                                     ELSE merged[f]
    BY <1>4, MergeFields
  <2>2. final = [f \in Fields |-> final[f]]
    BY <1>4, RowFields DEF Merge
  <2>3. t.settle \in {"scheduled", "unscheduled", None}
    BY <1>2 DEF JobShape
  <2> HIDE DEF final
  <2>4. final \in Row
    BY <1>4, <2>1, <2>2, <2>3 DEF Row, Fields, Statuses, Open
  <2>5. /\ final.status = merged.status /\ final.completed = merged.completed
        /\ final.canceled = merged.canceled
        \/ final.status \in {"scheduled", "unscheduled"}
    BY <2>1, <2>3 DEF Fields
  <2>6. \A f \in {"start", "end", "start_utc", "end_utc"} : final[f] = merged[f]
    BY <2>1 DEF Fields
  <2>7. Stores(final)
    BY <1>4, <2>6, StoresIs
  <2> QED BY <1>4, <2>4, <2>5, <2>6, <2>7 DEF Stamped
<1>6. after \in Crews /\ LeadsAgree(after)
  BY <1>1, <1>2, <1>3, CrewAfterType
<1> HIDE DEF final, after, merged
<1>7. Types' /\ Committed'
  BY <1>1, <1>2, <1>5, <1>6 DEF JInv, Types, Committed
<1>8. /\ jobs'[j] = final /\ \A k \in Jobs \ {j} : jobs'[k] = jobs[k]
  BY <1>1, <1>2 DEF JInv, Types
<1>9. ASSUME NEW write, Stores(Merge(jobs[j], write)), DOMAIN t.write = {}
       PROVE  Stores(Merge(final, write))
  BY <1>3, <1>4, <1>5, <1>9, MergeStores
<1>10. ASSUME NEW v \in Workers \ {w}, ~Idle(v)
      PROVE  /\ Sound(tx'[v], jobs', crew')
             /\ tx'[v].holds = tx[v].holds /\ tx'[v].kind = tx[v].kind
             /\ tx'[v].job = tx[v].job
  <2> DEFINE u == tx[v]
             n == tx'[v]
  <2>1. Sound(u, jobs, crew) /\ n = LosesRows(u, j, removed)
    BY <1>1, <1>10 DEF JInv, AllSound
  <2>2. CASE u.kind = "create"
    <3>1. n = u
      BY <2>1, <2>2 DEF LosesRows
    <3>2. CreateShape(u) /\ jobs[u.job].status = "absent"
      BY <2>1, <2>2 DEF Sound
    <3>3. jobs'[u.job] = jobs[u.job]
      BY <1>1, <1>2, <3>2 DEF JInv, Types, CreateShape
    <3> QED BY <2>1, <2>2, <3>1, <3>2, <3>3 DEF Sound, JobKinds
  <2>3. CASE u.kind = "address"
    <3>1. n = u
      BY <2>1, <2>3 DEF LosesRows
    <3>2. /\ AddressShape(u) /\ RowsSettled(u, jobs)
          /\ \A k \in DOMAIN u.writes : k \in Jobs /\ jobs[k].status # "absent"
      BY <2>1, <2>3 DEF Sound, AddressShape
    <3>3. \A k \in DOMAIN u.writes : jobs'[k].status # "absent"
      BY <1>5, <1>8, <3>2
    <3>4. ASSUME NEW k \in DOMAIN u.writes, "rows" \notin u.todo
          PROVE  Stores(Merge(jobs'[k], u.writes[k]))
      <4>1. Stores(Merge(jobs[k], u.writes[k])) /\ <<"row", k>> \in u.holds
        BY <3>2, <3>4 DEF RowsSettled
      <4>2. CASE k = j
        <5>1. t.holds \cap u.holds = {}
          BY <1>1, <1>10 DEF JInv, Apart, Held
        <5>2. DOMAIN t.write = {}
          BY <1>4, <4>1, <4>2, <5>1
        <5> QED BY <1>8, <1>9, <4>1, <4>2, <5>2
      <4>3. CASE k # j
        BY <1>8, <3>2, <4>1, <4>3
      <4> QED BY <4>2, <4>3
    <3>5. RowsSettled(u, jobs')
      BY <3>2, <3>4 DEF RowsSettled
    <3> QED BY <2>1, <2>3, <3>1, <3>2, <3>3, <3>5 DEF Sound, JobKinds
  <2>4. CASE u.kind \in JobKinds
    <3>1. /\ JobShape(u) /\ jobs[u.job].status # "absent"
          /\ CrewSettled(u, crew[u.job]) /\ RowSettled(u, jobs[u.job])
      BY <2>1, <2>4 DEF Sound
    <3>2. PICK gone \in SUBSET Members :
            /\ gone \subseteq u.leaves \cup u.promotes
            /\ gone # u.gone => u.job = j /\ removed # {}
            /\ n = [u EXCEPT !.gone = gone] \/ (n = u /\ gone = u.gone)
      <4>1. u.gone \subseteq u.leaves \cup u.promotes /\ u.leaves \cup u.promotes \subseteq Members
        BY <3>1 DEF JobShape
      <4>2. CASE u # None /\ u.kind = "schedule" /\ u.job = j
        <5> DEFINE g == u.gone \cup (removed \cap (u.leaves \cup u.promotes))
        <5>1. n = [u EXCEPT !.gone = g]
          BY <2>1, <4>2 DEF LosesRows
        <5>2. g \subseteq u.leaves \cup u.promotes /\ g \in SUBSET Members
          BY <4>1
        <5>3. g # u.gone => u.job = j /\ removed # {}
          BY <4>2
        <5> QED BY <5>1, <5>2, <5>3
      <4>3. CASE ~(u # None /\ u.kind = "schedule" /\ u.job = j)
        <5>1. n = u
          BY <2>1, <4>3 DEF LosesRows
        <5> QED BY <4>1, <5>1
      <4> QED BY <4>2, <4>3
    <3>3. DOMAIN u = JobFields
      BY <3>1 DEF JobShape
    <3>4. /\ DOMAIN n = JobFields /\ n.gone = gone
          /\ n.kind = u.kind /\ n.job = u.job /\ n.todo = u.todo /\ n.holds = u.holds
          /\ n.write = u.write /\ n.leaves = u.leaves
          /\ n.joins = u.joins /\ n.promotes = u.promotes
          /\ n.check = u.check /\ n.settle = u.settle
      BY <3>2, <3>3 DEF JobFields
    <3> HIDE DEF n
    <3>5. JobShape(n)
      <4>1. Touches(n) <=> Touches(u)
        BY <3>4 DEF Touches
      <4> QED BY <3>1, <3>2, <3>4, <4>1 DEF JobShape
    <3>6. u.job \in Jobs /\ jobs'[u.job].status # "absent"
      <4>1. u.job \in Jobs
        BY <3>1 DEF JobShape
      <4> QED BY <1>1, <1>2, <1>5, <3>1, <4>1 DEF JInv, Types
    <3>7. CrewSettled(n, crew'[u.job])
      <4> SUFFICES ASSUME Touches(u), "crew" \notin u.todo
                   PROVE  <<"crew", u.job>> \in u.holds
                          /\ LeadsAgree(CrewAfter(n, crew'[u.job]))
        BY <3>4 DEF CrewSettled, Touches
      <4>1. <<"crew", u.job>> \in u.holds /\ LeadsAgree(CrewAfter(u, crew[u.job]))
        BY <3>1 DEF CrewSettled
      <4>2. u.job = j => ~Touches(t)
        <5> SUFFICES ASSUME u.job = j, Touches(t) PROVE FALSE
          OBVIOUS
        <5>1. <<"crew", j>> \in t.holds
          BY <1>1, <1>2 DEF CrewSettled
        <5>2. t.holds \cap u.holds = {}
          BY <1>1, <1>10 DEF JInv, Apart, Held
        <5> QED BY <4>1, <5>1, <5>2
      <4>3. gone = u.gone
        BY <3>2, <4>2 DEF Touches
      <4>4. crew'[u.job] = crew[u.job]
        <5>1. CASE u.job = j
          <6>1. after = crew[j]
            BY <1>3, <4>2, <5>1 DEF Touches, CrewAfter, Crews, after
          <6> QED BY <1>1, <1>2, <5>1, <6>1 DEF JInv, Types
        <5>2. CASE u.job # j
          BY <1>1, <3>6, <5>2 DEF JInv, Types
        <5> QED BY <5>1, <5>2
      <4>5. CrewAfter(n, crew'[u.job]) = CrewAfter(u, crew[u.job])
        BY <3>4, <4>3, <4>4 DEF CrewAfter
      <4> QED BY <4>1, <4>5
    <3>8. RowSettled(n, jobs'[u.job])
      <4> SUFFICES ASSUME "row" \notin u.todo PROVE Stores(Merge(jobs'[u.job], u.write))
        BY <3>1, <3>4 DEF RowSettled
      <4>1. /\ Stores(Merge(jobs[u.job], u.write))
            /\ DOMAIN u.write # {} => <<"row", u.job>> \in u.holds
        BY <3>1 DEF RowSettled
      <4>2. CASE u.job = j /\ DOMAIN t.write # {}
        <5>1. t.holds \cap u.holds = {}
          BY <1>1, <1>10 DEF JInv, Apart, Held
        <5>2. DOMAIN u.write = {}
          BY <1>4, <4>1, <4>2, <5>1
        <5>3. Merge(final, u.write) = final
          BY <1>5, <5>2, MergeNothing
        <5> QED BY <1>5, <1>8, <4>2, <5>3
      <4>3. CASE u.job = j /\ DOMAIN t.write = {}
        BY <1>8, <1>9, <4>1, <4>3
      <4>4. CASE u.job # j
        BY <1>8, <3>6, <4>1, <4>4
      <4> QED BY <4>2, <4>3, <4>4
    <3> QED BY <2>4, <3>4, <3>5, <3>6, <3>7, <3>8 DEF Sound, JobKinds, n
  <2> QED BY <2>1, <2>2, <2>3, <2>4 DEF Sound
<1>11. \A v \in Workers \ {w} : Idle(v) => tx'[v] = None
  BY <1>1 DEF LosesRows, Idle
<1>12. DOMAIN tx' = Workers /\ tx'[w] = None
  BY <1>1
<1>13. AllSound'
  BY <1>10, <1>11, <1>12 DEF AllSound, Idle
<1>14. Apart'
  BY <1>10, <1>11, <1>12, EndApart
<1> QED BY <1>7, <1>13, <1>14 DEF JInv

(* A correction of an address commits: it holds the rows that it rewrites.  *)
LEMMA CommitAddressKeeps ==
  ASSUME JInv, NEW w \in Workers, CommitAddress(w)
  PROVE  JInv'
<1> DEFINE t == tx[w]
<1>1. /\ ~Idle(w) /\ t.kind = "address" /\ t.todo = {} /\ Sound(t, jobs, crew)
      /\ zone' = IF t.moves THEN [zone EXCEPT ![t.address] = t.zone] ELSE zone
      /\ jobs' = [j \in Jobs |-> IF j \in DOMAIN t.writes
                                 THEN Merge(jobs[j], t.writes[j]) ELSE jobs[j]]
      /\ tx' = [tx EXCEPT ![w] = None] /\ UNCHANGED <<crew, people>>
  BY DEF CommitAddress, Kind, JInv, AllSound
<1>2. /\ AddressShape(t) /\ RowsSettled(t, jobs)
      /\ \A j \in DOMAIN t.writes : jobs[j].status # "absent"
  BY <1>1 DEF Sound
<1>3. ASSUME NEW j \in DOMAIN t.writes
      PROVE  /\ j \in Jobs /\ jobs[j].status # "absent"
             /\ jobs'[j] \in Row /\ jobs'[j].status # "absent"
             /\ Stamped(jobs'[j]) /\ Stores(jobs'[j]) /\ <<"row", j>> \in t.holds
  <2>1. j \in Jobs /\ jobs[j].status # "absent" /\ Harmless(t.writes[j])
    BY <1>2 DEF AddressShape
  <2>2. jobs[j] \in Row /\ Stamped(jobs[j])
    BY <2>1 DEF JInv, Types, Committed
  <2>3. Stores(Merge(jobs[j], t.writes[j])) /\ <<"row", j>> \in t.holds
    BY <1>1, <1>2 DEF RowsSettled
  <2>4. jobs'[j] = Merge(jobs[j], t.writes[j])
    BY <1>1, <2>1
  <2> QED BY <2>1, <2>2, <2>3, <2>4 DEF Harmless
<1>4. \A j \in Jobs \ DOMAIN t.writes : jobs'[j] = jobs[j]
  BY <1>1
<1>5. /\ tx'[w] = None /\ \A v \in Workers \ {w} : tx'[v] = tx[v]
      /\ DOMAIN tx' = Workers
  BY <1>1 DEF JInv, Types
<1>6. Types' /\ Committed'
  <2>1. zone' \in [Addresses -> Zones]
    BY <1>1, <1>2 DEF JInv, Types, AddressShape
  <2>2. \A j \in Jobs : jobs'[j] \in Row /\ Stamped(jobs'[j]) /\ Stores(jobs'[j])
    BY <1>3, <1>4 DEF JInv, Types, Committed
  <2>3. jobs' \in [Jobs -> Row]
    BY <1>1, <2>2
  <2>4. Committed'
    BY <1>1, <2>2 DEF JInv, Committed
  <2> QED BY <1>1, <1>5, <2>1, <2>3, <2>4 DEF JInv, Types
<1>7. ASSUME NEW v \in Workers \ {w}, ~Idle(v)
      PROVE  Sound(tx[v], jobs', crew')
  <2> DEFINE u == tx[v]
  <2>1. Sound(u, jobs, crew) /\ t.holds \cap u.holds = {}
    BY <1>1, <1>7 DEF JInv, AllSound, Apart, Held
  <2> HIDE DEF t
  <2>2. CASE u.kind = "create"
    <3>1. CreateShape(u) /\ jobs[u.job].status = "absent" /\ u.job \in Jobs
      BY <2>1, <2>2 DEF Sound, CreateShape
    <3>2. jobs'[u.job] = jobs[u.job]
      BY <1>3, <1>4, <3>1
    <3> QED BY <2>1, <2>2, <3>1, <3>2 DEF Sound, JobKinds
  <2>3. CASE u.kind \in JobKinds
    <3>1. /\ JobShape(u) /\ jobs[u.job].status # "absent" /\ u.job \in Jobs
          /\ CrewSettled(u, crew[u.job]) /\ RowSettled(u, jobs[u.job])
      BY <2>1, <2>3 DEF Sound, JobShape
    <3>2. jobs'[u.job].status # "absent"
      BY <1>3, <1>4, <3>1
    <3>3. RowSettled(u, jobs'[u.job])
      <4>1. CASE u.job \in DOMAIN t.writes
        <5> SUFFICES ASSUME "row" \notin u.todo
                     PROVE  DOMAIN u.write = {} /\ Stores(Merge(jobs'[u.job], u.write))
          BY DEF RowSettled
        <5>1. DOMAIN u.write = {}
          BY <1>3, <2>1, <3>1, <4>1 DEF RowSettled
        <5> QED BY <1>3, <4>1, <5>1, MergeNothing
      <4>2. CASE u.job \notin DOMAIN t.writes
        BY <1>4, <3>1, <4>2
      <4> QED BY <4>1, <4>2
    <3> QED BY <1>1, <2>1, <2>3, <3>1, <3>2, <3>3 DEF Sound, JobKinds
  <2>4. CASE u.kind = "address"
    <3>1. /\ AddressShape(u) /\ RowsSettled(u, jobs)
          /\ \A k \in DOMAIN u.writes : k \in Jobs /\ jobs[k].status # "absent"
      BY <2>1, <2>4 DEF Sound, AddressShape
    <3>2. \A k \in DOMAIN u.writes : jobs'[k].status # "absent"
      BY <1>3, <1>4, <3>1
    <3>3. ASSUME NEW k \in DOMAIN u.writes, "rows" \notin u.todo
          PROVE  Stores(Merge(jobs'[k], u.writes[k])) /\ <<"row", k>> \in u.holds
      <4>1. Stores(Merge(jobs[k], u.writes[k])) /\ <<"row", k>> \in u.holds
        BY <3>1, <3>3 DEF RowsSettled
      <4>2. k \notin DOMAIN t.writes
        BY <1>3, <2>1, <4>1
      <4> QED BY <1>4, <3>1, <4>1, <4>2
    <3>4. RowsSettled(u, jobs')
      BY <3>3 DEF RowsSettled
    <3> QED BY <2>1, <2>4, <3>1, <3>2, <3>4 DEF Sound, JobKinds
  <2> QED BY <2>1, <2>2, <2>3, <2>4 DEF Sound
<1>8. AllSound'
  BY <1>5, <1>7 DEF AllSound, Idle
<1>9. Apart'
  BY <1>5, EndApart
<1> QED BY <1>6, <1>8, <1>9 DEF JInv

(* A membership changes, and no job does. *)
LEMMA MemberKeeps ==
  ASSUME JInv, NEW w \in Workers, MemberSome(w)
  PROVE  JInv'
<1>1. PICK m \in Members, role \in Hires, active \in BOOLEAN :
        /\ people' = [people EXCEPT ![m] = [role |-> role, active |-> active]]
        /\ UNCHANGED <<jobs, crew, zone, tx>>
  BY DEF MemberSome, UpdateMember, Serial!UpdateMember
<1>2. [role |-> role, active |-> active] \in Standing
  BY ChoicesAssumption DEF Standing
<1>3. Types'
  BY <1>1, <1>2 DEF JInv, Types
<1>4. AllSound' /\ Apart' /\ Committed'
  BY <1>1 DEF JInv, AllSound, Apart, Committed, Idle, Held, Kind
<1> QED BY <1>3, <1>4 DEF JInv

-----------------------------------------------------------------------------
(* Nothing is booked and nobody is at work. *)
LEMMA InitJInv == Init => JInv
<1> SUFFICES ASSUME Init PROVE JInv
  OBVIOUS
<1>1. PICK a \in Addresses : jobs \in [Jobs -> {r \in Serial!Absent : r.address = a}]
  BY DEF Init, Serial!Init
<1>2. ASSUME NEW r \in Serial!Absent PROVE r \in Row /\ r.status = "absent" /\ Stores(r)
  BY <1>2 DEF Serial!Absent, Row, Dates, Stores, InOrder, Whole, Window, Booked
<1>3. /\ jobs \in [Jobs -> Row]
      /\ \A j \in Jobs : jobs[j].status = "absent" /\ Stores(jobs[j])
  BY <1>1, <1>2
<1>4. crew = [j \in Jobs |-> Nobody]
  BY DEF Init, Serial!Init, Serial!Nobody, Nobody
<1>5. crew \in [Jobs -> Crews] /\ \A j \in Jobs : LeadsAgree(crew[j])
  BY <1>4 DEF Crews, Nobody, LeadsAgree
<1>6. people \in [Members -> Standing] /\ zone \in [Addresses -> Zones]
  BY ChoicesAssumption DEF Init, Serial!Init, Standing
<1>7. DOMAIN tx = Workers /\ \A w \in Workers : tx[w] = None
  BY DEF Init
<1> QED BY <1>3, <1>5, <1>6, <1>7
    DEF JInv, Types, AllSound, Apart, Committed, Stamped, Idle, Held, Kind

(* Whichever thread steps, the invariant is kept. *)
LEMMA StepJInv == JInv /\ [Next]_vars => JInv'
<1> SUFFICES ASSUME JInv, [Next]_vars PROVE JInv'
  OBVIOUS
<1>1. CASE UNCHANGED vars
  BY <1>1 DEF vars, JInv, Types, AllSound, Apart, Committed, Idle, Held, Kind
<1>2. ASSUME NEW w \in Workers, LoadSome(w) \/ MemberSome(w) \/ Advance(w) \/ End(w)
      PROVE  JInv'
  BY <1>2, LoadSomeKeeps, MemberKeeps, AdvanceKeeps, CommitCreateKeeps, CommitJobKeeps,
     CommitAddressKeeps, AbortKeeps DEF End
<1> QED BY <1>1, <1>2 DEF Next

(* The invariant holds of every behaviour. *)
THEOREM Invariance == Spec => []JInv
BY InitJInv, StepJInv, PTL DEF Spec

(* The instance's rows, crews and standings are ours. *)
LEMMA SerialTypes ==
  Serial!TypeOK <=> /\ jobs \in [Jobs -> Row] /\ \A j \in Jobs : Stores(jobs[j])
                    /\ crew \in [Jobs -> Crews]
                    /\ zone \in [Addresses -> Zones] /\ people \in [Members -> Standing]
<1>1. Serial!Row = Row
  BY DEF Serial!Row, Row, Serial!Statuses, Statuses, Serial!Open, Open, Serial!Dates, Dates,
         Serial!Arrival, Arrival
<1>2. Serial!Crews = Crews
  BY DEF Serial!Crews, Crews
<1>3. Serial!Standing = Standing
  BY DEF Serial!Standing, Standing, Serial!Roles, Roles
<1>4. \A row : Stores(row) <=> \A pair \in {Serial!Window(row), Serial!Booked(row)} :
                                 Serial!Whole(pair) => pair[1] < pair[2]
  BY DEF Stores, InOrder, Window, Serial!Window, Booked, Serial!Booked, Whole, Serial!Whole
<1> QED BY <1>1, <1>2, <1>3, <1>4 DEF Serial!TypeOK

(* The variables keep their types, for any number of overlapping requests   *)
(* and whatever they have written and not yet committed.                    *)
THEOREM TypeCorrect == Spec => []TypeOK
<1>1. ASSUME JInv PROVE TypeOK
  <2>1. Serial!TypeOK /\ DOMAIN tx = Workers
    BY <1>1, SerialTypes DEF JInv, Types, Committed
  <2>2. ASSUME NEW w \in Workers, ~Idle(w)
        PROVE  /\ tx[w].kind \in {"create", "address"} \cup JobKinds
               /\ tx[w].kind = "create" => CreateTxOK(tx[w])
               /\ tx[w].kind = "address" => AddressTxOK(tx[w])
               /\ tx[w].kind \in JobKinds => JobTxOK(tx[w])
    <3>1. Sound(tx[w], jobs, crew)
      BY <1>1, <2>2 DEF JInv, AllSound
    <3>2. CASE tx[w].kind \in JobKinds
      <4>1. JobShape(tx[w]) /\ jobs[tx[w].job].status # "absent" /\ tx[w].job \in Jobs
        BY <3>1, <3>2 DEF Sound, JobShape
      <4>2. Merge(jobs[tx[w].job], tx[w].write) \in Row
        BY <1>1, <4>1 DEF JobShape, Harmless, JInv, Types
      <4> QED BY <3>2, <4>1, <4>2 DEF JobShape, JobTxOK, JobKinds
    <3>3. CASE tx[w].kind = "address"
      <4>1. /\ AddressShape(tx[w])
            /\ \A j \in DOMAIN tx[w].writes :
                 j \in Jobs /\ jobs[j].status # "absent" /\ Harmless(tx[w].writes[j])
        BY <3>1, <3>3 DEF Sound, AddressShape
      <4>2. \A j \in DOMAIN tx[w].writes : Merge(jobs[j], tx[w].writes[j]) \in Row
        BY <1>1, <4>1 DEF Harmless, JInv, Types
      <4> QED BY <3>3, <4>1, <4>2 DEF AddressShape, AddressTxOK, JobKinds
    <3> QED BY <3>1, <3>2, <3>3 DEF Sound, JobKinds, CreateShape, CreateTxOK
  <2> QED BY <2>1, <2>2 DEF TypeOK, JobKinds
<1> QED BY <1>1, Invariance, PTL

(* Whatever the overlapping requests are, a job has at most one lead.       *)
THEOREM AtMostOneLead == Spec => []OneLead
<1>1. JInv => OneLead
  BY OneLeadAtMost DEF JInv, Types, Committed, OneLead
<1> QED BY <1>1, Invariance, PTL

(* A complete job has a completion time and a canceled one a cancellation   *)
(* time, though the status that was checked is the one that was loaded.     *)
THEOREM StampsAreKept == Spec => []ReachedMeansStamped
<1>1. JInv => ReachedMeansStamped
  BY DEF JInv, Committed, Stamped, ReachedMeansStamped
<1> QED BY <1>1, Invariance, PTL

(* Only drags of cards wait for each other: any other request waits before  *)
(* it holds what another can wait for.                                      *)
THEOREM OnlySchedulesDeadlock == Spec => []DeadlocksAreBetweenSchedules
<1>1. ASSUME JInv, NEW v \in Workers, NEW w \in Workers, v # w, WaitsFor(v, w), WaitsFor(w, v)
      PROVE  Kind(v) = "schedule"
  <2>1. PICK s : Turn(v, s) /\ Locks(tx[v], s) \cap Held(w) # {}
    BY <1>1 DEF WaitsFor
  <2>2. PICK r : Turn(w, r) /\ Locks(tx[w], r) \cap Held(v) # {}
    BY <1>1 DEF WaitsFor
  <2>3. /\ ~Idle(v) /\ s \in tx[v].todo /\ tx[v].todo \cap Earlier[s] = {}
        /\ ~Idle(w) /\ r \in tx[w].todo
        /\ Sound(tx[v], jobs, crew) /\ Sound(tx[w], jobs, crew)
        /\ Held(v) = tx[v].holds /\ Held(w) = tx[w].holds
    BY <1>1, <2>1, <2>2 DEF Turn, Held, JInv, AllSound
  <2>4. CASE tx[v].kind = "create"
    BY <2>3, <2>4 DEF Sound, CreateShape
  <2>5. CASE tx[v].kind \in JobKinds /\ tx[v].kind # "schedule"
    <3>1. tx[v].holds = {}
      BY <2>3, <2>5 DEF Sound, JobShape
    <3> QED BY <2>2, <2>3, <3>1
  <2>6. CASE tx[v].kind = "address"
    <3>1. AddressShape(tx[v])
      BY <2>3, <2>6 DEF Sound
    <3>2. tx[v].holds \subseteq {<<"zone", tx[v].address>>}
      BY <2>3, <3>1 DEF AddressShape
    <3>3. <<"zone", tx[v].address>> \in Locks(tx[w], r)
      BY <2>2, <2>3, <3>2
    <3>4. r = "zone"
      <4>1. r \in {"row", "crew", "check", "settle", "zone", "select", "rows"}
        BY <1>1, <2>2, TurnTellsKind
      <4> QED BY <3>3, <4>1, LocksAre
    <3>5. tx[w].kind = "address"
      BY <1>1, <2>2, <3>4, TurnTellsKind
    <3>6. tx[w].holds = {}
      BY <2>3, <3>4, <3>5 DEF Sound, AddressShape
    <3> QED BY <2>1, <2>3, <3>6
  <2> QED BY <2>3, <2>4, <2>5, <2>6 DEF Sound, Kind, JobKinds
<1>2. JInv => DeadlocksAreBetweenSchedules
  BY <1>1 DEF DeadlocksAreBetweenSchedules
<1> QED BY <1>2, Invariance, PTL

-----------------------------------------------------------------------------
(* One worker: a transaction is an indivisible request of Dispatch.         *)

OneAtATime == \E w : Workers = {w}

(* The row and the crew that a request will leave.                          *)
FinalRow(t, row) ==
  Merge(Merge(row, t.write), [f \in {f \in {"status"} : t.settle # None} |-> t.settle])

Alone(t, c) == CrewAfter(t, c) = c

(* What the open request t will do is what its endpoint does to the         *)
(* committed data, of which nothing has changed since it loaded.            *)
CreatePromise(t, zones, folk) ==
  \E date \in Dates, window \in Arrival, address \in Addresses,
     lead \in Members \cup {None}, helpers \in SUBSET Members :
    /\ ValidBooking(date, window)
    /\ \A m \in helpers \cup ({lead} \ {None}) : Assignable(folk[m])
    /\ t.row = NewJob(date, window, address, lead, zones)
    /\ t.crew = WithHelpers(WithLead(Nobody, lead), helpers)

UpdatePromise(t, row, c, zones, folk) ==
  /\ Alone(t, c)
  /\ \/ \E date \in Dates, window \in Arrival, address \in Addresses :
          FinalRow(t, row) = Edited(row, date, window, address, zones)
     \/ \E who \in Members :
          /\ who \in MaySee(folk, c) /\ IsTechnician(folk, who)
          /\ FinalRow(t, row) = Refreshed(row, zones)

StatusPromise(t, row, c, folk) ==
  /\ Alone(t, c)
  /\ \E target \in Targets, who \in Members \cup {Office} :
       /\ who \in MaySee(folk, c)
       /\ IsTechnician(folk, who) => target \in TechnicianTargets
       /\ CanMove(row, target)
       /\ FinalRow(t, row) = Moved(row, target)

(* The clash check is still to come, has been passed, or is not needed.     *)
Checked(t, rows, crews, leads, instants) ==
  \/ "check" \in t.todo /\ t.check = [leads |-> leads, instants |-> instants]
  \/ \A m \in leads : Clashes(rows, crews, t.job, m, instants) = {}

SchedulePromise(t, rows, crews, zones, folk) ==
  \E date \in Dates, window \in Arrival, allow \in Overrides,
     leads \in {{}} \cup {{m} : m \in Members \cup {None}} :
    LET booked == Rebooked(rows[t.job], date, window, zones)
        after  == NewCrew(crews[t.job], leads)
    IN
    /\ ~Half(window)
    /\ \A m \in leads \ {None} : Assignable(folk[m])
    /\ FinalRow(t, rows[t.job]) = Settled(booked, Leads(after) # {})
    /\ CrewAfter(t, crews[t.job]) = after
    /\ allow \/ Checked(t, rows, crews, Leads(after), Booked(booked))

AddressPromise(t, rows, zones) ==
  LET new   == [zones EXCEPT ![t.address] = t.zone]
      stale == {j \in Jobs : /\ rows[j].address = t.address
                             /\ rows[j].status \in Open
                             /\ ~Fresh(rows[j], new)}
  IN
  /\ t.moves <=> zones[t.address] # t.zone
  /\ "select" \notin t.todo =>
       t.writes = [j \in stale |-> Delta(rows[j], Refreshed(rows[j], new))]

Promise(t, rows, crews, zones, folk) ==
  /\ t.kind = "create"   => CreatePromise(t, zones, folk)
  /\ t.kind = "update"   => UpdatePromise(t, rows[t.job], crews[t.job], zones, folk)
  /\ t.kind = "schedule" => SchedulePromise(t, rows, crews, zones, folk)
  /\ t.kind = "status"   => StatusPromise(t, rows[t.job], crews[t.job], folk)
  /\ t.kind = "address"  => AddressPromise(t, rows, zones)

AllPromised == \A w \in Workers : ~Idle(w) => Promise(tx[w], jobs, crew, zone, people)

OneByOne == OneAtATime /\ JInv /\ AllPromised

(* What is written settles a job as schedule_job means it: only the status  *)
(* of a job that has not set off changes, and no timestamp.                 *)
LEMMA SettledIs ==
  ASSUME NEW row \in Row, NEW led \in BOOLEAN
  PROVE  /\ Settled(row, led) \in Row
         /\ Settled(row, led) = [row EXCEPT !.status = Settled(row, led).status]
         /\ Settled(row, led).status # row.status =>
              Settled(row, led).status \in {"scheduled", "unscheduled"}
<1> DEFINE h == Honest(row.date, led)
           m == Moved(row, h)
           e == [row EXCEPT !.status = h]
<1>1. h \in {"scheduled", "unscheduled"} /\ h \in Statuses
  BY DEF Honest, Statuses, Open
<1>2. CASE row.status \in {"unscheduled", "scheduled"}
  <2> HIDE DEF h
  <2>1. m \in Row /\ m.status = h
    BY <1>1, MovedType
  <2>2. m.completed = row.completed /\ m.canceled = row.canceled
    <3>1. /\ m.completed = CompletedAfter(row.status, h, row.completed)
          /\ m.canceled = CanceledAfter(row.status, h, row.canceled)
      BY <1>1, MovedType
    <3> QED BY <1>1, <1>2, <3>1 DEF CompletedAfter, CanceledAfter, Row
  <2>3. \A f \in Fields \ {"status", "completed", "canceled"} : m[f] = row[f]
    BY <1>1, MovedType
  <2>4. e \in Row /\ e.status = h /\ \A f \in Fields \ {"status"} : e[f] = row[f]
    BY <1>1 DEF Row, Fields
  <2>5. \A f \in Fields : m[f] = e[f]
    BY <2>1, <2>2, <2>3, <2>4 DEF Fields
  <2> HIDE DEF m, e
  <2>6. m = [f \in Fields |-> m[f]] /\ e = [f \in Fields |-> e[f]]
    BY <2>1, <2>4, RowFields
  <2>7. m = e
    BY <2>5, <2>6
  <2>8. Settled(row, led) = m
    BY <1>2 DEF Settled, m, h
  <2> QED BY <1>1, <2>1, <2>7, <2>8 DEF e
<1>3. CASE row.status \notin {"unscheduled", "scheduled"}
  <2>1. Settled(row, led) = row
    BY <1>3 DEF Settled
  <2>2. row = [row EXCEPT !.status = row.status]
    BY DEF Row
  <2> QED BY <2>1, <2>2
<1> QED BY <1>2, <1>3

(* The row after the second flush, if there is one.                         *)
WithStatus(row, settle) == IF settle = None THEN row ELSE [row EXCEPT !.status = settle]

(* ... which there is not.                                                  *)
LEMMA NotSettled == \A row : WithStatus(row, None) = row
BY DEF WithStatus

(* A handler's transaction leaves the row that the handler computed, with   *)
(* the status of its second flush.                                          *)
LEMMA FinalRowIs ==
  ASSUME Types, NEW j \in Jobs, NEW row \in Row, NEW kind, NEW newCrew, NEW check, NEW settle
  PROVE  FinalRow(JobRequest(kind, j, row, newCrew, check, settle), jobs[j])
           = WithStatus(row, settle)
<1> DEFINE t == JobRequest(kind, j, row, newCrew, check, settle)
           write == [f \in {f \in {"status"} : settle # None} |-> settle]
<1>1. t.write = Delta(jobs[j], row) /\ t.settle = settle
  BY JobRequestFields
<1> HIDE DEF t, WithStatus
<1>2. Merge(jobs[j], t.write) = row
  BY <1>1, MergeOwn DEF Types
<1>3. FinalRow(t, jobs[j]) = Merge(row, write)
  BY <1>1, <1>2 DEF FinalRow
<1>4. Merge(row, write) = [f \in Fields |-> IF f = "status" /\ settle # None THEN settle
                                            ELSE row[f]]
  BY RowFields DEF Merge
<1>5. row = [f \in Fields |-> row[f]]
  BY RowFields
<1>6. CASE settle = None
  BY <1>3, <1>4, <1>5, <1>6 DEF t, WithStatus
<1>7. CASE settle # None
  <2>1. [row EXCEPT !.status = settle]
          = [f \in Fields |-> IF f = "status" THEN settle ELSE row[f]]
    BY <1>5 DEF Fields
  <2> QED BY <1>3, <1>4, <1>7, <2>1 DEF t, WithStatus
<1> QED BY <1>6, <1>7

(* ... and the crew: as it was,                                             *)
LEMMA SameCrewIs ==
  ASSUME Types, NEW j \in Jobs, NEW row, NEW kind, NEW check, NEW settle
  PROVE  Alone(JobRequest(kind, j, row, crew[j], check, settle), crew[j])
<1> DEFINE t == JobRequest(kind, j, row, crew[j], check, settle)
<1>1. t.leaves = {} /\ t.joins = {} /\ t.promotes = {}
  BY JobRequestFields
<1> HIDE DEF t
<1>2. Alone(t, crew[j])
  BY <1>1 DEF Alone, CrewAfter, Crews, Types
<1> QED BY <1>2 DEF t

(* or with its new lead.                                                    *)
LEMMA NewCrewIs ==
  ASSUME Types, NEW j \in Jobs, NEW row, NEW kind, NEW check, NEW settle, NEW m
  PROVE  CrewAfter(JobRequest(kind, j, row, WithLead(crew[j], m), check, settle), crew[j])
           = WithLead(crew[j], m)
<1> DEFINE c == crew[j]
           d == WithLead(c, m)
           t == JobRequest(kind, j, row, d, check, settle)
<1>1. c \in Crews /\ d \in Crews
  BY CrewTypes DEF Types
<1>2. d = [n \in Members |-> d[n]]
  BY DEF WithLead
<1>3. /\ t.leaves = {n \in Members : c[n] # "off" /\ d[n] = "off"} /\ t.gone = {}
      /\ t.promotes = {n \in Leads(d) \ Leads(c) : c[n] = "helper"}
      /\ t.joins = (Leads(d) \ Leads(c)) \ t.promotes
  <2> HIDE DEF d
  <2> QED BY JobRequestFields
<1> HIDE DEF t
<1>4. t.joins \cup t.promotes = Leads(d) \ Leads(c)
  BY <1>3
<1>5. ASSUME NEW n \in Members
      PROVE  d[n] = IF n \in t.joins \cup t.promotes THEN "lead"
                    ELSE IF n \in t.leaves \ t.gone THEN "off" ELSE c[n]
  BY <1>1, <1>3, <1>4 DEF WithLead, Leads, Crews
<1> HIDE DEF d
<1>6. CrewAfter(t, c) = d
  BY <1>2, <1>5 DEF CrewAfter
<1> QED BY <1>6 DEF t, d

(* The only transaction begins or goes on, with its promise.                *)
LEMMA AlonePromises ==
  ASSUME OneAtATime, NEW w \in Workers, tx'[w] # None =>
           Promise(tx'[w], jobs, crew, zone, people),
         UNCHANGED data
  PROVE  AllPromised'
<1>1. \A v \in Workers : v = w
  BY DEF OneAtATime
<1> QED BY <1>1 DEF AllPromised, Idle, data

(* POST /jobs begins. *)
LEMMA CreatePromised ==
  ASSUME JInv, OneAtATime, NEW w \in Workers, NEW j \in Jobs, NEW date \in Dates,
         NEW window \in Arrival, NEW address \in Addresses, NEW lead \in Members \cup {None},
         NEW helpers \in SUBSET Members, LoadCreate(w, j, date, window, address, lead, helpers)
  PROVE  AllPromised'
<1> DEFINE row == NewJob(date, window, address, lead, zone)
           c == WithHelpers(WithLead(Nobody, lead), helpers)
           t == [kind |-> "create", job |-> j, todo |-> {}, holds |-> {}, row |-> row, crew |-> c]
<1>1. /\ ValidBooking(date, window)
      /\ \A m \in helpers \cup ({lead} \ {None}) : Assignable(people[m])
      /\ tx' = [tx EXCEPT ![w] = t] /\ UNCHANGED data
  BY DEF LoadCreate, Load
<1>2. t.kind = "create" /\ t.row = row /\ t.crew = c
  OBVIOUS
<1>3. tx'[w] = t
  BY <1>1 DEF JInv, Types
<1> HIDE DEF t
<1>4. CreatePromise(t, zone, people)
  BY <1>1, <1>2 DEF CreatePromise
<1>5. Promise(t, jobs, crew, zone, people)
  BY <1>2, <1>4 DEF Promise
<1> QED BY <1>1, <1>3, <1>5, AlonePromises

(* The other requests on a job begin.                                       *)
LEMMA JobPromised ==
  ASSUME JInv, OneAtATime, NEW w \in Workers, NEW j, NEW row, NEW newCrew,
         NEW check, NEW settle, NEW kind, NEW t,
         t = JobRequest(kind, j, row, newCrew, check, settle),
         Load(w, kind, t), Promise(t, jobs, crew, zone, people)
  PROVE  AllPromised'
<1>1. tx' = [tx EXCEPT ![w] = t] /\ UNCHANGED data
  BY DEF Load
<1>2. tx'[w] = t
  BY <1>1 DEF JInv, Types
<1> QED BY <1>1, <1>2, AlonePromises

(* PATCH /jobs begins. *)
LEMMA UpdatePromised ==
  ASSUME JInv, OneAtATime, NEW w \in Workers, NEW j \in Jobs, NEW date \in Dates,
         NEW window \in Arrival, NEW address \in Addresses,
         LoadUpdate(w, j, date, window, address)
  PROVE  AllPromised'
<1> DEFINE row0 == [jobs[j] EXCEPT !.date = date, !.start = window[1], !.end = window[2],
                                   !.address = address]
           row == Edited(jobs[j], date, window, address, zone)
           t == JobRequest("update", j, row, crew[j], None, None)
<1>1. Load(w, "update", t)
  BY DEF LoadUpdate
<1>2. Types /\ jobs[j] \in Row /\ zone \in [Addresses -> Zones]
  BY DEF JInv, Types
<1>3. row0 \in Row /\ row = Refreshed(row0, zone)
  BY <1>2 DEF Row, Arrival, Edited
<1>4. row \in Row
  BY <1>2, <1>3, RefreshedType
<1> HIDE DEF row
<1>5. t.kind = "update" /\ t.job = j
  BY JobRequestFields
<1>6. FinalRow(t, jobs[j]) = row
  BY <1>2, <1>4, FinalRowIs, NotSettled
<1>7. Alone(t, crew[j])
  BY <1>2, SameCrewIs
<1> HIDE DEF t
<1>8. UpdatePromise(t, jobs[j], crew[j], zone, people)
  BY <1>6, <1>7 DEF UpdatePromise, row
<1>9. Promise(t, jobs, crew, zone, people)
  BY <1>5, <1>8 DEF Promise
<1> QED BY <1>1, <1>9, JobPromised DEF t

(* So does a technician's. *)
LEMMA AnnotatePromised ==
  ASSUME JInv, OneAtATime, NEW w \in Workers, NEW who \in Members, NEW j \in Jobs,
         LoadAnnotate(w, who, j)
  PROVE  AllPromised'
<1> DEFINE row == Refreshed(jobs[j], zone)
           t == JobRequest("update", j, row, crew[j], None, None)
<1>1. Load(w, "update", t) /\ who \in MaySee(people, crew[j]) /\ IsTechnician(people, who)
  BY DEF LoadAnnotate, Viewers
<1>2. Types /\ jobs[j] \in Row /\ zone \in [Addresses -> Zones]
  BY DEF JInv, Types
<1>3. row \in Row
  BY <1>2, RefreshedType
<1> HIDE DEF row
<1>4. t.kind = "update" /\ t.job = j
  BY JobRequestFields
<1>5. FinalRow(t, jobs[j]) = row
  BY <1>2, <1>3, FinalRowIs, NotSettled
<1>6. Alone(t, crew[j])
  BY <1>2, SameCrewIs
<1> HIDE DEF t
<1>7. UpdatePromise(t, jobs[j], crew[j], zone, people)
  BY <1>1, <1>5, <1>6 DEF UpdatePromise, row
<1>8. Promise(t, jobs, crew, zone, people)
  BY <1>4, <1>7 DEF Promise
<1> QED BY <1>1, <1>8, JobPromised DEF t

(* A change of status begins. *)
LEMMA StatusPromised ==
  ASSUME JInv, OneAtATime, NEW w \in Workers, NEW who \in Members \cup {Office},
         NEW j \in Jobs, NEW target \in Targets, LoadStatus(w, who, j, target)
  PROVE  AllPromised'
<1> DEFINE row == Moved(jobs[j], target)
           t == JobRequest("status", j, row, crew[j], None, None)
<1>1. /\ Load(w, "status", t) /\ who \in MaySee(people, crew[j])
      /\ IsTechnician(people, who) => target \in TechnicianTargets
      /\ CanMove(jobs[j], target)
  BY DEF LoadStatus, Viewers
<1>2. Types /\ jobs[j] \in Row /\ target \in Statuses
  BY ChoicesAssumption DEF JInv, Types
<1>3. row \in Row
  BY <1>2, MovedType
<1> HIDE DEF row
<1>4. t.kind = "status" /\ t.job = j
  BY JobRequestFields
<1>5. FinalRow(t, jobs[j]) = row
  BY <1>2, <1>3, FinalRowIs, NotSettled
<1>6. Alone(t, crew[j])
  BY <1>2, SameCrewIs
<1> HIDE DEF t
<1>7. StatusPromise(t, jobs[j], crew[j], people)
  BY <1>1, <1>5, <1>6 DEF StatusPromise, row
<1>8. Promise(t, jobs, crew, zone, people)
  BY <1>4, <1>7 DEF Promise
<1> QED BY <1>1, <1>8, JobPromised DEF t

(* A job without instants clashes with nothing. *)
LEMMA NoClash ==
  ASSUME NEW rows, NEW crews, NEW j, NEW m
  PROVE  \A instants : ~Whole(instants) => Clashes(rows, crews, j, m, instants) = {}
BY DEF Clashes

(* A drag of a card begins: what it has still to look for is what makes the *)
(* difference.                                                              *)
LEMMA SchedulePromised ==
  ASSUME JInv, OneAtATime, NEW w \in Workers, NEW j \in Jobs, NEW date \in Dates,
         NEW window \in Arrival, NEW allow \in Overrides,
         NEW leads \in {{}} \cup {{m} : m \in Members \cup {None}},
         LoadSchedule(w, j, date, window, leads, allow)
  PROVE  AllPromised'
<1> DEFINE row0 == [jobs[j] EXCEPT !.date = date, !.start = window[1], !.end = window[2]]
           row == Rebooked(jobs[j], date, window, zone)
           newCrew == NewCrew(crew[j], leads)
           led == Leads(newCrew) # {}
           settled == Settled(row, led).status
           look == [leads |-> Leads(newCrew), instants |-> Booked(row)]
           check == IF allow \/ ~Whole(Booked(row)) \/ Leads(newCrew) = {} THEN None
                    ELSE look
           settle == IF settled = row.status THEN None ELSE settled
           t == JobRequest("schedule", j, row, newCrew, check, settle)
<1>1. /\ Load(w, "schedule", t) /\ ~Half(window)
      /\ \A m \in leads \ {None} : Assignable(people[m])
  BY DEF LoadSchedule, NewCrew
<1>2. /\ Types /\ jobs[j] \in Row /\ crew[j] \in Crews /\ zone \in [Addresses -> Zones]
  BY DEF JInv, Types
<1>3. row0 \in Row /\ row = Refreshed(row0, zone)
  BY <1>2 DEF Row, Arrival, Rebooked
<1> HIDE DEF row0, row, newCrew
<1>4. row \in Row
  BY <1>2, <1>3, RefreshedType
<1>5. WithStatus(row, settle) = Settled(row, led)
  <2> HIDE DEF led
  <2>1. led \in BOOLEAN
    BY DEF led
  <2>2. /\ Settled(row, led) \in Row
        /\ Settled(row, led) = [row EXCEPT !.status = settled]
        /\ settled # row.status => settled \in {"scheduled", "unscheduled"}
    BY <1>4, <2>1, SettledIs
  <2>3. settled # row.status => settled # None
    BY <2>2, NothingToDo DEF Statuses, Open
  <2>4. row = [row EXCEPT !.status = row.status]
    BY <1>4 DEF Row
  <2> HIDE DEF settled
  <2>5. CASE settled = row.status
    BY <2>2, <2>4, <2>5 DEF WithStatus
  <2>6. CASE settled # row.status
    BY <2>2, <2>3, <2>6 DEF WithStatus
  <2> QED BY <2>5, <2>6
<1> HIDE DEF settle, led, settled
<1>6. /\ t.kind = "schedule" /\ t.job = j /\ t.check = check
      /\ "check" \in t.todo <=> check # None
  <2> HIDE DEF check
  <2> QED BY JobRequestFields
<1>7. FinalRow(t, jobs[j]) = Settled(row, led)
  <2> HIDE DEF check
  <2> QED BY <1>2, <1>4, <1>5, FinalRowIs
<1>8. CrewAfter(t, crew[j]) = newCrew
  <2> HIDE DEF check
  <2>1. CASE leads = {}
    <3>1. newCrew = crew[j]
      BY <2>1 DEF newCrew, NewCrew
    <3>2. Alone(t, crew[j])
      BY <1>2, <3>1, SameCrewIs
    <3> QED BY <3>1, <3>2 DEF Alone
  <2>2. CASE leads # {}
    <3> DEFINE lead == CHOOSE m \in Members \cup {None} : m \in leads
    <3>1. newCrew = WithLead(crew[j], lead)
      BY <2>2 DEF newCrew, NewCrew
    <3> HIDE DEF lead
    <3>2. t = JobRequest("schedule", j, row, WithLead(crew[j], lead), check, settle)
      BY <3>1
    <3>3. CrewAfter(t, crew[j]) = WithLead(crew[j], lead)
      BY <1>2, <3>2, NewCrewIs
    <3> QED BY <3>1, <3>3
  <2> QED BY <2>1, <2>2
<1> HIDE DEF t
<1>9. allow \/ Checked(t, jobs, crew, Leads(newCrew), Booked(row))
  <2>1. CASE allow
    BY <2>1
  <2>2. CASE ~allow /\ (~Whole(Booked(row)) \/ Leads(newCrew) = {})
    BY <2>2, NoClash DEF Checked
  <2>3. CASE ~allow /\ Whole(Booked(row)) /\ Leads(newCrew) # {}
    <3>1. check = look
      BY <2>3
    <3>2. look \in [leads : SUBSET Members, instants : Instants]
      BY <1>4, RowPairs DEF Leads
    <3>3. check # None
      BY <3>1, <3>2, NothingToDo
    <3> QED BY <1>6, <3>1, <3>3 DEF Checked
  <2> QED BY <2>1, <2>2, <2>3
<1>10. SchedulePromise(t, jobs, crew, zone, people)
  <2> HIDE DEF check, look
  <2> QED BY <1>1, <1>6, <1>7, <1>8, <1>9 DEF SchedulePromise, row, newCrew, led
<1>11. Promise(t, jobs, crew, zone, people)
  BY <1>6, <1>10 DEF Promise
<1> QED BY <1>1, <1>11, JobPromised DEF t

(* A correction of an address begins. *)
LEMMA AddressPromised ==
  ASSUME JInv, OneAtATime, NEW w \in Workers, NEW a \in Addresses, NEW z \in Zones,
         LoadAddress(w, a, z)
  PROVE  AllPromised'
<1> DEFINE t == [kind |-> "address", address |-> a, zone |-> z, moves |-> zone[a] # z,
                 todo |-> When(zone[a] # z, "zone") \cup {"select"}, holds |-> {},
                 writes |-> <<>>]
<1>1. tx' = [tx EXCEPT ![w] = t] /\ UNCHANGED data
  BY DEF LoadAddress, Load
<1>2. tx'[w] = t
  BY <1>1 DEF JInv, Types
<1>3. /\ t.kind = "address" /\ t.address = a /\ t.zone = z /\ (t.moves <=> zone[a] # z)
      /\ "select" \in t.todo
  OBVIOUS
<1> HIDE DEF t
<1>4. Promise(t, jobs, crew, zone, people)
  BY <1>3 DEF Promise, AddressPromise
<1> QED BY <1>1, <1>2, <1>4, AlonePromises

(* Whatever request begins promises what its endpoint does.                 *)
LEMMA LoadSomePromised ==
  ASSUME JInv, OneAtATime, NEW w \in Workers, LoadSome(w)
  PROVE  AllPromised'
BY CreatePromised, UpdatePromised, AnnotatePromised, SchedulePromised, StatusPromised,
   AddressPromised DEF LoadSome

(* A flush of a request on a job changes nothing of what it will do.        *)
LEMMA JobStepPromised ==
  ASSUME JInv, OneAtATime, AllPromised, NEW w \in Workers, NEW s, Does(w, s),
         tx[w].kind \in JobKinds,
         s = "check" => \A m \in tx[w].check.leads :
           Clashes(jobs, crew, tx[w].job, m, tx[w].check.instants) = {}
  PROVE  AllPromised'
<1> DEFINE t == tx[w]
           n == [[t EXCEPT !.todo = t.todo \ {s}] EXCEPT !.holds = t.holds \cup Locks(t, s)]
<1>1. /\ ~Idle(w) /\ UNCHANGED data
      /\ tx' = [tx EXCEPT ![w].todo = @ \ {s}, ![w].holds = @ \cup Locks(tx[w], s)]
  BY DEF Does, Turn
<1>2. DOMAIN tx = Workers /\ JobShape(t) /\ Promise(t, jobs, crew, zone, people)
  BY <1>1 DEF JInv, Types, AllSound, Sound, AllPromised
<1>3. DOMAIN t = JobFields
  BY <1>2 DEF JobShape
<1>4. /\ n.todo = t.todo \ {s} /\ n.kind = t.kind /\ n.job = t.job /\ n.write = t.write
      /\ n.leaves = t.leaves /\ n.joins = t.joins /\ n.promotes = t.promotes
      /\ n.gone = t.gone /\ n.check = t.check /\ n.settle = t.settle
  BY <1>3 DEF JobFields
<1>5. tx'[w] = n
  BY <1>1, <1>2
<1> HIDE DEF n
<1>6. \A row : FinalRow(n, row) = FinalRow(t, row)
  BY <1>4 DEF FinalRow
<1>7. \A c : CrewAfter(n, c) = CrewAfter(t, c)
  BY <1>4 DEF CrewAfter
<1>8. ASSUME NEW leads, NEW instants, Checked(t, jobs, crew, leads, instants)
      PROVE  Checked(n, jobs, crew, leads, instants)
  <2>1. CASE \A m \in leads : Clashes(jobs, crew, t.job, m, instants) = {}
    BY <1>4, <2>1 DEF Checked
  <2>2. CASE "check" \in t.todo /\ t.check = [leads |-> leads, instants |-> instants]
    <3>1. t.check.leads = leads /\ t.check.instants = instants
      BY <2>2
    <3> QED BY <1>4, <2>2, <3>1 DEF Checked
  <2> QED BY <1>8, <2>1, <2>2 DEF Checked
<1>9. CASE t.kind = "update"
  <2>1. UpdatePromise(t, jobs[t.job], crew[t.job], zone, people)
    BY <1>2, <1>9 DEF Promise
  <2>2. UpdatePromise(n, jobs[n.job], crew[n.job], zone, people)
    BY <1>4, <1>6, <1>7, <2>1 DEF UpdatePromise, Alone
  <2>3. Promise(n, jobs, crew, zone, people)
    BY <1>4, <1>9, <2>2 DEF Promise
  <2> QED BY <1>1, <1>5, <2>3, AlonePromises
<1>10. CASE t.kind = "status"
  <2>1. StatusPromise(t, jobs[t.job], crew[t.job], people)
    BY <1>2, <1>10 DEF Promise
  <2>2. StatusPromise(n, jobs[n.job], crew[n.job], people)
    BY <1>4, <1>6, <1>7, <2>1 DEF StatusPromise, Alone
  <2>3. Promise(n, jobs, crew, zone, people)
    BY <1>4, <1>10, <2>2 DEF Promise
  <2> QED BY <1>1, <1>5, <2>3, AlonePromises
<1>11. CASE t.kind = "schedule"
  <2>1. SchedulePromise(t, jobs, crew, zone, people)
    BY <1>2, <1>11 DEF Promise
  <2>2. SchedulePromise(n, jobs, crew, zone, people)
    BY <1>4, <1>6, <1>7, <1>8, <2>1 DEF SchedulePromise
  <2>3. Promise(n, jobs, crew, zone, people)
    BY <1>4, <1>11, <2>2 DEF Promise
  <2> QED BY <1>1, <1>5, <2>3, AlonePromises
<1> QED BY <1>9, <1>10, <1>11 DEF JobKinds

(* Nor does one of a correction of an address.                              *)
LEMMA AddressStepPromised ==
  ASSUME JInv, OneAtATime, AllPromised, NEW w \in Workers, NEW s \in {"zone", "rows"},
         Does(w, s), tx[w].kind = "address"
  PROVE  AllPromised'
<1> DEFINE t == tx[w]
           n == [[t EXCEPT !.todo = t.todo \ {s}] EXCEPT !.holds = t.holds \cup Locks(t, s)]
<1>1. /\ ~Idle(w) /\ UNCHANGED data
      /\ tx' = [tx EXCEPT ![w].todo = @ \ {s}, ![w].holds = @ \cup Locks(tx[w], s)]
  BY DEF Does, Turn
<1>2. DOMAIN tx = Workers /\ AddressShape(t) /\ Promise(t, jobs, crew, zone, people)
  BY <1>1 DEF JInv, Types, AllSound, Sound, AllPromised
<1>3. DOMAIN t = AddressFields
  BY <1>2 DEF AddressShape
<1>4. /\ n.todo = t.todo \ {s} /\ n.kind = t.kind /\ n.address = t.address
      /\ n.zone = t.zone /\ n.moves = t.moves /\ n.writes = t.writes
  BY <1>3 DEF AddressFields
<1>5. tx'[w] = n
  BY <1>1, <1>2
<1> HIDE DEF n
<1>6. AddressPromise(t, jobs, zone)
  BY <1>2 DEF Promise
<1>7. "select" \in n.todo <=> "select" \in t.todo
  BY <1>4
<1>8. AddressPromise(n, jobs, zone)
  BY <1>4, <1>6, <1>7 DEF AddressPromise
<1>9. Promise(n, jobs, crew, zone, people)
  BY <1>4, <1>8 DEF Promise
<1> QED BY <1>1, <1>5, <1>9, AlonePromises

(* The jobs at the address, as they will be.                                *)
LEMMA SelectPromised ==
  ASSUME JInv, OneAtATime, AllPromised, NEW w \in Workers, SelectJobs(w),
         tx[w].kind = "address"
  PROVE  AllPromised'
<1> DEFINE t == tx[w]
           zones == [zone EXCEPT ![t.address] = t.zone]
           stale == {j \in Jobs : /\ jobs[j].address = t.address
                                  /\ jobs[j].status \in Open
                                  /\ ~Fresh(jobs[j], zones)}
           todo == (t.todo \ {"select"}) \cup When(stale # {}, "rows")
           new == [j \in stale |-> Delta(jobs[j], Refreshed(jobs[j], zones))]
           n == [[t EXCEPT !.todo = todo] EXCEPT !.writes = new]
<1>1. /\ ~Idle(w) /\ UNCHANGED data
      /\ tx' = [tx EXCEPT ![w].todo = (@ \ {"select"}) \cup When(stale # {}, "rows"),
                          ![w].writes = new]
  BY DEF SelectJobs, Turn
<1>2. DOMAIN tx = Workers /\ AddressShape(t) /\ Promise(t, jobs, crew, zone, people)
  BY <1>1 DEF JInv, Types, AllSound, Sound, AllPromised
<1>3. DOMAIN t = AddressFields
  BY <1>2 DEF AddressShape
<1> HIDE DEF new, stale
<1>4. /\ n.kind = t.kind /\ n.address = t.address
      /\ n.zone = t.zone /\ n.moves = t.moves /\ n.writes = new
  BY <1>3 DEF AddressFields
<1>5. tx'[w] = n
  BY <1>1, <1>2
<1> HIDE DEF n, todo
<1>6. AddressPromise(t, jobs, zone)
  BY <1>2 DEF Promise
<1>7. AddressPromise(n, jobs, zone)
  BY <1>4, <1>6 DEF AddressPromise, new, stale
<1>8. Promise(n, jobs, crew, zone, people)
  BY <1>4, <1>7 DEF Promise
<1> QED BY <1>1, <1>5, <1>8, AlonePromises

(* Whatever flush or SELECT comes next, the promise stands.                 *)
LEMMA AdvancePromised ==
  ASSUME JInv, OneAtATime, AllPromised, NEW w \in Workers, Advance(w)
  PROVE  AllPromised'
<1>1. ASSUME NEW s \in {"row", "crew", "settle"}, Does(w, s) PROVE AllPromised'
  <2>1. tx[w].kind \in JobKinds
    BY <1>1, TurnTellsKind DEF Does
  <2> QED BY <1>1, <2>1, JobStepPromised
<1>2. ASSUME NEW s \in {"zone", "rows"}, Does(w, s) PROVE AllPromised'
  <2>1. tx[w].kind = "address"
    BY <1>2, TurnTellsKind DEF Does
  <2> QED BY <1>2, <2>1, AddressStepPromised
<1>3. CASE CheckClashes(w)
  <2>1. tx[w].kind \in JobKinds
    BY <1>3, TurnTellsKind DEF CheckClashes
  <2> QED BY <1>3, <2>1, JobStepPromised DEF CheckClashes
<1>4. CASE SelectJobs(w)
  BY <1>4, TurnTellsKind, SelectPromised DEF SelectJobs
<1>5. CASE FlushRow(w) \/ FlushCrew(w) \/ FlushStatus(w)
  BY <1>1, <1>5 DEF FlushRow, FlushCrew, FlushStatus
<1>6. CASE FlushZone(w) \/ FlushInstants(w)
  BY <1>2, <1>6 DEF FlushZone, FlushInstants
<1> QED BY <1>3, <1>4, <1>5, <1>6 DEF Advance

(* One worker's steps keep the promise: it ends with the transaction.       *)
LEMMA StepOneByOne == OneAtATime /\ OneByOne /\ [Next]_vars => OneByOne'
<1> SUFFICES ASSUME OneAtATime, JInv, AllPromised, [Next]_vars
             PROVE  OneAtATime' /\ JInv' /\ AllPromised'
  BY DEF OneByOne
<1>1. JInv' /\ OneAtATime'
  BY StepJInv DEF OneAtATime
<1>2. CASE UNCHANGED vars
  BY <1>1, <1>2 DEF vars, AllPromised, Idle
<1>3. ASSUME NEW w \in Workers, LoadSome(w) \/ MemberSome(w) \/ Advance(w) \/ End(w)
      PROVE  AllPromised'
  <2>1. \A v \in Workers : v = w
    BY DEF OneAtATime
  <2>2. CASE LoadSome(w)
    BY <2>2, LoadSomePromised
  <2>3. CASE Advance(w)
    BY <2>3, AdvancePromised
  <2>4. CASE MemberSome(w)
    <3>1. Idle(w) /\ UNCHANGED tx
      BY <2>4 DEF MemberSome, UpdateMember
    <3> QED BY <2>1, <3>1 DEF AllPromised, Idle
  <2>5. CASE End(w)
    <3>1. tx'[w] = None
      BY <2>5 DEF End, CommitCreate, CommitJob, CommitAddress, Abort, JInv, Types
    <3> QED BY <2>1, <3>1 DEF AllPromised, Idle
  <2> QED BY <1>3, <2>2, <2>3, <2>4, <2>5
<1> QED BY <1>1, <1>2, <1>3 DEF Next

(* ... and nothing is promised before the first request.                    *)
LEMMA OneByOneHolds == OneAtATime => (Spec => []OneByOne)
<1>1. OneAtATime /\ Init => OneByOne
  BY InitJInv DEF OneByOne, AllPromised, Init, Idle
<1>2. OneAtATime /\ OneByOne /\ [Next]_vars => OneByOne'
  BY StepOneByOne
<1>3. OneByOne => OneAtATime
  BY DEF OneByOne
<1> QED BY <1>1, <1>2, <1>3, PTL DEF Spec

-----------------------------------------------------------------------------
(* The commits are the requests of Dispatch.                                *)

(* What the services compute is what they compute there.                    *)
LEMMA SameRules ==
  /\ Serial!Statuses = Statuses /\ Serial!Open = Open /\ Serial!Dates = Dates
  /\ Serial!Arrival = Arrival /\ Serial!Nobody = Nobody
  /\ Serial!TechnicianTargets = TechnicianTargets
  /\ \A date, window : Serial!ValidBooking(date, window) <=> ValidBooking(date, window)
  /\ \A row : Serial!Stores(row) <=> Stores(row)
  /\ \A pair : Serial!Half(pair) <=> Half(pair)
  /\ \A row : Serial!Booked(row) = Booked(row)
  /\ \A standing : Serial!Assignable(standing) <=> Assignable(standing)
  /\ \A c : Serial!Leads(c) = Leads(c)
  /\ \A c, m : Serial!WithLead(c, m) = WithLead(c, m)
  /\ \A c, ms : Serial!WithHelpers(c, ms) = WithHelpers(c, ms)
  /\ \A folk, c : Serial!MaySee(folk, c) = MaySee(folk, c)
  /\ \A folk, who : Serial!IsTechnician(folk, who) <=> IsTechnician(folk, who)
  /\ \A row, target : Serial!CanMove(row, target) <=> CanMove(row, target)
  /\ \A row, target : Serial!Moved(row, target) = Moved(row, target)
  /\ \A row, led : Serial!Settled(row, led) = Settled(row, led)
  /\ \A row, zones : Serial!Refreshed(row, zones) = Refreshed(row, zones)
  /\ \A row, d, window, a, zones :
       Serial!Edited(row, d, window, a, zones) = Edited(row, d, window, a, zones)
  /\ \A row, d, window, zones :
       Serial!Rebooked(row, d, window, zones) = Rebooked(row, d, window, zones)
  /\ \A d, window, a, m, zones :
       Serial!NewJob(d, window, a, m, zones) = NewJob(d, window, a, m, zones)
  /\ \A rows, crews, j, m, instants :
       Serial!Clashes(rows, crews, j, m, instants) = Clashes(rows, crews, j, m, instants)
<1>1. Serial!Open = Open
  BY DEF Serial!Open, Open
<1>2. Serial!Statuses = Statuses
  BY <1>1 DEF Serial!Statuses, Statuses
<1>3. /\ Serial!Dates = Dates /\ Serial!Arrival = Arrival /\ Serial!Nobody = Nobody
      /\ Serial!TechnicianTargets = TechnicianTargets
  BY DEF Serial!Dates, Dates, Serial!Arrival, Arrival, Serial!Nobody, Nobody,
         Serial!TechnicianTargets, TechnicianTargets
<1>4. /\ \A pair : Serial!Half(pair) <=> Half(pair)
      /\ \A pair : Serial!Whole(pair) <=> Whole(pair)
      /\ \A row : Serial!Booked(row) = Booked(row)
      /\ \A row : Serial!Window(row) = Window(row)
  BY DEF Serial!Half, Half, Serial!Whole, Whole, Serial!Booked, Booked, Serial!Window, Window
<1>5. /\ \A date, window : Serial!ValidBooking(date, window) <=> ValidBooking(date, window)
      /\ \A standing : Serial!Assignable(standing) <=> Assignable(standing)
      /\ \A row : Serial!Stores(row) <=> Stores(row)
  BY <1>4 DEF Serial!ValidBooking, ValidBooking, Serial!Assignable, Assignable,
              Serial!Stores, Stores, Serial!InOrder, InOrder
<1>6. /\ \A c : Serial!Leads(c) = Leads(c)
      /\ \A c, m : Serial!WithLead(c, m) = WithLead(c, m)
      /\ \A c, ms : Serial!WithHelpers(c, ms) = WithHelpers(c, ms)
  BY DEF Serial!Leads, Leads, Serial!WithLead, WithLead, Serial!WithHelpers, WithHelpers
<1>7. /\ \A folk, c : Serial!MaySee(folk, c) = MaySee(folk, c)
      /\ \A folk, who : Serial!IsTechnician(folk, who) <=> IsTechnician(folk, who)
  BY DEF Serial!MaySee, MaySee, Serial!IsTechnician, IsTechnician
<1>8. Serial!NextStatuses = NextStatuses
  BY DEF Serial!NextStatuses, NextStatuses
<1>9. \A row, target : Serial!CanMove(row, target) <=> CanMove(row, target)
  BY <1>8 DEF Serial!CanMove, CanMove
<1>10. /\ \A from, to, x : Serial!CompletedAfter(from, to, x) = CompletedAfter(from, to, x)
      /\ \A from, to, x : Serial!CanceledAfter(from, to, x) = CanceledAfter(from, to, x)
  BY DEF Serial!CompletedAfter, CompletedAfter, Serial!CanceledAfter, CanceledAfter
<1>11. \A row, target : Serial!Moved(row, target) = Moved(row, target)
  BY <1>10 DEF Serial!Moved, Moved
<1>12. \A date, led : Serial!Honest(date, led) = Honest(date, led)
  BY DEF Serial!Honest, Honest
<1>13. \A row, led : Serial!Settled(row, led) = Settled(row, led)
  BY <1>11, <1>12 DEF Serial!Settled, Settled
<1>14. \A d, window, z : Serial!WindowToUtc(d, window, z) = WindowToUtc(d, window, z)
  BY <1>4 DEF Serial!WindowToUtc, WindowToUtc
<1>15. \A row, zones : Serial!Refreshed(row, zones) = Refreshed(row, zones)
  BY <1>4, <1>14 DEF Serial!Refreshed, Refreshed
<1>16. \A row, d, window, a, zones :
         Serial!Edited(row, d, window, a, zones) = Edited(row, d, window, a, zones)
  BY <1>15 DEF Serial!Edited, Edited
<1>17. \A row, d, window, zones :
         Serial!Rebooked(row, d, window, zones) = Rebooked(row, d, window, zones)
  BY <1>15 DEF Serial!Rebooked, Rebooked
<1>18. \A d, window, a, m, zones :
         Serial!NewJob(d, window, a, m, zones) = NewJob(d, window, a, m, zones)
  BY <1>12, <1>15 DEF Serial!NewJob, NewJob
<1>19. \A a, b : Serial!Overlap(a, b) <=> Overlap(a, b)
  BY DEF Serial!Overlap, Overlap
<1>20. \A rows, crews, j, m, instants :
         Serial!Clashes(rows, crews, j, m, instants) = Clashes(rows, crews, j, m, instants)
  BY <1>4, <1>1, <1>19 DEF Serial!Clashes, Clashes
<1> QED BY <1>4, <1>1, <1>2, <1>3, <1>5, <1>6, <1>7, <1>9, <1>11, <1>13, <1>15, <1>16, <1>17,
           <1>18, <1>20

(* The commit of POST /jobs. *)
LEMMA CommitCreateIs ==
  ASSUME OneByOne, NEW w \in Workers, CommitCreate(w)
  PROVE  Serial!CreateSome
<1> DEFINE t == tx[w]
<1>1. /\ ~Idle(w) /\ t.kind = "create"
      /\ jobs' = [jobs EXCEPT ![t.job] = t.row] /\ crew' = [crew EXCEPT ![t.job] = t.crew]
      /\ UNCHANGED <<zone, people>>
  BY DEF CommitCreate, Kind
<1>2. t.job \in Jobs /\ jobs[t.job].status = "absent"
  BY <1>1 DEF OneByOne, JInv, AllSound, Sound, CreateShape
<1>3. CreatePromise(t, zone, people)
  BY <1>1 DEF OneByOne, AllPromised, Promise
<1>4. PICK date \in Dates, window \in Arrival, address \in Addresses,
           lead \in Members \cup {None}, helpers \in SUBSET Members :
        /\ ValidBooking(date, window)
        /\ \A m \in helpers \cup ({lead} \ {None}) : Assignable(people[m])
        /\ t.row = NewJob(date, window, address, lead, zone)
        /\ t.crew = WithHelpers(WithLead(Nobody, lead), helpers)
  BY <1>3 DEF CreatePromise
<1> HIDE DEF t
<1>5. Serial!CreateJob(t.job, date, window, address, lead, helpers)
  BY <1>1, <1>2, <1>4, SameRules DEF Serial!CreateJob, Serial!Exists
<1> QED BY <1>2, <1>5, SameRules DEF Serial!CreateSome

(* What any commit of a request on a job does.                              *)
LEMMA CommitJobDoes ==
  ASSUME OneByOne, NEW w \in Workers, CommitJob(w), NEW t, t = tx[w]
  PROVE  /\ t.kind \in JobKinds /\ t.todo = {} /\ t.job \in Jobs /\ Serial!Exists(t.job)
         /\ Promise(t, jobs, crew, zone, people)
         /\ jobs' = [jobs EXCEPT ![t.job] = FinalRow(t, jobs[t.job])]
         /\ Stores(FinalRow(t, jobs[t.job]))
         /\ crew' = [crew EXCEPT ![t.job] = CrewAfter(t, crew[t.job])]
         /\ UNCHANGED <<zone, people>>
<1>1. /\ ~Idle(w) /\ t.kind \in JobKinds /\ t.todo = {}
      /\ jobs' = [jobs EXCEPT ![t.job] = FinalRow(t, jobs[t.job])]
      /\ crew' = [crew EXCEPT ![t.job] = CrewAfter(t, crew[t.job])]
      /\ UNCHANGED <<zone, people>>
  BY DEF CommitJob, Kind, JobKinds, FinalRow
<1>2. Sound(t, jobs, crew) /\ Promise(t, jobs, crew, zone, people)
  BY <1>1 DEF OneByOne, JInv, AllSound, AllPromised
<1>3. t.job \in Jobs /\ jobs[t.job].status # "absent"
  BY <1>1, <1>2 DEF Sound, JobShape
<1>4. Stores(FinalRow(t, jobs[t.job]))
  <2>1. Types /\ JInv'
    BY CommitJobKeeps DEF OneByOne, JInv
  <2>2. Stores(jobs'[t.job])
    BY <1>3, <2>1 DEF JInv, Committed
  <2>3. jobs'[t.job] = FinalRow(t, jobs[t.job])
    BY <1>1, <1>3, <2>1 DEF Types
  <2> QED BY <2>2, <2>3
<1> QED BY <1>1, <1>2, <1>3, <1>4 DEF Serial!Exists

(* A crew that nobody changes stays.                                        *)
LEMMA AloneIsUnchanged ==
  ASSUME Types, NEW t, NEW j \in Jobs, Alone(t, crew[j]),
         crew' = [crew EXCEPT ![j] = CrewAfter(t, crew[j])]
  PROVE  crew' = crew
BY DEF Types, Alone

(* PATCH /jobs, from an office or from a technician.                        *)
LEMMA CommitUpdateIs ==
  ASSUME OneByOne, NEW w \in Workers, CommitJob(w), tx[w].kind = "update"
  PROVE  Serial!UpdateSome \/ Serial!AnnotateSome
<1> DEFINE t == tx[w]
           j == t.job
<1>1. /\ t.job \in Jobs /\ Serial!Exists(t.job)
      /\ Promise(t, jobs, crew, zone, people)
      /\ jobs' = [jobs EXCEPT ![t.job] = FinalRow(t, jobs[t.job])]
      /\ Stores(FinalRow(t, jobs[t.job]))
      /\ crew' = [crew EXCEPT ![t.job] = CrewAfter(t, crew[t.job])]
      /\ UNCHANGED <<zone, people>>
  BY CommitJobDoes
<1>2. UpdatePromise(t, jobs[t.job], crew[t.job], zone, people)
  BY <1>1 DEF Promise
<1> HIDE DEF t
<1>3. UNCHANGED crew
  BY <1>1, <1>2, AloneIsUnchanged DEF OneByOne, JInv, UpdatePromise
<1>4. ASSUME NEW date \in Dates, NEW window \in Arrival, NEW address \in Addresses,
             FinalRow(t, jobs[j]) = Edited(jobs[j], date, window, address, zone)
      PROVE  Serial!UpdateSome
  <2>1. Serial!UpdateJob(j, date, window, address)
    BY <1>1, <1>3, <1>4, SameRules DEF Serial!UpdateJob
  <2> QED BY <1>1, <2>1, SameRules DEF Serial!UpdateSome
<1>5. ASSUME NEW who \in Members, who \in MaySee(people, crew[j]), IsTechnician(people, who),
             FinalRow(t, jobs[j]) = Refreshed(jobs[j], zone)
      PROVE  Serial!AnnotateSome
  <2>1. Serial!AnnotateJob(who, j)
    BY <1>1, <1>3, <1>5, SameRules DEF Serial!AnnotateJob, Serial!Viewers
  <2> QED BY <1>1, <2>1 DEF Serial!AnnotateSome
<1> QED BY <1>2, <1>4, <1>5 DEF UpdatePromise

(* POST /jobs/{id}/status *)
LEMMA CommitStatusIs ==
  ASSUME OneByOne, NEW w \in Workers, CommitJob(w), tx[w].kind = "status"
  PROVE  Serial!StatusSome
<1> DEFINE t == tx[w]
           j == t.job
<1>1. /\ t.job \in Jobs /\ Serial!Exists(t.job)
      /\ Promise(t, jobs, crew, zone, people)
      /\ jobs' = [jobs EXCEPT ![t.job] = FinalRow(t, jobs[t.job])]
      /\ crew' = [crew EXCEPT ![t.job] = CrewAfter(t, crew[t.job])]
      /\ UNCHANGED <<zone, people>>
  BY CommitJobDoes
<1>2. StatusPromise(t, jobs[t.job], crew[t.job], people)
  BY <1>1 DEF Promise
<1> HIDE DEF t
<1>3. UNCHANGED crew
  BY <1>1, <1>2, AloneIsUnchanged DEF OneByOne, JInv, StatusPromise
<1>4. PICK target \in Targets, who \in Members \cup {Office} :
        /\ who \in MaySee(people, crew[j])
        /\ IsTechnician(people, who) => target \in TechnicianTargets
        /\ CanMove(jobs[j], target)
        /\ FinalRow(t, jobs[j]) = Moved(jobs[j], target)
  BY <1>2 DEF StatusPromise
<1>5. Serial!ChangeStatus(who, j, target)
  BY <1>1, <1>3, <1>4, SameRules DEF Serial!ChangeStatus, Serial!Viewers
<1>6. target \in Serial!Statuses
  BY SameRules, ChoicesAssumption
<1> QED BY <1>1, <1>5, <1>6 DEF Serial!StatusSome

(* POST /jobs/{id}/schedule: the clashes that were looked for are still     *)
(* those of the rows that are committed.                                    *)
LEMMA CommitScheduleIs ==
  ASSUME OneByOne, NEW w \in Workers, CommitJob(w), tx[w].kind = "schedule"
  PROVE  Serial!ScheduleSome
<1> DEFINE t == tx[w]
           j == t.job
<1>1. /\ t.job \in Jobs /\ Serial!Exists(t.job) /\ t.todo = {}
      /\ Promise(t, jobs, crew, zone, people)
      /\ jobs' = [jobs EXCEPT ![t.job] = FinalRow(t, jobs[t.job])]
      /\ Stores(FinalRow(t, jobs[t.job]))
      /\ crew' = [crew EXCEPT ![t.job] = CrewAfter(t, crew[t.job])]
      /\ UNCHANGED <<zone, people>>
  BY CommitJobDoes
<1>2. SchedulePromise(t, jobs, crew, zone, people)
  BY <1>1 DEF Promise
<1> HIDE DEF t
<1>3. PICK date \in Dates, window \in Arrival, allow \in Overrides,
           leads \in {{}} \cup {{m} : m \in Members \cup {None}} :
        LET booked == Rebooked(jobs[t.job], date, window, zone)
            after  == NewCrew(crew[t.job], leads)
        IN
        /\ ~Half(window)
        /\ \A m \in leads \ {None} : Assignable(people[m])
        /\ FinalRow(t, jobs[t.job]) = Settled(booked, Leads(after) # {})
        /\ CrewAfter(t, crew[t.job]) = after
        /\ allow \/ Checked(t, jobs, crew, Leads(after), Booked(booked))
  BY <1>2 DEF SchedulePromise
<1> DEFINE booked == Rebooked(jobs[j], date, window, zone)
           after == NewCrew(crew[j], leads)
<1>4. /\ ~Half(window)
      /\ \A m \in leads \ {None} : Assignable(people[m])
      /\ FinalRow(t, jobs[j]) = Settled(booked, Leads(after) # {})
      /\ CrewAfter(t, crew[j]) = after
      /\ \/ allow
         \/ \A m \in Leads(after) : Clashes(jobs, crew, j, m, Booked(booked)) = {}
  BY <1>1, <1>3 DEF Checked
<1>5. Serial!CrewAfter(j, leads) = after
  BY SameRules DEF Serial!CrewAfter, NewCrew
<1>6. Serial!Rebooked(jobs[j], date, window, zone) = booked
  BY SameRules
<1>7. Stores(booked)
  <2> DEFINE led == Leads(after) # {}
             row == [jobs[j] EXCEPT !.date = date, !.start = window[1], !.end = window[2]]
  <2>1. jobs[j] \in Row /\ zone \in [Addresses -> Zones]
    BY <1>1 DEF OneByOne, JInv, Types
  <2>2. row \in Row /\ booked = Refreshed(row, zone)
    BY <2>1 DEF Row, Arrival, Rebooked
  <2>3. booked \in Row /\ led \in BOOLEAN
    BY <2>1, <2>2, RefreshedType
  <2> HIDE DEF booked, led
  <2>4. Settled(booked, led) = [booked EXCEPT !.status = Settled(booked, led).status]
    BY <2>3, SettledIs
  <2>5. \A f \in {"start", "end", "start_utc", "end_utc"} : booked[f] = Settled(booked, led)[f]
    BY <2>3, <2>4 DEF Row
  <2>6. Stores(Settled(booked, led))
    BY <1>1, <1>4 DEF led
  <2> QED BY <2>5, <2>6, StoresIs
<1> HIDE DEF booked, after
<1>8. Serial!ScheduleJob(j, date, window, leads, allow)
  BY <1>1, <1>4, <1>5, <1>6, <1>7, SameRules DEF Serial!ScheduleJob
<1> QED BY <1>1, <1>8, SameRules DEF Serial!ScheduleSome

(* PATCH /customers/{id}/addresses/{id}: the jobs that were selected are    *)
(* those that the new zone makes stale.                                     *)
LEMMA CommitAddressIs ==
  ASSUME OneByOne, NEW w \in Workers, CommitAddress(w)
  PROVE  Serial!AddressSome
<1> DEFINE t == tx[w]
           new == [zone EXCEPT ![t.address] = t.zone]
           stale == {j \in Jobs : /\ jobs[j].address = t.address
                                  /\ jobs[j].status \in Open
                                  /\ ~Fresh(jobs[j], new)}
           here == {j \in Jobs : jobs[j].address = t.address /\ jobs[j].status \in Open}
<1>1. /\ ~Idle(w) /\ t.kind = "address" /\ t.todo = {}
      /\ zone' = IF t.moves THEN [zone EXCEPT ![t.address] = t.zone] ELSE zone
      /\ jobs' = [j \in Jobs |-> IF j \in DOMAIN t.writes
                                 THEN Merge(jobs[j], t.writes[j]) ELSE jobs[j]]
      /\ UNCHANGED <<crew, people>>
  BY DEF CommitAddress, Kind
<1>2. Types /\ AddressShape(t) /\ AddressPromise(t, jobs, zone)
  BY <1>1 DEF OneByOne, JInv, AllSound, Sound, AllPromised, Promise
<1>3. t.address \in Addresses /\ t.zone \in Zones /\ zone \in [Addresses -> Zones]
  BY <1>2 DEF AddressShape, Types
<1>4. /\ t.moves <=> zone[t.address] # t.zone
      /\ t.writes = [j \in stale |-> Delta(jobs[j], Refreshed(jobs[j], new))]
  BY <1>1, <1>2 DEF AddressPromise
<1>5. zone' = new
  BY <1>1, <1>3, <1>4
<1>6. new \in [Addresses -> Zones]
  BY <1>3
<1> HIDE DEF t, new
<1>7. /\ DOMAIN t.writes = stale
      /\ \A j \in stale : t.writes[j] = Delta(jobs[j], Refreshed(jobs[j], new))
  BY <1>4
<1>8. ASSUME NEW j \in Jobs
      PROVE  (IF j \in DOMAIN t.writes THEN Merge(jobs[j], t.writes[j]) ELSE jobs[j])
             = IF j \in here THEN Refreshed(jobs[j], new) ELSE jobs[j]
  <2>1. jobs[j] \in Row /\ Refreshed(jobs[j], new) \in Row
    BY <1>2, <1>6, RefreshedType DEF Types
  <2>2. CASE j \in stale
    BY <1>7, <2>1, <2>2, MergeOwn
  <2>3. CASE j \notin stale
    BY <1>7, <2>3 DEF Fresh
  <2> QED BY <2>2, <2>3
<1>9. jobs' = [j \in Jobs |-> IF j \in here THEN Refreshed(jobs[j], new) ELSE jobs[j]]
  BY <1>1, <1>8
<1>10. here = {j \in Jobs : jobs[j].address = t.address /\ jobs[j].status \in Serial!Open}
  BY SameRules
<1>11. \A j : Serial!Refreshed(jobs[j], new) = Refreshed(jobs[j], new)
  BY SameRules
<1>12. Serial!UpdateAddress(t.address, t.zone)
  <2> HIDE DEF here
  <2> QED BY <1>1, <1>5, <1>9, <1>10, <1>11 DEF Serial!UpdateAddress, new
<1> QED BY <1>3, <1>12 DEF Serial!AddressSome

(* Each step of one worker is a request of Dispatch or changes nothing that *)
(* is committed.                                                            *)
LEMMA StepIsSerial == OneByOne /\ [Next]_vars => [Serial!Next]_(Serial!vars)
<1> SUFFICES ASSUME OneByOne, [Next]_vars
             PROVE  Serial!Next \/ UNCHANGED data
  BY DEF Serial!vars, data
<1>1. CASE UNCHANGED vars
  BY <1>1 DEF vars, data
<1>2. ASSUME NEW w \in Workers, LoadSome(w) \/ Advance(w)
      PROVE  UNCHANGED data
  <2>1. \A endpoint, t : Load(w, endpoint, t) => UNCHANGED data
    BY DEF Load
  <2>2. CASE LoadSome(w)
    <3>1. \A j, date, window, address, lead, helpers :
            LoadCreate(w, j, date, window, address, lead, helpers) => UNCHANGED data
      BY <2>1 DEF LoadCreate
    <3>2. \A j, date, window, address :
            LoadUpdate(w, j, date, window, address) => UNCHANGED data
      BY <2>1 DEF LoadUpdate
    <3>3. \A j, who : LoadAnnotate(w, who, j) => UNCHANGED data
      BY <2>1 DEF LoadAnnotate
    <3>4. \A j, date, window, leads, allow :
            LoadSchedule(w, j, date, window, leads, allow) => UNCHANGED data
      BY <2>1 DEF LoadSchedule
    <3>5. \A j, who, target : LoadStatus(w, who, j, target) => UNCHANGED data
      BY <2>1 DEF LoadStatus
    <3>6. \A a, z : LoadAddress(w, a, z) => UNCHANGED data
      BY <2>1 DEF LoadAddress
    <3> QED BY <2>2, <3>1, <3>2, <3>3, <3>4, <3>5, <3>6 DEF LoadSome
  <2>3. \A s : Does(w, s) => UNCHANGED data
    BY DEF Does
  <2>4. CASE Advance(w)
    BY <2>3, <2>4 DEF Advance, FlushRow, FlushCrew, CheckClashes, FlushStatus, FlushZone,
       SelectJobs, FlushInstants
  <2> QED BY <1>2, <2>2, <2>4
<1>3. ASSUME NEW w \in Workers, MemberSome(w)
      PROVE  Serial!Next
  BY <1>3 DEF MemberSome, UpdateMember, Serial!MemberSome, Serial!Next
<1>4. ASSUME NEW w \in Workers, CommitJob(w)
      PROVE  Serial!Next
  <2>1. tx[w].kind \in JobKinds
    BY <1>4, CommitJobDoes
  <2> QED BY <1>4, <2>1, CommitUpdateIs, CommitStatusIs, CommitScheduleIs
          DEF JobKinds, Serial!Next
<1>5. ASSUME NEW w \in Workers, End(w)
      PROVE  Serial!Next \/ UNCHANGED data
  BY <1>4, <1>5, CommitCreateIs, CommitAddressIs DEF End, Abort, Serial!Next
<1> QED BY <1>1, <1>2, <1>3, <1>5 DEF Next

(* A transaction that runs alone is the indivisible request that Dispatch   *)
(* describes: with one worker, whatever the jobs, the crews and the calls,  *)
(* loads, flushes and commits are the handlers of routers/jobs.py run one   *)
(* at a time.                                                               *)
THEOREM Refinement == OneAtATime => (Spec => ImplementsDispatch)
<1>1. Init => Serial!Init
  BY DEF Init
<1>2. OneByOne /\ [Next]_vars => [Serial!Next]_(Serial!vars)
  BY StepIsSerial
<1> QED BY <1>1, <1>2, OneByOneHolds, PTL DEF Spec, ImplementsDispatch, Serial!Spec

-----------------------------------------------------------------------------
(* One worker: what holds of the handlers when nothing overlaps.            *)

(* What the requests of Dispatch do to one row and one crew.                *)
Created(old, new, newCrew) ==
  \E date \in Dates, window \in Arrival, address \in Addresses,
     lead \in Members \cup {None}, helpers \in SUBSET Members :
    /\ old.status = "absent"
    /\ new = NewJob(date, window, address, lead, zone)
    /\ newCrew = WithHelpers(WithLead(Nobody, lead), helpers)

Recomputed(old, new, oldCrew, newCrew) ==
  \E row \in Row :
    /\ row.status = old.status /\ row.completed = old.completed
    /\ row.canceled = old.canceled
    /\ new = Refreshed(row, zone)
    /\ newCrew = oldCrew

Scheduled(old, new, newCrew) ==
  \E row \in Row :
    /\ row.status = old.status /\ row.completed = old.completed
    /\ row.canceled = old.canceled
    /\ new = Settled(Refreshed(row, zone), Leads(newCrew) # {})

MovedOn(old, new, oldCrew, newCrew) ==
  \E target \in Statuses :
    /\ CanMove(old, target)
    /\ new = Moved(old, target)
    /\ newCrew = oldCrew

Handled(old, new, oldCrew, newCrew) ==
  \/ Created(old, new, newCrew)
  \/ /\ old.status # "absent"
     /\ \/ Recomputed(old, new, oldCrew, newCrew)
        \/ Scheduled(old, new, newCrew)
        \/ MovedOn(old, new, oldCrew, newCrew)

(* POST /jobs *)
LEMMA CreateHandles ==
  ASSUME Types, Types', Serial!CreateSome
  PROVE  /\ zone' = zone
         /\ \E j \in Jobs : /\ Handled(jobs[j], jobs'[j], crew[j], crew'[j])
                            /\ \A k \in Jobs \ {j} : jobs'[k] = jobs[k] /\ crew'[k] = crew[k]
<1>1. PICK j \in Jobs, date \in Dates, window \in Arrival, address \in Addresses,
           lead \in Members \cup {None}, helpers \in SUBSET Members :
        Serial!CreateJob(j, date, window, address, lead, helpers)
  BY SameRules DEF Serial!CreateSome
<1>2. /\ jobs[j].status = "absent" /\ zone' = zone
      /\ jobs' = [jobs EXCEPT ![j] = NewJob(date, window, address, lead, zone)]
      /\ crew' = [crew EXCEPT ![j] = WithHelpers(WithLead(Nobody, lead), helpers)]
  BY <1>1, SameRules DEF Serial!CreateJob, Serial!Exists
<1>3. /\ jobs'[j] = NewJob(date, window, address, lead, zone)
      /\ crew'[j] = WithHelpers(WithLead(Nobody, lead), helpers)
      /\ \A k \in Jobs \ {j} : jobs'[k] = jobs[k] /\ crew'[k] = crew[k]
  BY <1>2 DEF Types
<1>4. Created(jobs[j], jobs'[j], crew'[j])
  BY <1>2, <1>3 DEF Created
<1> QED BY <1>2, <1>3, <1>4 DEF Handled

(* PATCH /jobs/{id} *)
LEMMA UpdateHandles ==
  ASSUME Types, Types', Serial!UpdateSome \/ Serial!AnnotateSome
  PROVE  /\ zone' = zone
         /\ \E j \in Jobs : /\ Handled(jobs[j], jobs'[j], crew[j], crew'[j])
                            /\ \A k \in Jobs \ {j} : jobs'[k] = jobs[k] /\ crew'[k] = crew[k]
<1>1. ASSUME NEW j \in Jobs, NEW row \in Row, jobs[j].status # "absent",
             row.status = jobs[j].status, row.completed = jobs[j].completed,
             row.canceled = jobs[j].canceled,
             jobs' = [jobs EXCEPT ![j] = Refreshed(row, zone)], crew' = crew
      PROVE  /\ Handled(jobs[j], jobs'[j], crew[j], crew'[j])
             /\ \A k \in Jobs \ {j} : jobs'[k] = jobs[k] /\ crew'[k] = crew[k]
  <2>1. /\ jobs'[j] = Refreshed(row, zone)
        /\ \A k \in Jobs \ {j} : jobs'[k] = jobs[k] /\ crew'[k] = crew[k]
    BY <1>1 DEF Types
  <2>2. Recomputed(jobs[j], jobs'[j], crew[j], crew'[j])
    BY <1>1, <2>1 DEF Recomputed
  <2> QED BY <1>1, <2>1, <2>2 DEF Handled
<1>2. CASE Serial!UpdateSome
  <2>1. PICK j \in Jobs, date \in Dates, window \in Arrival, address \in Addresses :
          Serial!UpdateJob(j, date, window, address)
    BY <1>2, SameRules DEF Serial!UpdateSome
  <2> DEFINE row == [jobs[j] EXCEPT !.date = date, !.start = window[1], !.end = window[2],
                                    !.address = address]
  <2>2. /\ jobs[j].status # "absent" /\ zone' = zone /\ crew' = crew
        /\ jobs' = [jobs EXCEPT ![j] = Edited(jobs[j], date, window, address, zone)]
    BY <2>1, SameRules DEF Serial!UpdateJob, Serial!Exists
  <2>3. jobs[j] \in Row
    BY DEF Types
  <2>4. /\ row \in Row /\ row.status = jobs[j].status /\ row.completed = jobs[j].completed
        /\ row.canceled = jobs[j].canceled
    BY <2>3 DEF Row, Arrival
  <2>5. Edited(jobs[j], date, window, address, zone) = Refreshed(row, zone)
    BY DEF Edited
  <2> HIDE DEF row
  <2> QED BY <1>1, <2>2, <2>4, <2>5
<1>3. CASE Serial!AnnotateSome
  <2>1. PICK j \in Jobs, who \in Members : Serial!AnnotateJob(who, j)
    BY <1>3 DEF Serial!AnnotateSome
  <2>2. /\ jobs[j].status # "absent" /\ zone' = zone /\ crew' = crew
        /\ jobs' = [jobs EXCEPT ![j] = Refreshed(jobs[j], zone)]
    BY <2>1, SameRules DEF Serial!AnnotateJob, Serial!Exists
  <2>3. jobs[j] \in Row
    BY DEF Types
  <2> QED BY <1>1, <2>2, <2>3
<1> QED BY <1>2, <1>3

(* POST /jobs/{id}/schedule *)
LEMMA ScheduleHandles ==
  ASSUME Types, Types', Serial!ScheduleSome
  PROVE  /\ zone' = zone
         /\ \E j \in Jobs : /\ Handled(jobs[j], jobs'[j], crew[j], crew'[j])
                            /\ \A k \in Jobs \ {j} : jobs'[k] = jobs[k] /\ crew'[k] = crew[k]
<1>1. PICK j \in Jobs, date \in Dates, window \in Arrival, allow \in Overrides,
           leads \in {{}} \cup {{m} : m \in Members \cup {None}} :
        Serial!ScheduleJob(j, date, window, leads, allow)
  BY SameRules DEF Serial!ScheduleSome
<1> DEFINE row == [jobs[j] EXCEPT !.date = date, !.start = window[1], !.end = window[2]]
           after == Serial!CrewAfter(j, leads)
<1>2. /\ jobs[j].status # "absent" /\ zone' = zone
      /\ jobs' = [jobs EXCEPT ![j] = Settled(Rebooked(jobs[j], date, window, zone),
                                             Leads(after) # {})]
      /\ crew' = [crew EXCEPT ![j] = after]
  BY <1>1, SameRules DEF Serial!ScheduleJob, Serial!Exists
<1>3. jobs[j] \in Row
  BY DEF Types
<1>4. /\ row \in Row /\ row.status = jobs[j].status /\ row.completed = jobs[j].completed
      /\ row.canceled = jobs[j].canceled
  BY <1>3 DEF Row, Arrival
<1>5. Rebooked(jobs[j], date, window, zone) = Refreshed(row, zone)
  BY DEF Rebooked
<1> HIDE DEF row, after
<1>6. /\ crew'[j] = after /\ jobs'[j] = Settled(Refreshed(row, zone), Leads(after) # {})
      /\ \A k \in Jobs \ {j} : jobs'[k] = jobs[k] /\ crew'[k] = crew[k]
  BY <1>2, <1>5 DEF Types
<1>7. Scheduled(jobs[j], jobs'[j], crew'[j])
  BY <1>4, <1>6 DEF Scheduled
<1> QED BY <1>2, <1>6, <1>7 DEF Handled

(* POST /jobs/{id}/status *)
LEMMA StatusHandles ==
  ASSUME Types, Types', Serial!StatusSome
  PROVE  /\ zone' = zone
         /\ \E j \in Jobs : /\ Handled(jobs[j], jobs'[j], crew[j], crew'[j])
                            /\ \A k \in Jobs \ {j} : jobs'[k] = jobs[k] /\ crew'[k] = crew[k]
<1>1. PICK j \in Jobs, target \in Statuses, who \in Members \cup {Office} :
        Serial!ChangeStatus(who, j, target)
  BY SameRules DEF Serial!StatusSome
<1>2. /\ jobs[j].status # "absent" /\ zone' = zone /\ crew' = crew
      /\ CanMove(jobs[j], target)
      /\ jobs' = [jobs EXCEPT ![j] = Moved(jobs[j], target)]
  BY <1>1, SameRules DEF Serial!ChangeStatus, Serial!Exists
<1>3. /\ jobs'[j] = Moved(jobs[j], target)
      /\ \A k \in Jobs \ {j} : jobs'[k] = jobs[k] /\ crew'[k] = crew[k]
  BY <1>2 DEF Types
<1>4. MovedOn(jobs[j], jobs'[j], crew[j], crew'[j])
  BY <1>2, <1>3 DEF MovedOn
<1> QED BY <1>2, <1>3, <1>4 DEF Handled

(* A corrected zone recomputes the open jobs of its address.                *)
Relocated(row, a, zones) ==
  IF row.address = a /\ row.status \in Open THEN Refreshed(row, zones) ELSE row

LEMMA AddressHandles ==
  ASSUME Types, Types', Serial!AddressSome
  PROVE  \E a \in Addresses :
           /\ zone' \in [Addresses -> Zones] /\ crew' = crew
           /\ \A b \in Addresses \ {a} : zone'[b] = zone[b]
           /\ \A j \in Jobs : jobs'[j] = Relocated(jobs[j], a, zone')
<1>1. PICK a \in Addresses, z \in Zones : Serial!UpdateAddress(a, z)
  BY DEF Serial!AddressSome
<1> DEFINE new == [zone EXCEPT ![a] = z]
           here == {j \in Jobs : jobs[j].address = a /\ jobs[j].status \in Open}
<1>2. /\ zone' = new /\ crew' = crew
      /\ jobs' = [j \in Jobs |-> IF j \in here THEN Refreshed(jobs[j], new) ELSE jobs[j]]
  BY <1>1, SameRules DEF Serial!UpdateAddress
<1>3. \A b \in Addresses \ {a} : zone'[b] = zone[b]
  BY <1>2 DEF Types
<1> HIDE DEF new
<1>4. \A j \in Jobs : jobs'[j] = Relocated(jobs[j], a, zone')
  BY <1>2 DEF Relocated
<1> QED BY <1>2, <1>3, <1>4 DEF Types

(* A request of Dispatch handles one job, or moves an address, or touches   *)
(* no job.                                                                  *)
LEMMA SerialHandles ==
  ASSUME Types, Types', Serial!Next
  PROVE  \/ /\ zone' = zone
            /\ \E j \in Jobs : /\ Handled(jobs[j], jobs'[j], crew[j], crew'[j])
                               /\ \A k \in Jobs \ {j} : jobs'[k] = jobs[k] /\ crew'[k] = crew[k]
         \/ \E a \in Addresses :
              /\ zone' \in [Addresses -> Zones] /\ crew' = crew
              /\ \A b \in Addresses \ {a} : zone'[b] = zone[b]
              /\ \A j \in Jobs : jobs'[j] = Relocated(jobs[j], a, zone')
         \/ jobs' = jobs /\ crew' = crew /\ zone' = zone
<1>1. CASE Serial!MemberSome
  BY <1>1 DEF Serial!MemberSome, Serial!UpdateMember
<1> QED BY <1>1, CreateHandles, UpdateHandles, ScheduleHandles, StatusHandles, AddressHandles
        DEF Serial!Next

(* What a settled job is.                                                   *)
LEMMA SettledFields ==
  ASSUME NEW row \in Row, NEW led \in BOOLEAN
  PROVE  /\ Settled(row, led) \in Row
         /\ \A f \in Fields \ {"status"} : Settled(row, led)[f] = row[f]
         /\ row.status \in {"unscheduled", "scheduled"} =>
              Settled(row, led).status = Honest(row.date, led)
         /\ row.status \notin {"unscheduled", "scheduled"} =>
              Settled(row, led).status = row.status
<1> DEFINE new == Settled(row, led)
           status == new.status
<1>1. new \in Row /\ new = [row EXCEPT !.status = status]
  BY SettledIs
<1>2. \A f \in Fields \ {"status"} : [row EXCEPT !.status = status][f] = row[f]
  BY DEF Row, Fields
<1>3. row.status \notin {"unscheduled", "scheduled"} => status = row.status
  BY DEF Settled
<1>4. ASSUME row.status \in {"unscheduled", "scheduled"}
      PROVE  status = Honest(row.date, led)
  <2>1. Honest(row.date, led) \in Statuses
    BY DEF Honest, Statuses, Open
  <2>2. new = Moved(row, Honest(row.date, led))
    BY <1>4 DEF Settled
  <2> QED BY <2>1, <2>2, MovedType
<1> HIDE DEF new, status
<1>5. \A f \in Fields \ {"status"} : new[f] = row[f]
  BY <1>1, <1>2
<1> QED BY <1>1, <1>3, <1>4, <1>5 DEF new, status

(* Named helpers do not change who leads.                                   *)
LEMMA NewCrewLeads ==
  ASSUME NEW lead \in Members \cup {None}, NEW helpers
  PROVE  Leads(WithHelpers(WithLead(Nobody, lead), helpers)) # {} <=> lead # None
<1> DEFINE c == WithHelpers(WithLead(Nobody, lead), helpers)
<1>1. \A m \in Members : c[m] = "lead" <=> m = lead
  BY DEF WithHelpers, WithLead, Nobody
<1> HIDE DEF c
<1>2. Leads(c) # {} <=> lead \in Members
  BY <1>1 DEF Leads
<1> QED BY <1>2, NoneAssumption DEF c

(* Whenever the crew changes, the status of a job that has not set off is   *)
(* what its date and its lead say.                                          *)
LEMMA CrewChangeSettles ==
  ASSUME Types, Types', Serial!Next, NEW j \in Jobs, crew'[j] # crew[j],
         jobs'[j].status \in {"unscheduled", "scheduled"}
  PROVE  jobs'[j].status = Honest(jobs'[j].date, Leads(crew'[j]) # {})
<1> DEFINE old == jobs[j]
           new == jobs'[j]
           c == crew'[j]
<1>1. Handled(old, new, crew[j], c)
  BY SerialHandles
<1>2. Created(old, new, c) \/ Scheduled(old, new, c)
  BY <1>1 DEF Handled, Recomputed, MovedOn
<1> HIDE DEF old, c, new
<1>3. CASE Created(old, new, c)
  <2>1. PICK date \in Dates, window \in Arrival, address \in Addresses,
             lead \in Members \cup {None}, helpers \in SUBSET Members :
          /\ new = NewJob(date, window, address, lead, zone)
          /\ c = WithHelpers(WithLead(Nobody, lead), helpers)
    BY <1>3 DEF Created
  <2>2. Leads(c) # {} <=> lead # None
    BY <2>1, NewCrewLeads
  <2>3. zone \in [Addresses -> Zones]
    BY DEF Types
  <2>4. /\ new.status \in {"scheduled", "unscheduled"} /\ new.date = date
        /\ new.status = "scheduled" <=> date # None /\ lead # None
    BY <2>1, <2>3, NewJobIs
  <2> QED BY <2>2, <2>4 DEF Honest, new, c
<1>4. CASE Scheduled(old, new, c)
  <2>1. PICK row \in Row : new = Settled(Refreshed(row, zone), Leads(c) # {})
    BY <1>4 DEF Scheduled
  <2> DEFINE led == Leads(c) # {}
             booked == Refreshed(row, zone)
  <2>2. booked \in Row /\ led \in BOOLEAN
    BY RefreshedType DEF Types
  <2> HIDE DEF led, booked
  <2>3. new = Settled(booked, led)
    BY <2>1 DEF led, booked
  <2>4. /\ new.date = booked.date
        /\ booked.status \in {"unscheduled", "scheduled"} => new.status = Honest(booked.date, led)
        /\ booked.status \notin {"unscheduled", "scheduled"} => new.status = booked.status
    BY <2>2, <2>3, SettledFields DEF Fields
  <2> QED BY <2>4 DEF led, new, c
<1> QED BY <1>2, <1>3, <1>4

(* Fresh instants are those of the date, the window and the zone.           *)
LEMMA FreshIs ==
  ASSUME NEW row \in Row, NEW zones \in [Addresses -> Zones]
  PROVE  Fresh(row, zones) <=>
           Booked(row) = WindowToUtc(row.date, Window(row), zones[row.address])
<1> DEFINE new == Refreshed(row, zones)
<1>1. /\ new \in Row /\ \A f \in Fields \ {"start_utc", "end_utc"} : new[f] = row[f]
      /\ Booked(new) = WindowToUtc(row.date, Window(row), zones[row.address])
  BY RefreshedType
<1>2. Fresh(row, zones) <=> new = row
  BY DEF Fresh
<1> HIDE DEF new
<1>3. new = [f \in Fields |-> new[f]] /\ row = [f \in Fields |-> row[f]]
  BY <1>1, RowFields
<1>4. Booked(new) = Booked(row) <=> new.start_utc = row.start_utc /\ new.end_utc = row.end_utc
  BY DEF Booked
<1>5. new = row <=> Booked(new) = Booked(row)
  BY <1>1, <1>3, <1>4 DEF Fields
<1> QED BY <1>1, <1>2, <1>5

(* Recomputed instants are fresh.                                           *)
LEMMA RefreshedIsFresh ==
  ASSUME NEW row \in Row, NEW zones \in [Addresses -> Zones]
  PROVE  Fresh(Refreshed(row, zones), zones)
<1> DEFINE new == Refreshed(row, zones)
<1>1. /\ new \in Row /\ \A f \in Fields \ {"start_utc", "end_utc"} : new[f] = row[f]
      /\ Booked(new) = WindowToUtc(row.date, Window(row), zones[row.address])
  BY RefreshedType
<1> HIDE DEF new
<1>2. new.date = row.date /\ Window(new) = Window(row) /\ new.address = row.address
  BY <1>1 DEF Fields, Window
<1> QED BY <1>1, <1>2, FreshIs DEF new

(* ... and stay so when only the status and its timestamps change.          *)
LEMMA FreshStays ==
  ASSUME NEW row \in Row, NEW new \in Row, NEW zones \in [Addresses -> Zones],
         Fresh(row, zones),
         \A f \in Fields \ {"status", "completed", "canceled"} : new[f] = row[f]
  PROVE  Fresh(new, zones)
<1>1. /\ new.date = row.date /\ Window(new) = Window(row) /\ new.address = row.address
      /\ Booked(new) = Booked(row)
  BY DEF Fields, Window, Booked
<1> QED BY <1>1, FreshIs

(* A fresh open job that stays open stays fresh.                            *)
LEMMA OpenStaysFresh ==
  ASSUME Types, Types', Serial!Next, NEW j \in Jobs, jobs[j].status \in Open,
         Fresh(jobs[j], zone)
  PROVE  Fresh(jobs'[j], zone')
<1> DEFINE old == jobs[j]
           new == jobs'[j]
<1>0. old \in Row /\ zone \in [Addresses -> Zones]
  BY DEF Types
<1>1. CASE new = old /\ zone' = zone
  BY <1>1
<1>2. CASE zone' = zone /\ Handled(old, new, crew[j], crew'[j])
  <2>1. ~Created(old, new, crew'[j])
    BY DEF Created, Open
  <2> HIDE DEF old, new
  <2>2. CASE Recomputed(old, new, crew[j], crew'[j])
    <3>1. PICK row \in Row : new = Refreshed(row, zone)
      BY <2>2 DEF Recomputed
    <3> QED BY <1>0, <1>2, <3>1, RefreshedIsFresh DEF new
  <2>3. CASE Scheduled(old, new, crew'[j])
    <3>1. PICK row \in Row : new = Settled(Refreshed(row, zone), Leads(crew'[j]) # {})
      BY <2>3 DEF Scheduled
    <3> DEFINE led == Leads(crew'[j]) # {}
               booked == Refreshed(row, zone)
    <3>2. booked \in Row /\ led \in BOOLEAN /\ Fresh(booked, zone)
      BY <1>0, RefreshedType, RefreshedIsFresh
    <3> HIDE DEF led, booked
    <3>3. new = Settled(booked, led)
      BY <3>1 DEF led, booked
    <3>4. new \in Row /\ \A f \in Fields \ {"status"} : new[f] = booked[f]
      BY <3>2, <3>3, SettledFields
    <3> QED BY <1>0, <1>2, <3>2, <3>4, FreshStays DEF new
  <2>4. CASE MovedOn(old, new, crew[j], crew'[j])
    <3>1. PICK target \in Statuses : new = Moved(old, target)
      BY <2>4 DEF MovedOn
    <3>2. new \in Row /\ \A f \in Fields \ {"status", "completed", "canceled"} : new[f] = old[f]
      BY <1>0, <3>1, MovedType
    <3>3. Fresh(old, zone)
      BY DEF old
    <3> QED BY <1>0, <1>2, <3>2, <3>3, FreshStays DEF new
  <2> QED BY <1>2, <2>1, <2>2, <2>3, <2>4 DEF Handled
<1>3. ASSUME NEW a \in Addresses, zone' \in [Addresses -> Zones],
             \A b \in Addresses \ {a} : zone'[b] = zone[b],
             new = Relocated(old, a, zone')
      PROVE  Fresh(new, zone')
  <2>1. CASE old.address = a
    <3>1. new = Refreshed(old, zone')
      BY <1>3, <2>1 DEF Relocated
    <3> QED BY <1>0, <1>3, <3>1, RefreshedIsFresh
  <2>2. CASE old.address # a
    <3>1. new = old
      BY <1>3, <2>2 DEF Relocated
    <3>2. old.address \in Addresses
      BY <1>0 DEF Row
    <3>3. zone'[old.address] = zone[old.address]
      BY <1>3, <2>2, <3>2
    <3>4. Fresh(old, zone')
      BY <1>0, <1>3, <3>3, FreshIs
    <3> QED BY <3>1, <3>4
  <2> QED BY <2>1, <2>2
<1> HIDE DEF old, new
<1>4. \/ zone' = zone /\ Handled(old, new, crew[j], crew'[j])
      \/ zone' = zone /\ new = old
      \/ \E a \in Addresses : /\ zone' \in [Addresses -> Zones]
                              /\ \A b \in Addresses \ {a} : zone'[b] = zone[b]
                              /\ new = Relocated(old, a, zone')
  BY SerialHandles DEF old, new
<1> QED BY <1>1, <1>2, <1>3, <1>4 DEF new

(* The two timestamps are there exactly while they apply.                   *)
Exact(row) ==
  /\ row.completed <=> row.status \in {"complete", "invoiced", "closed"}
  /\ row.canceled <=> row.status = "canceled"

(* The status of one job goes where the table says.                         *)
Allowed(from, to) ==
  \/ from = to
  \/ from \in {"absent", "unscheduled", "scheduled"} /\ to \in {"unscheduled", "scheduled"}
  \/ from \in Statuses /\ to \in NextStatuses[from]

(* One move of the status machine.                                          *)
LEMMA MovedIsExact ==
  ASSUME NEW old \in Row, Exact(old), NEW target \in Statuses, CanMove(old, target),
         old.status # "absent"
  PROVE  Exact(Moved(old, target)) /\ Allowed(old.status, target)
<1> DEFINE new == Moved(old, target)
<1>1. /\ new.status = target
      /\ new.completed = CompletedAfter(old.status, target, old.completed)
      /\ new.canceled = CanceledAfter(old.status, target, old.canceled)
  BY MovedType
<1> HIDE DEF new
<1>2. old.status \in Statuses
  BY DEF Row
<1>3. target = old.status \/ target \in NextStatuses[old.status]
  BY DEF CanMove
<1>4. Allowed(old.status, target)
  BY <1>2, <1>3 DEF Allowed
<1>5. ASSUME target = old.status PROVE Exact(new)
  BY <1>1, <1>5 DEF Exact, CompletedAfter, CanceledAfter
<1>6. ASSUME target \in NextStatuses[old.status] PROVE Exact(new)
  <2>1. /\ old.status = "unscheduled" => target \in {"scheduled", "canceled"}
        /\ old.status = "scheduled" => target \in {"unscheduled", "en_route", "canceled"}
        /\ old.status = "en_route" => target \in {"in_progress", "scheduled", "canceled"}
        /\ old.status = "in_progress" => target \in {"complete", "canceled"}
        /\ old.status = "complete" => target \in {"invoiced", "in_progress"}
        /\ old.status = "invoiced" => target \in {"closed"}
        /\ old.status = "closed" => target \in {}
        /\ old.status = "canceled" => target \in {"unscheduled"}
    BY <1>6 DEF NextStatuses
  <2>2. /\ new.completed <=>
             \/ target = "complete"
             \/ old.completed /\ ~(old.status = "complete" /\ target = "in_progress")
        /\ new.canceled <=>
             \/ target = "canceled"
             \/ old.canceled /\ ~(old.status = "canceled" /\ target = "unscheduled")
    BY <1>1 DEF CompletedAfter, CanceledAfter
  <2>3. new.completed <=> target \in {"complete", "invoiced", "closed"}
    BY <1>2, <2>1, <2>2 DEF Exact, Statuses, Open
  <2>4. new.canceled <=> target = "canceled"
    BY <1>2, <2>1, <2>2 DEF Exact, Statuses, Open
  <2> QED BY <1>1, <2>3, <2>4 DEF Exact
<1> QED BY <1>3, <1>4, <1>5, <1>6 DEF new

(* Whatever handles a job leaves its timestamps exact.                      *)
LEMMA HandledIsExact ==
  ASSUME Types, NEW old \in Row, NEW new, NEW c, NEW d, Exact(old), Handled(old, new, c, d)
  PROVE  Exact(new) /\ Allowed(old.status, new.status)
<1>1. CASE Created(old, new, d)
  <2>1. PICK date \in Dates, window \in Arrival, address \in Addresses,
             lead \in Members \cup {None} :
          old.status = "absent" /\ new = NewJob(date, window, address, lead, zone)
    BY <1>1 DEF Created
  <2>2. zone \in [Addresses -> Zones]
    BY DEF Types
  <2>3. new.status \in {"scheduled", "unscheduled"} /\ ~new.completed /\ ~new.canceled
    BY <2>1, <2>2, NewJobIs
  <2> QED BY <2>1, <2>3 DEF Exact, Allowed
<1>2. CASE Recomputed(old, new, c, d)
  <2>1. PICK row \in Row :
          /\ row.status = old.status /\ row.completed = old.completed
          /\ row.canceled = old.canceled /\ new = Refreshed(row, zone)
    BY <1>2 DEF Recomputed
  <2>2. /\ new.status = old.status /\ new.completed = old.completed
        /\ new.canceled = old.canceled
    BY <2>1, RefreshedType DEF Types, Fields
  <2> QED BY <2>2 DEF Exact, Allowed
<1>3. CASE Scheduled(old, new, d)
  <2>1. PICK row \in Row :
          /\ row.status = old.status /\ row.completed = old.completed
          /\ row.canceled = old.canceled
          /\ new = Settled(Refreshed(row, zone), Leads(d) # {})
    BY <1>3 DEF Scheduled
  <2> DEFINE led == Leads(d) # {}
             booked == Refreshed(row, zone)
  <2>2. booked \in Row /\ led \in BOOLEAN /\ booked.status = old.status
        /\ booked.completed = old.completed /\ booked.canceled = old.canceled
    BY <2>1, RefreshedType DEF Types, Fields
  <2> HIDE DEF led, booked
  <2>3. new = Settled(booked, led)
    BY <2>1 DEF led, booked
  <2>4. /\ new.completed = old.completed /\ new.canceled = old.canceled
        /\ old.status \in {"unscheduled", "scheduled"} => new.status = Honest(booked.date, led)
        /\ old.status \notin {"unscheduled", "scheduled"} => new.status = old.status
    BY <2>2, <2>3, SettledFields DEF Fields
  <2>5. Honest(booked.date, led) \in {"unscheduled", "scheduled"}
    BY DEF Honest
  <2> QED BY <2>4, <2>5 DEF Exact, Allowed
<1>4. CASE MovedOn(old, new, c, d) /\ old.status # "absent"
  <2>1. PICK target \in Statuses : CanMove(old, target) /\ new = Moved(old, target)
    BY <1>4 DEF MovedOn
  <2>2. new.status = target
    BY <2>1, MovedType
  <2> QED BY <1>4, <2>1, <2>2, MovedIsExact
<1> QED BY <1>1, <1>2, <1>3, <1>4 DEF Handled

(* Stages, and how one follows another.                                     *)
LEMMA StageIs ==
  /\ Serial!Stage("absent") = "none" /\ Serial!Stage("unscheduled") = "planned"
  /\ Serial!Stage("scheduled") = "planned" /\ Serial!Stage("en_route") = "planned"
  /\ Serial!Stage("in_progress") = "work" /\ Serial!Stage("complete") = "done"
  /\ Serial!Stage("invoiced") = "billed" /\ Serial!Stage("closed") = "over"
  /\ Serial!Stage("canceled") = "off"
BY DEF Serial!Stage

Follow(from, to) ==
  \/ from = "none" /\ to = "planned"
  \/ from = "planned" /\ to \in {"work", "off"}
  \/ from = "work" /\ to \in {"done", "off"}
  \/ from = "done" /\ to \in {"work", "billed"}
  \/ from = "billed" /\ to = "over"
  \/ from = "off" /\ to = "planned"

LEMMA AllowedFollows ==
  ASSUME NEW from \in Statuses \cup {"absent"}, NEW to \in Statuses \cup {"absent"},
         Allowed(from, to)
  PROVE  \/ Serial!Stage(from) = Serial!Stage(to)
         \/ Follow(Serial!Stage(from), Serial!Stage(to))
<1>1. \/ from = to
      \/ from \in {"absent", "unscheduled", "scheduled"} /\ to \in {"unscheduled", "scheduled"}
      \/ from = "unscheduled" /\ to \in {"scheduled", "canceled"}
      \/ from = "scheduled" /\ to \in {"unscheduled", "en_route", "canceled"}
      \/ from = "en_route" /\ to \in {"in_progress", "scheduled", "canceled"}
      \/ from = "in_progress" /\ to \in {"complete", "canceled"}
      \/ from = "complete" /\ to \in {"invoiced", "in_progress"}
      \/ from = "invoiced" /\ to = "closed"
      \/ from = "canceled" /\ to = "unscheduled"
  BY DEF Allowed, NextStatuses, Statuses, Open
<1> QED BY <1>1, StageIs DEF Follow

(* One job takes a step of its life, and the others stay as they are.       *)
LEMMA LifeGoes ==
  ASSUME Types, Types', NEW j \in Jobs, Exact(jobs'[j]), NEW from, NEW to,
         Serial!Stage(jobs[j].status) \in from, Serial!Stage(jobs'[j].status) = to,
         \A k \in Jobs \ {j} : /\ jobs'[k].status = jobs[k].status
                               /\ jobs'[k].completed = jobs[k].completed
                               /\ jobs'[k].canceled = jobs[k].canceled
  PROVE  Serial!Life!Go(j, from, to)
<1> DEFINE new == jobs'[j]
           F == [k \in Jobs |-> jobs[k].completed]
           C == [k \in Jobs |-> jobs[k].canceled]
           S == [k \in Jobs |-> Serial!Stage(jobs[k].status)]
<1>1. new \in Row
  BY DEF Types
<1>2. new.status \in Statuses \cup {"absent"} /\ new.completed \in BOOLEAN /\ new.canceled \in BOOLEAN
  BY <1>1 DEF Row
<1>3. /\ to \in {"done", "billed", "over"} <=> new.status \in {"complete", "invoiced", "closed"}
      /\ to = "off" <=> new.status = "canceled"
  BY <1>2, StageIs DEF Statuses, Open
<1>4. /\ new.completed = (to \in {"done", "billed", "over"})
      /\ new.canceled = (to = "off")
  BY <1>2, <1>3 DEF Exact
<1>5. S[j] \in from
  OBVIOUS
<1>6. S' = [S EXCEPT ![j] = to]
  <2>1. \A k \in Jobs : S'[k] = IF k = j THEN to ELSE S[k]
    OBVIOUS
  <2> QED BY <2>1
<1>7. F' = [F EXCEPT ![j] = to \in {"done", "billed", "over"}]
  <2>1. \A k \in Jobs : F'[k] = IF k = j THEN to \in {"done", "billed", "over"} ELSE F[k]
    BY <1>4
  <2> QED BY <2>1
<1>8. C' = [C EXCEPT ![j] = to = "off"]
  <2>1. \A k \in Jobs : C'[k] = IF k = j THEN to = "off" ELSE C[k]
    BY <1>4
  <2> QED BY <2>1
<1> QED BY <1>5, <1>6, <1>7, <1>8 DEF Serial!Life!Go

(* A request of Dispatch is a step of the life of one job, or of none.      *)
LEMMA LivesOn ==
  ASSUME Types, Types', \A j \in Jobs : Exact(jobs[j]), Serial!Next
  PROVE  /\ \A j \in Jobs : Exact(jobs'[j])
         /\ Serial!Life!Next \/ UNCHANGED Serial!Life!vars
<1>1. CASE \A j \in Jobs : /\ jobs'[j].status = jobs[j].status
                           /\ jobs'[j].completed = jobs[j].completed
                           /\ jobs'[j].canceled = jobs[j].canceled
  BY <1>1 DEF Exact, Serial!Life!vars
<1>2. ASSUME NEW j \in Jobs, Handled(jobs[j], jobs'[j], crew[j], crew'[j]),
             \A k \in Jobs \ {j} : jobs'[k] = jobs[k]
      PROVE  /\ \A k \in Jobs : Exact(jobs'[k])
             /\ Serial!Life!Next \/ UNCHANGED Serial!Life!vars
  <2> DEFINE old == jobs[j]
             new == jobs'[j]
             from == Serial!Stage(old.status)
             to == Serial!Stage(new.status)
  <2>1. old \in Row /\ new \in Row
    BY DEF Types
  <2>2. Exact(new) /\ Allowed(old.status, new.status)
    BY <1>2, <2>1, HandledIsExact
  <2>3. \A k \in Jobs : Exact(jobs'[k])
    BY <1>2, <2>2
  <2>4. from = to \/ Follow(from, to)
    <3>1. old.status \in Statuses \cup {"absent"} /\ new.status \in Statuses \cup {"absent"}
      BY <2>1 DEF Row
    <3> QED BY <2>2, <3>1, AllowedFollows
  <2>5. CASE from = to
    <3>1. /\ old.status \in Statuses \cup {"absent"} /\ new.status \in Statuses \cup {"absent"}
          /\ old.completed \in BOOLEAN /\ old.canceled \in BOOLEAN
          /\ new.completed \in BOOLEAN /\ new.canceled \in BOOLEAN
      BY <2>1 DEF Row
    <3>2. /\ old.status \in {"complete", "invoiced", "closed"}
               <=> new.status \in {"complete", "invoiced", "closed"}
          /\ old.status = "canceled" <=> new.status = "canceled"
      BY <2>5, <3>1, StageIs DEF Statuses, Open
    <3>3. new.completed = old.completed /\ new.canceled = old.canceled
      BY <2>2, <3>1, <3>2 DEF Exact
    <3>4. \A k \in Jobs : /\ Serial!Stage(jobs'[k].status) = Serial!Stage(jobs[k].status)
                          /\ jobs'[k].completed = jobs[k].completed
                          /\ jobs'[k].canceled = jobs[k].canceled
      BY <1>2, <2>5, <3>3
    <3>5. UNCHANGED Serial!Life!vars
      BY <3>4 DEF Serial!Life!vars
    <3> QED BY <2>3, <3>5
  <2>6. ASSUME NEW x, NEW y, x = from, y = to, Follow(x, y)
        PROVE  Serial!Life!Next
    <3>1. \A k \in Jobs \ {j} : /\ jobs'[k].status = jobs[k].status
                                /\ jobs'[k].completed = jobs[k].completed
                                /\ jobs'[k].canceled = jobs[k].canceled
      BY <1>2
    <3>2. ASSUME NEW before, x \in before PROVE Serial!Life!Go(j, before, y)
      <4>1. Serial!Stage(jobs[j].status) \in before /\ Serial!Stage(jobs'[j].status) = y
        BY <2>6, <3>2
      <4> QED BY <2>2, <3>1, <4>1, LifeGoes
    <3> HIDE DEF from, to
    <3>3. CASE x = "none" /\ y = "planned"
      BY <3>2, <3>3 DEF Serial!Life!Open, Serial!Life!Next
    <3>4. CASE x = "planned" /\ y = "work"
      BY <3>2, <3>4 DEF Serial!Life!Start, Serial!Life!Next
    <3>5. CASE x = "work" /\ y = "done"
      BY <3>2, <3>5 DEF Serial!Life!Finish, Serial!Life!Next
    <3>6. CASE x = "done" /\ y = "work"
      BY <3>2, <3>6 DEF Serial!Life!Resume, Serial!Life!Next
    <3>7. CASE x = "done" /\ y = "billed"
      BY <3>2, <3>7 DEF Serial!Life!Bill, Serial!Life!Next
    <3>8. CASE x = "billed" /\ y = "over"
      BY <3>2, <3>8 DEF Serial!Life!Close, Serial!Life!Next
    <3>9. CASE x \in {"planned", "work"} /\ y = "off"
      BY <3>2, <3>9 DEF Serial!Life!CallOff, Serial!Life!Next
    <3>10. CASE x = "off" /\ y = "planned"
      BY <3>2, <3>10 DEF Serial!Life!Reinstate, Serial!Life!Next
    <3> QED BY <2>6, <3>3, <3>4, <3>5, <3>6, <3>7, <3>8, <3>9, <3>10 DEF Follow
  <2> QED BY <2>3, <2>4, <2>5, <2>6
<1>3. ASSUME NEW a \in Addresses, zone' \in [Addresses -> Zones],
             \A j \in Jobs : jobs'[j] = Relocated(jobs[j], a, zone'), NEW j \in Jobs
      PROVE  /\ jobs'[j].status = jobs[j].status
             /\ jobs'[j].completed = jobs[j].completed
             /\ jobs'[j].canceled = jobs[j].canceled
  <2>1. jobs[j] \in Row
    BY DEF Types
  <2> QED BY <1>3, <2>1, RefreshedType DEF Relocated, Fields
<1> QED BY <1>1, <1>2, <1>3, SerialHandles

(* The timestamps of one worker's jobs are exact: what no longer holds of   *)
(* overlapping requests (see ReachedMeansStamped).                          *)
ExactInv == OneByOne /\ \A j \in Jobs : Exact(jobs[j])

LEMMA InitExact == OneByOne /\ Init => ExactInv /\ Serial!Life!Init
<1> SUFFICES ASSUME OneByOne, Init PROVE ExactInv /\ Serial!Life!Init
  OBVIOUS
<1>1. PICK a \in Addresses : jobs \in [Jobs -> {r \in Serial!Absent : r.address = a}]
  BY DEF Init, Serial!Init
<1>2. ASSUME NEW r \in Serial!Absent
      PROVE  r.status = "absent" /\ r.completed = FALSE /\ r.canceled = FALSE
  BY <1>2 DEF Serial!Absent
<1>3. \A j \in Jobs : /\ jobs[j].status = "absent" /\ jobs[j].completed = FALSE
                      /\ jobs[j].canceled = FALSE
  BY <1>1, <1>2
<1>4. ExactInv
  BY <1>3 DEF ExactInv, Exact
<1>5. \A j \in Jobs : Serial!Stage(jobs[j].status) = "none"
  BY <1>3, StageIs
<1> QED BY <1>3, <1>4, <1>5 DEF Serial!Life!Init

LEMMA StepExact ==
  ExactInv /\ OneByOne' /\ [Next]_vars => ExactInv' /\ [Serial!Life!Next]_(Serial!Life!vars)
<1> SUFFICES ASSUME ExactInv, OneByOne', [Next]_vars
             PROVE  ExactInv' /\ (Serial!Life!Next \/ UNCHANGED Serial!Life!vars)
  OBVIOUS
<1>1. Types /\ Types' /\ \A j \in Jobs : Exact(jobs[j])
  BY DEF ExactInv, OneByOne, JInv
<1>2. Serial!Next \/ UNCHANGED data
  BY StepIsSerial DEF ExactInv, Serial!vars, data
<1>3. CASE UNCHANGED data
  BY <1>1, <1>3 DEF data, ExactInv, Exact, Serial!Life!vars
<1>4. CASE Serial!Next
  BY <1>1, <1>4, LivesOn DEF ExactInv
<1> QED BY <1>2, <1>3, <1>4

(* One worker's jobs have the life their billing relies on: billed only     *)
(* after they are complete, never called off or worked on once billed, and  *)
(* dated exactly while the dates apply.                                     *)
THEOREM LifecycleIsFollowed == OneAtATime => (Spec => FollowsLifecycle)
<1>1. OneByOne /\ Init => ExactInv /\ Serial!Life!Init
  BY InitExact
<1>2. ExactInv /\ OneByOne' /\ [Next]_vars
        => ExactInv' /\ [Serial!Life!Next]_(Serial!Life!vars)
  BY StepExact
<1> QED BY <1>1, <1>2, OneByOneHolds, PTL
        DEF Spec, FollowsLifecycle, Serial!FollowsLifecycle, Serial!Life!Spec

(* The instants of an open job stay those of its date, its window and its   *)
(* address, whichever of them a request changes: every handler recomputes.  *)
THEOREM FreshnessIsKept == OneAtATime => (Spec => OpenJobsStayFresh)
<1>1. OneByOne /\ OneByOne' /\ [Next]_vars =>
        [\A j \in Jobs : Serial!OpenJob(j) /\ Serial!FreshJob(j) /\ Serial!OpenJob(j)'
           => Serial!FreshJob(j)']_(Serial!vars)
  <2> SUFFICES ASSUME OneByOne, OneByOne', [Next]_vars, Serial!Next, NEW j \in Jobs,
                      Serial!OpenJob(j), Serial!FreshJob(j)
               PROVE  Serial!FreshJob(j)'
    BY StepIsSerial
  <2>1. \A row, zones : Serial!Fresh(row, zones) <=> Fresh(row, zones)
    BY SameRules DEF Serial!Fresh, Fresh
  <2>2. Types /\ Types'
    BY DEF OneByOne, JInv
  <2>3. jobs[j].status \in Open /\ Fresh(jobs[j], zone)
    BY <2>1, SameRules DEF Serial!OpenJob, Serial!FreshJob
  <2>4. Fresh(jobs'[j], zone')
    BY <2>2, <2>3, OpenStaysFresh
  <2> QED BY <2>1, <2>4 DEF Serial!FreshJob
<1> QED BY <1>1, OneByOneHolds, PTL DEF Spec, OpenJobsStayFresh, Serial!OpenJobsStayFresh

(* Whoever is put on a job that has not set off or taken off it, its status *)
(* says whether it has a date and a lead.                                   *)
THEOREM CrewChangesSettle == OneAtATime => (Spec => CrewChangesSettleStatus)
<1>1. OneByOne /\ OneByOne' /\ [Next]_vars =>
        [\A j \in Jobs :
           /\ crew'[j] # crew[j]
           /\ jobs'[j].status \in {"unscheduled", "scheduled"}
           => jobs'[j].status
                = Serial!Honest(jobs'[j].date, Serial!Leads(crew'[j]) # {})]_(Serial!vars)
  <2> SUFFICES ASSUME OneByOne, OneByOne', [Next]_vars, Serial!Next, NEW j \in Jobs,
                      crew'[j] # crew[j], jobs'[j].status \in {"unscheduled", "scheduled"}
               PROVE  jobs'[j].status
                        = Serial!Honest(jobs'[j].date, Serial!Leads(crew'[j]) # {})
    BY StepIsSerial
  <2>1. Types /\ Types'
    BY DEF OneByOne, JInv
  <2>2. jobs'[j].status = Honest(jobs'[j].date, Leads(crew'[j]) # {})
    BY <2>1, CrewChangeSettles
  <2> QED BY <2>2, SameRules DEF Serial!Honest, Honest
<1> QED BY <1>1, OneByOneHolds, PTL
        DEF Spec, CrewChangesSettleStatus, Serial!CrewChangesSettleStatus
=============================================================================
