----------------------------- MODULE JobNumbers -----------------------------
(***************************************************************************)
(* Allocation of job numbers: services/job_numbers.py `allocate`, called   *)
(* by POST /jobs (routers/jobs.py `create_job`), on PostgreSQL at READ     *)
(* COMMITTED.                                                              *)
(*                                                                         *)
(* Each request is one database transaction on one pooled connection.  A   *)
(* statement is one action; what a transaction wrote is private (`draft`)  *)
(* until Commit.  A row that a transaction inserted or locked belongs to   *)
(* it (`rowLock`) until it ends, and other writers of the row wait.        *)
(***************************************************************************)
EXTENDS Naturals, FiniteSets

CONSTANTS
  Requests,    \* the POST /jobs requests that will ever be made
  Tenants,     \* the companies
  FirstYear,   \* the calendar runs from here ...
  LastYear,    \* ... to here (bound)
  PoolSize,    \* connections a process may hold: pool_size + max_overflow
  None

ASSUME CalendarAssumption ==
  FirstYear \in Nat /\ LastYear \in Nat /\ FirstYear <= LastYear
ASSUME PoolAssumption == PoolSize \in Nat \ {0}

Years    == FirstYear .. LastYear
Counters == Tenants \X Years      \* the primary key of job_number_counters

ASSUME NoneAssumption == None \notin Requests /\ None \notin Counters
                         /\ None \notin Counters \X Nat

VARIABLES
  year,        \* datetime.now(UTC).year
  nextValue,   \* committed next_value of each counter row; 0 is "no row yet"
  rowLock,     \* the request whose open transaction owns the counter row
  pc,          \* where each request is
  counter,     \* the (tenant, year) the request allocates from
  draft,       \* the request's uncommitted next_value; 0 is "wrote nothing"
  sequence     \* the number the request read and will put on its job

vars == <<year, nextValue, rowLock, pc, counter, draft, sequence>>

Open  == {"ensure", "select", "update", "insert", "inserted"}
Ended == {"done", "failed", "collided"}

OpenRequests == {r \in Requests : pc[r] \in Open}

Init ==
  /\ year = FirstYear
  /\ nextValue = [k \in Counters |-> 0]
  /\ rowLock = [k \in Counters |-> None]
  /\ pc = [r \in Requests |-> "new"]
  /\ counter = [r \in Requests |-> None]
  /\ draft = [r \in Requests |-> 0]
  /\ sequence = [r \in Requests |-> 0]

-----------------------------------------------------------------------------
(* Midnight on 31 December, UTC. *)
NewYear ==
  /\ year < LastYear
  /\ year' = year + 1
  /\ UNCHANGED <<nextValue, rowLock, pc, counter, draft, sequence>>

(* Wrong on purpose: the variants called ...Wrong are bugs that this module's *)
(* properties exclude; no specification uses them.                          *)

(* The number is charged to the year to come. *)
BeginWrong(r) ==
  /\ pc[r] = "new"
  /\ Cardinality(OpenRequests) < PoolSize
  /\ pc' = [pc EXCEPT ![r] = "ensure"]
  /\ \E t \in Tenants : counter' = [counter EXCEPT ![r] = <<t, year + 1>>]
  /\ UNCHANGED <<year, nextValue, rowLock, draft, sequence>>

(* A connection is checked out, and `allocate` reads the clock once. *)
Begin(r) ==
  /\ pc[r] = "new"
  /\ Cardinality(OpenRequests) < PoolSize
  /\ pc' = [pc EXCEPT ![r] = "ensure"]
  /\ \E t \in Tenants : counter' = [counter EXCEPT ![r] = <<t, year>>]
  /\ UNCHANGED <<year, nextValue, rowLock, draft, sequence>>

(* Every connection is out and stays out until the pool's timeout. *)
PoolTimeout(r) ==
  /\ pc[r] = "new"
  /\ Cardinality(OpenRequests) >= PoolSize
  /\ pc' = [pc EXCEPT ![r] = "failed"]
  /\ UNCHANGED <<year, nextValue, rowLock, counter, draft, sequence>>

(* INSERT ... ON CONFLICT DO NOTHING.  A committed row makes it a no-op; a  *)
(* row somebody else inserted and has not committed makes it wait.          *)
EnsureRow(r) ==
  LET k == counter[r] IN
  /\ pc[r] = "ensure"
  /\ \/ /\ nextValue[k] # 0
        /\ UNCHANGED <<rowLock, draft>>
     \/ /\ nextValue[k] = 0
        /\ rowLock[k] = None
        /\ rowLock' = [rowLock EXCEPT ![k] = r]
        /\ draft' = [draft EXCEPT ![r] = 1]
  /\ pc' = [pc EXCEPT ![r] = "select"]
  /\ UNCHANGED <<year, nextValue, counter, sequence>>

(* The row is read without FOR UPDATE. *)
SelectWrong(r) ==
  /\ pc[r] = "select"
  /\ sequence' = [sequence EXCEPT
                    ![r] = IF draft[r] # 0 THEN draft[r] ELSE nextValue[counter[r]]]
  /\ pc' = [pc EXCEPT ![r] = "update"]
  /\ UNCHANGED <<year, nextValue, rowLock, counter, draft>>

(* SELECT ... FOR UPDATE: waits for the row, then reads its newest version, *)
(* the request's own if it inserted the row.                                *)
SelectForUpdate(r) ==
  LET k == counter[r] IN
  /\ pc[r] = "select"
  /\ rowLock[k] \in {None, r}
  /\ rowLock' = [rowLock EXCEPT ![k] = r]
  /\ sequence' = [sequence EXCEPT
                    ![r] = IF draft[r] # 0 THEN draft[r] ELSE nextValue[k]]
  /\ pc' = [pc EXCEPT ![r] = "update"]
  /\ UNCHANGED <<year, nextValue, counter, draft>>

(* The counter lives outside the transaction, as a database sequence would. *)
FlushCounterWrong(r) ==
  LET k == counter[r] IN
  /\ pc[r] = "update"
  /\ rowLock[k] \in {None, r}
  /\ rowLock' = [rowLock EXCEPT ![k] = r]
  /\ nextValue' = [nextValue EXCEPT ![k] = sequence[r] + 1]
  /\ draft' = [draft EXCEPT ![r] = sequence[r] + 1]
  /\ pc' = [pc EXCEPT ![r] = "insert"]
  /\ UNCHANGED <<year, counter, sequence>>

(* counter.next_value = sequence + 1; db.flush() *)
FlushCounter(r) ==
  LET k == counter[r] IN
  /\ pc[r] = "update"
  /\ rowLock[k] \in {None, r}
  /\ rowLock' = [rowLock EXCEPT ![k] = r]
  /\ draft' = [draft EXCEPT ![r] = sequence[r] + 1]
  /\ pc' = [pc EXCEPT ![r] = "insert"]
  /\ UNCHANGED <<year, nextValue, counter, sequence>>

(* The tenant, year and number that request r's job carries. *)
JobNumber(r) == <<counter[r], sequence[r]>>

Carries(r, state) == {q \in Requests : pc[q] = state /\ JobNumber(q) = JobNumber(r)}

(* What the end of a transaction does to the row it owned. *)
Release(r) == rowLock' = [k \in Counters |-> IF rowLock[k] = r THEN None
                                             ELSE rowLock[k]]

(* The INSERT into jobs, under uq_jobs_tenant_number: it waits for an       *)
(* uncommitted job with the same number and fails on a committed one.       *)
InsertJob(r) ==
  /\ pc[r] = "insert"
  /\ Carries(r, "inserted") = {}
  /\ \/ /\ Carries(r, "done") = {}
        /\ pc' = [pc EXCEPT ![r] = "inserted"]
        /\ UNCHANGED <<rowLock, draft>>
     \/ /\ Carries(r, "done") # {}
        /\ pc' = [pc EXCEPT ![r] = "collided"]
        /\ draft' = [draft EXCEPT ![r] = 0]
        /\ Release(r)
  /\ UNCHANGED <<year, nextValue, counter, sequence>>

(* The new value of the counter is lost. *)
CommitWrong(r) ==
  /\ pc[r] = "inserted"
  /\ draft' = [draft EXCEPT ![r] = 0]
  /\ Release(r)
  /\ pc' = [pc EXCEPT ![r] = "done"]
  /\ UNCHANGED <<year, nextValue, counter, sequence>>

(* The commit `get_db` makes when the handler has returned. *)
Commit(r) ==
  /\ pc[r] = "inserted"
  /\ nextValue' = [nextValue EXCEPT ![counter[r]] = draft[r]]
  /\ draft' = [draft EXCEPT ![r] = 0]
  /\ Release(r)
  /\ pc' = [pc EXCEPT ![r] = "done"]
  /\ UNCHANGED <<year, counter, sequence>>

(* The connection goes back to the pool with its transaction open. *)
RollbackWrong(r) ==
  /\ pc[r] \in Open
  /\ draft' = [draft EXCEPT ![r] = 0]
  /\ pc' = [pc EXCEPT ![r] = "failed"]
  /\ UNCHANGED <<year, nextValue, rowLock, counter, sequence>>

(* The rollback `get_db` makes when anything raises (a bad lead, a lost     *)
(* connection), or the one the database makes when the process dies.        *)
Rollback(r) ==
  /\ pc[r] \in Open
  /\ draft' = [draft EXCEPT ![r] = 0]
  /\ Release(r)
  /\ pc' = [pc EXCEPT ![r] = "failed"]
  /\ UNCHANGED <<year, nextValue, counter, sequence>>

(* Nothing is left to do. *)
AllServed ==
  /\ year = LastYear
  /\ \A r \in Requests : pc[r] \in Ended
  /\ UNCHANGED vars

Step(r) ==
  \/ Begin(r) \/ EnsureRow(r) \/ SelectForUpdate(r)
  \/ FlushCounter(r) \/ InsertJob(r) \/ Commit(r)

Next ==
  \/ NewYear
  \/ \E r \in Requests : Step(r) \/ PoolTimeout(r) \/ Rollback(r)
  \/ AllServed

Spec == Init /\ [][Next]_vars

(* A thread that can run its next statement does so; nobody is obliged to   *)
(* fail, and the calendar is not obliged to move.                           *)
Fairness == \A r \in Requests : WF_vars(Step(r))

FairSpec == Spec /\ Fairness

-----------------------------------------------------------------------------
TypeOK ==
  /\ year \in Years
  /\ nextValue \in [Counters -> Nat]
  /\ rowLock \in [Counters -> Requests \cup {None}]
  /\ pc \in [Requests -> {"new"} \cup Open \cup Ended]
  /\ counter \in [Requests -> Counters \cup {None}]
  /\ draft \in [Requests -> Nat]
  /\ sequence \in [Requests -> Nat]

(* Between SELECT FOR UPDATE and the end of its transaction a request is    *)
(* alone on its counter: "concurrent callers queue rather than collide"     *)
(* (job_numbers.py:37-39).                                                  *)
PastSelect == {"update", "insert", "inserted"}

OneAllocatorPerCounter ==
  \A q, r \in Requests :
    /\ pc[q] \in PastSelect
    /\ pc[r] \in PastSelect
    /\ counter[q] = counter[r]
    => q = r

(* Two dispatchers creating a job in the same second do not receive the     *)
(* same number: no two committed jobs carry the same one.                   *)
NumbersUnique ==
  \A q, r \in Requests :
    pc[q] = "done" /\ pc[r] = "done" /\ JobNumber(q) = JobNumber(r) => q = r

(* The unique constraint behind the allocation never has to reject a job:   *)
(* nobody "sees a 500 for no reason they could understand".                 *)
NeverCollides == \A r \in Requests : pc[r] # "collided"

(* The counter is part of the transaction it serves, so a rolled back       *)
(* creation returns its number: the committed jobs of a company's year are  *)
(* numbered 1, 2, 3, ... with nothing missing, although the module's        *)
(* docstring is ready to accept gaps.                                       *)
Filed(k) == {r \in Requests : pc[r] = "done" /\ counter[r] = k}

NoGaps ==
  \A k \in Counters :
    {sequence[r] : r \in Filed(k)} = 1 .. (nextValue[k] - 1)

(* Allocation under locks is the indivisible step of NumberLedger.          *)
Issued(k) == IF nextValue[k] = 0 THEN 0 ELSE nextValue[k] - 1

Ledger == INSTANCE NumberLedger WITH
            issued <- [k \in Counters |-> Issued(k)],
            number <- [r \in Requests |-> IF pc[r] = "done" THEN JobNumber(r)
                                          ELSE None]

ImplementsLedger == Ledger!Spec

(* Every POST /jobs is answered, whoever else is waiting for the counter,   *)
(* for a connection, or has died holding either.                            *)
EveryRequestEnds == \A r \in Requests : <>(pc[r] \in Ended)
=============================================================================
