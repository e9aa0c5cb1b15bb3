-------------------------- MODULE JobNumbersProofs --------------------------
(***************************************************************************)
(* Proofs about JobNumbers, for any set of requests and tenants, any       *)
(* calendar and any pool size.                                             *)
(***************************************************************************)
EXTENDS JobNumbers, TLAPS

(* A request that has the row, because it inserted it or because its       *)
(* SELECT FOR UPDATE returned.                                             *)
Owns(r) == pc[r] \in PastSelect \/ draft[r] # 0

(* Whoever has the row is the one the database recorded.                   *)
LockInv ==
  \A r \in Requests : Owns(r) => rowLock[counter[r]] = r

(* What a request knows of its counter, statement by statement.  Only the  *)
(* owner of a row can commit it, so what the owner read stays true.        *)
ReadInv ==
  \A r \in Requests :
    /\ pc[r] \in Open \cup {"done"} => counter[r] \in Counters
    /\ pc[r] \in {"new", "ensure"} \cup Ended => draft[r] = 0
    /\ pc[r] = "select" =>
         \/ draft[r] = 0 /\ nextValue[counter[r]] # 0
         \/ draft[r] = 1 /\ nextValue[counter[r]] = 0
    /\ pc[r] \in PastSelect => sequence[r] = Issued(counter[r]) + 1
    /\ pc[r] \in {"insert", "inserted"} => draft[r] = sequence[r] + 1

(* The committed jobs of a counter are numbered 1 .. Issued, each once.    *)
FiledInv ==
  /\ \A r \in Requests : pc[r] = "done" => sequence[r] \in 1 .. Issued(counter[r])
  /\ \A k \in Counters : \A n \in 1 .. Issued(k) :
       \E r \in Requests : pc[r] = "done" /\ counter[r] = k /\ sequence[r] = n

IInv == TypeOK /\ LockInv /\ ReadInv /\ FiledInv /\ NumbersUnique /\ NeverCollides

-----------------------------------------------------------------------------
(* next_value, when there is a row, is one more than the numbers used.     *)
LEMMA IssuedType ==
  ASSUME TypeOK, NEW k \in Counters
  PROVE  Issued(k) \in Nat /\ (nextValue[k] # 0 => nextValue[k] = Issued(k) + 1)
  BY DEF TypeOK, Issued

(* Every statement, commit and rollback keeps the types.                   *)
LEMMA TypeStep == TypeOK /\ ReadInv /\ [Next]_vars => TypeOK'
<1> SUFFICES ASSUME TypeOK, ReadInv, [Next]_vars PROVE TypeOK'
  OBVIOUS
<1> USE DEF TypeOK, Open, Ended, Years
<1>1. CASE NewYear
  BY <1>1, CalendarAssumption DEF NewYear
<1>2. ASSUME NEW r \in Requests, Begin(r) PROVE TypeOK'
  <2>1. PICK t \in Tenants : counter' = [counter EXCEPT ![r] = <<t, year>>]
    BY <1>2 DEF Begin
  <2>2. <<t, year>> \in Counters
    BY DEF Counters
  <2> QED BY <1>2, <2>1, <2>2 DEF Begin
<1>3. ASSUME NEW r \in Requests, EnsureRow(r) PROVE TypeOK'
  BY <1>3 DEF EnsureRow
<1>4. ASSUME NEW r \in Requests, SelectForUpdate(r) PROVE TypeOK'
  BY <1>4 DEF SelectForUpdate, ReadInv
<1>5. ASSUME NEW r \in Requests, FlushCounter(r) PROVE TypeOK'
  <2>1. sequence[r] + 1 \in Nat
    OBVIOUS
  <2> QED BY <1>5, <2>1 DEF FlushCounter
<1>6. ASSUME NEW r \in Requests, InsertJob(r) PROVE TypeOK'
  BY <1>6 DEF InsertJob, Release
<1>7. ASSUME NEW r \in Requests, Commit(r) PROVE TypeOK'
  BY <1>7 DEF Commit, Release
<1>8. ASSUME NEW r \in Requests, PoolTimeout(r) PROVE TypeOK'
  BY <1>8 DEF PoolTimeout
<1>9. ASSUME NEW r \in Requests, Rollback(r) PROVE TypeOK'
  BY <1>9 DEF Rollback, Release
<1>10. CASE UNCHANGED vars
  BY <1>10 DEF vars
<1> QED BY <1>1, <1>2, <1>3, <1>4, <1>5, <1>6, <1>7, <1>8, <1>9, <1>10
        DEF Next, Step, AllServed

(* The owner of a row is the only one: two owners of one counter are equal. *)
LEMMA OwnerIsUnique ==
  ASSUME LockInv, NEW q \in Requests, NEW r \in Requests,
         Owns(q), Owns(r), counter[q] = counter[r]
  PROVE  q = r
  BY DEF LockInv

(* No counter has a row and nobody is served.                               *)
LEMMA InitInv == Init => IInv
<1> SUFFICES ASSUME Init PROVE IInv
  OBVIOUS
<1>1. TypeOK
  BY CalendarAssumption DEF Init, TypeOK, Years
<1>2. LockInv
  BY DEF Init, LockInv, Owns, PastSelect
<1>3. ReadInv
  BY DEF Init, ReadInv, Open, Ended, PastSelect
<1>4. FiledInv
  BY DEF Init, FiledInv, Issued
<1>5. NumbersUnique /\ NeverCollides
  BY DEF Init, NumbersUnique, NeverCollides
<1> QED BY <1>1, <1>2, <1>3, <1>4, <1>5 DEF IInv

(* A statement that commits nothing leaves the filed jobs alone.           *)
LEMMA NothingFiled ==
  ASSUME IInv, TypeOK', NEW r \in Requests,
         nextValue' = nextValue,
         counter' = counter \/ pc[r] = "new",
         \A q \in Requests \ {r} : /\ pc'[q] = pc[q]
                                   /\ counter'[q] = counter[q]
                                   /\ sequence'[q] = sequence[q],
         pc[r] # "done", pc'[r] # "done"
  PROVE  FiledInv' /\ NumbersUnique'
<1>1. \A q \in Requests : pc'[q] = "done" <=> pc[q] = "done"
  BY DEF IInv, TypeOK
<1>2. \A q \in Requests : pc[q] = "done" =>
        counter'[q] = counter[q] /\ sequence'[q] = sequence[q]
  BY DEF IInv, TypeOK
<1>3. \A k \in Counters : Issued(k)' = Issued(k)
  BY DEF Issued
<1>4. FiledInv'
  BY <1>1, <1>2, <1>3 DEF IInv, FiledInv, ReadInv
<1>5. NumbersUnique'
  BY <1>1, <1>2 DEF IInv, NumbersUnique, JobNumber
<1> QED BY <1>4, <1>5

(* A request takes a connection and owns nothing.                           *)
LEMMA BeginStep ==
  ASSUME IInv, TypeOK', NEW r \in Requests, Begin(r)
  PROVE  IInv'
<1> USE DEF IInv
<1>1. LockInv'
  BY DEF LockInv, ReadInv, Owns, PastSelect, Begin, TypeOK, Open, Ended
<1>2. counter'[r] \in Counters
  BY DEF Begin, TypeOK, Counters
<1>3. \A k \in Counters : Issued(k)' = Issued(k)
  BY DEF Issued, Begin
<1>4. ReadInv'
  BY <1>2, <1>3 DEF ReadInv, Begin, TypeOK, Open, Ended, PastSelect
<1>5. FiledInv' /\ NumbersUnique'
  BY NothingFiled DEF Begin, TypeOK
<1>6. NeverCollides'
  BY DEF NeverCollides, Begin, TypeOK
<1> QED BY <1>1, <1>4, <1>5, <1>6

(* A row that was not there is the inserter's, and starts at 1.             *)
LEMMA EnsureRowStep ==
  ASSUME IInv, TypeOK', NEW r \in Requests, EnsureRow(r)
  PROVE  IInv'
<1> USE DEF IInv
<1>0. pc[r] = "ensure" /\ draft[r] = 0 /\ counter[r] \in Counters
  BY DEF EnsureRow, ReadInv, Open, Ended
<1>1. LockInv'
  <2> SUFFICES ASSUME NEW q \in Requests, Owns(q)'
               PROVE  (rowLock[counter[q]] = q)'
    BY DEF LockInv
  <2>1. CASE q = r
    BY <1>0, <2>1 DEF Owns, EnsureRow, TypeOK, PastSelect
  <2>2. CASE q # r
    <3>1. Owns(q)
      BY <2>2 DEF Owns, EnsureRow, TypeOK
    <3>2. rowLock[counter[q]] = q /\ counter[q] \in Counters
      BY <3>1 DEF LockInv, ReadInv, Owns, PastSelect, Open, Ended, TypeOK
    <3> QED BY <1>0, <2>2, <3>2, NoneAssumption DEF EnsureRow, TypeOK
  <2> QED BY <2>1, <2>2
<1>3. \A k \in Counters : Issued(k)' = Issued(k)
  BY DEF Issued, EnsureRow
<1>4. ReadInv'
  BY <1>0, <1>3 DEF ReadInv, EnsureRow, TypeOK, Open, Ended, PastSelect
<1>5. FiledInv' /\ NumbersUnique'
  BY <1>0, NothingFiled DEF EnsureRow, TypeOK
<1>6. NeverCollides'
  BY DEF NeverCollides, EnsureRow, TypeOK
<1> QED BY <1>1, <1>4, <1>5, <1>6

(* FOR UPDATE makes the committed counter the reader's own.                 *)
LEMMA SelectStep ==
  ASSUME IInv, TypeOK', NEW r \in Requests, SelectForUpdate(r)
  PROVE  IInv'
<1> USE DEF IInv
<1>0. pc[r] = "select" /\ counter[r] \in Counters /\ rowLock[counter[r]] \in {None, r}
  BY DEF SelectForUpdate, ReadInv, Open
<1>1. LockInv'
  BY <1>0, NoneAssumption DEF LockInv, Owns, PastSelect, SelectForUpdate, TypeOK
<1>2. \A k \in Counters : Issued(k)' = Issued(k)
  BY DEF Issued, SelectForUpdate
<1>3. sequence'[r] = Issued(counter[r]) + 1
  BY <1>0, IssuedType DEF SelectForUpdate, ReadInv, Issued, TypeOK
<1>4. ReadInv'
  BY <1>0, <1>2, <1>3 DEF ReadInv, SelectForUpdate, TypeOK, Open, Ended, PastSelect
<1>5. FiledInv' /\ NumbersUnique'
  BY <1>0, NothingFiled DEF SelectForUpdate, TypeOK
<1>6. NeverCollides'
  BY DEF NeverCollides, SelectForUpdate, TypeOK
<1> QED BY <1>1, <1>4, <1>5, <1>6

(* The draft is one more than what was read.                                *)
LEMMA FlushStep ==
  ASSUME IInv, TypeOK', NEW r \in Requests, FlushCounter(r)
  PROVE  IInv'
<1> USE DEF IInv
<1>0. pc[r] = "update" /\ counter[r] \in Counters /\ rowLock[counter[r]] = r
  BY DEF FlushCounter, ReadInv, LockInv, Owns, PastSelect, Open
<1>1. LockInv'
  BY <1>0, NoneAssumption DEF LockInv, Owns, PastSelect, FlushCounter, TypeOK
<1>2. \A k \in Counters : Issued(k)' = Issued(k)
  BY DEF Issued, FlushCounter
<1>4. ReadInv'
  BY <1>0, <1>2 DEF ReadInv, FlushCounter, TypeOK, Open, Ended, PastSelect
<1>5. FiledInv' /\ NumbersUnique'
  BY <1>0, NothingFiled DEF FlushCounter, TypeOK
<1>6. NeverCollides'
  BY DEF NeverCollides, FlushCounter, TypeOK
<1> QED BY <1>1, <1>4, <1>5, <1>6

(* A number that was read under the lock is on no committed job.           *)
LEMMA NumberIsFree ==
  ASSUME IInv, NEW r \in Requests, pc[r] \in PastSelect
  PROVE  Carries(r, "done") = {}
<1> SUFFICES ASSUME NEW q \in Requests, pc[q] = "done", JobNumber(q) = JobNumber(r)
             PROVE  FALSE
  BY DEF Carries
<1>1. counter[q] = counter[r] /\ sequence[q] = sequence[r] /\ counter[r] \in Counters
  BY DEF JobNumber, IInv, ReadInv, PastSelect, Open
<1>2. sequence[q] \in 1 .. Issued(counter[r]) /\ sequence[r] = Issued(counter[r]) + 1
  BY <1>1 DEF IInv, FiledInv, ReadInv
<1>3. Issued(counter[r]) \in Nat
  BY <1>1, IssuedType DEF IInv
<1> QED BY <1>1, <1>2, <1>3

(* The number is the one that was read, which no job has.                   *)
LEMMA InsertStep ==
  ASSUME IInv, TypeOK', NEW r \in Requests, InsertJob(r)
  PROVE  IInv'
<1> USE DEF IInv
<1>0. /\ pc[r] = "insert"
      /\ pc' = [pc EXCEPT ![r] = "inserted"]
      /\ UNCHANGED <<rowLock, draft, nextValue, counter, sequence>>
  BY NumberIsFree DEF InsertJob, PastSelect
<1>1. LockInv'
  BY <1>0 DEF LockInv, Owns, PastSelect, TypeOK
<1>2. \A k \in Counters : Issued(k)' = Issued(k)
  BY <1>0 DEF Issued
<1>4. ReadInv'
  BY <1>0, <1>2 DEF ReadInv, TypeOK, Open, Ended, PastSelect
<1>5. FiledInv' /\ NumbersUnique'
  BY <1>0, NothingFiled DEF TypeOK
<1>6. NeverCollides'
  BY <1>0 DEF NeverCollides, TypeOK
<1> QED BY <1>1, <1>4, <1>5, <1>6

(* A rollback gives up the rows and leaves the committed counters.          *)
LEMMA RollbackStep ==
  ASSUME IInv, TypeOK', NEW r \in Requests, Rollback(r)
  PROVE  IInv'
<1> USE DEF IInv
<1>0. pc[r] \in Open /\ pc' = [pc EXCEPT ![r] = "failed"]
  BY DEF Rollback
<1>1. LockInv'
  <2> SUFFICES ASSUME NEW q \in Requests, Owns(q)'
               PROVE  (rowLock[counter[q]] = q)'
    BY DEF LockInv
  <2>1. q # r /\ Owns(q)
    BY <1>0 DEF Owns, Rollback, TypeOK, PastSelect
  <2>2. rowLock[counter[q]] = q /\ counter[q] \in Counters
    BY <2>1 DEF LockInv, ReadInv, Owns, PastSelect, Open, Ended, TypeOK
  <2> QED BY <2>1, <2>2 DEF Rollback, Release
<1>2. \A k \in Counters : Issued(k)' = Issued(k)
  BY DEF Issued, Rollback
<1>4. ReadInv'
  BY <1>0, <1>2 DEF ReadInv, Rollback, TypeOK, Open, Ended, PastSelect
<1>5. FiledInv' /\ NumbersUnique'
  BY <1>0, NothingFiled DEF Rollback, TypeOK, Open
<1>6. NeverCollides'
  BY <1>0 DEF NeverCollides, TypeOK
<1> QED BY <1>1, <1>4, <1>5, <1>6

(* A request that never got a connection owned nothing.                     *)
LEMMA TimeoutStep ==
  ASSUME IInv, TypeOK', NEW r \in Requests, PoolTimeout(r)
  PROVE  IInv'
<1> USE DEF IInv
<1>0. pc[r] = "new" /\ pc' = [pc EXCEPT ![r] = "failed"]
  BY DEF PoolTimeout
<1>1. LockInv'
  BY <1>0 DEF LockInv, Owns, PoolTimeout, TypeOK, PastSelect
<1>2. \A k \in Counters : Issued(k)' = Issued(k)
  BY DEF Issued, PoolTimeout
<1>4. ReadInv'
  BY <1>0, <1>2 DEF ReadInv, PoolTimeout, TypeOK, Open, Ended, PastSelect
<1>5. FiledInv' /\ NumbersUnique'
  BY <1>0, NothingFiled DEF PoolTimeout, TypeOK
<1>6. NeverCollides'
  BY <1>0 DEF NeverCollides, TypeOK
<1> QED BY <1>1, <1>4, <1>5, <1>6

(* Committing request r files number Issued + 1 of its counter, and no      *)
(* other counter moves.                                                     *)
LEMMA CommitIssues ==
  ASSUME IInv, NEW r \in Requests, Commit(r)
  PROVE  /\ counter[r] \in Counters
         /\ rowLock[counter[r]] = r
         /\ Issued(counter[r]) \in Nat
         /\ sequence[r] = Issued(counter[r]) + 1
         /\ Issued(counter[r])' = sequence[r]
         /\ \A k \in Counters \ {counter[r]} : Issued(k)' = Issued(k)
<1> USE DEF IInv
<1>1. counter[r] \in Counters /\ rowLock[counter[r]] = r
  BY DEF Commit, LockInv, ReadInv, Owns, PastSelect, Open
<1>2. sequence[r] = Issued(counter[r]) + 1 /\ draft[r] = sequence[r] + 1
  BY DEF Commit, ReadInv, PastSelect
<1>3. Issued(counter[r]) \in Nat
  BY <1>1, IssuedType
<1>4. nextValue' = [nextValue EXCEPT ![counter[r]] = draft[r]]
  BY DEF Commit
<1>5. nextValue'[counter[r]] = sequence[r] + 1
  BY <1>1, <1>2, <1>4 DEF TypeOK
<1>6. Issued(counter[r])' = sequence[r]
  <2>1. counter' = counter
    BY DEF Commit
  <2>2. sequence[r] + 1 # 0 /\ (sequence[r] + 1) - 1 = sequence[r]
    BY <1>2, <1>3
  <2> QED BY <1>5, <2>1, <2>2 DEF Issued
<1>7. \A k \in Counters \ {counter[r]} : Issued(k)' = Issued(k)
  BY <1>4 DEF Issued, TypeOK
<1> QED BY <1>1, <1>2, <1>3, <1>6, <1>7

(* The commit extends the numbers of its counter by one.                    *)
LEMMA CommitStep ==
  ASSUME IInv, TypeOK', NEW r \in Requests, Commit(r)
  PROVE  IInv'
<1> USE DEF IInv
<1> DEFINE k == counter[r]
<1>0. /\ pc[r] = "inserted"
      /\ pc' = [pc EXCEPT ![r] = "done"]
      /\ draft' = [draft EXCEPT ![r] = 0]
      /\ UNCHANGED <<counter, sequence>>
  BY DEF Commit
<1>1. LockInv'
  <2> SUFFICES ASSUME NEW q \in Requests, Owns(q)'
               PROVE  (rowLock[counter[q]] = q)'
    BY DEF LockInv
  <2>1. q # r /\ Owns(q)
    BY <1>0 DEF Owns, TypeOK, PastSelect
  <2>2. rowLock[counter[q]] = q /\ counter[q] \in Counters
    BY <2>1 DEF LockInv, ReadInv, Owns, PastSelect, Open, Ended, TypeOK
  <2> QED BY <1>0, <2>1, <2>2 DEF Commit, Release
(* Nobody else who knows something about counter k is past the insert.      *)
<1>2. \A q \in Requests \ {r} : Owns(q) => counter[q] # k
  BY <1>0, OwnerIsUnique DEF Owns, PastSelect
<1>3. nextValue'[k] # 0 /\ \A j \in Counters \ {k} : nextValue'[j] = nextValue[j]
  <2>1. k \in Counters /\ draft[r] # 0
    BY <1>0, CommitIssues DEF ReadInv, PastSelect
  <2> QED BY <2>1 DEF Commit, TypeOK
<1>4. ReadInv'
  <2> SUFFICES ASSUME NEW q \in Requests
               PROVE  ( /\ pc[q] \in Open \cup {"done"} => counter[q] \in Counters
                        /\ pc[q] \in {"new", "ensure"} \cup Ended => draft[q] = 0
                        /\ pc[q] = "select" =>
                             \/ draft[q] = 0 /\ nextValue[counter[q]] # 0
                             \/ draft[q] = 1 /\ nextValue[counter[q]] = 0
                        /\ pc[q] \in PastSelect => sequence[q] = Issued(counter[q]) + 1
                        /\ pc[q] \in {"insert", "inserted"} =>
                             draft[q] = sequence[q] + 1)'
    BY DEF ReadInv
  <2>1. CASE q = r
    BY <1>0, <2>1, CommitIssues DEF TypeOK, Ended, Open, PastSelect
  <2>2. CASE q # r
    <3>1. pc'[q] = pc[q] /\ draft'[q] = draft[q]
      BY <1>0, <2>2 DEF TypeOK
    <3>2. pc[q] = "select" =>
             \/ draft[q] = 0 /\ nextValue'[counter[q]] # 0
             \/ draft[q] = 1 /\ nextValue'[counter[q]] = 0
      <4> SUFFICES ASSUME pc[q] = "select" PROVE
             \/ draft[q] = 0 /\ nextValue'[counter[q]] # 0
             \/ draft[q] = 1 /\ nextValue'[counter[q]] = 0
        OBVIOUS
      <4>1. counter[q] \in Counters
        BY DEF ReadInv, Open
      <4>2. CASE counter[q] = k
        BY <1>2, <1>3, <2>2, <4>2 DEF ReadInv, Owns
      <4>3. CASE counter[q] # k
        BY <1>3, <4>1, <4>3 DEF ReadInv
      <4> QED BY <4>2, <4>3
    <3>3. pc[q] \in PastSelect => Issued(counter[q])' = Issued(counter[q])
      BY <1>0, <1>2, <2>2, CommitIssues DEF Owns, ReadInv, PastSelect, Open
    <3> QED BY <1>0, <3>1, <3>2, <3>3 DEF ReadInv
  <2> QED BY <2>1, <2>2
<1>5. FiledInv'
  <2>1. ASSUME NEW q \in Requests, (pc[q] = "done")'
        PROVE  (sequence[q] \in 1 .. Issued(counter[q]))'
    <3>1. CASE q = r
      BY <1>0, <3>1, CommitIssues
    <3>2. CASE q # r
      <4>1. pc[q] = "done" /\ counter[q] \in Counters
        BY <1>0, <2>1, <3>2 DEF TypeOK, ReadInv
      <4>2. sequence[q] \in 1 .. Issued(counter[q])
        BY <4>1 DEF FiledInv
      <4> QED BY <1>0, <4>1, <4>2, CommitIssues
    <3> QED BY <3>1, <3>2
  <2>2. ASSUME NEW j \in Counters, NEW n \in 1 .. Issued(j)'
        PROVE  \E q \in Requests : (pc[q] = "done" /\ counter[q] = j /\ sequence[q] = n)'
    <3>1. CASE j = k /\ n = sequence[r]
      BY <1>0, <3>1 DEF TypeOK
    <3>2. CASE ~(j = k /\ n = sequence[r])
      <4>1. n \in 1 .. Issued(j)
        <5>1. CASE j = k
          BY <1>0, <3>2, <5>1, CommitIssues
        <5>2. CASE j # k
          BY <5>2, CommitIssues
        <5> QED BY <5>1, <5>2
      <4>2. PICK q \in Requests : pc[q] = "done" /\ counter[q] = j /\ sequence[q] = n
        BY <4>1 DEF FiledInv
      <4> QED BY <1>0, <4>2 DEF TypeOK
    <3> QED BY <3>1, <3>2
  <2> QED BY <2>1, <2>2 DEF FiledInv
<1>6. NumbersUnique'
  <2>1. \A q \in Requests : pc[q] = "done" => JobNumber(q) # JobNumber(r)
    BY <1>0, NumberIsFree DEF Carries, PastSelect
  <2> QED BY <1>0, <2>1 DEF NumbersUnique, JobNumber, TypeOK
<1>7. NeverCollides'
  BY <1>0 DEF NeverCollides, TypeOK
<1> QED BY <1>1, <1>4, <1>5, <1>6, <1>7

(* Whoever steps, the invariant is kept.                                    *)
LEMMA StepInv == IInv /\ [Next]_vars => IInv'
<1> SUFFICES ASSUME IInv, [Next]_vars PROVE IInv'
  OBVIOUS
<1>1. TypeOK'
  BY TypeStep DEF IInv
<1>2. CASE NewYear
  <2>1. UNCHANGED <<nextValue, rowLock, pc, counter, draft, sequence>>
    BY <1>2 DEF NewYear
  <2> QED BY <1>1, <2>1 DEF IInv, LockInv, Owns, ReadInv, FiledInv, NumbersUnique,
                           NeverCollides, Issued, JobNumber
<1>3. CASE UNCHANGED vars
  BY <1>1, <1>3 DEF vars, IInv, LockInv, Owns, ReadInv, FiledInv, NumbersUnique,
                    NeverCollides, Issued, JobNumber
<1>4. ASSUME NEW r \in Requests, Step(r) \/ PoolTimeout(r) \/ Rollback(r)
      PROVE  IInv'
  BY <1>1, <1>4, BeginStep, EnsureRowStep, SelectStep, FlushStep, InsertStep,
     CommitStep, TimeoutStep, RollbackStep DEF Step
<1> QED BY <1>2, <1>3, <1>4 DEF Next, AllServed

(* Counters are owned, drafts follow reads and numbers have no gaps, always. *)
THEOREM Invariance == Spec => []IInv
  BY InitInv, StepInv, PTL DEF Spec

-----------------------------------------------------------------------------
(* Every variable keeps its type in every behaviour.                        *)
THEOREM TypeCorrect == Spec => []TypeOK
<1>1. IInv => TypeOK
  BY DEF IInv
<1> QED BY <1>1, Invariance, PTL

(* However many requests race, SELECT FOR UPDATE admits one at a time to a  *)
(* counter: the queueing that job_numbers.py:37-39 promises.                *)
THEOREM MutualExclusion == Spec => []OneAllocatorPerCounter
<1>1. IInv => OneAllocatorPerCounter
  BY DEF IInv, LockInv, Owns, OneAllocatorPerCounter
<1> QED BY <1>1, Invariance, PTL

(* No two committed jobs of a company and year carry the same number, and   *)
(* the unique constraint is never what keeps them apart.                    *)
THEOREM Uniqueness == Spec => [](NumbersUnique /\ NeverCollides)
<1>1. IInv => NumbersUnique /\ NeverCollides
  BY DEF IInv
<1> QED BY <1>1, Invariance, PTL

(* A rolled back creation gives its number back: the committed jobs of a    *)
(* company's year are numbered 1, 2, 3, ... with nothing missing.           *)
THEOREM Gapless == Spec => []NoGaps
<1>1. IInv => NoGaps
  <2> SUFFICES ASSUME IInv, NEW k \in Counters
               PROVE  {sequence[r] : r \in Filed(k)} = 1 .. (nextValue[k] - 1)
    BY DEF NoGaps
  <2>1. 1 .. (nextValue[k] - 1) = 1 .. Issued(k)
    BY DEF IInv, TypeOK, Issued
  <2>2. \A r \in Filed(k) : sequence[r] \in 1 .. Issued(k)
    BY DEF IInv, FiledInv, Filed
  <2>3. \A n \in 1 .. Issued(k) : \E r \in Filed(k) : sequence[r] = n
    BY DEF IInv, FiledInv, Filed
  <2> QED BY <2>1, <2>2, <2>3
<1> QED BY <1>1, Invariance, PTL

(* The locks, drafts and rollbacks add up to NumberLedger: a commit is the  *)
(* one step that files a job, under the next number of its counter, and     *)
(* every other statement is invisible.                                      *)
THEOREM Refinement == Spec => ImplementsLedger
<1>1. Init => Ledger!Init
  BY NoneAssumption DEF Init, Ledger!Init, Issued
<1>2. IInv /\ [Next]_vars => [Ledger!Next]_(Ledger!vars)
  <2> SUFFICES ASSUME IInv, IInv', [Next]_vars
               PROVE  Ledger!Next \/ UNCHANGED Ledger!vars
    BY StepInv
  <2> USE DEF IInv
  <2>1. ASSUME NEW r \in Requests, Commit(r) PROVE Ledger!Next
    <3>0. pc[r] = "inserted" /\ pc' = [pc EXCEPT ![r] = "done"]
          /\ UNCHANGED <<counter, sequence>>
      BY <2>1 DEF Commit
    <3>1. PICK k \in Counters : k = counter[r]
      BY <2>1, CommitIssues
    <3>2. sequence[r] = Issued(k) + 1 /\ Issued(k)' = Issued(k) + 1
          /\ \A j \in Counters \ {k} : Issued(j)' = Issued(j)
      BY <2>1, <3>0, <3>1, CommitIssues
    <3>3. [j \in Counters |-> Issued(j)'] =
            [[j \in Counters |-> Issued(j)] EXCEPT ![k] = @ + 1]
      BY <3>2
    <3>4. JobNumber(r) = <<k, Issued(k) + 1>>
      BY <3>1, <3>2 DEF JobNumber
    <3>5. [q \in Requests |-> IF pc'[q] = "done" THEN JobNumber(q)' ELSE None] =
            [[q \in Requests |-> IF pc[q] = "done" THEN JobNumber(q) ELSE None]
               EXCEPT ![r] = <<k, Issued(k) + 1>>]
      BY <3>0, <3>4 DEF JobNumber, TypeOK
    <3>6. Ledger!File(r, k)
      BY <3>0, <3>3, <3>5 DEF Ledger!File
    <3> QED BY <3>6 DEF Ledger!Next
  <2>2. ASSUME \A k \in Counters : Issued(k)' = Issued(k),
               \A q \in Requests : (pc'[q] = "done") <=> (pc[q] = "done"),
               \A q \in Requests : pc[q] = "done" => JobNumber(q)' = JobNumber(q)
        PROVE  UNCHANGED Ledger!vars
    BY <2>2 DEF Ledger!vars
  <2>3. ASSUME NEW r \in Requests, (Step(r) /\ ~Commit(r)) \/ PoolTimeout(r) \/ Rollback(r)
        PROVE  UNCHANGED Ledger!vars
    <3>1. nextValue' = nextValue
      BY <2>3 DEF Step, Begin, EnsureRow, SelectForUpdate, FlushCounter, InsertJob,
                  PoolTimeout, Rollback
    <3>2. pc[r] # "done" /\ pc'[r] # "done"
      BY <2>3 DEF Step, Begin, EnsureRow, SelectForUpdate, FlushCounter, InsertJob,
                  PoolTimeout, Rollback, TypeOK, Open
    <3>3. \A q \in Requests \ {r} : pc'[q] = pc[q] /\ counter'[q] = counter[q]
                                     /\ sequence'[q] = sequence[q]
      BY <2>3 DEF Step, Begin, EnsureRow, SelectForUpdate, FlushCounter, InsertJob,
                  PoolTimeout, Rollback, TypeOK
    <3> QED BY <2>2, <3>1, <3>2, <3>3 DEF Issued, JobNumber
  <2>4. CASE NewYear \/ UNCHANGED vars
    <3>1. UNCHANGED <<nextValue, pc, counter, sequence>>
      BY <2>4 DEF NewYear, vars
    <3> QED BY <2>2, <3>1 DEF Issued, JobNumber
  <2> QED BY <2>1, <2>3, <2>4 DEF Next, Step, AllServed
<1> QED BY <1>1, <1>2, Invariance, PTL DEF Spec, ImplementsLedger, Ledger!Spec
=============================================================================
