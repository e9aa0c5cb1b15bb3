--------------------------- MODULE AddressesProofs ---------------------------
(***************************************************************************)
(* Proofs about Addresses: the types, that a customer has at most one      *)
(* primary address and loses it only to a request that says so, that the   *)
(* index refuses only for a reason, and that the primary address stays     *)
(* active, for any number of addresses and of overlapping requests.        *)
(***************************************************************************)
EXTENDS Addresses, TLAPS

(* A request that is adding an address that is not there yet.               *)
Adding(w) == ~Idle(w) /\ tx[w].address \notin Known

(* The address that a request adds is its own, and has both its flags.      *)
OwnsNew(w) ==
  Adding(w) =>
    /\ tx[w].sends \in Row
    /\ Known = {} => Sends(w, TRUE)
    /\ \A v \in Workers \ {w} : ~Idle(v) => tx[v].address # tx[w].address

(* A transaction takes the flag from others, whose rows are there, only to  *)
(* give it.                                                                 *)
Gives(w) ==
  ~Idle(w) =>
    /\ tx[w].clears \subseteq Known
    /\ tx[w].clears # {} => Sends(w, TRUE)

(* Once past the index, no other address is or becomes primary.             *)
Settled(w) ==
  At(w, "commit") /\ Sends(w, TRUE) =>
    /\ Rivals(w) = {}
    /\ \A v \in Workers \ {w} : ~(At(v, "commit") /\ Sends(v, TRUE))

CarriesOK == \A w \in Workers : OwnsNew(w) /\ Gives(w) /\ Settled(w)

IInv == TypeOK /\ OnePrimary /\ CarriesOK

-----------------------------------------------------------------------------
(* The fields that a PATCH sends are typed. *)
LEMMA DifferingType ==
  ASSUME NEW row, NEW primary \in BOOLEAN \cup {None},
         NEW active \in BOOLEAN \cup {None}
  PROVE  Differing(row, primary, active)
           \in [primary : BOOLEAN \cup {None}, active : BOOLEAN \cup {None}]
BY DEF Differing

(* What a row becomes is typed. *)
LEMMA AfterType ==
  ASSUME NEW row,
         NEW sends \in [primary : BOOLEAN \cup {None}, active : BOOLEAN \cup {None}],
         row \in Row \/ sends \in Row
  PROVE  After(row, sends) \in Row
BY NoneAssumption DEF After, Row

(* A new customer has at most a first address.                              *)
LEMMA InitType == Init => TypeOK
BY DEF Init, TypeOK, Row

(* A load keeps the types if what it sends is typed. *)
LEMMA LoadType ==
  ASSUME TypeOK, NEW w \in Workers, NEW a \in Addresses,
         NEW clears \in SUBSET Addresses,
         NEW sends \in [primary : BOOLEAN \cup {None}, active : BOOLEAN \cup {None}],
         Load(w, a, clears, sends)
  PROVE  TypeOK'
BY DEF TypeOK, Load, Transaction

(* What a commit needs to leave rows: a new one is sent whole, and the flag *)
(* is taken from rows that are there.                                       *)
Whole(w) ==
  /\ Adding(w) => tx[w].sends \in Row
  /\ ~Idle(w) => tx[w].clears \subseteq Known

(* Every step keeps the types. *)
LEMMA TypeStep == TypeOK /\ (\A w \in Workers : Whole(w)) /\ [Next]_vars => TypeOK'
<1> SUFFICES ASSUME TypeOK, \A w \in Workers : Whole(w), [Next]_vars PROVE TypeOK'
  OBVIOUS
<1> USE DEF TypeOK
<1>1. CASE UNCHANGED vars
  BY <1>1 DEF vars
<1>2. ASSUME NEW w \in Workers, NEW a \in Addresses, NEW primary \in BOOLEAN,
             LoadAdd(w, a, primary)
      PROVE  TypeOK'
  <2> DEFINE makePrimary == primary \/ Active = {}
  <2>1. makePrimary \in BOOLEAN
    OBVIOUS
  <2>2. Load(w, a, IF makePrimary THEN Active \cap Primary ELSE {},
             [primary |-> makePrimary, active |-> TRUE])
    BY <1>2 DEF LoadAdd
  <2>3. (IF makePrimary THEN Active \cap Primary ELSE {}) \in SUBSET Addresses
    BY DEF Active, Known
  <2> HIDE DEF makePrimary
  <2>4. [primary |-> makePrimary, active |-> TRUE]
          \in [primary : BOOLEAN \cup {None}, active : BOOLEAN \cup {None}]
    BY <2>1
  <2> QED BY <2>2, <2>3, <2>4, LoadType
<1>3. ASSUME NEW w \in Workers, NEW a \in Addresses,
             NEW primary \in Primaries \cup {None}, NEW active \in BOOLEAN \cup {None},
             LoadUpdate(w, a, primary, active)
      PROVE  TypeOK'
  <2>1. Load(w, a, IF primary = TRUE THEN Primary \ {a} ELSE {},
             Differing(rows[a], primary, active))
    BY <1>3 DEF LoadUpdate
  <2>2. (IF primary = TRUE THEN Primary \ {a} ELSE {}) \in SUBSET Addresses
    BY DEF Primary, Known
  <2>3. primary \in BOOLEAN \cup {None}
    BY PrimariesAssumption
  <2> QED BY <2>1, <2>2, <2>3, DifferingType, LoadType
<1>4. ASSUME NEW w \in Workers, Clear(w) \/ Write(w) PROVE TypeOK'
  <2>1. tx[w] \in Transaction
    BY <1>4 DEF Clear, Write, At, Idle
  <2>2. PICK at \in {"write", "commit"} :
          tx' = [tx EXCEPT ![w] = [tx[w] EXCEPT !.at = at]] /\ UNCHANGED rows
    BY <1>4 DEF Clear, Write
  <2>3. [tx[w] EXCEPT !.at = at] \in Transaction
    BY <2>1 DEF Transaction
  <2> QED BY <2>2, <2>3
<1>5. ASSUME NEW w \in Workers, Commit(w) PROVE TypeOK'
  <2>1. tx[w] \in Transaction
    BY <1>5 DEF Commit, At, Idle
  <2>2. ASSUME NEW a \in Addresses PROVE rows'[a] \in Row \cup {None}
    <3>1. CASE a = tx[w].address
      <4>1. rows[a] \in Row \/ tx[w].sends \in Row
        BY <1>5, <3>1 DEF Commit, At, Whole, Adding, Known
      <4>2. After(rows[a], tx[w].sends) \in Row
        BY <2>1, <4>1, AfterType DEF Transaction
      <4> QED BY <1>5, <3>1, <4>2 DEF Commit
    <3>2. CASE a # tx[w].address /\ a \in tx[w].clears
      <4>1. rows[a] \in Row
        BY <1>5, <3>2 DEF Commit, At, Whole, Known
      <4>2. [rows[a] EXCEPT !.primary = FALSE] \in Row
        BY <4>1 DEF Row
      <4> QED BY <1>5, <3>2, <4>2 DEF Commit
    <3>3. CASE a # tx[w].address /\ a \notin tx[w].clears
      BY <1>5, <3>3 DEF Commit
    <3> QED BY <3>1, <3>2, <3>3
  <2> QED BY <1>5, <2>2 DEF Commit
<1>6. ASSUME NEW w \in Workers, Abort(w) PROVE TypeOK'
  BY <1>6 DEF Abort
<1> QED
  BY <1>1, <1>2, <1>3, <1>4, <1>5, <1>6 DEF Next, Request

-----------------------------------------------------------------------------
(* At first there are no transactions and at most one address. *)
LEMMA InitInv == Init => IInv
<1> SUFFICES ASSUME Init PROVE IInv
  OBVIOUS
<1>1. PICK first \in {{}} \cup {{a} : a \in Addresses} :
        rows = [a \in Addresses |-> IF a \in first
                                    THEN [primary |-> TRUE, active |-> TRUE]
                                    ELSE None]
  BY DEF Init
<1>2. Known = first /\ Primary = first
  <2>0. [primary |-> TRUE, active |-> TRUE] \in Row
    BY DEF Row
  <2>1. [primary |-> TRUE, active |-> TRUE] # None
    BY <2>0, NoneAssumption
  <2>2. Known = first
    BY <1>1, <2>1 DEF Known
  <2> QED BY <1>1, <2>2 DEF Primary
<1>3. OnePrimary
  BY <1>1, <1>2 DEF OnePrimary
<1> QED
  BY <1>3, InitType
     DEF IInv, Init, CarriesOK, OwnsNew, Gives, Settled, Adding, At, Idle

(* A load: what it has to be for the invariant to hold of it. *)
LEMMA LoadStep ==
  ASSUME TypeOK, CarriesOK, NEW w \in Workers, NEW a \in Addresses,
         NEW clears,
         NEW sends \in [primary : BOOLEAN \cup {None}, active : BOOLEAN \cup {None}],
         Load(w, a, clears, sends),
         clears \subseteq Known,
         clears # {} => sends.primary = TRUE,
         a \notin Known => sends \in Row,
         Known = {} => sends.primary = TRUE,
         a \notin Known => \A v \in Workers : ~Idle(v) => tx[v].address # a
  PROVE  CarriesOK'
<1>1. UNCHANGED rows /\ Known' = Known /\ Primary' = Primary
  BY DEF Load, Known, Primary
<1>2. /\ tx'[w].address = a
      /\ tx'[w].clears = clears
      /\ tx'[w].sends = sends
      /\ tx'[w].at \in {"clear", "write"}
      /\ ~Idle(w)'
  <2> DEFINE t == [address |-> a, loaded |-> rows, clears |-> clears,
                   sends |-> sends, at |-> IF clears = {} THEN "write" ELSE "clear"]
  <2>1. t \in Transaction
    BY DEF Transaction, TypeOK, Known
  <2>2. tx'[w] = t
    BY DEF Load, TypeOK
  <2>3. t # None
    BY <2>1, NoneAssumption
  <2> QED BY <2>2, <2>3 DEF Idle
<1>3. \A v \in Workers \ {w} : tx'[v] = tx[v]
  BY DEF Load, TypeOK
<1>4. ASSUME NEW v \in Workers PROVE OwnsNew(v)'
  BY <1>1, <1>2, <1>3 DEF CarriesOK, OwnsNew, Adding, Sends, Idle
<1>5. ASSUME NEW v \in Workers PROVE Gives(v)'
  BY <1>1, <1>2, <1>3 DEF CarriesOK, Gives, Adding, Sends, Idle
<1>6. ASSUME NEW v \in Workers PROVE Settled(v)'
  BY <1>1, <1>2, <1>3 DEF CarriesOK, Settled, Rivals, Sends, At, Idle
<1> QED BY <1>4, <1>5, <1>6 DEF CarriesOK

(* A flush: the index lets at most one request give the flag. *)
LEMMA FlushStep ==
  ASSUME TypeOK, CarriesOK, NEW w \in Workers, Clear(w) \/ Write(w)
  PROVE  CarriesOK'
<1>1. UNCHANGED rows /\ Known' = Known /\ Primary' = Primary
  BY DEF Clear, Write, Known, Primary
<1>2. PICK at \in {"write", "commit"} :
        /\ tx' = [tx EXCEPT ![w] = [tx[w] EXCEPT !.at = at]]
        /\ at = "commit" => Write(w)
  BY DEF Clear, Write
<1>3. tx[w] \in Transaction /\ ~Idle(w)
  BY DEF Clear, Write, At, Idle, TypeOK
<1>4. /\ tx'[w].address = tx[w].address
      /\ tx'[w].clears = tx[w].clears
      /\ tx'[w].sends = tx[w].sends
      /\ tx'[w].at = at
      /\ ~Idle(w)'
  <2>1. [tx[w] EXCEPT !.at = at] \in Transaction
    BY <1>3 DEF Transaction
  <2> QED BY <1>2, <1>3, <2>1, NoneAssumption DEF TypeOK, Transaction, Idle
<1>5. \A v \in Workers \ {w} : tx'[v] = tx[v]
  BY <1>2 DEF TypeOK
<1>6. ASSUME NEW v \in Workers PROVE OwnsNew(v)'
  BY <1>1, <1>3, <1>4, <1>5 DEF CarriesOK, OwnsNew, Adding, Sends, Idle
<1>7. ASSUME NEW v \in Workers PROVE Gives(v)'
  BY <1>1, <1>3, <1>4, <1>5 DEF CarriesOK, Gives, Adding, Sends, Idle
<1>8. Settled(w)'
  <2> SUFFICES ASSUME At(w, "commit")', Sends(w, TRUE)'
               PROVE  /\ Rivals(w)' = {}
                      /\ \A v \in Workers \ {w} : ~(At(v, "commit") /\ Sends(v, TRUE))'
    BY DEF Settled
  <2>1. Write(w) /\ Sends(w, TRUE)
    BY <1>2, <1>3, <1>4 DEF At, Sends
  <2>2. Rivals(w)' = {}
    BY <1>1, <1>3, <1>4, <2>1 DEF Write, Rivals, Sends
  <2>3. \A v \in Workers \ {w} : ~(At(v, "commit") /\ Sends(v, TRUE))
    BY <2>1 DEF Write, Waits
  <2> QED BY <1>5, <2>2, <2>3 DEF At, Sends, Idle
<1>9. ASSUME NEW v \in Workers \ {w} PROVE Settled(v)'
  <2> SUFFICES ASSUME At(v, "commit")', Sends(v, TRUE)'
               PROVE  /\ Rivals(v)' = {}
                      /\ \A u \in Workers \ {v} : ~(At(u, "commit") /\ Sends(u, TRUE))'
    BY DEF Settled
  <2>1. At(v, "commit") /\ Sends(v, TRUE)
    BY <1>5 DEF At, Sends, Idle
  <2>2. Rivals(v)' = {}
    BY <1>1, <1>5, <2>1 DEF CarriesOK, Settled, Rivals, Sends, Idle
  <2>3. ~(At(w, "commit") /\ Sends(w, TRUE))'
    BY <2>1, <1>2, <1>3, <1>4 DEF Write, Waits, At, Sends, Idle
  <2>4. \A u \in Workers \ {v, w} : ~(At(u, "commit") /\ Sends(u, TRUE))'
    BY <2>1, <1>5 DEF CarriesOK, Settled, At, Sends, Idle
  <2> QED BY <2>2, <2>3, <2>4
<1> QED BY <1>6, <1>7, <1>8, <1>9 DEF CarriesOK

(* A rollback forgets what the transaction carried. *)
LEMMA AbortStep ==
  ASSUME TypeOK, CarriesOK, NEW w \in Workers, Abort(w)
  PROVE  CarriesOK'
<1>1. UNCHANGED rows /\ Known' = Known /\ Primary' = Primary
  BY DEF Abort, Known, Primary
<1>2. tx'[w] = None /\ \A v \in Workers \ {w} : tx'[v] = tx[v]
  BY DEF Abort, TypeOK
<1>3. ASSUME NEW v \in Workers PROVE OwnsNew(v)' /\ Gives(v)'
  BY <1>1, <1>2 DEF CarriesOK, OwnsNew, Gives, Adding, Sends, Idle
<1>4. ASSUME NEW v \in Workers PROVE Settled(v)'
  BY <1>1, <1>2 DEF CarriesOK, Settled, Rivals, Sends, At, Idle
<1> QED BY <1>3, <1>4 DEF CarriesOK

(* A commit: the address that gets the flag is the only one that has it,    *)
(* and one that does not get it takes none away but its own.                *)
LEMMA CommitStep ==
  ASSUME TypeOK, CarriesOK, NEW w \in Workers, Commit(w)
  PROVE  /\ CarriesOK'
         /\ Sends(w, TRUE) => Primary' = {tx[w].address}
         /\ ~Sends(w, TRUE) =>
              /\ Known # {}
              /\ Primary' = Primary \ {b \in {tx[w].address} : Sends(w, FALSE)}
<1> DEFINE t == tx[w]
           a == t.address
<1>1. t \in Transaction /\ ~Idle(w) /\ At(w, "commit")
  BY DEF Commit, At, Idle, TypeOK
<1>2. tx'[w] = None /\ \A v \in Workers \ {w} : tx'[v] = tx[v]
  BY DEF Commit, TypeOK
<1>3. rows'[a] = After(rows[a], t.sends) /\ rows'[a] \in Row
  <2>1. rows[a] \in Row \/ t.sends \in Row
    BY <1>1 DEF CarriesOK, OwnsNew, Adding, Known, TypeOK, Transaction
  <2> QED BY <1>1, <2>1, AfterType DEF Commit, Transaction
<1>4. ASSUME NEW b \in Addresses \ {a}
      PROVE  rows'[b] = IF b \in t.clears THEN [rows[b] EXCEPT !.primary = FALSE]
                        ELSE rows[b]
  BY DEF Commit
<1>5. ASSUME NEW b \in Known PROVE rows[b] \in Row
  BY DEF Known, TypeOK
<1>6. t.clears \subseteq Known
  BY <1>1 DEF CarriesOK, Gives
<1>7. Known' = Known \cup {a}
  <2>1. ASSUME NEW b \in Addresses \ {a} PROVE rows'[b] = None <=> rows[b] = None
    BY <1>4, <1>5, <1>6, NoneAssumption DEF Row, Known
  <2> QED BY <1>1, <1>3, <2>1, NoneAssumption DEF Known, Transaction
<1>8. \A b \in Addresses \ {a} : b \in Primary' <=> b \in Primary \ t.clears
  BY <1>4, <1>5, <1>6, <1>7 DEF Primary, Row, Known
<1>9. ASSUME NEW v \in Workers PROVE OwnsNew(v)' /\ Gives(v)'
  BY <1>1, <1>2, <1>7 DEF CarriesOK, OwnsNew, Gives, Adding, Sends, Idle
<1>10. CASE Sends(w, TRUE)
  <2>1. Primary' = {a}
    <3>0. TRUE # None
      BY NoneAssumption
    <3>1. a \in Primary'
      <4>1. t.sends.primary = TRUE
        BY <1>10 DEF Sends
      <4>2. After(rows[a], t.sends).primary = t.sends.primary
        BY <3>0, <4>1 DEF After
      <4>3. rows'[a].primary = TRUE
        BY <1>3, <4>1, <4>2
      <4> QED BY <1>7, <4>3 DEF Primary
    <3>2. Primary \ t.clears \subseteq {a}
      BY <1>1, <1>10 DEF CarriesOK, Settled, Rivals
    <3> QED BY <1>1, <1>7, <1>8, <3>1, <3>2 DEF Primary, Known
  <2>2. \A v \in Workers \ {w} : ~(At(v, "commit") /\ Sends(v, TRUE))
    BY <1>1, <1>10 DEF CarriesOK, Settled
  <2>3. \A v \in Workers : Settled(v)'
    BY <1>2, <2>2 DEF Settled, At, Sends, Idle
  <2> QED BY <1>9, <1>10, <2>1, <2>3 DEF CarriesOK
<1>11. CASE ~Sends(w, TRUE)
  <2>1. t.clears = {} /\ Known # {}
    BY <1>1, <1>11 DEF CarriesOK, Gives, OwnsNew, Adding
  <2> DEFINE gone == {b \in {a} : Sends(w, FALSE)}
  <2>2. \A b \in Addresses \ {a} : b \in Primary' <=> b \in Primary
    BY <1>8, <2>1
  <2>3. ASSUME Sends(w, FALSE) PROVE Primary' = Primary \ gone
    <3>1. After(rows[a], t.sends).primary = FALSE
      BY <2>3, NoneAssumption DEF Sends, After
    <3>2. a \notin Primary'
      BY <1>3, <3>1 DEF Primary
    <3> QED BY <1>1, <2>2, <2>3, <3>2 DEF Primary, Known, Transaction
  <2>4. ASSUME ~Sends(w, FALSE) PROVE Primary' = Primary \ gone
    <3>1. t.sends.primary = None
      BY <1>1, <1>11, <2>4 DEF Sends, Transaction
    <3>2. a \in Known
      BY <1>1, <3>1, NoneAssumption DEF CarriesOK, OwnsNew, Adding, Row
    <3>3. rows'[a].primary = rows[a].primary
      BY <1>3, <3>1 DEF After
    <3>4. a \in Primary' <=> a \in Primary
      BY <1>7, <3>2, <3>3 DEF Primary
    <3> QED BY <2>2, <2>4, <3>4 DEF Primary, Known
  <2>5. Primary' = Primary \ gone
    BY <2>3, <2>4
  <2>6. ASSUME NEW v \in Workers PROVE Settled(v)'
    BY <1>2, <2>5 DEF CarriesOK, Settled, Rivals, At, Sends, Idle
  <2> QED BY <1>9, <1>11, <2>1, <2>5, <2>6 DEF CarriesOK
<1> QED BY <1>10, <1>11

(* Every step keeps the invariant.                                          *)
LEMMA StepInv == IInv /\ [Next]_vars => IInv'
<1> SUFFICES ASSUME TypeOK, OnePrimary, CarriesOK, [Next]_vars
             PROVE  IInv'
  BY DEF IInv
<1>1. TypeOK'
  BY TypeStep DEF Whole, CarriesOK, OwnsNew, Gives
<1>2. ASSUME UNCHANGED rows PROVE OnePrimary'
  BY <1>2 DEF OnePrimary, Known, Primary
<1>3. CASE UNCHANGED vars
  <2>1. CarriesOK'
    BY <1>3 DEF vars, CarriesOK, OwnsNew, Gives, Settled, Rivals, Adding, Sends, At,
                Idle, Known, Primary
  <2> QED BY <1>1, <1>2, <1>3, <2>1 DEF vars, IInv
<1>4. ASSUME NEW w \in Workers, NEW a \in Addresses, NEW primary \in BOOLEAN,
             LoadAdd(w, a, primary)
      PROVE  IInv'
  <2> DEFINE makePrimary == primary \/ Active = {}
             clears == IF makePrimary THEN Active \cap Primary ELSE {}
             sends == [primary |-> makePrimary, active |-> TRUE]
  <2>1. makePrimary \in BOOLEAN
    OBVIOUS
  <2>2. Load(w, a, clears, sends) /\ UNCHANGED rows
    BY <1>4 DEF LoadAdd, Load
  <2>3. /\ a \notin Known
        /\ \A v \in Workers : ~Idle(v) => tx[v].address # a
    BY <1>4 DEF LoadAdd
  <2>4. /\ clears \subseteq Known
        /\ clears # {} => makePrimary = TRUE
        /\ Known = {} => makePrimary = TRUE
    BY DEF Active
  <2> HIDE DEF makePrimary
  <2>5. sends \in Row /\ sends.primary = makePrimary
    BY <2>1 DEF Row
  <2>6. sends \in [primary : BOOLEAN \cup {None}, active : BOOLEAN \cup {None}]
    BY <2>1
  <2> HIDE DEF clears, sends
  <2>7. CarriesOK'
    BY <2>2, <2>3, <2>4, <2>5, <2>6, LoadStep
  <2> QED BY <1>1, <1>2, <2>2, <2>7 DEF IInv
<1>5. ASSUME NEW w \in Workers, NEW a \in Addresses,
             NEW primary \in Primaries \cup {None}, NEW active \in BOOLEAN \cup {None},
             LoadUpdate(w, a, primary, active)
      PROVE  IInv'
  <2> DEFINE clears == IF primary = TRUE THEN Primary \ {a} ELSE {}
             sends == Differing(rows[a], primary, active)
  <2>1. Load(w, a, clears, sends) /\ UNCHANGED rows
    BY <1>5 DEF LoadUpdate, Load
  <2>2. a \in Known /\ rows[a] \in Row
    BY <1>5 DEF LoadUpdate, Known, TypeOK
  <2>3. sends \in [primary : BOOLEAN \cup {None}, active : BOOLEAN \cup {None}]
    BY PrimariesAssumption, DifferingType
  <2>4. clears # {} => sends.primary = TRUE
    <3>1. CASE primary = TRUE /\ Primary \ {a} # {}
      <4>1. a \notin Primary
        BY <3>1 DEF OnePrimary, Primary
      <4>2. rows[a].primary # TRUE
        BY <2>2, <4>1 DEF Primary
      <4> QED BY <3>1, <4>2 DEF Differing
    <3> QED BY <3>1
  <2>5. clears \subseteq Known
    BY DEF Primary
  <2> HIDE DEF clears, sends
  <2>6. CarriesOK'
    BY <2>1, <2>2, <2>3, <2>4, <2>5, LoadStep
  <2> QED BY <1>1, <1>2, <2>1, <2>6 DEF IInv
<1>6. ASSUME NEW w \in Workers, Clear(w) \/ Write(w) PROVE IInv'
  BY <1>1, <1>2, <1>6, FlushStep DEF IInv, Clear, Write
<1>7. ASSUME NEW w \in Workers, Commit(w) PROVE IInv'
  <2>1. \/ Primary' = {tx[w].address}
        \/ Primary' \subseteq Primary
    BY <1>7, CommitStep
  <2> QED BY <1>1, <1>7, <2>1, CommitStep DEF IInv, OnePrimary
<1>8. ASSUME NEW w \in Workers, Abort(w) PROVE IInv'
  BY <1>1, <1>2, <1>8, AbortStep DEF IInv, Abort
<1> QED
  BY <1>3, <1>4, <1>5, <1>6, <1>7, <1>8 DEF Next, Request

-----------------------------------------------------------------------------
(* A request acts on what it has read: it takes the flag it asks for from   *)
(* every address that had it in the rows it loaded (from the active ones    *)
(* only, if it adds an address), and does not deactivate one that was       *)
(* primary there.                                                           *)
HadFlag(w) == {b \in Addresses : tx[w].loaded[b] # None /\ tx[w].loaded[b].primary}

ActsOnItsLoad(w) ==
  LET own == tx[w].loaded[tx[w].address] IN
  ~Idle(w) =>
    /\ own = None =>
         /\ tx[w].sends.active = TRUE
         /\ Sends(w, TRUE) => {b \in HadFlag(w) : tx[w].loaded[b].active} \subseteq tx[w].clears
    /\ own # None =>
         /\ own.primary => tx[w].sends.active # FALSE
         /\ Sends(w, TRUE) => HadFlag(w) \ {tx[w].address} \subseteq tx[w].clears

LInv == TypeOK /\ \A w \in Workers : Whole(w) /\ ActsOnItsLoad(w)

(* No step deletes an address. *)
LEMMA KnownGrows ==
  ASSUME TypeOK, \A w \in Workers : Whole(w), [Next]_vars
  PROVE  Known \subseteq Known'
<1>1. CASE UNCHANGED rows
  BY <1>1 DEF Known
<1>2. ASSUME NEW w \in Workers, Commit(w) PROVE Known \subseteq Known'
  <2>1. tx[w] \in Transaction
    BY <1>2 DEF Commit, At, Idle, TypeOK
  <2>2. ASSUME NEW b \in Known PROVE rows'[b] \in Row
    <3>1. rows[b] \in Row
      BY DEF Known, TypeOK
    <3>2. After(rows[b], tx[w].sends) \in Row
      BY <2>1, <3>1, AfterType DEF Transaction
    <3>3. [rows[b] EXCEPT !.primary = FALSE] \in Row
      BY <3>1 DEF Row
    <3> QED BY <1>2, <3>1, <3>2, <3>3 DEF Commit, Known
  <2> QED BY <2>2, NoneAssumption DEF Known
<1> QED
  BY <1>1, <1>2 DEF Next, Request, LoadAdd, LoadUpdate, Load, Clear, Write, Abort, vars

(* A request that has not begun in this step is still what it was. *)
LEMMA KeepsItsLoad ==
  ASSUME TypeOK, Known \subseteq Known', NEW v \in Workers,
         Whole(v), ActsOnItsLoad(v),
         \/ tx'[v] = None
         \/ tx'[v] = tx[v]
         \/ ~Idle(v) /\ \E at \in {"write", "commit"} : tx'[v] = [tx[v] EXCEPT !.at = at]
  PROVE  Whole(v)' /\ ActsOnItsLoad(v)'
<1>1. CASE tx'[v] = None
  BY <1>1 DEF Whole, ActsOnItsLoad, Adding, Idle
<1>2. CASE tx'[v] = tx[v]
  BY <1>2 DEF Whole, ActsOnItsLoad, Adding, Idle, Sends, HadFlag
<1>3. ASSUME ~Idle(v), NEW at \in {"write", "commit"}, tx'[v] = [tx[v] EXCEPT !.at = at]
      PROVE  Whole(v)' /\ ActsOnItsLoad(v)'
  <2>1. tx[v] \in Transaction
    BY <1>3 DEF TypeOK, Idle
  <2>2. /\ tx'[v].address = tx[v].address /\ tx'[v].loaded = tx[v].loaded
        /\ tx'[v].clears = tx[v].clears /\ tx'[v].sends = tx[v].sends
    BY <1>3, <2>1 DEF Transaction
  <2>3. HadFlag(v)' = HadFlag(v)
    BY <2>2 DEF HadFlag
  <2> QED BY <1>3, <2>2, <2>3 DEF Whole, ActsOnItsLoad, Adding, Idle, Sends
<1> QED BY <1>1, <1>2, <1>3

(* What a load is. *)
LEMMA LoadIs ==
  ASSUME TypeOK, NEW w \in Workers, NEW a \in Addresses, NEW clears, NEW sends,
         Load(w, a, clears, sends)
  PROVE  /\ tx'[w].address = a /\ tx'[w].loaded = rows
         /\ tx'[w].clears = clears /\ tx'[w].sends = sends
         /\ rows' = rows /\ Known' = Known
         /\ HadFlag(w)' = Primary
         /\ \A v \in Workers \ {w} : tx'[v] = tx[v]
BY DEF TypeOK, Load, HadFlag, Known, Primary

(* POST acts on what it has read. *)
LEMMA AddActs ==
  ASSUME TypeOK, NEW w \in Workers, NEW a \in Addresses, NEW primary \in BOOLEAN,
         LoadAdd(w, a, primary)
  PROVE  Whole(w)' /\ ActsOnItsLoad(w)'
<1> DEFINE makePrimary == primary \/ Active = {}
           clears == IF makePrimary THEN Active \cap Primary ELSE {}
           sends == [primary |-> makePrimary, active |-> TRUE]
<1>1. Load(w, a, clears, sends) /\ a \notin Known
  BY DEF LoadAdd
<1>2. makePrimary \in BOOLEAN /\ (makePrimary = TRUE => clears = Active \cap Primary)
      /\ clears \subseteq Known
  BY DEF Active
<1> HIDE DEF makePrimary, clears
<1>3. sends \in Row /\ sends.primary = makePrimary /\ sends.active = TRUE
  BY <1>2 DEF Row
<1> HIDE DEF sends
<1>4. /\ tx'[w].address = a /\ tx'[w].loaded = rows
      /\ tx'[w].clears = clears /\ tx'[w].sends = sends
      /\ Known' = Known /\ HadFlag(w)' = Primary
  BY <1>1, LoadIs
<1>5. Whole(w)'
  BY <1>2, <1>3, <1>4 DEF Whole
<1>6. {b \in Primary : rows[b].active} = Active \cap Primary /\ rows[a] = None
  BY <1>1 DEF Active, Primary, Known
<1> QED BY <1>2, <1>3, <1>4, <1>5, <1>6 DEF ActsOnItsLoad, Sends

(* PATCH acts on what it has read. *)
LEMMA UpdateActs ==
  ASSUME TypeOK, NEW w \in Workers, NEW a \in Addresses,
         NEW primary \in Primaries \cup {None}, NEW active \in BOOLEAN \cup {None},
         LoadUpdate(w, a, primary, active)
  PROVE  Whole(w)' /\ ActsOnItsLoad(w)'
<1> DEFINE clears == IF primary = TRUE THEN Primary \ {a} ELSE {}
           sends == Differing(rows[a], primary, active)
<1>1. /\ Load(w, a, clears, sends) /\ a \in Known
      /\ ~(active = FALSE /\ rows[a].primary)
  BY DEF LoadUpdate
<1>2. clears \subseteq Known /\ (sends.primary = TRUE => clears = Primary \ {a})
      /\ (sends.active = FALSE => active = FALSE)
  BY NoneAssumption DEF Primary, Differing
<1> HIDE DEF clears, sends
<1>3. /\ tx'[w].address = a /\ tx'[w].loaded = rows
      /\ tx'[w].clears = clears /\ tx'[w].sends = sends
      /\ Known' = Known /\ HadFlag(w)' = Primary
  BY <1>1, LoadIs
<1>4. Whole(w)'
  BY <1>1, <1>2, <1>3 DEF Whole, Adding
<1>5. rows[a] # None
  BY <1>1 DEF Known
<1> QED BY <1>1, <1>2, <1>3, <1>4, <1>5 DEF ActsOnItsLoad, Sends

(* Every step keeps the types, and that requests act on what they read. *)
LEMMA StepActs == LInv /\ [Next]_vars => LInv'
<1> SUFFICES ASSUME LInv, [Next]_vars PROVE LInv'
  OBVIOUS
<1>1. TypeOK /\ TypeOK' /\ Known \subseteq Known'
  BY TypeStep, KnownGrows DEF LInv
<1>2. ASSUME \A v \in Workers :
               \/ Whole(v)' /\ ActsOnItsLoad(v)'
               \/ tx'[v] = None
               \/ tx'[v] = tx[v]
               \/ ~Idle(v) /\ \E at \in {"write", "commit"} : tx'[v] = [tx[v] EXCEPT !.at = at]
      PROVE  LInv'
  BY <1>1, <1>2, KeepsItsLoad DEF LInv
<1>3. CASE UNCHANGED vars
  BY <1>2, <1>3 DEF vars
<1>4. ASSUME NEW w \in Workers, NEW a \in Addresses, NEW primary \in BOOLEAN,
             LoadAdd(w, a, primary)
      PROVE  LInv'
  <2>1. Whole(w)' /\ ActsOnItsLoad(w)'
    BY <1>1, <1>4, AddActs
  <2>2. \A v \in Workers \ {w} : tx'[v] = tx[v]
    BY <1>1, <1>4 DEF LoadAdd, Load, TypeOK
  <2> QED BY <1>2, <2>1, <2>2
<1>5. ASSUME NEW w \in Workers, NEW a \in Addresses,
             NEW primary \in Primaries \cup {None}, NEW active \in BOOLEAN \cup {None},
             LoadUpdate(w, a, primary, active)
      PROVE  LInv'
  <2>1. Whole(w)' /\ ActsOnItsLoad(w)'
    BY <1>1, <1>5, UpdateActs
  <2>2. \A v \in Workers \ {w} : tx'[v] = tx[v]
    BY <1>1, <1>5 DEF LoadUpdate, Load, TypeOK
  <2> QED BY <1>2, <2>1, <2>2
<1>6. ASSUME NEW w \in Workers, Clear(w) \/ Write(w) PROVE LInv'
  <2>1. ~Idle(w) /\ \E at \in {"write", "commit"} : tx' = [tx EXCEPT ![w].at = at]
    BY <1>6 DEF Clear, Write, At
  <2> QED BY <1>1, <1>2, <2>1 DEF TypeOK
<1>7. ASSUME NEW w \in Workers, Commit(w) \/ Abort(w) PROVE LInv'
  <2>1. tx' = [tx EXCEPT ![w] = None]
    BY <1>7 DEF Commit, Abort
  <2> QED BY <1>1, <1>2, <2>1 DEF TypeOK
<1> QED
  BY <1>3, <1>4, <1>5, <1>6, <1>7 DEF Next, Request

(* It holds at first, when there are no requests. *)
LEMMA InitActs == Init => LInv
BY InitType DEF Init, LInv, Whole, ActsOnItsLoad, Adding, Idle

(* The rows of the addresses and the requests keep their types, whatever    *)
(* clients send as is_primary.                                              *)
THEOREM TypeCorrect == Spec => []TypeOK
<1>1. LInv => TypeOK
  BY DEF LInv
<1> QED BY <1>1, InitActs, StepActs, PTL DEF Spec

(* The index refuses a request only if rows have changed since it read them *)
(* or if it adds an address while the primary one is inactive               *)
(* (`add_address` and `update_address` take the flag before they give it).  *)
THEOREM RefusalsHaveReasons == Spec => []RefusedForAReason
<1>1. ASSUME LInv, NEW w \in Workers, Refused(w), tx[w].loaded = rows
      PROVE  tx[w].address \notin Known /\ Rivals(w) \cap Active = {}
  <2>1. /\ ~Idle(w) /\ tx[w] \in Transaction /\ ActsOnItsLoad(w)
        /\ Rivals(w) # {}
    BY <1>1 DEF LInv, Refused, At, Idle, TypeOK
  <2>2. /\ Sends(w, TRUE)
        /\ Rivals(w) = Primary \ (tx[w].clears \cup {tx[w].address})
    BY <2>1 DEF Rivals
  <2>3. HadFlag(w) = Primary
    BY <1>1 DEF HadFlag, Primary, Known
  <2>4. rows[tx[w].address] = None
    BY <1>1, <2>1, <2>2, <2>3 DEF ActsOnItsLoad
  <2>5. Primary \cap Active \subseteq tx[w].clears
    BY <1>1, <2>1, <2>2, <2>3, <2>4 DEF ActsOnItsLoad, Active
  <2> QED BY <2>2, <2>4, <2>5 DEF Known
<1>2. LInv => RefusedForAReason
  BY <1>1 DEF RefusedForAReason
<1> QED BY <1>2, InitActs, StepActs, PTL DEF Spec

(* Only a commit changes rows, and one that has read the rows of now does   *)
(* not deactivate the primary address.                                      *)
LEMMA PrimaryIsGuarded ==
  ASSUME LInv, NEW w \in Workers, Commit(w), NEW a \in Addresses,
         a \in Primary \cap Active, a \in Primary' \ Active'
  PROVE  ~Idle(w) /\ Idle(w)' /\ tx[w].address = a /\ tx[w].loaded # rows
<1>1. ~Idle(w) /\ tx[w] \in Transaction /\ ActsOnItsLoad(w) /\ tx'[w] = None
  BY DEF Commit, At, Idle, LInv, TypeOK
<1>2. rows[a] \in Row /\ rows[a].primary = TRUE /\ rows[a].active = TRUE /\ rows[a] # None
  BY DEF Primary, Active, Known, LInv, TypeOK, Row
<1>3. a \in Known' /\ rows'[a].primary /\ ~rows'[a].active
  BY DEF Primary, Active
<1>4. a = tx[w].address
  <2>1. CASE a # tx[w].address /\ a \in tx[w].clears
    <3>1. rows'[a] = [rows[a] EXCEPT !.primary = FALSE]
      BY <2>1 DEF Commit
    <3> QED BY <1>2, <1>3, <3>1 DEF Row
  <2>2. CASE a # tx[w].address /\ a \notin tx[w].clears
    <3>1. rows'[a] = rows[a]
      BY <2>2 DEF Commit
    <3> QED BY <1>2, <1>3, <3>1
  <2> QED BY <2>1, <2>2
<1>5. rows'[a] = After(rows[a], tx[w].sends)
  BY <1>4 DEF Commit
<1>6. tx[w].sends.active = FALSE
  <2>1. tx[w].sends.active \in BOOLEAN \cup {None}
    BY <1>1 DEF Transaction
  <2> QED BY <1>2, <1>3, <1>5, <2>1 DEF After
<1>7. tx[w].loaded # rows
  BY <1>1, <1>2, <1>4, <1>6 DEF ActsOnItsLoad
<1> QED BY <1>1, <1>4, <1>7 DEF Idle

(* "Make another address primary before deactivating this one": only a      *)
(* request that had read other rows deactivates the primary address, for    *)
(* any number of addresses and of requests.                                 *)
THEOREM PrimaryIsKept == Spec => PrimaryStaysActive
<1>1. ASSUME LInv, [Next]_vars, NEW a \in Addresses,
             a \in Primary \cap Active, a \in Primary' \ Active'
      PROVE  \E w \in Workers : /\ ~Idle(w) /\ Idle(w)'
                                /\ tx[w].address = a
                                /\ tx[w].loaded # rows
  <2>1. rows' # rows
    BY <1>1 DEF Primary, Active, Known
  <2>2. PICK w \in Workers : Commit(w)
    BY <1>1, <2>1 DEF Next, Request, LoadAdd, LoadUpdate, Load, Clear, Write, Abort, vars
  <2> QED BY <1>1, <2>2, PrimaryIsGuarded
<1>2. LInv /\ [Next]_vars =>
        [\A a \in Addresses :
           /\ a \in Primary \cap Active
           /\ a \in Primary' \ Active'
           => \E w \in Workers : /\ ~Idle(w) /\ Idle(w)'
                                 /\ tx[w].address = a
                                 /\ tx[w].loaded # rows]_vars
  BY <1>1
<1> QED BY <1>2, InitActs, StepActs, PTL DEF Spec, PrimaryStaysActive

-----------------------------------------------------------------------------
(* The invariant holds of every behaviour.                                  *)
THEOREM Invariance == Spec => []IInv
BY InitInv, StepInv, PTL DEF Spec

(* A customer has at most one primary address, whatever requests overlap,   *)
(* and whatever clients send as is_primary.                                 *)
THEOREM PrimaryIsUnique == Spec => []OnePrimary
<1>1. IInv => OnePrimary
  BY DEF IInv
<1> QED BY <1>1, Invariance, PTL

(* A customer with addresses has a primary one unless a PATCH has taken the *)
(* flag from it: neither the first address, nor a change of the primary     *)
(* one, nor a deactivation, nor two requests at once leave none.            *)
THEOREM FlagIsKept == Spec => FlagIsNotLost
<1>1. ASSUME IInv, [Next]_vars, Known' # {}, Primary' = {}
      PROVE  \/ Known # {} /\ Primary = {}
             \/ \E w \in Workers : /\ Sends(w, FALSE) /\ Idle(w)'
                                   /\ tx[w].address \in Primary
  <2>1. CASE UNCHANGED rows
    BY <1>1, <2>1 DEF Known, Primary
  <2>2. ASSUME NEW w \in Workers, Commit(w), Primary # {}
        PROVE  Sends(w, FALSE) /\ Idle(w)' /\ tx[w].address \in Primary
    <3>1. ~Sends(w, TRUE) /\ Primary \ {b \in {tx[w].address} : Sends(w, FALSE)} = {}
      BY <1>1, <2>2, CommitStep DEF IInv
    <3>2. Idle(w)'
      BY <1>1, <2>2 DEF Commit, Idle, IInv, TypeOK
    <3> QED BY <2>2, <3>1, <3>2
  <2>3. ASSUME NEW w \in Workers, Commit(w), Primary = {} PROVE Known # {}
    BY <1>1, <2>3, CommitStep DEF IInv
  <2>4. UNCHANGED rows \/ \E w \in Workers : Commit(w)
    BY <1>1 DEF Next, Request, LoadAdd, LoadUpdate, Load, Clear, Write, Abort, vars
  <2> QED BY <2>1, <2>2, <2>3, <2>4
<1>2. IInv /\ [Next]_vars =>
        [Known' # {} /\ Primary' = {} =>
           \/ Known # {} /\ Primary = {}
           \/ \E w \in Workers : /\ Sends(w, FALSE) /\ Idle(w)'
                                 /\ tx[w].address \in Primary]_vars
  BY <1>1
<1> QED BY <1>2, Invariance, PTL DEF Spec, FlagIsNotLost
=============================================================================
