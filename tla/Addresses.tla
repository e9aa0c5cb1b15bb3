------------------------------ MODULE Addresses ------------------------------
(***************************************************************************)
(* The service addresses of one customer and which of them is the primary  *)
(* one: `create_customer`, `add_address` and `update_address` of           *)
(* routers/customers.py, each a transaction at READ COMMITTED.             *)
(*                                                                         *)
(* A request loads the customer's addresses, takes the flag from the       *)
(* primary one and flushes, then writes its own address and flushes.  The  *)
(* partial unique index `uq_service_addresses_one_primary` looks at every  *)
(* flush.  (What a change of timezone does to jobs is in JobTransactions.) *)
(***************************************************************************)
CONSTANTS
  Addresses,   \* the addresses the customer may ever have
  Workers,     \* the threads that serve requests
  Primaries,   \* the values of is_primary that clients send in a PATCH
  None

ASSUME PrimariesAssumption == Primaries \subseteq BOOLEAN

Row == [primary : BOOLEAN, active : BOOLEAN]

(* What a request carries from one statement to the next: its address, the  *)
(* rows it loaded, those whose flag it takes, the fields of its own address *)
(* that it sends (None: not sent), and which flush is next.                 *)
Transaction ==
  [address : Addresses,
   loaded : [Addresses -> Row \cup {None}],
   clears : SUBSET Addresses,
   sends : [primary : BOOLEAN \cup {None}, active : BOOLEAN \cup {None}],
   at : {"clear", "write", "commit"}]

ASSUME NoneAssumption ==
  None \notin BOOLEAN /\ None \notin Row /\ None \notin Transaction

VARIABLES
  rows,        \* rows[a]: the committed row of address a, or None
  tx           \* tx[w]: the open transaction of worker w, or None

vars == <<rows, tx>>

Known   == {a \in Addresses : rows[a] # None}
Primary == {a \in Known : rows[a].primary}
Active  == {a \in Known : rows[a].active}

(* create_customer, with an address or without: "the first address is the   *)
(* primary one whatever the caller says".                                   *)
Init ==
  /\ \E first \in {{}} \cup {{a} : a \in Addresses} :
       rows = [a \in Addresses |-> IF a \in first
                                   THEN [primary |-> TRUE, active |-> TRUE]
                                   ELSE None]
  /\ tx = [w \in Workers |-> None]

-----------------------------------------------------------------------------
Idle(w) == tx[w] = None

At(w, at) == ~Idle(w) /\ tx[w].at = at

Load(w, a, clears, sends) ==
  /\ Idle(w)
  /\ tx' = [tx EXCEPT ![w] = [address |-> a, loaded |-> rows, clears |-> clears,
                              sends |-> sends,
                              at |-> IF clears = {} THEN "write" ELSE "clear"]]
  /\ UNCHANGED rows

(* Wrong on purpose: the variants called ...Wrong are bugs that a property  *)
(* excludes; no specification uses them.                                    *)

(* The first address is primary only if the caller says so. *)
LoadAddWrong(w, a, primary) ==
  /\ a \notin Known
  /\ \A v \in Workers : ~Idle(v) => tx[v].address # a
  /\ Load(w, a, IF primary THEN Active \cap Primary ELSE {},
          [primary |-> primary, active |-> TRUE])

(* POST /customers/{id}/addresses: only active addresses are looked at.     *)
LoadAdd(w, a, primary) ==
  LET makePrimary == primary \/ Active = {} IN
  /\ a \notin Known
  /\ \A v \in Workers : ~Idle(v) => tx[v].address # a
  /\ Load(w, a, IF makePrimary THEN Active \cap Primary ELSE {},
          [primary |-> makePrimary, active |-> TRUE])

(* Of the fields that a PATCH sends, the ones that differ from the row are   *)
(* written.                                                                 *)
Differing(row, primary, active) ==
  [primary |-> IF primary = row.primary THEN None ELSE primary,
   active  |-> IF active = row.active THEN None ELSE active]

(* The former primary address keeps its flag. *)
LoadUpdateWrong(w, a, primary, active) ==
  /\ a \in Known
  /\ ~(active = FALSE /\ rows[a].primary)
  /\ Load(w, a, {}, Differing(rows[a], primary, active))

(* The primary address may be deactivated. *)
LoadUpdateUnguarded(w, a, primary, active) ==
  /\ a \in Known
  /\ Load(w, a, IF primary = TRUE THEN Primary \ {a} ELSE {},
          Differing(rows[a], primary, active))

(* PATCH /customers/{id}/addresses/{id}.  The flag that the guard looks at  *)
(* is the one from before the request; a refusal rolls back the flush of    *)
(* the others, so it is as good as made first.                              *)
LoadUpdate(w, a, primary, active) ==
  /\ a \in Known
  /\ ~(active = FALSE /\ rows[a].primary)
  /\ Load(w, a, IF primary = TRUE THEN Primary \ {a} ELSE {},
          Differing(rows[a], primary, active))

-----------------------------------------------------------------------------
(* The rows that a transaction has written and nobody else may, and whether *)
(* it has made its own address the primary one.                             *)
Nothing == [primary |-> None, active |-> None]

Held(w) ==
  IF Idle(w) \/ At(w, "clear") THEN {}
  ELSE tx[w].clears
         \cup {a \in {tx[w].address} : At(w, "commit") /\ tx[w].sends # Nothing}

Sends(w, value) ==
  ~Idle(w) /\ tx[w].sends.primary = value

(* UPDATE ... SET is_primary = false; db.flush() *)
Clear(w) ==
  /\ At(w, "clear")
  /\ \A v \in Workers \ {w} : Held(v) \cap tx[w].clears = {}
  /\ tx' = [tx EXCEPT ![w].at = "write"]
  /\ UNCHANGED rows

(* The committed rows that the index finds next to a new primary one, and   *)
(* whether it has to wait for somebody's uncommitted one.                   *)
Rivals(w) ==
  IF Sends(w, TRUE) THEN Primary \ (tx[w].clears \cup {tx[w].address}) ELSE {}

Waits(w) ==
  \E v \in Workers \ {w} :
    \/ Held(v) \cap (Rivals(w) \cup {tx[w].address}) # {}
    \/ Sends(w, TRUE) /\ At(v, "commit") /\ Sends(v, TRUE)

Refused(w) == At(w, "write") /\ ~Waits(w) /\ Rivals(w) # {}

(* The index is not unique. *)
WriteWrong(w) ==
  /\ At(w, "write")
  /\ \A v \in Workers \ {w} : tx[w].address \notin Held(v)
  /\ tx' = [tx EXCEPT ![w].at = "commit"]
  /\ UNCHANGED rows

(* INSERT, or UPDATE of the differing fields; db.flush() *)
Write(w) ==
  /\ At(w, "write")
  /\ ~Waits(w)
  /\ Rivals(w) = {}
  /\ tx' = [tx EXCEPT ![w].at = "commit"]
  /\ UNCHANGED rows

After(row, sends) ==
  [primary |-> IF sends.primary = None THEN row.primary ELSE sends.primary,
   active  |-> IF sends.active = None THEN row.active ELSE sends.active]

(* The active flag of a new row is left to somebody else. *)
CommitWrong(w) ==
  LET t == tx[w] IN
  /\ At(w, "commit")
  /\ rows' = [a \in Addresses |->
                IF a = t.address
                THEN IF rows[a] = None THEN [primary |-> t.sends.primary]
                     ELSE After(rows[a], t.sends)
                ELSE IF a \in t.clears THEN [rows[a] EXCEPT !.primary = FALSE]
                ELSE rows[a]]
  /\ tx' = [tx EXCEPT ![w] = None]

Commit(w) ==
  LET t == tx[w] IN
  /\ At(w, "commit")
  /\ rows' = [a \in Addresses |->
                IF a = t.address THEN After(rows[a], t.sends)
                ELSE IF a \in t.clears THEN [rows[a] EXCEPT !.primary = FALSE]
                ELSE rows[a]]
  /\ tx' = [tx EXCEPT ![w] = None]

(* The guard refuses (400), the index does (500), or the request dies.      *)
Abort(w) ==
  /\ ~Idle(w)
  /\ tx' = [tx EXCEPT ![w] = None]
  /\ UNCHANGED rows

Request(w) ==
  \/ \E a \in Addresses, primary \in BOOLEAN : LoadAdd(w, a, primary)
  \/ \E a \in Addresses, primary \in Primaries \cup {None},
        active \in BOOLEAN \cup {None} : LoadUpdate(w, a, primary, active)

Next == \E w \in Workers :
  Request(w) \/ Clear(w) \/ Write(w) \/ Commit(w) \/ Abort(w)

Spec == Init /\ [][Next]_vars

-----------------------------------------------------------------------------
TypeOK ==
  /\ rows \in [Addresses -> Row \cup {None}]
  /\ tx \in [Workers -> Transaction \cup {None}]

(* A customer has at most one primary address, whatever overlaps.            *)
OnePrimary == \A a, b \in Primary : a = b

(* "A customer with addresses but no primary is a broken state": no customer *)
(* gets into it but by a PATCH that takes the flag from the very address     *)
(* that has it and gives it to none, however it overlaps with others.        *)
FlagIsNotLost ==
  [][Known' # {} /\ Primary' = {} =>
       \/ Known # {} /\ Primary = {}
       \/ \E w \in Workers : /\ Sends(w, FALSE) /\ Idle(w)'
                             /\ tx[w].address \in Primary]_vars

(* A request that meets nobody else's is not refused by the index: it takes *)
(* the flag away before it gives it.  The exception is an address added     *)
(* while the primary one is inactive, which is not looked for.              *)
RefusedForAReason ==
  \A w \in Workers : Refused(w) =>
    \/ tx[w].loaded # rows
    \/ tx[w].address \notin Known /\ Rivals(w) \cap Active = {}

(* "Make another address primary before deactivating this one": the primary *)
(* address is deactivated only by a request whose guard had read other      *)
(* rows, those from before it became the primary one.                       *)
PrimaryStaysActive ==
  [][\A a \in Addresses :
       /\ a \in Primary \cap Active
       /\ a \in Primary' \ Active'
       => \E w \in Workers : /\ ~Idle(w) /\ Idle(w)'
                             /\ tx[w].address = a
                             /\ tx[w].loaded # rows]_vars
=============================================================================
