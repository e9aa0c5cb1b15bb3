--------------------------- MODULE TenancyProofs ---------------------------
(***************************************************************************)
(* Companies are kept apart, for any people, companies and connections.    *)
(***************************************************************************)
EXTENDS Tenancy, TLAPS

Membership == [Rows -> {"none", "active", "inactive"}]

(* The request names what its kind needs. *)
Named(s) ==
  /\ s.kind \in TenantKinds \cup {"signup", "accept"} => s.tenant \in Tenants
  /\ s.kind \in {"update", "assign", "invite", "revoke", "accept"} => s.target \in Rows
  /\ s.kind = "accept" => s.target = <<s.tenant, s.user>>
  /\ s.kind = "signup" => s.name \in Slugs

(* What is bound is the request's own. *)
Binds(s, g) ==
  /\ g.tenant \in {None, s.tenant}
  /\ g.user \in {None, s.user}
  /\ g.invite \in {None, s.target}
  /\ s.kind # "accept" => g.invite = None

(* What is seen is its own, and stays a row. *)
Sees(s, mem) ==
  /\ \A m \in s.seen.rows : (m[1] = s.tenant \/ m[2] = s.user) /\ mem[m] # "none"
  /\ \A t \in s.seen.tenants : mem[<<t, s.user>>] # "none"
  /\ \A i \in s.seen.invites : i[1] = s.tenant

(* Who is an active member now has been one since the request began, and so *)
(* has whoever got past the check.                                          *)
Witnesses(s, mem) ==
  /\ s.tenant \in Tenants /\ mem[<<s.tenant, s.user>>] = "active" => s.ever
  /\ s.kind \in TenantKinds /\ s.at \in {"act", "commit"} => s.ever

Careful(s, g, mem) ==
  Named(s) /\ Binds(s, g) /\ Sees(s, mem) /\ Witnesses(s, mem)

AllCareful ==
  \A c \in Connections :
    /\ session[c] = None => guc[c] = Unbound
    /\ session[c] # None => Careful(session[c], guc[c], members)

(* A signup that has passed the index. *)
Holds(s) == s # None /\ s.kind = "signup" /\ s.at = "commit"

Opens(s) == s # None /\ s.new

Apart ==
  /\ \A c, d \in Connections :
       Opens(session[c]) /\ Opens(session[d]) /\ c # d =>
         session[c].user # session[d].user
  /\ \A c, d \in Connections :
       Holds(session[c]) /\ Holds(session[d]) /\ c # d =>
         session[c].name # session[d].name
  /\ \A c \in Connections, t \in Tenants :
       Holds(session[c]) => slug[t] # session[c].name
  /\ \A t, u \in Tenants : slug[t] # None /\ slug[t] = slug[u] => t = u

IInv == TypeOK /\ AllCareful /\ Apart

-----------------------------------------------------------------------------
(* A connection in use has a request. *)
LEMMA BusyType ==
  ASSUME TypeOK, NEW c \in Connections, session[c] # None
  PROVE  session[c] \in Request
BY DEF TypeOK

(* bind_context leaves a binding a binding. *)
LEMMA BoundType ==
  ASSUME NEW g \in Binding, NEW user \in People \cup {None}, NEW tenant \in Tenants \cup {None}
  PROVE  Bound(g, user, tenant) \in Binding
BY DEF Bound, Binding

(* What the policies let through are rows. *)
LEMMA SeenType ==
  ASSUME TypeOK, NEW g
  PROVE  /\ MembershipsSeen(g) \in SUBSET Rows
         /\ TenantsSeen(g) \in SUBSET Tenants
         /\ InvitationsSeen(g) \in SUBSET Rows
BY DEF MembershipsSeen, TenantsSeen, InvitationsSeen, TypeOK

(* What a new request asks for. *)
LEMMA AsksType ==
  ASSUME TypeOK, NEW kind \in TenantKinds \cup {"signup", "login", "identity", "accept"},
         NEW at \in {"register", "own", "check", "commit"},
         NEW user \in People, NEW tenant \in Tenants \cup {None},
         NEW target \in Rows \cup {None}
  PROVE  Asks(kind, at, user, tenant, target) \in Request
<1>1. Nothing \in [rows : SUBSET Rows, tenants : SUBSET Tenants, invites : SUBSET Rows]
  BY DEF Nothing
<1>2. (tenant # None /\ members[<<tenant, user>>] = "active") \in BOOLEAN
  OBVIOUS
<1> QED BY <1>1, <1>2 DEF Asks, Request

(* A decision of which the request cannot learn that it was made keeps it   *)
(* careful: rows stay rows, and its user is no more active than before, or  *)
(* it takes note.                                                           *)
LEMMA StaysCareful ==
  ASSUME NEW s \in Request, NEW g, NEW mem \in Membership, NEW m \in Rows,
         NEW standing \in {"active", "inactive"}, Careful(s, g, mem)
  PROVE  Careful([s EXCEPT !.ever = @ \/ (standing = "active" /\ m = <<s.tenant, s.user>>)],
                 g, [mem EXCEPT ![m] = standing])
<1> DEFINE noted == s.ever \/ (standing = "active" /\ m = <<s.tenant, s.user>>)
           s2 == [s EXCEPT !.ever = noted]
           mem2 == [mem EXCEPT ![m] = standing]
<1>1. /\ s2.kind = s.kind /\ s2.at = s.at /\ s2.user = s.user /\ s2.tenant = s.tenant
      /\ s2.target = s.target /\ s2.name = s.name /\ s2.seen = s.seen
      /\ s2.ever = noted
  BY DEF Request
<1>2. \A n \in Rows : mem[n] # "none" => mem2[n] # "none"
  BY DEF Membership
<1>3. s.user \in People /\ s.seen.rows \subseteq Rows /\ s.seen.tenants \subseteq Tenants
  BY DEF Request
<1>4. Named(s2) /\ Binds(s2, g)
  BY <1>1 DEF Careful, Named, Binds
<1>5. Sees(s2, mem2)
  <2>1. \A n \in s2.seen.rows : (n[1] = s2.tenant \/ n[2] = s2.user) /\ mem2[n] # "none"
    BY <1>1, <1>2, <1>3 DEF Careful, Sees
  <2>2. \A t \in s2.seen.tenants : mem2[<<t, s2.user>>] # "none"
    <3>1. \A t \in Tenants : <<t, s.user>> \in Rows
      BY <1>3 DEF Rows
    <3> QED BY <1>1, <1>2, <1>3, <3>1 DEF Careful, Sees
  <2> QED BY <1>1, <2>1, <2>2 DEF Careful, Sees
<1>6. Witnesses(s2, mem2)
  <2>1. ASSUME s.tenant \in Tenants, mem2[<<s.tenant, s.user>>] = "active"
        PROVE  noted
    <3>1. <<s.tenant, s.user>> \in Rows
      BY <2>1, <1>3 DEF Rows
    <3>2. CASE m = <<s.tenant, s.user>>
      BY <2>1, <3>1, <3>2 DEF Membership
    <3>3. CASE m # <<s.tenant, s.user>>
      BY <2>1, <3>1, <3>3 DEF Membership, Careful, Witnesses
    <3> QED BY <3>2, <3>3
  <2>2. s.kind \in TenantKinds /\ s.at \in {"act", "commit"} => noted
    BY DEF Careful, Witnesses
  <2> QED BY <1>1, <2>1, <2>2 DEF Witnesses
<1> QED BY <1>4, <1>5, <1>6 DEF Careful

-----------------------------------------------------------------------------
(* Three ways to step: a connection gets another request or the same one    *)
(* further on, it ends, it decides.                                         *)
LEMMA ReplaceKeeps ==
  ASSUME IInv, NEW c \in Connections, NEW q \in Request, NEW b \in Binding,
         session' = [session EXCEPT ![c] = q], guc' = [guc EXCEPT ![c] = b],
         UNCHANGED <<accounts, slug, members, invites>>,
         Careful(q, b, members),
         q.new => \A d \in Connections \ {c} :
                    Opens(session[d]) => session[d].user # q.user,
         Holds(q) => /\ \A d \in Connections \ {c} :
                          Holds(session[d]) => session[d].name # q.name
                     /\ \A t \in Tenants : slug[t] # q.name
  PROVE  IInv'
<1> USE DEF IInv
<1>1. TypeOK'
  BY DEF TypeOK
<1>2. session'[c] = q /\ guc'[c] = b /\ q # None
  BY RequestAssumption DEF TypeOK
<1>3. \A d \in Connections \ {c} : session'[d] = session[d] /\ guc'[d] = guc[d]
  BY DEF TypeOK
<1>4. AllCareful'
  BY <1>2, <1>3 DEF AllCareful
<1>5. Apart'
  <2>1. \A d, e \in Connections :
          Opens(session'[d]) /\ Opens(session'[e]) /\ d # e =>
            session'[d].user # session'[e].user
    BY <1>2, <1>3 DEF Apart, Opens
  <2>2. \A d, e \in Connections :
          Holds(session'[d]) /\ Holds(session'[e]) /\ d # e =>
            session'[d].name # session'[e].name
    BY <1>2, <1>3 DEF Apart
  <2>3. \A d \in Connections, t \in Tenants :
          Holds(session'[d]) => slug[t] # session'[d].name
    BY <1>2, <1>3 DEF Apart
  <2> QED BY <2>1, <2>2, <2>3 DEF Apart, Opens, Holds
<1> QED BY <1>1, <1>4, <1>5

(* A rollback, or a commit that changes no membership, leaves no settings. *)
LEMMA EndKeeps ==
  ASSUME IInv, NEW c \in Connections, End(c),
         UNCHANGED <<accounts, slug, members>>, invites' \in SUBSET Rows
  PROVE  IInv'
<1> USE DEF IInv, End
<1>1. TypeOK'
  BY DEF TypeOK, Unbound, Binding
<1>2. session'[c] = None /\ guc'[c] = Unbound
  BY DEF TypeOK
<1>3. \A d \in Connections \ {c} : session'[d] = session[d] /\ guc'[d] = guc[d]
  BY DEF TypeOK
<1>4. AllCareful'
  BY <1>2, <1>3 DEF AllCareful
<1>5. Apart'
  BY <1>2, <1>3 DEF Apart, Opens, Holds
<1> QED BY <1>1, <1>4, <1>5

(* A commit that changes a membership, perhaps of a new company. *)
LEMMA DecideKeeps ==
  ASSUME IInv, NEW c \in Connections, NEW m \in Rows,
         NEW standing \in {"active", "inactive"}, Decide(c, m, standing),
         accounts' \in SUBSET People, invites' \in SUBSET Rows,
         \/ slug' = slug
         \/ /\ Holds(session[c])
            /\ slug' = [slug EXCEPT ![session[c].tenant] = session[c].name]
  PROVE  IInv'
<1> USE DEF IInv, Decide
<1> DEFINE Told(d) ==
      [session[d] EXCEPT
         !.ever = @ \/ (standing = "active" /\ m = <<session[d].tenant, session[d].user>>)]
<1>1. session'[c] = None /\ guc'[c] = Unbound
  BY DEF TypeOK
<1>2. ASSUME NEW d \in Connections \ {c}
      PROVE  /\ guc'[d] = guc[d]
             /\ session[d] = None => session'[d] = None
             /\ session[d] # None => session'[d] = Told(d) /\ Told(d) \in Request
  <2>1. guc'[d] = guc[d]
    BY DEF TypeOK
  <2>2. CASE session[d] = None
    BY <2>1, <2>2
  <2>3. CASE session[d] # None
    <3>1. session[d] \in Request
      BY <2>3, BusyType
    <3>2. Told(d) \in Request
      BY <3>1 DEF Request
    <3> QED BY <2>1, <2>3, <3>2
  <2> QED BY <2>2, <2>3
<1>3. ASSUME NEW d \in Connections \ {c}, session[d] # None
      PROVE  /\ session'[d] # None
             /\ session'[d].kind = session[d].kind /\ session'[d].at = session[d].at
             /\ session'[d].user = session[d].user /\ session'[d].name = session[d].name
             /\ session'[d].new = session[d].new
  <2>1. session[d] \in Request
    BY <1>3, BusyType
  <2>2. session'[d] = Told(d) /\ Told(d) \in Request
    BY <1>2, <1>3
  <2>3. /\ Told(d).kind = session[d].kind /\ Told(d).at = session[d].at
        /\ Told(d).user = session[d].user /\ Told(d).name = session[d].name
        /\ Told(d).new = session[d].new
    BY <2>1 DEF Request
  <2> HIDE DEF Told
  <2> QED BY <2>2, <2>3, RequestAssumption
<1>4. TypeOK'
  <2>1. members' \in Membership
    BY DEF TypeOK, Membership
  <2>2. slug' \in [Tenants -> Slugs \cup {None}]
    <3>1. CASE Holds(session[c])
      <4>1. session[c] \in Request
        BY <3>1, BusyType DEF Holds
      <4> QED BY <3>1, <4>1 DEF TypeOK, Request, Holds
    <3> QED BY <3>1 DEF TypeOK
  <2>3. session' \in [Connections -> Request \cup {None}]
    <3>1. \A d \in Connections : session'[d] \in Request \cup {None}
      BY <1>1, <1>2
    <3> QED BY <3>1
  <2>4. guc' \in [Connections -> Binding]
    BY DEF TypeOK, Unbound, Binding
  <2> QED BY <2>1, <2>2, <2>3, <2>4 DEF TypeOK, Membership
<1>5. AllCareful'
  <2>1. ASSUME NEW d \in Connections \ {c}, session[d] # None
        PROVE  Careful(session'[d], guc'[d], members')
    <3>1. session[d] \in Request /\ Careful(session[d], guc[d], members)
      BY <2>1, BusyType DEF AllCareful
    <3>2. members \in Membership
      BY DEF TypeOK, Membership
    <3>3. Careful(Told(d), guc[d], [members EXCEPT ![m] = standing])
      BY <3>1, <3>2, StaysCareful
    <3> QED BY <1>2, <2>1, <3>3
  <2>2. ASSUME NEW d \in Connections, session'[d] = None
        PROVE  guc'[d] = Unbound
    BY <1>1, <1>2, <1>3, <2>2 DEF AllCareful
  <2>3. ASSUME NEW d \in Connections, session'[d] # None
        PROVE  d \in Connections \ {c} /\ session[d] # None
    BY <1>1, <1>2, <2>3
  <2> HIDE DEF IInv, Decide
  <2> QED BY <2>1, <2>2, <2>3 DEF AllCareful
<1>6. Apart'
  <2>1. \A d, e \in Connections :
          Opens(session'[d]) /\ Opens(session'[e]) /\ d # e =>
            session'[d].user # session'[e].user
    BY <1>1, <1>2, <1>3 DEF Apart, Opens
  <2>2. \A d, e \in Connections :
          Holds(session'[d]) /\ Holds(session'[e]) /\ d # e =>
            session'[d].name # session'[e].name
    BY <1>1, <1>2, <1>3 DEF Apart, Holds
  <2>3. \A d \in Connections : Holds(session'[d]) =>
          d # c /\ Holds(session[d]) /\ session'[d].name = session[d].name
    BY <1>1, <1>2, <1>3 DEF Holds
  <2>4. CASE slug' = slug
    BY <2>1, <2>2, <2>3, <2>4 DEF Apart, Opens, Holds
  <2>5. CASE /\ Holds(session[c])
             /\ slug' = [slug EXCEPT ![session[c].tenant] = session[c].name]
    <3>1. \A t \in Tenants : slug'[t] = slug[t] \/ slug'[t] = session[c].name
      BY <2>5 DEF TypeOK
    <3>2. \A t \in Tenants : t # session[c].tenant => slug'[t] = slug[t]
      BY <2>5 DEF TypeOK
    <3>3. \A t \in Tenants : slug[t] # session[c].name
      BY <2>5 DEF Apart
    <3>4. \A d \in Connections, t \in Tenants :
            Holds(session'[d]) => slug'[t] # session'[d].name
      <4> SUFFICES ASSUME NEW d \in Connections, NEW t \in Tenants, Holds(session'[d])
                   PROVE  slug'[t] # session'[d].name
        OBVIOUS
      <4>1. d # c /\ Holds(session[d]) /\ session'[d].name = session[d].name
        BY <2>3
      <4>2. session[c].name # session[d].name /\ slug[t] # session[d].name
        BY <4>1, <2>5 DEF Apart
      <4> QED BY <3>1, <4>1, <4>2
    <3>5. \A t, u \in Tenants : slug'[t] # None /\ slug'[t] = slug'[u] => t = u
      BY <3>1, <3>2, <3>3 DEF Apart
    <3> QED BY <2>1, <2>2, <3>4, <3>5 DEF Apart, Opens, Holds
  <2> QED BY <2>4, <2>5
<1> QED BY <1>4, <1>5, <1>6

-----------------------------------------------------------------------------
(* The requests that arrive. *)
LEMMA FreeIsUnbound ==
  ASSUME IInv, NEW c \in Connections, session[c] = None
  PROVE  guc[c] = Unbound
BY DEF IInv, AllCareful

(* A signup starts with no settings and nothing seen. *)
LEMMA SignupKeeps ==
  ASSUME IInv, NEW c \in Connections, NEW p \in People, NEW t \in Tenants,
         NEW n \in Slugs, BeginSignup(c, p, t, n)
  PROVE  IInv'
<1> DEFINE a == Asks("signup", "register", p, t, None)
           q == [a EXCEPT !.name = n]
<1>1. a \in Request
  BY AsksType DEF IInv
<1>2. /\ q.kind = "signup" /\ q.at = "register" /\ q.user = p /\ q.tenant = t
      /\ q.name = n /\ q.new = FALSE /\ q.seen = Nothing
      /\ t # None /\ members[<<t, p>>] = "active" => q.ever
  BY DEF Asks
<1>3. q \in Request
  BY <1>1 DEF Request
<1>4. Careful(q, Unbound, members)
  <2>1. Named(q) /\ Binds(q, Unbound)
    BY <1>2 DEF Named, Binds, Unbound, TenantKinds
  <2>2. Sees(q, members)
    BY <1>2 DEF Sees, Nothing
  <2>3. Witnesses(q, members)
    BY <1>2, NoneAssumption DEF Witnesses, TenantKinds
  <2> QED BY <2>1, <2>2, <2>3 DEF Careful
<1>5. guc[c] = Unbound /\ Unbound \in Binding
  BY FreeIsUnbound DEF BeginSignup, Begin, Unbound, Binding
<1>6. ~q.new /\ ~Holds(q)
  BY <1>2 DEF Holds
<1> HIDE DEF q
<1>7. /\ session' = [session EXCEPT ![c] = q] /\ guc' = [guc EXCEPT ![c] = Unbound]
      /\ UNCHANGED <<accounts, slug, members, invites>>
  BY <1>5 DEF BeginSignup, Begin, q
<1> QED BY <1>3, <1>4, <1>5, <1>6, <1>7, ReplaceKeeps

(* An acceptance binds its invitation, that one's company, and its user. *)
LEMMA AcceptKeeps ==
  ASSUME IInv, NEW c \in Connections, NEW i \in invites, BeginAccept(c, i)
  PROVE  IInv'
<1> DEFINE known == i[2] \in accounts
           at == IF known THEN "commit" ELSE "register"
           user == IF known THEN i[2] ELSE None
           a == Asks("accept", at, i[2], i[1], i)
           q == [a EXCEPT !.seen.invites = {i}]
           g == [guc[c] EXCEPT !.invite = i]
           b == Bound(g, user, i[1])
<1>1. i \in Rows /\ i[1] \in Tenants /\ i[2] \in People /\ i = <<i[1], i[2]>>
  BY DEF IInv, TypeOK, Rows
<1>2. a \in Request
  BY <1>1, AsksType DEF IInv
<1>3. /\ q.kind = "accept" /\ q.at = at /\ q.user = i[2] /\ q.tenant = i[1]
      /\ q.target = i /\ q.new = FALSE
      /\ q.seen = [Nothing EXCEPT !.invites = {i}]
      /\ i[1] # None /\ members[<<i[1], i[2]>>] = "active" => q.ever
  BY DEF Asks
<1>4. q \in Request
  <2>1. [Nothing EXCEPT !.invites = {i}] \in
          [rows : SUBSET Rows, tenants : SUBSET Tenants, invites : SUBSET Rows]
    BY <1>1 DEF Nothing
  <2>2. q = [a EXCEPT !.seen = [Nothing EXCEPT !.invites = {i}]]
    BY DEF Asks
  <2> QED BY <1>2, <2>1, <2>2 DEF Request
<1>5. guc[c] = Unbound
  BY FreeIsUnbound DEF BeginAccept, Begin
<1>6. g \in Binding /\ b \in Binding
  <2>1. g \in Binding
    BY <1>1, <1>5 DEF Unbound, Binding
  <2> QED BY <1>1, <2>1, BoundType
<1>7. b.tenant = i[1] /\ b.user \in {None, i[2]} /\ b.invite = i
  BY <1>1, <1>5, NoneAssumption DEF Bound, Unbound
<1>8. Careful(q, b, members)
  <2>1. Named(q) /\ Binds(q, b)
    BY <1>1, <1>3, <1>7 DEF Named, Binds, TenantKinds
  <2>2. Sees(q, members)
    BY <1>3 DEF Sees, Nothing
  <2>3. Witnesses(q, members)
    BY <1>1, <1>3, NoneAssumption DEF Witnesses, TenantKinds
  <2> QED BY <2>1, <2>2, <2>3 DEF Careful
<1>9. ~q.new /\ ~Holds(q)
  BY <1>3 DEF Holds
<1>10. /\ session' = [session EXCEPT ![c] = q] /\ guc' = [guc EXCEPT ![c] = b]
       /\ UNCHANGED <<accounts, slug, members, invites>>
  BY DEF BeginAccept, Begin
<1> HIDE DEF q, b
<1> QED BY <1>4, <1>6, <1>8, <1>9, <1>10, ReplaceKeeps

(* A request that is known by a user, and perhaps a company. *)
LEMMA TokenKeeps ==
  ASSUME IInv, NEW c \in Connections, NEW kind \in TenantKinds \cup {"login", "identity"},
         NEW at \in {"own", "check"}, NEW p \in People, NEW t \in Tenants \cup {None},
         NEW target \in Rows \cup {None},
         kind \in TenantKinds => t \in Tenants,
         kind \in {"update", "assign", "invite", "revoke"} => target \in Rows,
         Begin(c, Asks(kind, at, p, t, target), Bound(guc[c], p, t))
  PROVE  IInv'
<1> DEFINE q == Asks(kind, at, p, t, target)
           b == Bound(guc[c], p, t)
<1>1. q \in Request
  BY AsksType DEF IInv
<1>2. /\ q.kind = kind /\ q.at = at /\ q.user = p /\ q.tenant = t
      /\ q.target = target /\ q.new = FALSE /\ q.seen = Nothing
      /\ t # None /\ members[<<t, p>>] = "active" => q.ever
  BY DEF Asks
<1>3. guc[c] = Unbound /\ Unbound \in Binding
  BY FreeIsUnbound DEF Begin, Unbound, Binding
<1>4. b \in Binding
  BY <1>3, BoundType
<1>5. b.tenant = t /\ b.user = p /\ b.invite = None
  BY <1>3 DEF Bound, Unbound
<1>6. Careful(q, b, members)
  <2>1. Named(q)
    BY <1>2 DEF Named, TenantKinds
  <2>2. Binds(q, b)
    BY <1>2, <1>5 DEF Binds
  <2>3. Sees(q, members)
    BY <1>2 DEF Sees, Nothing
  <2>4. Witnesses(q, members)
    BY <1>2, NoneAssumption DEF Witnesses
  <2> QED BY <2>1, <2>2, <2>3, <2>4 DEF Careful
<1>7. ~q.new /\ ~Holds(q)
  BY <1>2 DEF Holds
<1>8. /\ session' = [session EXCEPT ![c] = q] /\ guc' = [guc EXCEPT ![c] = b]
      /\ UNCHANGED <<accounts, slug, members, invites>>
  BY DEF Begin
<1> HIDE DEF q, b
<1> QED BY <1>1, <1>4, <1>6, <1>7, <1>8, ReplaceKeeps

(* All the requests that may arrive. *)
LEMMA ArriveKeeps ==
  ASSUME IInv, NEW c \in Connections, Arrive(c)
  PROVE  IInv'
<1>1. \A m \in Rows : m[1] \in Tenants /\ m[2] \in People
  BY DEF Rows
<1>2. Tokens \subseteq Rows /\ invites \subseteq Rows
  BY DEF Tokens, IInv, TypeOK
<1>3. ASSUME NEW p \in People, NEW t \in Tenants, NEW n \in Slugs, BeginSignup(c, p, t, n)
      PROVE  IInv'
  BY <1>3, SignupKeeps
<1>4. ASSUME NEW i \in invites, BeginAccept(c, i)
      PROVE  IInv'
  BY <1>4, AcceptKeeps
<1>5. ASSUME NEW p \in People, BeginLogin(c, p)
      PROVE  IInv'
  BY <1>5, TokenKeeps DEF BeginLogin, TenantKinds
<1>6. ASSUME NEW p \in People, NEW t \in Tenants \cup {None}, BeginIdentity(c, p, t)
      PROVE  IInv'
  BY <1>6, TokenKeeps DEF BeginIdentity, TenantKinds
<1>7. ASSUME NEW m \in Rows, BeginTenant(c, "list", m, None)
      PROVE  IInv'
  BY <1>1, <1>7, TokenKeeps DEF BeginTenant, TenantKinds
<1>8. ASSUME NEW kind \in {"update", "assign", "revoke", "invite"},
             NEW m \in Rows, NEW target \in Rows, BeginTenant(c, kind, m, target)
      PROVE  IInv'
  BY <1>1, <1>8, TokenKeeps DEF BeginTenant, TenantKinds
<1>9. \A m \in Rows, p \in People : <<m[1], p>> \in Rows
  BY <1>1 DEF Rows
<1> QED BY <1>2, <1>3, <1>4, <1>5, <1>6, <1>7, <1>8, <1>9 DEF Arrive

-----------------------------------------------------------------------------
(* What an open request may rely on. *)
LEMMA BusyCareful ==
  ASSUME IInv, NEW c \in Connections, session[c] # None
  PROVE  /\ session[c] \in Request /\ guc[c] \in Binding
         /\ Careful(session[c], guc[c], members)
BY BusyType DEF IInv, AllCareful, TypeOK

(* What it sees is its company's or its user's, since NULL equals nothing.  *)
LEMMA SeenIsOwn ==
  ASSUME NEW s, NEW g, Binds(s, g), NEW m \in MembershipsSeen(g)
  PROVE  m \in Rows /\ members[m] # "none" /\ (m[1] = s.tenant \/ m[2] = s.user)
<1>1. m \in Rows /\ m[1] # None /\ m[2] # None
  BY NoneAssumption DEF MembershipsSeen, Rows
<1> QED BY <1>1 DEF MembershipsSeen, Binds

(* The flush of a new account, past the index on emails. *)
LEMMA RegisterKeeps ==
  ASSUME IInv, NEW c \in Connections, Register(c)
  PROVE  IInv'
<1> DEFINE s == session[c]
           at == IF s.kind = "signup" THEN "found" ELSE "commit"
           q == [s EXCEPT !.at = at, !.new = TRUE]
           b == Bound(guc[c], s.user, s.tenant)
<1>1. s # None /\ s.kind \in {"signup", "accept"}
  BY DEF Register, At
<1>2. s \in Request /\ guc[c] \in Binding /\ Careful(s, guc[c], members)
  BY <1>1, BusyCareful
<1>3. /\ q.kind = s.kind /\ q.at = at /\ q.user = s.user /\ q.tenant = s.tenant
      /\ q.target = s.target /\ q.name = s.name /\ q.ever = s.ever /\ q.seen = s.seen
  BY <1>2 DEF Request
<1>4. q \in Request
  BY <1>2 DEF Request
<1>5. s.user \in People /\ s.tenant \in Tenants
  BY <1>1, <1>2 DEF Request, Careful, Named
<1>6. b \in Binding /\ b.tenant = s.tenant /\ b.user = s.user /\ b.invite = guc[c].invite
  <2>1. b \in Binding
    BY <1>2, <1>5, BoundType
  <2>2. s.user # None /\ s.tenant # None
    BY <1>5, NoneAssumption
  <2> QED BY <1>2, <2>1, <2>2 DEF Bound, Binding
<1>7. Careful(q, b, members)
  <2>1. Named(q) /\ Binds(q, b)
    BY <1>2, <1>3, <1>6 DEF Careful, Named, Binds
  <2>2. Sees(q, members) /\ Witnesses(q, members)
    BY <1>1, <1>2, <1>3 DEF Careful, Sees, Witnesses, TenantKinds
  <2> QED BY <2>1, <2>2 DEF Careful
<1>8. \A d \in Connections \ {c} : Opens(session[d]) => session[d].user # q.user
  BY <1>3 DEF Register, Opens
<1>9. ~Holds(q)
  BY <1>3 DEF Holds
<1>10. /\ session' = [session EXCEPT ![c] = q] /\ guc' = [guc EXCEPT ![c] = b]
       /\ UNCHANGED <<accounts, slug, members, invites>>
  BY DEF Register
<1> HIDE DEF q, b
<1> QED BY <1>4, <1>6, <1>7, <1>8, <1>9, <1>10, ReplaceKeeps

(* The flush of a new company, past the index on slugs. *)
LEMMA FoundKeeps ==
  ASSUME IInv, NEW c \in Connections, Found(c)
  PROVE  IInv'
<1> DEFINE s == session[c]
<1>1. s # None /\ s.kind = "signup"
  BY DEF Found, At
<1>2. s \in Request /\ guc[c] \in Binding /\ Careful(s, guc[c], members)
  BY <1>1, BusyCareful
<1>3. s.name \in Slugs
  BY <1>1, <1>2 DEF Careful, Named
<1>4. PICK n \in Slugs :
        /\ \A t \in Tenants : slug[t] # n
        /\ \A d \in Connections \ {c} : At(d, {"signup"}, "commit") => session[d].name # n
        /\ session' = [session EXCEPT ![c].at = "commit", ![c].name = n]
  BY <1>3 DEF Found
<1> DEFINE q == [s EXCEPT !.at = "commit", !.name = n]
<1>5. /\ q.kind = s.kind /\ q.at = "commit" /\ q.user = s.user /\ q.tenant = s.tenant
      /\ q.target = s.target /\ q.name = n /\ q.new = s.new
      /\ q.ever = s.ever /\ q.seen = s.seen
  BY <1>2 DEF Request
<1>6. q \in Request
  BY <1>2 DEF Request
<1>7. Careful(q, guc[c], members)
  <2>1. Named(q) /\ Binds(q, guc[c])
    BY <1>2, <1>5 DEF Careful, Named, Binds
  <2>2. Sees(q, members) /\ Witnesses(q, members)
    BY <1>1, <1>2, <1>5 DEF Careful, Sees, Witnesses, TenantKinds
  <2> QED BY <2>1, <2>2 DEF Careful
<1>8. q.new => \A d \in Connections \ {c} : Opens(session[d]) => session[d].user # q.user
  BY <1>1, <1>5 DEF IInv, Apart, Opens
<1>9. /\ \A d \in Connections \ {c} : Holds(session[d]) => session[d].name # q.name
      /\ \A t \in Tenants : slug[t] # q.name
  BY <1>4, <1>5 DEF At, Holds
<1>10. guc' = [guc EXCEPT ![c] = guc[c]]
  BY DEF Found, IInv, TypeOK
<1>11. /\ session' = [session EXCEPT ![c] = q]
       /\ UNCHANGED <<accounts, slug, members, invites>>
  BY <1>4 DEF Found
<1> HIDE DEF q
<1> QED BY <1>2, <1>6, <1>7, <1>8, <1>9, <1>10, <1>11, ReplaceKeeps

Answers == [rows : SUBSET Rows, tenants : SUBSET Tenants, invites : SUBSET Rows]

(* A statement that reads. *)
LEMMA GoesKeeps ==
  ASSUME IInv, NEW c \in Connections, session[c] # None, session[c].kind # "signup",
         NEW at \in {"names", "act", "commit"}, NEW seen \in Answers,
         Goes(c, at, seen), UNCHANGED <<accounts, slug, members, invites, guc>>,
         \A m \in seen.rows :
           (m[1] = session[c].tenant \/ m[2] = session[c].user) /\ members[m] # "none",
         \A t \in seen.tenants : members[<<t, session[c].user>>] # "none",
         \A i \in seen.invites : i[1] = session[c].tenant,
         session[c].kind \in TenantKinds => session[c].ever
  PROVE  IInv'
<1> DEFINE s == session[c]
           q == [s EXCEPT !.at = at, !.seen = seen]
<1>1. s \in Request /\ guc[c] \in Binding /\ Careful(s, guc[c], members)
  BY BusyCareful
<1>2. /\ q.kind = s.kind /\ q.at = at /\ q.user = s.user /\ q.tenant = s.tenant
      /\ q.target = s.target /\ q.name = s.name /\ q.new = s.new
      /\ q.ever = s.ever /\ q.seen = seen
  BY <1>1 DEF Request
<1>3. q \in Request
  BY <1>1 DEF Request, Answers
<1>4. Careful(q, guc[c], members)
  <2>1. Named(q) /\ Binds(q, guc[c])
    BY <1>1, <1>2 DEF Careful, Named, Binds
  <2>2. Sees(q, members)
    BY <1>2 DEF Sees
  <2>3. Witnesses(q, members)
    BY <1>1, <1>2 DEF Careful, Witnesses
  <2> QED BY <2>1, <2>2, <2>3 DEF Careful
<1>5. q.new => \A d \in Connections \ {c} : Opens(session[d]) => session[d].user # q.user
  BY <1>2 DEF IInv, Apart, Opens
<1>6. ~Holds(q)
  BY <1>2 DEF Holds
<1>7. guc' = [guc EXCEPT ![c] = guc[c]]
  BY DEF IInv, TypeOK
<1>8. session' = [session EXCEPT ![c] = q]
  BY DEF Goes
<1> HIDE DEF q
<1> QED BY <1>1, <1>3, <1>4, <1>5, <1>6, <1>7, <1>8, ReplaceKeeps

(* What _memberships_for and the chooser return.                            *)
LEMMA WhoAmIKeeps ==
  ASSUME IInv, NEW c \in Connections, ReadOwn(c) \/ ReadNames(c)
  PROVE  IInv'
<1> DEFINE s == session[c]
<1>1. s # None /\ s.kind \in {"login", "identity"} /\ s.kind \notin TenantKinds \cup {"signup"}
  BY DEF ReadOwn, ReadNames, At, TenantKinds
<1>2. Careful(s, guc[c], members)
  BY <1>1, BusyCareful
<1>3. CASE ReadOwn(c)
  <2> DEFINE own == {m \in MembershipsSeen(guc[c]) : m[2] = s.user /\ members[m] = "active"}
             at == IF s.kind = "login" THEN "commit" ELSE "names"
             seen == [Nothing EXCEPT !.rows = own]
  <2>1. seen \in Answers /\ seen.rows = own /\ seen.tenants = {} /\ seen.invites = {}
    BY SeenType DEF Answers, Nothing, IInv
  <2>2. \A m \in own : (m[1] = s.tenant \/ m[2] = s.user) /\ members[m] # "none"
    OBVIOUS
  <2>3. Goes(c, at, seen) /\ UNCHANGED <<accounts, slug, members, invites, guc>>
    BY <1>3 DEF ReadOwn
  <2> HIDE DEF seen, own
  <2> QED BY <1>1, <2>1, <2>2, <2>3, GoesKeeps
<1>4. CASE ReadNames(c)
  <2> DEFINE named == {t \in TenantsSeen(guc[c]) : <<t, s.user>> \in s.seen.rows}
             seen == [Nothing EXCEPT !.tenants = named]
  <2>1. seen \in Answers /\ seen.rows = {} /\ seen.tenants = named /\ seen.invites = {}
    BY SeenType DEF Answers, Nothing, IInv
  <2>2. \A t \in named : members[<<t, s.user>>] # "none"
    BY <1>2 DEF Careful, Sees
  <2>3. Goes(c, "commit", seen) /\ UNCHANGED <<accounts, slug, members, invites, guc>>
    BY <1>4 DEF ReadNames
  <2> HIDE DEF seen, named
  <2> QED BY <1>1, <2>1, <2>2, <2>3, GoesKeeps
<1> QED BY <1>3, <1>4

(* get_current_membership                                                   *)
LEMMA CheckKeeps ==
  ASSUME IInv, NEW c \in Connections, Check(c)
  PROVE  IInv'
<1> DEFINE s == session[c]
<1>1. s # None /\ s.kind \in TenantKinds /\ s.kind # "signup"
  BY DEF Check, At, TenantKinds
<1>2. s \in Request /\ Careful(s, guc[c], members)
  BY <1>1, BusyCareful
<1>3. s.tenant \in Tenants /\ members[<<s.tenant, s.user>>] = "active"
  BY <1>1, <1>2 DEF Careful, Named, Check
<1>4. s.ever
  BY <1>2, <1>3 DEF Careful, Witnesses
<1>5. Nothing \in Answers /\ Nothing.rows = {} /\ Nothing.tenants = {} /\ Nothing.invites = {}
  BY DEF Answers, Nothing
<1>6. Goes(c, "act", Nothing) /\ UNCHANGED <<accounts, slug, members, invites, guc>>
  BY DEF Check
<1> QED BY <1>1, <1>4, <1>5, <1>6, GoesKeeps

(* The handlers of a company's requests.                                    *)
LEMMA ActKeeps ==
  ASSUME IInv, NEW c \in Connections,
         ActList(c) \/ ActFind(c) \/ ActInvite(c) \/ ActRevoke(c)
  PROVE  IInv'
<1> DEFINE s == session[c]
<1>1. /\ s # None /\ s.at = "act"
      /\ s.kind \in TenantKinds /\ s.kind \notin {"signup", "accept"}
  BY DEF ActList, ActFind, ActInvite, ActRevoke, At, TenantKinds
<1>2. s \in Request /\ Careful(s, guc[c], members)
  BY <1>1, BusyCareful
<1>3. s.ever /\ Binds(s, guc[c])
  BY <1>1, <1>2 DEF Careful, Witnesses
<1>4. UNCHANGED <<accounts, slug, members, invites, guc>>
  BY DEF ActList, ActFind, ActInvite, ActRevoke
<1>5. ASSUME NEW rows \in SUBSET MembershipsSeen(guc[c]), NEW invs \in SUBSET InvitationsSeen(guc[c]),
             \A i \in invs : i[1] = s.tenant,
             Goes(c, "commit", [rows |-> rows, tenants |-> {}, invites |-> invs])
      PROVE  IInv'
  <2> DEFINE seen == [rows |-> rows, tenants |-> {}, invites |-> invs]
  <2>1. seen \in Answers /\ seen.rows = rows /\ seen.tenants = {} /\ seen.invites = invs
    BY SeenType DEF Answers, IInv
  <2>2. \A m \in rows : (m[1] = s.tenant \/ m[2] = s.user) /\ members[m] # "none"
    BY <1>3, SeenIsOwn
  <2>3. Goes(c, "commit", seen)
    BY <1>5
  <2> HIDE DEF seen
  <2> QED BY <1>1, <1>3, <1>4, <1>5, <2>1, <2>2, <2>3, GoesKeeps
<1>6. CASE ActList(c)
  <2>1. Goes(c, "commit", [rows |-> MembershipsSeen(guc[c]), tenants |-> {}, invites |-> {}])
    BY <1>6 DEF ActList, Nothing
  <2> QED BY <1>5, <2>1
<1>7. CASE ActFind(c)
  <2>1. Goes(c, "commit", [rows |-> {s.target}, tenants |-> {}, invites |-> {}])
    BY <1>7 DEF ActFind, Nothing
  <2>2. {s.target} \in SUBSET MembershipsSeen(guc[c])
    BY <1>7 DEF ActFind
  <2> QED BY <1>5, <2>1, <2>2
<1>8. CASE ActInvite(c)
  <2>1. Goes(c, "commit", [rows |-> {}, tenants |-> {}, invites |-> {}])
    BY <1>8 DEF ActInvite, Nothing
  <2> QED BY <1>5, <2>1
<1>9. CASE ActRevoke(c)
  <2>1. Goes(c, "commit", [rows |-> {}, tenants |-> {}, invites |-> {s.target}])
    BY <1>9 DEF ActRevoke, Nothing
  <2>2. s.target \in InvitationsSeen(guc[c]) /\ s.target \in Rows /\ s.target[1] \in Tenants
    BY <1>9 DEF ActRevoke, InvitationsSeen, IInv, TypeOK, Rows
  <2>3. s.target[1] = s.tenant
    <3>1. guc[c].invite = None /\ guc[c].tenant \in {None, s.tenant}
      BY <1>1, <1>3 DEF Binds
    <3> QED BY <2>2, <3>1, NoneAssumption DEF InvitationsSeen, Rows
  <2>4. {s.target} \in SUBSET InvitationsSeen(guc[c])
    BY <2>2
  <2>5. \A i \in {s.target} : i[1] = s.tenant
    BY <2>3
  <2> QED BY <1>5, <2>1, <2>4, <2>5
<1> QED BY <1>6, <1>7, <1>8, <1>9

(* All the statements between the first and the commit. *)
LEMMA ProceedKeeps ==
  ASSUME IInv, NEW c \in Connections, Proceed(c)
  PROVE  IInv'
BY RegisterKeeps, FoundKeeps, WhoAmIKeeps, CheckKeeps, ActKeeps DEF Proceed

-----------------------------------------------------------------------------
(* What a request that commits a change names.                              *)
LEMMA CommitNames ==
  ASSUME IInv, NEW c \in Connections, session[c] # None
  PROVE  /\ session[c] \in Request
         /\ session[c].kind \in TenantKinds \cup {"signup", "accept"} =>
              session[c].tenant \in Tenants
         /\ session[c].kind \in {"update", "invite", "revoke", "accept"} =>
              session[c].target \in Rows
         /\ guc[c].tenant \in {None, session[c].tenant}
BY BusyCareful DEF Careful, Named, Binds

(* Commits and rollbacks.                                                   *)
LEMMA FinishKeeps ==
  ASSUME IInv, NEW c \in Connections, Finish(c)
  PROVE  IInv'
<1> DEFINE s == session[c]
<1>1. s # None
  BY DEF Finish, CommitSignup, CommitAccept, CommitRead, CommitUpdate, CommitInvite,
         CommitRevoke, Abort, At
<1>2. s \in Request /\ s.user \in People
  BY <1>1, CommitNames DEF Request
<1>3. accounts \in SUBSET People /\ invites \in SUBSET Rows
  BY DEF IInv, TypeOK
<1>4. CASE CommitSignup(c)
  <2>1. s.kind = "signup" /\ Holds(s)
    BY <1>1, <1>4 DEF CommitSignup, At, Holds
  <2>2. <<s.tenant, s.user>> \in Rows
    BY <1>1, <1>2, <2>1, CommitNames DEF Rows
  <2>3. /\ accounts' \in SUBSET People /\ invites' \in SUBSET Rows
        /\ Decide(c, <<s.tenant, s.user>>, "active")
        /\ slug' = [slug EXCEPT ![s.tenant] = s.name]
    BY <1>2, <1>3, <1>4 DEF CommitSignup
  <2> QED BY <2>1, <2>2, <2>3, DecideKeeps
<1>5. CASE CommitAccept(c)
  <2>1. s.target \in Rows
    BY <1>1, <1>5, CommitNames DEF CommitAccept, At
  <2>2. /\ accounts' \in SUBSET People /\ invites' \in SUBSET Rows
        /\ Decide(c, s.target, "active") /\ slug' = slug
    BY <1>2, <1>3, <1>5 DEF CommitAccept
  <2> QED BY <2>1, <2>2, DecideKeeps
<1>6. ASSUME NEW standing \in {"active", "inactive"}, CommitUpdate(c, standing)
      PROVE  IInv'
  <2>1. s.target \in Rows
    BY <1>1, <1>6, CommitNames DEF CommitUpdate, At
  <2>2. /\ accounts' \in SUBSET People /\ invites' \in SUBSET Rows
        /\ Decide(c, s.target, standing) /\ slug' = slug
    BY <1>3, <1>6 DEF CommitUpdate
  <2> QED BY <2>1, <2>2, DecideKeeps
<1>7. CASE CommitInvite(c)
  <2>1. s.target \in Rows
    BY <1>1, <1>7, CommitNames DEF CommitInvite, At
  <2> QED BY <1>3, <1>7, <2>1, EndKeeps DEF CommitInvite
<1>8. CASE CommitRead(c) \/ CommitRevoke(c) \/ Abort(c)
  BY <1>3, <1>8, EndKeeps DEF CommitRead, CommitRevoke, Abort
<1> QED BY <1>4, <1>5, <1>6, <1>7, <1>8 DEF Finish

-----------------------------------------------------------------------------
(* Nobody is connected and nothing is stored. *)
LEMMA InitInv == Init => IInv
<1> SUFFICES ASSUME Init PROVE IInv
  OBVIOUS
<1> USE DEF Init
<1>1. TypeOK
  BY DEF TypeOK, Unbound, Binding
<1>2. \A c \in Connections : session[c] = None /\ guc[c] = Unbound
  OBVIOUS
<1>3. AllCareful
  BY <1>2 DEF AllCareful
<1>4. Apart
  BY <1>2 DEF Apart, Opens, Holds
<1> QED BY <1>1, <1>3, <1>4 DEF IInv

(* Whoever steps, the invariant is kept. *)
LEMMA StepInv == IInv /\ [Next]_vars => IInv'
<1> SUFFICES ASSUME IInv, [Next]_vars PROVE IInv'
  OBVIOUS
<1>1. CASE Next
  BY <1>1, ArriveKeeps, ProceedKeeps, FinishKeeps DEF Next
<1>2. CASE UNCHANGED vars
  BY <1>2 DEF vars, IInv, TypeOK, AllCareful, Careful, Named, Binds, Sees, Witnesses,
              Apart, Opens, Holds
<1> QED BY <1>1, <1>2

(* Every request is careful, and what opens accounts and companies is kept  *)
(* apart, whoever overlaps with whom and whatever is cut short.             *)
THEOREM Invariance == Spec => []IInv
BY InitInv, StepInv, PTL DEF Spec

(* The tables, the settings and the requests are what TypeOK says.          *)
THEOREM TypeCorrect == Spec => []TypeOK
<1>1. IInv => TypeOK
  BY DEF IInv
<1> QED BY <1>1, Invariance, PTL

(* No request is given a row of a company that is not its own, but for its  *)
(* user's own memberships and the names of the companies these are in.      *)
THEOREM Isolation == Spec => []RowsAreOwn
<1>1. IInv => RowsAreOwn
  BY BusyCareful DEF RowsAreOwn, Busy, Careful, Sees
<1> QED BY <1>1, Invariance, PTL

(* No connection brings the settings of one request to another.             *)
THEOREM OwnBinding == Spec => []BindingIsOwn
<1>1. IInv => BindingIsOwn
  BY BusyCareful, FreeIsUnbound DEF BindingIsOwn, Busy, Careful, Binds
<1> QED BY <1>1, Invariance, PTL

(* Who acts for a company was an active member at some moment of the        *)
(* request, whatever the token says.                                        *)
THEOREM RevocationIsImmediate == Spec => []RevokedIsOut
<1>1. IInv => RevokedIsOut
  BY BusyCareful DEF RevokedIsOut, Busy, Careful, Witnesses
<1> QED BY <1>1, Invariance, PTL

(* An email opens one account at a time, and a slug names one company.      *)
THEOREM UniqueSignups == Spec => []SignupsAreUnique
<1>1. IInv => SignupsAreUnique
  BY DEF SignupsAreUnique, IInv, Apart, Opens, Busy
<1> QED BY <1>1, Invariance, PTL

(* Who changes the rows of a company commits a request of that company.     *)
LEMMA OwnWrites ==
  ASSUME IInv, [Next]_vars, NEW m \in Rows,
         members'[m] # members[m] \/ (m \in invites) # (m \in invites')
  PROVE  \E c \in Busy : session[c].tenant = m[1] /\ session'[c] = None
<1>1. ~(UNCHANGED <<members, invites>>)
  OBVIOUS
<1>2. PICK c \in Connections :
        \/ CommitSignup(c) \/ CommitAccept(c)
        \/ \E standing \in {"active", "inactive"} : CommitUpdate(c, standing)
        \/ CommitInvite(c) \/ CommitRevoke(c)
  <2>1. PICK c \in Connections : Arrive(c) \/ Proceed(c) \/ Finish(c)
    BY <1>1 DEF vars, Next
  <2>2. ~Arrive(c)
    BY <1>1 DEF Arrive, BeginSignup, BeginAccept, BeginLogin, BeginIdentity,
                BeginTenant, Begin
  <2>3. ~Proceed(c)
    BY <1>1 DEF Proceed, Register, Found, ReadOwn, ReadNames, Check,
                ActList, ActFind, ActInvite, ActRevoke
  <2>4. ~CommitRead(c) /\ ~Abort(c)
    BY <1>1 DEF CommitRead, Abort
  <2> QED BY <2>1, <2>2, <2>3, <2>4 DEF Finish
<1> DEFINE s == session[c]
<1>3. s # None /\ c \in Busy
  BY <1>2 DEF CommitSignup, CommitAccept, CommitUpdate, CommitInvite, CommitRevoke, At, Busy
<1>4. session'[c] = None
  BY <1>2 DEF CommitSignup, CommitAccept, CommitUpdate, CommitInvite, CommitRevoke,
              Decide, End, IInv, TypeOK
<1>5. /\ s.kind \in TenantKinds \cup {"signup", "accept"} => s.tenant \in Tenants
      /\ s.kind \in {"update", "invite", "revoke", "accept"} => s.target \in Rows
      /\ guc[c].tenant \in {None, s.tenant}
  BY <1>3, CommitNames
<1>6. CASE CommitSignup(c)
  <2>1. <<s.tenant, s.user>>[1] = s.tenant /\ invites' = invites
    BY <1>6 DEF CommitSignup
  <2>2. members' = [members EXCEPT ![<<s.tenant, s.user>>] = "active"]
    BY <1>6 DEF CommitSignup, Decide
  <2>3. m = <<s.tenant, s.user>>
    BY <2>1, <2>2 DEF IInv, TypeOK
  <2> QED BY <1>3, <1>4, <2>1, <2>3
<1>7. CASE ~CommitSignup(c)
  <2>1. Writable(guc[c], s.target[1]) /\ s.target \in Rows
    BY <1>2, <1>5, <1>7 DEF CommitAccept, CommitUpdate, CommitInvite, CommitRevoke, At
  <2>2. /\ members' = members \/ \E x : members' = [members EXCEPT ![s.target] = x]
        /\ invites' = invites \/ invites' = invites \cup {s.target}
             \/ invites' = invites \ {s.target}
    BY <1>2, <1>7 DEF CommitAccept, CommitUpdate, CommitInvite, CommitRevoke, Decide
  <2>3. m = s.target
    BY <2>2 DEF IInv, TypeOK
  <2>4. s.target[1] = s.tenant
    BY <1>5, <2>1, NoneAssumption DEF Writable, Rows
  <2> QED BY <1>3, <1>4, <2>3, <2>4
<1> QED BY <1>6, <1>7

(* A user of two companies, or a token that was meant for another one,      *)
(* changes nothing in a company that the request is not of.                 *)
THEOREM ContainedWrites == Spec => WritesStayInTenant
<1>1. IInv /\ [Next]_vars =>
        [\A m \in Rows :
           members'[m] # members[m] \/ (m \in invites) # (m \in invites') =>
             \E c \in Busy : session[c].tenant = m[1] /\ session'[c] = None]_vars
  BY OwnWrites
<1> QED BY <1>1, Invariance, PTL DEF Spec, WritesStayInTenant
=============================================================================
