------------------------------ MODULE Tenancy ------------------------------
(***************************************************************************)
(* Companies that share a database.  A request takes a connection, binds   *)
(* its transaction to a user, a company or an invitation, and the row      *)
(* level security of migration 0001 decides which rows each statement sees *)
(* and changes.  Requests overlap, may be cut short anywhere, and leave    *)
(* the connection to the next one.                                         *)
(*                                                                         *)
(* Rows are known by what they say: a membership by company and person, an *)
(* open invitation likewise.  Roles, seats and the order of statements     *)
(* within a change of the team are the subject of module Team.             *)
(***************************************************************************)
EXTENDS FiniteSets

CONSTANTS
  People,        \* by email
  Tenants,       \* by the UUIDs that signup makes up
  Slugs,
  Connections,   \* of the pool
  None

ASSUME NoneAssumption == None \notin People \cup Tenants \cup Slugs \cup (Tenants \X People)

VARIABLES
  accounts,      \* table users: no row level security
  slug,          \* table tenants: slug[t], or None while there is no t
  members,       \* table memberships: "none", "active" or "inactive"
  invites,       \* table invitations: those that may be accepted
  guc,           \* guc[c]: the settings that connection c's transaction has
  session        \* session[c]: the request that has connection c, or None

vars == <<accounts, slug, members, invites, guc, session>>

Rows == Tenants \X People

Binding == [tenant : Tenants \cup {None}, user : People \cup {None},
            invite : Rows \cup {None}]

Unbound == [tenant |-> None, user |-> None, invite |-> None]

TenantKinds == {"list", "assign", "update", "invite", "revoke"}

(* tenant and user: of the token or the invitation, or those that sign up.  *)
(* target: the row a request names; name: the slug of a signup.  new: has   *)
(* it inserted the account?  seen: the memberships, companies and           *)
(* invitations that its last SELECT returned.  ever (history): has the user *)
(* been an active member at some moment since the request began?            *)
Request ==
  [kind : TenantKinds \cup {"signup", "login", "identity", "accept"},
   at : {"register", "found", "own", "names", "check", "act", "commit"},
   user : People, tenant : Tenants \cup {None}, target : Rows \cup {None},
   name : Slugs \cup {None}, new : BOOLEAN, ever : BOOLEAN,
   seen : [rows : SUBSET Rows, tenants : SUBSET Tenants, invites : SUBSET Rows]]

ASSUME RequestAssumption == None \notin Request

Nothing == [rows |-> {}, tenants |-> {}, invites |-> {}]

Init ==
  /\ accounts = {}
  /\ slug = [t \in Tenants |-> None]
  /\ members = [m \in Rows |-> "none"]
  /\ invites = {}
  /\ guc = [c \in Connections |-> Unbound]
  /\ session = [c \in Connections |-> None]

-----------------------------------------------------------------------------
(* Wrong on purpose: the variants called ...Wrong are bugs that a property  *)
(* excludes; no specification uses them.                                    *)

(* memberships_select_own asks whether there is a user, not whether it is   *)
(* the row's.                                                               *)
MembershipsSeenWrong(g) ==
  {m \in Rows : members[m] # "none" /\ (m[1] = g.tenant \/ g.user # None)}

(* The policies for SELECT.  What is unbound is NULL, which equals nothing. *)
MembershipsSeen(g) ==
  {m \in Rows : members[m] # "none" /\ (m[1] = g.tenant \/ m[2] = g.user)}

TenantsSeen(g) ==
  {t \in Tenants : /\ slug[t] # None
                   /\ \/ t = g.tenant
                      \/ \E m \in MembershipsSeen(g) :
                           m = <<t, g.user>> /\ members[m] = "active"}

InvitationsSeen(g) == {i \in invites : i[1] = g.tenant \/ i = g.invite}

(* Changes are allowed to any row that is seen. *)
WritableWrong(g, t) == t # None

(* The policies for INSERT, UPDATE and DELETE: a row that fails them is     *)
(* refused, or not there to be updated, which raises all the same.          *)
Writable(g, t) == t = g.tenant

(* bind_context leaves alone what it is not given. *)
Bound(g, user, tenant) ==
  [g EXCEPT !.user = IF user = None THEN @ ELSE user,
            !.tenant = IF tenant = None THEN @ ELSE tenant]

-----------------------------------------------------------------------------
Asks(kind, at, user, tenant, target) ==
  [kind |-> kind, at |-> at, user |-> user, tenant |-> tenant,
   target |-> target, name |-> None, new |-> FALSE,
   ever |-> tenant # None /\ members[<<tenant, user>>] = "active",
   seen |-> Nothing]

Begin(c, request, binding) ==
  /\ session[c] = None
  /\ session' = [session EXCEPT ![c] = request]
  /\ guc' = [guc EXCEPT ![c] = binding]
  /\ UNCHANGED <<accounts, slug, members, invites>>

At(c, kinds, at) ==
  session[c] # None /\ session[c].kind \in kinds /\ session[c].at = at

Goes(c, at, seen) ==
  session' = [session EXCEPT ![c].at = at, ![c].seen = seen]

(* set_config for the session, not for the transaction. *)
EndWrong(c) ==
  /\ session' = [session EXCEPT ![c] = None]
  /\ guc' = guc

(* COMMIT or ROLLBACK, after which the connection is back in the pool. *)
End(c) ==
  /\ session' = [session EXCEPT ![c] = None]
  /\ guc' = [guc EXCEPT ![c] = Unbound]

(* An exception, in the handler or in the database. *)
Abort(c) ==
  /\ session[c] # None
  /\ End(c)
  /\ UNCHANGED <<accounts, slug, members, invites>>

(* The commit of a change of memberships, as the open requests witness it.  *)
Decide(c, m, standing) ==
  /\ members' = [members EXCEPT ![m] = standing]
  /\ guc' = [guc EXCEPT ![c] = Unbound]
  /\ session' =
       [d \in Connections |->
          IF d = c \/ session[d] = None THEN None
          ELSE [session[d] EXCEPT
                  !.ever = @ \/ (standing = "active" /\ m = <<session[d].tenant, session[d].user>>)]]

-----------------------------------------------------------------------------
(* Signup and invitations: get_unscoped_db. *)

(* The UUID is new; the SELECT finds no such account.                       *)
BeginSignup(c, p, t, n) ==
  /\ p \notin accounts
  /\ slug[t] = None
  /\ \A d \in Connections : session[d] # None => session[d].tenant # t
  /\ Begin(c, [Asks("signup", "register", p, t, None) EXCEPT !.name = n], guc[c])

(* _load_by_token: the invitation first, and with it the company.           *)
BeginAccept(c, i) ==
  /\ i \in InvitationsSeen([guc[c] EXCEPT !.invite = i])
  /\ LET known == i[2] \in accounts
         binding == Bound([guc[c] EXCEPT !.invite = i],
                          IF known THEN i[2] ELSE None, i[1])
     IN Begin(c, [Asks("accept", IF known THEN "commit" ELSE "register", i[2], i[1], i)
                    EXCEPT !.seen.invites = {i}], binding)

(* The index does not wait for rows that are yet to be committed. *)
RegisterWrong(c) ==
  /\ At(c, {"signup", "accept"}, "register")
  /\ session[c].user \notin accounts
  /\ session' = [session EXCEPT ![c].at = IF session[c].kind = "signup"
                                          THEN "found" ELSE "commit",
                                ![c].new = TRUE]
  /\ guc' = [guc EXCEPT ![c] = Bound(@, session[c].user, session[c].tenant)]
  /\ UNCHANGED <<accounts, slug, members, invites>>

(* The account is flushed under ix_users_email_lower, which waits for those *)
(* who are inserting the same; if they commit, this is a 500 (Abort).  Then *)
(* the user and the company are bound.                                      *)
Register(c) ==
  /\ At(c, {"signup", "accept"}, "register")
  /\ session[c].user \notin accounts
  /\ \A d \in Connections \ {c} :
       session[d] # None /\ session[d].new => session[d].user # session[c].user
  /\ session' = [session EXCEPT ![c].at = IF session[c].kind = "signup"
                                          THEN "found" ELSE "commit",
                                ![c].new = TRUE]
  /\ guc' = [guc EXCEPT ![c] = Bound(@, session[c].user, session[c].tenant)]
  /\ UNCHANGED <<accounts, slug, members, invites>>

(* unique_slug keeps to the name unless it sees a company that has it; what *)
(* it sees is decided by the policies.  The unique index, which waits, has  *)
(* the last word: a name that is taken is a 500 (Abort).                    *)
Found(c) ==
  /\ At(c, {"signup"}, "found")
  /\ LET used == {slug[t] : t \in TenantsSeen(guc[c])} IN
     \E n \in IF session[c].name \in used THEN Slugs \ used ELSE {session[c].name} :
       /\ \A t \in Tenants : slug[t] # n
       /\ \A d \in Connections \ {c} : At(d, {"signup"}, "commit") => session[d].name # n
       /\ Writable(guc[c], session[c].tenant)
       /\ session' = [session EXCEPT ![c].at = "commit", ![c].name = n]
  /\ UNCHANGED <<accounts, slug, members, invites, guc>>

CommitSignup(c) ==
  /\ At(c, {"signup"}, "commit")
  /\ accounts' = accounts \cup {session[c].user}
  /\ slug' = [slug EXCEPT ![session[c].tenant] = session[c].name]
  /\ Decide(c, <<session[c].tenant, session[c].user>>, "active")
  /\ UNCHANGED invites

CommitAccept(c) ==
  /\ At(c, {"accept"}, "commit")
  /\ Writable(guc[c], session[c].target[1])
  /\ accounts' = accounts \cup {session[c].user}
  /\ invites' = invites \ {session[c].target}
  /\ Decide(c, session[c].target, "active")
  /\ UNCHANGED slug

-----------------------------------------------------------------------------
(* Who am I: login and refresh learn it from the password or the token and  *)
(* bind no company; me and switch_tenant have get_identity_db.              *)
BeginLogin(c, p) ==
  /\ p \in accounts
  /\ Begin(c, Asks("login", "own", p, None, None), Bound(guc[c], p, None))

(* Whoever has ever been a member has had a token that says so.             *)
Tokens == {m \in Rows : members[m] # "none"}

BeginIdentity(c, p, t) ==
  /\ p \in accounts
  /\ t = None \/ <<t, p>> \in Tokens
  /\ Begin(c, Asks("identity", "own", p, t, None), Bound(guc[c], p, t))

(* _memberships_for *)
ReadOwn(c) ==
  /\ At(c, {"login", "identity"}, "own")
  /\ LET own == {m \in MembershipsSeen(guc[c]) :
                   m[2] = session[c].user /\ members[m] = "active"}
     IN Goes(c, IF session[c].kind = "login" THEN "commit" ELSE "names",
             [Nothing EXCEPT !.rows = own])
  /\ UNCHANGED <<accounts, slug, members, invites, guc>>

(* The memberships take the place of the companies in the answer. *)
ReadNamesWrong(c) ==
  /\ At(c, {"identity"}, "names")
  /\ Goes(c, "commit", [Nothing EXCEPT !.tenants = session[c].seen.rows])
  /\ UNCHANGED <<accounts, slug, members, invites, guc>>

(* The companies' names, for the chooser. *)
ReadNames(c) ==
  /\ At(c, {"identity"}, "names")
  /\ Goes(c, "commit",
          [Nothing EXCEPT !.tenants =
             {t \in TenantsSeen(guc[c]) : <<t, session[c].user>> \in session[c].seen.rows}])
  /\ UNCHANGED <<accounts, slug, members, invites, guc>>

-----------------------------------------------------------------------------
(* The requests of a company: get_db and get_current_membership.            *)
BeginTenant(c, kind, m, target) ==
  /\ m \in Tokens
  /\ Begin(c, Asks(kind, "check", m[2], m[1], target), Bound(guc[c], m[2], m[1]))

(* The token is taken at its word. *)
CheckWrong(c) ==
  /\ At(c, TenantKinds, "check")
  /\ <<session[c].tenant, session[c].user>> \in MembershipsSeen(guc[c])
  /\ Goes(c, "act", Nothing)
  /\ UNCHANGED <<accounts, slug, members, invites, guc>>

(* A caller who is not an active member gets a 403 (Abort). *)
Check(c) ==
  /\ At(c, TenantKinds, "check")
  /\ LET m == <<session[c].tenant, session[c].user>> IN
       m \in MembershipsSeen(guc[c]) /\ members[m] = "active"
  /\ Goes(c, "act", Nothing)
  /\ UNCHANGED <<accounts, slug, members, invites, guc>>

(* list_members and assignable_memberships have no company in their WHERE.  *)
ActList(c) ==
  /\ At(c, {"list"}, "act")
  /\ Goes(c, "commit", [Nothing EXCEPT !.rows = MembershipsSeen(guc[c])])
  /\ UNCHANGED <<accounts, slug, members, invites, guc>>

(* db.get(Membership, id): to change it, or to put it on a job.             *)
ActFind(c) ==
  /\ At(c, {"update", "assign"}, "act")
  /\ session[c].target \in MembershipsSeen(guc[c])
  /\ session[c].kind = "assign" => members[session[c].target] = "active"
  /\ Goes(c, "commit", [Nothing EXCEPT !.rows = {session[c].target}])
  /\ UNCHANGED <<accounts, slug, members, invites, guc>>

(* create_invitation: not on the team, not invited, as far as one can see.  *)
ActInvite(c) ==
  /\ At(c, {"invite"}, "act")
  /\ \A m \in MembershipsSeen(guc[c]) \cup InvitationsSeen(guc[c]) :
       m[2] # session[c].target[2]
  /\ Goes(c, "commit", Nothing)
  /\ UNCHANGED <<accounts, slug, members, invites, guc>>

(* revoke_invitation: db.get(Invitation, id) *)
ActRevoke(c) ==
  /\ At(c, {"revoke"}, "act")
  /\ session[c].target \in InvitationsSeen(guc[c])
  /\ Goes(c, "commit", [Nothing EXCEPT !.invites = {session[c].target}])
  /\ UNCHANGED <<accounts, slug, members, invites, guc>>

(* What a reader leaves behind is nothing; a crew is not a table here.      *)
CommitRead(c) ==
  /\ At(c, {"login", "identity", "list", "assign"}, "commit")
  /\ End(c)
  /\ UNCHANGED <<accounts, slug, members, invites>>

CommitUpdate(c, standing) ==
  /\ At(c, {"update"}, "commit")
  /\ Writable(guc[c], session[c].target[1])
  /\ Decide(c, session[c].target, standing)
  /\ UNCHANGED <<accounts, slug, invites>>

CommitInvite(c) ==
  /\ At(c, {"invite"}, "commit")
  /\ Writable(guc[c], session[c].target[1])
  /\ invites' = invites \cup {session[c].target}
  /\ End(c)
  /\ UNCHANGED <<accounts, slug, members>>

CommitRevoke(c) ==
  /\ At(c, {"revoke"}, "commit")
  /\ Writable(guc[c], session[c].target[1])
  /\ invites' = invites \ {session[c].target}
  /\ End(c)
  /\ UNCHANGED <<accounts, slug, members>>

-----------------------------------------------------------------------------
(* A request that names a row which never existed is a 404. *)
Arrive(c) ==
  \/ \E p \in People, t \in Tenants, n \in Slugs : BeginSignup(c, p, t, n)
  \/ \E i \in invites : BeginAccept(c, i)
  \/ \E p \in People : BeginLogin(c, p)
  \/ \E p \in People, t \in Tenants \cup {None} : BeginIdentity(c, p, t)
  \/ \E m \in Rows : BeginTenant(c, "list", m, None)
  \/ \E kind \in {"update", "assign"}, m \in Rows, target \in Tokens :
       BeginTenant(c, kind, m, target)
  \/ \E m \in Rows, i \in invites : BeginTenant(c, "revoke", m, i)
  \/ \E m \in Rows, p \in People : BeginTenant(c, "invite", m, <<m[1], p>>)

Proceed(c) ==
  \/ Register(c) \/ Found(c) \/ ReadOwn(c) \/ ReadNames(c) \/ Check(c)
  \/ ActList(c) \/ ActFind(c) \/ ActInvite(c) \/ ActRevoke(c)

Finish(c) ==
  \/ CommitSignup(c) \/ CommitAccept(c) \/ CommitRead(c)
  \/ \E standing \in {"active", "inactive"} : CommitUpdate(c, standing)
  \/ CommitInvite(c) \/ CommitRevoke(c) \/ Abort(c)

Next == \E c \in Connections : Arrive(c) \/ Proceed(c) \/ Finish(c)

Spec == Init /\ [][Next]_vars

-----------------------------------------------------------------------------
TypeOK ==
  /\ accounts \in SUBSET People
  /\ slug \in [Tenants -> Slugs \cup {None}]
  /\ members \in [Rows -> {"none", "active", "inactive"}]
  /\ invites \in SUBSET Rows
  /\ guc \in [Connections -> Binding]
  /\ session \in [Connections -> Request \cup {None}]

Busy == {c \in Connections : session[c] # None}

(* What a request is given to see belongs to the company of its token, or   *)
(* of its invitation, or to its own user, whoever had the connection before *)
(* and whatever its queries forget to ask for.                              *)
RowsAreOwn ==
  \A c \in Busy : LET s == session[c] IN
    /\ \A m \in s.seen.rows : m[1] = s.tenant \/ m[2] = s.user
    /\ \A t \in s.seen.tenants : members[<<t, s.user>>] # "none"
    /\ \A i \in s.seen.invites : i[1] = s.tenant

(* "A pooled connection can never carry one tenant's context into the next  *)
(* request": what a transaction is bound to comes from its own request,     *)
(* though a request binds no more than it needs.                            *)
BindingIsOwn ==
  \A c \in Connections :
    IF c \in Busy
    THEN /\ guc[c].tenant \in {None, session[c].tenant}
         /\ guc[c].user \in {None, session[c].user}
         /\ guc[c].invite \in {None, session[c].target}
    ELSE guc[c] = Unbound

(* Only a request of a company changes who belongs to it and who is invited *)
(* to it, though a user of two companies finds their row of the other one.  *)
WritesStayInTenant ==
  [][\A m \in Rows :
       members'[m] # members[m] \/ (m \in invites) # (m \in invites') =>
         \E c \in Busy : session[c].tenant = m[1] /\ session'[c] = None]_vars

(* "Deactivating someone takes effect immediately rather than whenever      *)
(* their access token happens to expire": who acts for a company has been   *)
(* an active member at some moment of the request.                          *)
RevokedIsOut ==
  \A c \in Busy :
    session[c].kind \in TenantKinds /\ session[c].at \in {"act", "commit"} =>
      session[c].ever

(* Of signups and acceptances that race, one opens the account of an email, *)
(* and one company gets a slug.                                             *)
SignupsAreUnique ==
  /\ \A c, d \in Busy :
       session[c].new /\ session[d].new /\ c # d => session[c].user # session[d].user
  /\ \A t, u \in Tenants : slug[t] # None /\ slug[t] = slug[u] => t = u

(* "RLS makes a membership from another tenant invisible": who is put on a  *)
(* job of a company is there as its member.                                 *)
AssigneesAreColleagues ==
  \A c \in Busy :
    At(c, {"assign"}, "commit") => session[c].target[1] = session[c].tenant
=============================================================================
