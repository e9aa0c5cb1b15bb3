-------------------------------- MODULE Team --------------------------------
(***************************************************************************)
(* One company's people: invitations (routers/invitations.py), memberships *)
(* (routers/memberships.py) and the seats of its plan (services/limits.py).*)
(*                                                                         *)
(* A request is a transaction at READ COMMITTED: each of its SELECTs, an   *)
(* action here, sees what is committed at that moment, the guards compare  *)
(* what was read, and the writes - the fields that changed, by primary     *)
(* key - become visible together at the end.  No guard locks what it read. *)
(***************************************************************************)
EXTENDS Integers, FiniteSets

CONSTANTS
  People,      \* everybody who is or may be on the team; one email each
  Founder,     \* the owner that signup made
  Invitations, \* the invitations that will ever be sent
  Roles,       \* the roles that are given out
  SeatLimit,   \* the plan's seats, None if unlimited
  Workers,     \* the threads that serve requests
  None

ASSUME PeopleAssumption == Founder \in People /\ None \notin People
ASSUME RolesAssumption ==
  /\ "owner" \in Roles
  /\ Roles \subseteq {"owner", "dispatcher", "technician", "accountant"}
ASSUME SeatAssumption == SeatLimit \in (Nat \ {0}) \cup {None} /\ None \notin Nat
ASSUME WorkersAssumption == None \notin Workers /\ None \notin Invitations
                            /\ None \notin [role : Roles, active : BOOLEAN]
ASSUME TeamIsFinite == /\ IsFiniteSet(People) /\ IsFiniteSet(Invitations)
                       /\ IsFiniteSet(Workers) /\ Workers # {}

VARIABLES
  members,     \* members[p]: role and active flag, or None
  invites,     \* invites[i]: the row, or None before it is sent
  tx           \* tx[w]: the open transaction of worker w, or None

vars == <<members, invites, tx>>

Standing == [role : Roles, active : BOOLEAN]

Invite == [person : People, role : Roles,
           accepted : BOOLEAN, revoked : BOOLEAN, expired : BOOLEAN]

ASSUME NoneIsNoInvite == None \notin Invite

Init ==
  /\ members = [p \in People |-> IF p = Founder
                                 THEN [role |-> "owner", active |-> TRUE]
                                 ELSE None]
  /\ invites = [i \in Invitations |-> None]
  /\ tx = [w \in Workers |-> None]

Active == {p \in People : members[p] # None /\ members[p].active}
ActiveOwners == {p \in Active : members[p].role = "owner"}

Sent == {i \in Invitations : invites[i] # None}
Pending == {i \in Sent : /\ ~invites[i].accepted
                         /\ ~invites[i].revoked
                         /\ ~invites[i].expired}

-----------------------------------------------------------------------------
(* A transaction: `kind` is the request, `at` the statement that is next.   *)
(* `loaded` is the membership row it read (None: there is none) and `wants` *)
(* the one it will leave; `used` is its count of active members.            *)

Idle(w) == tx[w] = None

At(w, kinds, at) == /\ ~Idle(w)
                    /\ tx[w].kind \in kinds
                    /\ tx[w].at = at

Begin(w, t) ==
  /\ Idle(w)
  /\ tx' = [tx EXCEPT ![w] = t]
  /\ UNCHANGED <<members, invites>>

Proceed(w, at) ==
  /\ tx' = [tx EXCEPT ![w].at = at]
  /\ UNCHANGED <<members, invites>>

(* require_role(OWNER) *)
AnOwnerAsks == ActiveOwners # {}

(* POST /invitations *)
BeginInvite(w, i, p, role) ==
  /\ AnOwnerAsks
  /\ i \notin Sent
  /\ i \notin {tx[v].invitation : v \in {v \in Workers : ~Idle(v)}}
  /\ Begin(w, [kind |-> "invite", at |-> "count", invitation |-> i, person |-> p,
               wants |-> [role |-> role, active |-> TRUE], loaded |-> None,
               used |-> 0])

(* POST /invitations/accept: _load_by_token *)
BeginAccept(w, i) ==
  /\ i \in Pending
  /\ Begin(w, [kind |-> "accept", at |-> "membership", invitation |-> i,
               person |-> invites[i].person,
               wants |-> [role |-> invites[i].role, active |-> TRUE],
               loaded |-> None, used |-> 0])

(* DELETE /invitations/{id} *)
BeginRevoke(w, i) ==
  /\ AnOwnerAsks
  /\ i \in Sent
  /\ ~invites[i].accepted
  /\ ~invites[i].revoked
  /\ Begin(w, [kind |-> "revoke", at |-> "commit", invitation |-> i,
               person |-> invites[i].person,
               wants |-> None, loaded |-> None, used |-> 0])

(* Wrong on purpose: the variants called ...Wrong are bugs that a property   *)
(* excludes; no specification uses them.                                    *)

(* Only deactivation counts as losing an owner. *)
BeginUpdateWrong(w, p, role, active) ==
  LET losingOwner == members[p].role = "owner" /\ ~active
      reactivates == active /\ ~members[p].active
  IN
  /\ AnOwnerAsks
  /\ members[p] # None
  /\ Begin(w, [kind |-> "update",
               at |-> IF losingOwner THEN "owners"
                      ELSE IF reactivates THEN "count" ELSE "commit",
               invitation |-> None, person |-> p,
               wants |-> [role |-> role, active |-> active],
               loaded |-> members[p], used |-> 0])

(* PATCH /memberships/{id}: a field that is not sent keeps its value. *)
BeginUpdate(w, p, role, active) ==
  LET losingOwner == members[p].role = "owner" /\ (~active \/ role # "owner")
      reactivates == active /\ ~members[p].active
  IN
  /\ AnOwnerAsks
  /\ members[p] # None
  /\ Begin(w, [kind |-> "update",
               at |-> IF losingOwner THEN "owners"
                      ELSE IF reactivates THEN "count" ELSE "commit",
               invitation |-> None, person |-> p,
               wants |-> [role |-> role, active |-> active],
               loaded |-> members[p], used |-> 0])

(* _active_owner_count; an owner who is demoted and reactivated at once is  *)
(* still to be counted.                                                     *)
CountOwners(w) ==
  /\ At(w, {"update"}, "owners")
  /\ Cardinality(ActiveOwners) > 1
  /\ Proceed(w, IF tx[w].wants.active /\ ~tx[w].loaded.active THEN "count"
                ELSE "commit")

(* accept_invitation looks for a membership of the person who accepts. *)
FindMembership(w) ==
  LET p == tx[w].person IN
  /\ At(w, {"accept"}, "membership")
  /\ tx' = [tx EXCEPT ![w].loaded = members[p],
                      ![w].at = IF p \in Active THEN "commit" ELSE "count"]
  /\ UNCHANGED <<members, invites>>

(* assert_seat_available: first the members ... *)
CountMembers(w) ==
  /\ At(w, {"invite", "accept", "update"}, "count")
  /\ tx' = [tx EXCEPT ![w].used = Cardinality(Active), ![w].at = "pending"]
  /\ UNCHANGED <<members, invites>>

(* ... then the pending invitations, except the one being accepted. *)
RoomWrong(used, pending) == SeatLimit = None \/ used + pending <= SeatLimit

Room(used, pending) == SeatLimit = None \/ used + pending + 1 <= SeatLimit

CountPending(w) ==
  /\ At(w, {"invite", "accept", "update"}, "pending")
  /\ Room(tx[w].used,
          Cardinality(Pending \ (IF tx[w].kind = "accept" THEN {tx[w].invitation}
                                 ELSE {})))
  /\ Proceed(w, IF tx[w].kind = "invite" THEN "invitee" ELSE "commit")

(* Only active members count as on the team. *)
CheckInviteeWrong(w) ==
  LET p == tx[w].person IN
  /\ At(w, {"invite"}, "invitee")
  /\ p \notin Active
  /\ \A i \in Pending : invites[i].person # p
  /\ Proceed(w, "commit")

(* create_invitation: not on the team, deactivated or not, and not invited. *)
CheckInvitee(w) ==
  LET p == tx[w].person IN
  /\ At(w, {"invite"}, "invitee")
  /\ members[p] = None
  /\ \A i \in Pending : invites[i].person # p
  /\ Proceed(w, "commit")

-----------------------------------------------------------------------------
End(w) == tx' = [tx EXCEPT ![w] = None]

(* The role is left for later. *)
CommitInviteWrong(w) ==
  /\ At(w, {"invite"}, "commit")
  /\ invites' = [invites EXCEPT ![tx[w].invitation] =
                   [person |-> tx[w].person, role |-> None,
                    accepted |-> FALSE, revoked |-> FALSE, expired |-> FALSE]]
  /\ End(w)
  /\ UNCHANGED members

CommitInvite(w) ==
  /\ At(w, {"invite"}, "commit")
  /\ invites' = [invites EXCEPT ![tx[w].invitation] =
                   [person |-> tx[w].person, role |-> tx[w].wants.role,
                    accepted |-> FALSE, revoked |-> FALSE, expired |-> FALSE]]
  /\ End(w)
  /\ UNCHANGED members

CommitRevoke(w) ==
  /\ At(w, {"revoke"}, "commit")
  /\ invites' = [invites EXCEPT ![tx[w].invitation].revoked = TRUE]
  /\ End(w)
  /\ UNCHANGED members

(* An UPDATE of the fields that differ from what was loaded. *)
Overwritten(row, loaded, wants) ==
  [role   |-> IF loaded.role = wants.role THEN row.role ELSE wants.role,
   active |-> IF loaded.active = wants.active THEN row.active ELSE wants.active]

CommitUpdate(w) ==
  LET t == tx[w] IN
  /\ At(w, {"update"}, "commit")
  /\ members' = [members EXCEPT ![t.person] = Overwritten(@, t.loaded, t.wants)]
  /\ End(w)
  /\ UNCHANGED invites

(* The invitation is not marked. *)
CommitAcceptMarkWrong(w) ==
  /\ At(w, {"accept"}, "commit")
  /\ members' = [members EXCEPT ![tx[w].person] = tx[w].wants]
  /\ End(w)
  /\ UNCHANGED invites

(* A membership that was not there is inserted, under the unique constraint *)
(* on tenant and user.                                                      *)
CommitAccept(w) ==
  LET t == tx[w] IN
  /\ At(w, {"accept"}, "commit")
  /\ \/ /\ t.loaded = None
        /\ members[t.person] = None
        /\ members' = [members EXCEPT ![t.person] = t.wants]
     \/ /\ t.loaded # None
        /\ members' = [members EXCEPT
                         ![t.person] = Overwritten(@, t.loaded, t.wants)]
  /\ invites' = [invites EXCEPT ![t.invitation].accepted = TRUE]
  /\ End(w)

(* A guard refuses (400, 402, 409), a constraint does (500), or the request *)
(* dies.                                                                    *)
Abort(w) ==
  /\ ~Idle(w)
  /\ End(w)
  /\ UNCHANGED <<members, invites>>

(* Seven days pass. *)
Expire(i) ==
  /\ i \in Pending
  /\ invites' = [invites EXCEPT ![i].expired = TRUE]
  /\ UNCHANGED <<members, tx>>

-----------------------------------------------------------------------------
Ask(w) ==
  \/ \E i \in Invitations, p \in People, role \in Roles : BeginInvite(w, i, p, role)
  \/ \E i \in Invitations : BeginAccept(w, i) \/ BeginRevoke(w, i)
  \/ \E p \in People, role \in Roles, active \in BOOLEAN :
       BeginUpdate(w, p, role, active)

Read(w) ==
  \/ CountOwners(w) \/ FindMembership(w) \/ CountMembers(w) \/ CountPending(w)
  \/ CheckInvitee(w)

Write(w) ==
  \/ CommitInvite(w) \/ CommitRevoke(w) \/ CommitUpdate(w) \/ CommitAccept(w)
  \/ Abort(w)

Next ==
  \/ \E w \in Workers : Ask(w) \/ Read(w) \/ Write(w)
  \/ \E i \in Invitations : Expire(i)

Spec == Init /\ [][Next]_vars

-----------------------------------------------------------------------------
Transaction ==
  [kind : {"invite", "accept", "revoke", "update"},
   at : {"membership", "owners", "count", "pending", "invitee", "commit"},
   invitation : Invitations \cup {None}, person : People,
   wants : Standing \cup {None}, loaded : Standing \cup {None}, used : Nat]

TypeOK ==
  /\ members \in [People -> Standing \cup {None}]
  /\ invites \in [Invitations -> Invite \cup {None}]
  /\ tx \in [Workers -> Transaction \cup {None}]

(* "A company can never remove its last active owner": true of requests     *)
(* that come one at a time, false of two that overlap.                      *)
KeepsAnOwner == ActiveOwners # {}

(* "Seat limits per plan, counting pending invitations": members and        *)
(* pending invitations together never need more seats than there are.  True *)
(* of requests that come one at a time, false of two that overlap.          *)
Taken == Cardinality(Active) + Cardinality(Pending)

SeatsRespected == SeatLimit # None => Taken <= SeatLimit

(* How far the race can go: every thread but one may let one more in.       *)
OverbookingIsBounded ==
  SeatLimit # None => Taken < SeatLimit + Cardinality(Workers)

(* One person is invited at most once at a time, and nobody who has a       *)
(* membership is: the rest of accept_invitation relies on it, for an        *)
(* invitation overwrites the role of the membership it finds.               *)
InviteesAreNew ==
  /\ \A i \in Pending : members[invites[i].person] = None
  /\ \A i, k \in Pending : invites[i].person = invites[k].person => i = k

(* Redeeming an invitation and joining the team are one step: nobody joins  *)
(* but by an invitation of their own, redeemed then and with its role, and  *)
(* none is redeemed without its person being on the team from then on, if   *)
(* not active (accept_invitation marks the one and writes the other in one  *)
(* transaction).                                                            *)
JoinsByInvitation ==
  [][/\ \A p \in People :
          members[p] = None /\ members'[p] # None =>
            \E i \in Sent : /\ ~invites[i].accepted
                            /\ invites'[i].accepted
                            /\ invites[i].person = p
                            /\ members'[p] = [role |-> invites[i].role, active |-> TRUE]
     /\ \A i \in Sent :
          ~invites[i].accepted /\ invites'[i].accepted =>
            members'[invites[i].person] # None]_vars
=============================================================================
