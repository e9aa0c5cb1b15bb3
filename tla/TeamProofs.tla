----------------------------- MODULE TeamProofs -----------------------------
(***************************************************************************)
(* What holds of every team, however many people, invitations, seats and   *)
(* threads there are.  Only the last section is about requests that come   *)
(* one at a time.                                                          *)
(***************************************************************************)
EXTENDS Team, FiniteSetTheorems, TLAPS

-----------------------------------------------------------------------------
(* What a transaction carries, and what of it stays true under the others.  *)

(* An invitation that is to be sent is not there yet; one that is redeemed  *)
(* or revoked is, with the person and the role it is redeemed with; a       *)
(* membership that was found is still there.                                *)
CarriesFacts(w) ==
  LET t == tx[w] IN
  /\ t.kind = "invite" => /\ t.invitation \in Invitations \ Sent
                          /\ t.wants \in Standing /\ t.wants.active
  /\ t.kind = "accept" => /\ t.invitation \in Sent
                          /\ t.person = invites[t.invitation].person
                          /\ t.wants = [role |-> invites[t.invitation].role,
                                        active |-> TRUE]
  /\ t.kind = "revoke" => t.invitation \in Sent
  /\ t.kind = "update" => t.wants \in Standing /\ t.loaded # None
  /\ t.loaded # None => members[t.person] # None

(* No two requests are about to send the same invitation. *)
NewOnesApart ==
  \A v, w \in Workers :
    /\ v # w /\ ~Idle(v) /\ ~Idle(w)
    /\ tx[v].kind = "invite"
    => tx[w].invitation # tx[v].invitation

(* Whoever redeemed an invitation has a membership. *)
RedeemedAreMembers ==
  \A i \in Sent : invites[i].accepted => members[invites[i].person] # None

TInv ==
  /\ TypeOK
  /\ \A w \in Workers : ~Idle(w) => CarriesFacts(w)
  /\ NewOnesApart
  /\ RedeemedAreMembers

(* Rows are never removed, and an invitation keeps its person and its role  *)
(* and stays redeemed.                                                      *)
RowsStay ==
  /\ \A p \in People : members[p] # None => members'[p] # None
  /\ \A i \in Sent :
       /\ invites'[i] # None
       /\ invites'[i].person = invites[i].person
       /\ invites'[i].role = invites[i].role
       /\ invites[i].accepted => invites'[i].accepted

(* What a transaction carries stays true under a step of somebody else that *)
(* does not send its invitation.                                            *)
LEMMA FactsStay ==
  ASSUME TInv, NEW v \in Workers, ~Idle(v), RowsStay, tx'[v] = tx[v],
         tx[v].kind = "invite" => tx[v].invitation \notin Sent'
  PROVE  CarriesFacts(v)'
<1> DEFINE t == tx[v]
<1>1. CarriesFacts(v) /\ t \in Transaction /\ tx'[v] = t
  BY DEF TInv, TypeOK, Idle
<1>2. t.person \in People
  BY <1>1 DEF Transaction
<1>3. ASSUME t.kind \in {"accept", "revoke"}
      PROVE  /\ t.invitation \in Sent /\ t.invitation \in Sent'
             /\ invites'[t.invitation].person = invites[t.invitation].person
             /\ invites'[t.invitation].role = invites[t.invitation].role
  BY <1>1, <1>3 DEF CarriesFacts, RowsStay, Sent
<1> HIDE DEF t
<1>4. t.loaded # None => members'[t.person] # None
  BY <1>1, <1>2 DEF CarriesFacts, RowsStay, t
<1>5. t.kind = "invite" => t.invitation \in Invitations \ Sent'
  BY <1>1 DEF CarriesFacts, t
<1> QED BY <1>1, <1>3, <1>4, <1>5 DEF CarriesFacts, t

(* So a step of one worker keeps the invariant if what it makes of its own  *)
(* transaction and of the rows does.                                        *)
LEMMA StepKeeps ==
  ASSUME TInv, NEW w \in Workers, RowsStay, TypeOK', RedeemedAreMembers',
         \A v \in Workers \ {w} : tx'[v] = tx[v],
         ~Idle(w)' => CarriesFacts(w)',
         \/ Sent' \subseteq Sent
         \/ /\ ~Idle(w) /\ tx[w].kind = "invite"
            /\ Sent' \subseteq Sent \cup {tx[w].invitation},
         ~Idle(w)' =>
           \A v \in Workers \ {w} :
             ~Idle(v) /\ (tx[v].kind = "invite" \/ tx'[w].kind = "invite")
               => tx'[w].invitation # tx[v].invitation
  PROVE  TInv'
<1>1. ASSUME NEW v \in Workers, ~Idle(v)', v # w
      PROVE  CarriesFacts(v)'
  <2>1. tx'[v] = tx[v] /\ ~Idle(v)
    BY <1>1 DEF Idle
  <2>2. tx[v].kind = "invite" => tx[v].invitation \notin Sent'
    BY <1>1, <2>1 DEF TInv, NewOnesApart, CarriesFacts
  <2> QED BY <2>1, <2>2, FactsStay
<1>2. NewOnesApart'
  BY DEF TInv, NewOnesApart, Idle
<1> QED BY <1>1, <1>2 DEF TInv

(* A request begins with what it carries. *)
LEMMA AskKeeps ==
  ASSUME TInv, NEW w \in Workers, Ask(w)
  PROVE  TInv'
<1>1. CASE \E i \in Invitations, p \in People, role \in Roles : BeginInvite(w, i, p, role)
  <2>1. PICK i \in Invitations, p \in People, role \in Roles : BeginInvite(w, i, p, role)
    BY <1>1
  <2> DEFINE new == [kind |-> "invite", at |-> "count", invitation |-> i, person |-> p,
                   wants |-> [role |-> role, active |-> TRUE], loaded |-> None,
                   used |-> 0]
  <2>2. /\ i \notin Sent /\ Idle(w) /\ tx' = [tx EXCEPT ![w] = new]
        /\ UNCHANGED <<members, invites>>
        /\ \A v \in Workers : ~Idle(v) => tx[v].invitation # i
    BY <2>1 DEF BeginInvite, Begin
  <2>3. new \in Transaction
    BY DEF Transaction, Standing
  <2>4. /\ RowsStay /\ TypeOK' /\ RedeemedAreMembers' /\ Sent' = Sent
        /\ \A v \in Workers \ {w} : tx'[v] = tx[v]
    BY <2>2, <2>3 DEF TInv, TypeOK, RowsStay, RedeemedAreMembers, Sent
  <2>5. /\ tx'[w].kind = "invite" /\ tx'[w].invitation = i /\ tx'[w].loaded = None
        /\ tx'[w].wants = [role |-> role, active |-> TRUE]
    BY <2>2 DEF TInv, TypeOK
  <2> HIDE DEF new
  <2>6. CarriesFacts(w)'
    <3>1. tx'[w].wants \in Standing /\ tx'[w].wants.active
      BY <2>5 DEF Standing
    <3>2. i \in Invitations \ Sent'
      BY <2>2, <2>4
    <3> QED BY <2>5, <3>1, <3>2 DEF CarriesFacts
  <2>7. \A v \in Workers \ {w} : ~Idle(v) => tx'[w].invitation # tx[v].invitation
    BY <2>2, <2>5
  <2> QED BY <2>4, <2>6, <2>7, StepKeeps
<1>2. ASSUME NEW i \in Invitations, BeginAccept(w, i)
      PROVE  TInv'
  <2> DEFINE new == [kind |-> "accept", at |-> "membership", invitation |-> i,
                   person |-> invites[i].person,
                   wants |-> [role |-> invites[i].role, active |-> TRUE],
                   loaded |-> None, used |-> 0]
  <2>1. /\ i \in Sent /\ Idle(w) /\ tx' = [tx EXCEPT ![w] = new]
        /\ UNCHANGED <<members, invites>>
    BY <1>2 DEF BeginAccept, Begin, Pending
  <2>2. invites[i] \in Invite
    BY <2>1 DEF TInv, TypeOK, Sent
  <2>3. new \in Transaction
    BY <2>2 DEF Transaction, Standing, Invite
  <2>4. /\ RowsStay /\ TypeOK' /\ RedeemedAreMembers' /\ Sent' = Sent
        /\ \A v \in Workers \ {w} : tx'[v] = tx[v]
    BY <2>1, <2>3 DEF TInv, TypeOK, RowsStay, RedeemedAreMembers, Sent
  <2>5. /\ tx'[w].kind = "accept" /\ tx'[w].invitation = i /\ tx'[w].loaded = None
        /\ tx'[w].person = invites[i].person
        /\ tx'[w].wants = [role |-> invites[i].role, active |-> TRUE]
    BY <2>1 DEF TInv, TypeOK
  <2> HIDE DEF new
  <2>6. CarriesFacts(w)'
    BY <2>1, <2>4, <2>5 DEF CarriesFacts
  <2>7. \A v \in Workers \ {w} : ~Idle(v) /\ tx[v].kind = "invite"
          => tx'[w].invitation # tx[v].invitation
    BY <2>1, <2>5 DEF TInv, CarriesFacts
  <2> QED BY <2>4, <2>5, <2>6, <2>7, StepKeeps
<1>3. ASSUME NEW i \in Invitations, BeginRevoke(w, i)
      PROVE  TInv'
  <2> DEFINE new == [kind |-> "revoke", at |-> "commit", invitation |-> i,
                   person |-> invites[i].person,
                   wants |-> None, loaded |-> None, used |-> 0]
  <2>1. /\ i \in Sent /\ Idle(w) /\ tx' = [tx EXCEPT ![w] = new]
        /\ UNCHANGED <<members, invites>>
    BY <1>3 DEF BeginRevoke, Begin
  <2>2. invites[i] \in Invite
    BY <2>1 DEF TInv, TypeOK, Sent
  <2>3. new \in Transaction
    BY <2>2 DEF Transaction, Invite
  <2>4. /\ RowsStay /\ TypeOK' /\ RedeemedAreMembers' /\ Sent' = Sent
        /\ \A v \in Workers \ {w} : tx'[v] = tx[v]
    BY <2>1, <2>3 DEF TInv, TypeOK, RowsStay, RedeemedAreMembers, Sent
  <2>5. /\ tx'[w].kind = "revoke" /\ tx'[w].invitation = i /\ tx'[w].loaded = None
    BY <2>1 DEF TInv, TypeOK
  <2> HIDE DEF new
  <2>6. CarriesFacts(w)'
    BY <2>1, <2>4, <2>5 DEF CarriesFacts
  <2>7. \A v \in Workers \ {w} : ~Idle(v) /\ tx[v].kind = "invite"
          => tx'[w].invitation # tx[v].invitation
    BY <2>1, <2>5 DEF TInv, CarriesFacts
  <2> QED BY <2>4, <2>5, <2>6, <2>7, StepKeeps
<1>4. ASSUME NEW p \in People, NEW role \in Roles, NEW active \in BOOLEAN,
             BeginUpdate(w, p, role, active)
      PROVE  TInv'
  <2>1. PICK at \in {"owners", "count", "commit"} :
          Begin(w, [kind |-> "update", at |-> at, invitation |-> None, person |-> p,
                    wants |-> [role |-> role, active |-> active],
                    loaded |-> members[p], used |-> 0])
    BY <1>4 DEF BeginUpdate
  <2> DEFINE new == [kind |-> "update", at |-> at, invitation |-> None, person |-> p,
                   wants |-> [role |-> role, active |-> active],
                   loaded |-> members[p], used |-> 0]
  <2>2. /\ members[p] # None /\ tx' = [tx EXCEPT ![w] = new]
        /\ UNCHANGED <<members, invites>>
    BY <1>4, <2>1 DEF BeginUpdate, Begin
  <2>3. new \in Transaction
    BY <2>2 DEF Transaction, Standing, TInv, TypeOK
  <2>4. /\ RowsStay /\ TypeOK' /\ RedeemedAreMembers' /\ Sent' = Sent
        /\ \A v \in Workers \ {w} : tx'[v] = tx[v]
    BY <2>2, <2>3 DEF TInv, TypeOK, RowsStay, RedeemedAreMembers, Sent
  <2>5. /\ tx'[w].kind = "update" /\ tx'[w].invitation = None
        /\ tx'[w].person = p /\ tx'[w].loaded = members[p]
        /\ tx'[w].wants = [role |-> role, active |-> active]
    BY <2>2 DEF TInv, TypeOK
  <2> HIDE DEF new
  <2>6. CarriesFacts(w)'
    BY <2>2, <2>5 DEF CarriesFacts, Standing
  <2>7. \A v \in Workers \ {w} : ~Idle(v) /\ tx[v].kind = "invite"
          => tx'[w].invitation # tx[v].invitation
    BY <2>5, WorkersAssumption DEF TInv, CarriesFacts
  <2> QED BY <2>4, <2>5, <2>6, <2>7, StepKeeps
<1> QED BY <1>1, <1>2, <1>3, <1>4 DEF Ask

(* A statement that reads leaves the rows and all but what was read and     *)
(* where the request is.                                                    *)
LEMMA ReadActs ==
  ASSUME TypeOK, NEW w \in Workers, Read(w)
  PROVE  /\ ~Idle(w) /\ tx[w] \in Transaction
         /\ UNCHANGED <<members, invites>>
         /\ tx'[w] \in Transaction
         /\ tx' = [tx EXCEPT ![w] = tx'[w]]
         /\ tx'[w].kind = tx[w].kind /\ tx'[w].invitation = tx[w].invitation
         /\ tx'[w].person = tx[w].person /\ tx'[w].wants = tx[w].wants
         /\ tx'[w].loaded \in {tx[w].loaded, members[tx[w].person]}
<1>1. CASE CountOwners(w)
  <2>1. PICK at \in {"count", "commit"} : Proceed(w, at)
    BY <1>1 DEF CountOwners
  <2>2. ~Idle(w) /\ tx[w] \in Transaction
    BY <1>1 DEF CountOwners, At, TypeOK, Idle
  <2> QED BY <2>1, <2>2 DEF Proceed, Transaction, TypeOK
<1>2. CASE FindMembership(w)
  <2>1. ~Idle(w) /\ tx[w] \in Transaction
    BY <1>2 DEF FindMembership, At, TypeOK, Idle
  <2>2. PICK at \in {"commit", "count"} :
          tx' = [tx EXCEPT ![w].loaded = members[tx[w].person], ![w].at = at]
    BY <1>2 DEF FindMembership
  <2>3. members[tx[w].person] \in Standing \cup {None}
    BY <2>1 DEF TypeOK, Transaction
  <2>4. UNCHANGED <<members, invites>>
    BY <1>2 DEF FindMembership
  <2>5. tx'[w] = [tx[w] EXCEPT !.loaded = members[tx[w].person], !.at = at]
    BY <2>1, <2>2 DEF TypeOK
  <2>6. tx' = [tx EXCEPT ![w] = tx'[w]]
    BY <2>2 DEF TypeOK
  <2> QED BY <2>1, <2>3, <2>4, <2>5, <2>6 DEF Transaction
<1>3. CASE CountMembers(w)
  <2>1. ~Idle(w) /\ tx[w] \in Transaction
    BY <1>3 DEF CountMembers, At, TypeOK, Idle
  <2>2. Cardinality(Active) \in Nat
    BY TeamIsFinite, FS_Subset, FS_CardinalityType DEF Active
  <2>3. tx'[w] = [tx[w] EXCEPT !.used = Cardinality(Active), !.at = "pending"]
    BY <1>3, <2>1 DEF CountMembers, TypeOK
  <2>4. tx' = [tx EXCEPT ![w] = tx'[w]] /\ UNCHANGED <<members, invites>>
    BY <1>3 DEF CountMembers, TypeOK
  <2> QED BY <2>1, <2>2, <2>3, <2>4 DEF Transaction
<1>4. CASE CountPending(w)
  <2>1. PICK at \in {"invitee", "commit"} : Proceed(w, at)
    BY <1>4 DEF CountPending
  <2>2. ~Idle(w) /\ tx[w] \in Transaction
    BY <1>4 DEF CountPending, At, TypeOK, Idle
  <2> QED BY <2>1, <2>2 DEF Proceed, Transaction, TypeOK
<1>5. CASE CheckInvitee(w)
  <2>1. Proceed(w, "commit")
    BY <1>5 DEF CheckInvitee
  <2>2. ~Idle(w) /\ tx[w] \in Transaction
    BY <1>5 DEF CheckInvitee, At, TypeOK, Idle
  <2> QED BY <2>1, <2>2 DEF Proceed, Transaction, TypeOK
<1> QED BY <1>1, <1>2, <1>3, <1>4, <1>5 DEF Read

(* So reading keeps the invariant. *)
LEMMA ReadKeeps ==
  ASSUME TInv, NEW w \in Workers, Read(w)
  PROVE  TInv'
<1>1. /\ ~Idle(w) /\ tx[w] \in Transaction
      /\ UNCHANGED <<members, invites>>
      /\ tx'[w] \in Transaction
      /\ tx' = [tx EXCEPT ![w] = tx'[w]]
      /\ tx'[w].kind = tx[w].kind /\ tx'[w].invitation = tx[w].invitation
      /\ tx'[w].person = tx[w].person /\ tx'[w].wants = tx[w].wants
      /\ tx'[w].loaded \in {tx[w].loaded, members[tx[w].person]}
  BY ReadActs DEF TInv
<1>2. /\ RowsStay /\ TypeOK' /\ RedeemedAreMembers' /\ Sent' = Sent
      /\ \A v \in Workers \ {w} : tx'[v] = tx[v]
  BY <1>1 DEF TInv, TypeOK, RowsStay, RedeemedAreMembers, Sent
<1>3. CarriesFacts(w)'
  BY <1>1, <1>2 DEF TInv, CarriesFacts
<1>4. \A v \in Workers \ {w} :
        ~Idle(v) /\ (tx[v].kind = "invite" \/ tx'[w].kind = "invite")
          => tx'[w].invitation # tx[v].invitation
  BY <1>1 DEF TInv, NewOnesApart
<1> QED BY <1>2, <1>3, <1>4, StepKeeps

(* Writing over a membership leaves a membership. *)
LEMMA OverwrittenType ==
  ASSUME NEW row \in Standing, NEW loaded \in Standing, NEW wants \in Standing
  PROVE  /\ Overwritten(row, loaded, wants) \in Standing
         /\ Overwritten(row, loaded, wants).active
              = (IF loaded.active = wants.active THEN row.active ELSE wants.active)
         /\ Overwritten(row, loaded, wants).role
              = (IF loaded.role = wants.role THEN row.role ELSE wants.role)
BY DEF Overwritten, Standing

(* The end of a request leaves nothing of it. *)
LEMMA EndActs ==
  ASSUME TypeOK, NEW w \in Workers, End(w)
  PROVE  /\ tx' \in [Workers -> Transaction \cup {None}]
         /\ Idle(w)'
         /\ \A v \in Workers \ {w} : tx'[v] = tx[v]
BY DEF TypeOK, End, Idle

(* What is written is rows of their type, and an invitation that is redeemed *)
(* has its member.                                                          *)
LEMMA WriteKeeps ==
  ASSUME TInv, NEW w \in Workers, Write(w)
  PROVE  TInv' /\ RowsStay
<1> DEFINE t == tx[w]
<1>1. TypeOK /\ RedeemedAreMembers
  BY DEF TInv
<1>2. CASE CommitInvite(w)
  <2>1. /\ ~Idle(w) /\ t.kind = "invite" /\ t \in Transaction /\ End(w)
        /\ CarriesFacts(w) /\ members' = members
    BY <1>2 DEF CommitInvite, At, TInv, TypeOK, Idle
  <2>2. t.invitation \in Invitations \ Sent /\ t.wants \in Standing /\ t.person \in People
    BY <2>1 DEF CarriesFacts, Transaction
  <2> DEFINE row == [person |-> t.person, role |-> t.wants.role,
                     accepted |-> FALSE, revoked |-> FALSE, expired |-> FALSE]
  <2>3. row \in Invite
    BY <2>2 DEF Invite, Standing
  <2>4. invites' = [invites EXCEPT ![t.invitation] = row]
    BY <1>2 DEF CommitInvite
  <2>5. invites' \in [Invitations -> Invite \cup {None}]
    BY <1>1, <2>3, <2>4 DEF TypeOK
  <2>6. /\ invites'[t.invitation] = row /\ ~row.accepted
        /\ \A i \in Invitations \ {t.invitation} : invites'[i] = invites[i]
    BY <1>1, <2>2, <2>4 DEF TypeOK
  <2>7. ~(invites'[t.invitation]).accepted
    BY <2>6
  <2> HIDE DEF row, t
  <2>8. Sent' \subseteq Sent \cup {t.invitation}
    BY <2>6 DEF Sent
  <2>9. RowsStay
    BY <2>1, <2>2, <2>6 DEF RowsStay, Sent
  <2>10. RedeemedAreMembers'
    BY <1>1, <2>1, <2>6, <2>7, <2>8 DEF RedeemedAreMembers, Sent
  <2>11. TypeOK'
    BY <1>1, <2>1, <2>5, EndActs DEF TypeOK
  <2>12. Idle(w)' /\ \A v \in Workers \ {w} : tx'[v] = tx[v]
    BY <1>1, <2>1, EndActs
  <2> QED BY <2>1, <2>8, <2>9, <2>10, <2>11, <2>12, StepKeeps DEF t
<1>3. CASE CommitRevoke(w)
  <2>1. /\ ~Idle(w) /\ t.kind = "revoke" /\ End(w)
        /\ CarriesFacts(w) /\ members' = members
    BY <1>3 DEF CommitRevoke, At, TInv
  <2>2. t.invitation \in Sent
    BY <2>1 DEF CarriesFacts
  <2>3. invites' = [invites EXCEPT ![t.invitation].revoked = TRUE]
    BY <1>3 DEF CommitRevoke
  <2> HIDE DEF t
  <2>4. invites[t.invitation] \in Invite
    BY <1>1, <2>2 DEF TypeOK, Sent
  <2>5. /\ invites'[t.invitation] = [invites[t.invitation] EXCEPT !.revoked = TRUE]
        /\ \A i \in Invitations \ {t.invitation} : invites'[i] = invites[i]
    BY <1>1, <2>2, <2>3 DEF TypeOK, Sent
  <2>6. /\ invites'[t.invitation] \in Invite
        /\ invites'[t.invitation].person = invites[t.invitation].person
        /\ invites'[t.invitation].role = invites[t.invitation].role
        /\ invites'[t.invitation].accepted = invites[t.invitation].accepted
    BY <2>4, <2>5 DEF Invite
  <2>7. invites' \in [Invitations -> Invite \cup {None}]
    BY <1>1, <2>2, <2>3, <2>5, <2>6 DEF TypeOK
  <2>8. Sent' = Sent /\ RowsStay /\ RedeemedAreMembers'
    BY <1>1, <2>1, <2>2, <2>4, <2>5, <2>6, NoneIsNoInvite
       DEF Sent, RowsStay, RedeemedAreMembers
  <2>9. TypeOK'
    BY <1>1, <2>1, <2>7, EndActs DEF TypeOK
  <2>10. Idle(w)' /\ \A v \in Workers \ {w} : tx'[v] = tx[v]
    BY <1>1, <2>1, EndActs
  <2> QED BY <2>8, <2>9, <2>10, StepKeeps
<1>4. CASE CommitUpdate(w)
  <2>1. /\ ~Idle(w) /\ t.kind = "update" /\ t \in Transaction /\ End(w)
        /\ CarriesFacts(w) /\ invites' = invites
    BY <1>4 DEF CommitUpdate, At, TInv, TypeOK, Idle
  <2>2. /\ t.wants \in Standing /\ t.loaded \in Standing /\ t.person \in People
        /\ members[t.person] \in Standing
    BY <1>1, <2>1 DEF CarriesFacts, Transaction, TypeOK
  <2>3. members' = [members EXCEPT ![t.person] =
                      Overwritten(members[t.person], t.loaded, t.wants)]
    BY <1>4 DEF CommitUpdate
  <2> HIDE DEF t
  <2>4. Overwritten(members[t.person], t.loaded, t.wants) \in Standing
    BY <2>2, OverwrittenType
  <2>5. Overwritten(members[t.person], t.loaded, t.wants) # None
    BY <2>4, WorkersAssumption DEF Standing
  <2>6. members' \in [People -> Standing \cup {None}] /\ RowsStay
    BY <1>1, <2>1, <2>2, <2>3, <2>4, <2>5 DEF TypeOK, RowsStay, Sent
  <2>7. Sent' = Sent /\ RedeemedAreMembers'
    <3>1. \A i \in Sent : invites[i].person \in People
      BY <1>1 DEF TypeOK, Sent, Invite
    <3> QED BY <1>1, <2>1, <2>6, <3>1 DEF Sent, RowsStay, RedeemedAreMembers
  <2>8. TypeOK'
    BY <1>1, <2>1, <2>6, EndActs DEF TypeOK
  <2>9. Idle(w)' /\ \A v \in Workers \ {w} : tx'[v] = tx[v]
    BY <1>1, <2>1, EndActs
  <2> QED BY <2>6, <2>7, <2>8, <2>9, StepKeeps
<1>5. CASE CommitAccept(w)
  <2>1. /\ ~Idle(w) /\ t.kind = "accept" /\ t \in Transaction /\ End(w)
        /\ CarriesFacts(w)
    BY <1>5 DEF CommitAccept, At, TInv, TypeOK, Idle
  <2>2. /\ t.invitation \in Sent /\ t.invitation \in Invitations
        /\ t.person \in People /\ t.person = invites[t.invitation].person
        /\ t.wants \in Standing
        /\ t.loaded # None => t.loaded \in Standing /\ members[t.person] \in Standing
    <3>1. /\ t.invitation \in Sent /\ t.person = invites[t.invitation].person
          /\ t.wants = [role |-> invites[t.invitation].role, active |-> TRUE]
          /\ t.loaded # None => members[t.person] # None
      BY <2>1 DEF CarriesFacts
    <3>2. t.person \in People /\ t.loaded \in Standing \cup {None}
      BY <2>1 DEF Transaction
    <3>3. t.invitation \in Invitations /\ invites[t.invitation] \in Invite
      BY <1>1, <3>1 DEF TypeOK, Sent
    <3> HIDE DEF t
    <3>4. t.wants \in Standing
      BY <3>1, <3>3 DEF Standing, Invite
    <3> QED BY <1>1, <3>1, <3>2, <3>3, <3>4 DEF TypeOK
  <2>3. PICK row \in Standing : members' = [members EXCEPT ![t.person] = row]
    <3>1. CASE t.loaded = None
      BY <1>5, <2>2, <3>1 DEF CommitAccept
    <3>2. CASE t.loaded # None
      <4>1. Overwritten(members[t.person], t.loaded, t.wants) \in Standing
        BY <2>2, <3>2, OverwrittenType
      <4> QED BY <1>5, <3>2, <4>1 DEF CommitAccept
    <3> QED BY <3>1, <3>2
  <2>4. invites' = [invites EXCEPT ![t.invitation].accepted = TRUE]
    BY <1>5 DEF CommitAccept
  <2> HIDE DEF t
  <2>5. row # None
    BY WorkersAssumption DEF Standing
  <2>6. /\ members' \in [People -> Standing \cup {None}]
        /\ \A p \in People : members[p] # None => members'[p] # None
        /\ members'[t.person] # None
    BY <1>1, <2>2, <2>3, <2>5 DEF TypeOK
  <2>7. invites[t.invitation] \in Invite
    BY <1>1, <2>2 DEF TypeOK, Sent
  <2>8. /\ invites'[t.invitation] = [invites[t.invitation] EXCEPT !.accepted = TRUE]
        /\ \A i \in Invitations \ {t.invitation} : invites'[i] = invites[i]
    BY <1>1, <2>2, <2>4 DEF TypeOK
  <2>9. /\ invites'[t.invitation] \in Invite
        /\ invites'[t.invitation].person = invites[t.invitation].person
        /\ invites'[t.invitation].role = invites[t.invitation].role
        /\ invites'[t.invitation].accepted
    BY <2>7, <2>8 DEF Invite
  <2>10. invites' \in [Invitations -> Invite \cup {None}]
    BY <1>1, <2>2, <2>4, <2>8, <2>9 DEF TypeOK
  <2>11. Sent' = Sent /\ RowsStay
    <3>1. \A i \in Invitations \ {t.invitation} : i \in Sent' <=> i \in Sent
      BY <2>8 DEF Sent
    <3>2. t.invitation \in Sent'
      BY <2>2, <2>9, NoneIsNoInvite DEF Sent
    <3>3. Sent' = Sent
      BY <2>2, <3>1, <3>2 DEF Sent
    <3>4. \A i \in Sent \ {t.invitation} : invites'[i] = invites[i]
      BY <2>8 DEF Sent
    <3> QED BY <2>2, <2>6, <2>9, <3>3, <3>4 DEF RowsStay, Sent
  <2>12. RedeemedAreMembers'
    <3>1. \A i \in Sent : invites[i].person \in People
      BY <1>1 DEF TypeOK, Sent, Invite
    <3>2. ASSUME NEW i \in Sent', i # t.invitation, invites'[i].accepted
          PROVE  members'[invites'[i].person] # None
      <4>1. i \in Sent /\ invites'[i] = invites[i]
        BY <2>8, <2>11, <3>2 DEF Sent
      <4> QED BY <1>1, <2>6, <3>1, <3>2, <4>1 DEF RedeemedAreMembers
    <3>3. members'[invites'[t.invitation].person] # None
      BY <2>2, <2>6, <2>9
    <3> QED BY <3>2, <3>3 DEF RedeemedAreMembers
  <2>13. TypeOK'
    BY <1>1, <2>1, <2>6, <2>10, EndActs DEF TypeOK
  <2>14. Idle(w)' /\ \A v \in Workers \ {w} : tx'[v] = tx[v]
    BY <1>1, <2>1, EndActs
  <2> QED BY <2>11, <2>12, <2>13, <2>14, StepKeeps
<1>6. CASE Abort(w)
  <2>1. End(w) /\ UNCHANGED <<members, invites>>
    BY <1>6 DEF Abort
  <2>2. Idle(w)' /\ \A v \in Workers \ {w} : tx'[v] = tx[v]
    BY <1>1, <2>1, EndActs
  <2>3. TypeOK' /\ Sent' = Sent /\ RowsStay /\ RedeemedAreMembers'
    BY <1>1, <2>1, EndActs DEF TypeOK, Sent, RowsStay, RedeemedAreMembers
  <2> QED BY <2>2, <2>3, StepKeeps
<1> QED BY <1>2, <1>3, <1>4, <1>5, <1>6 DEF Write

(* That an invitation runs out concerns nobody. *)
LEMMA ExpireKeeps ==
  ASSUME TInv, NEW i \in Invitations, Expire(i)
  PROVE  TInv' /\ RowsStay
<1>1. /\ TypeOK /\ RedeemedAreMembers /\ i \in Sent
      /\ UNCHANGED <<members, tx>>
      /\ invites' = [invites EXCEPT ![i].expired = TRUE]
  BY DEF Expire, Pending, TInv
<1>0. invites[i] \in Invite
  BY <1>1 DEF TypeOK, Sent
<1>2. /\ invites'[i] = [invites[i] EXCEPT !.expired = TRUE]
      /\ \A k \in Invitations \ {i} : invites'[k] = invites[k]
  BY <1>1 DEF TypeOK
<1>3. /\ invites'[i] \in Invite
      /\ invites'[i].person = invites[i].person
      /\ invites'[i].role = invites[i].role
      /\ invites'[i].accepted = invites[i].accepted
  BY <1>0, <1>2 DEF Invite
<1>4. invites' \in [Invitations -> Invite \cup {None}]
  BY <1>1, <1>2, <1>3 DEF TypeOK
<1>5. Sent' = Sent /\ RowsStay /\ RedeemedAreMembers'
  <2>1. Sent' = Sent
    BY <1>1, <1>2, <1>3, NoneIsNoInvite DEF Sent
  <2>2. \A k \in Sent : /\ invites'[k].person = invites[k].person
                        /\ invites'[k].role = invites[k].role
                        /\ invites'[k].accepted = invites[k].accepted
    BY <1>2, <1>3 DEF Sent
  <2> QED BY <1>1, <2>1, <2>2 DEF RowsStay, RedeemedAreMembers, Sent
<1>6. TypeOK' /\ NewOnesApart'
  BY <1>1, <1>4 DEF TInv, TypeOK, NewOnesApart, Idle
<1>7. ASSUME NEW v \in Workers, ~Idle(v)'
      PROVE  CarriesFacts(v)'
  <2>1. ~Idle(v) /\ tx'[v] = tx[v]
    BY <1>1, <1>7 DEF Idle
  <2>2. tx[v].kind = "invite" => tx[v].invitation \notin Sent'
    BY <1>5, <2>1 DEF TInv, CarriesFacts
  <2> QED BY <1>5, <2>1, <2>2, FactsStay
<1> QED BY <1>5, <1>6, <1>7 DEF TInv

(* Nothing is open when a company signs up. *)
LEMMA TInvInit == Init => TInv
<1> SUFFICES ASSUME Init PROVE TInv
  OBVIOUS
<1>1. /\ \A w \in Workers : Idle(w)
      /\ Sent = {}
  BY DEF Init, Idle, Sent
<1>2. TypeOK
  BY PeopleAssumption, RolesAssumption DEF Init, TypeOK, Standing
<1> QED BY <1>1, <1>2 DEF TInv, NewOnesApart, RedeemedAreMembers

(* Every step keeps the invariant and the rows. *)
LEMMA TInvStep ==
  ASSUME TInv, [Next]_vars
  PROVE  TInv' /\ RowsStay
<1>1. CASE UNCHANGED vars
  <2>1. /\ members' = members /\ invites' = invites /\ tx' = tx
    BY <1>1 DEF vars
  <2>2. TInv'
    BY <2>1 DEF TInv, TypeOK, CarriesFacts, NewOnesApart, RedeemedAreMembers, Sent, Idle
  <2>3. RowsStay
    BY <2>1 DEF RowsStay, Sent
  <2> QED BY <2>2, <2>3
<1>2. ASSUME NEW w \in Workers, Ask(w)
      PROVE  TInv' /\ RowsStay
  <2>1. members' = members /\ invites' = invites
    BY <1>2 DEF Ask, BeginInvite, BeginAccept, BeginRevoke, BeginUpdate, Begin
  <2>2. RowsStay
    BY <2>1 DEF RowsStay, Sent
  <2> QED BY <1>2, <2>2, AskKeeps
<1>3. ASSUME NEW w \in Workers, Read(w)
      PROVE  TInv' /\ RowsStay
  <2>1. members' = members /\ invites' = invites
    BY <1>3, ReadActs DEF TInv
  <2>2. RowsStay
    BY <2>1 DEF RowsStay, Sent
  <2> QED BY <1>3, <2>2, ReadKeeps
<1> QED BY <1>1, <1>2, <1>3, WriteKeeps, ExpireKeeps DEF Next

(* Types hold, and what the requests carry, of every team. *)
THEOREM TypeCorrect == Spec => []TypeOK
<1>1. TInv /\ [Next]_vars => TInv'
  BY TInvStep
<1>2. TInv => TypeOK
  BY DEF TInv
<1> QED BY <1>1, <1>2, TInvInit, PTL DEF Spec

(* A step that is not a write leaves the memberships. *)
LEMMA WritersOfMembers ==
  ASSUME TypeOK, [Next]_vars, members' # members
  PROVE  \E w \in Workers : CommitUpdate(w) \/ CommitAccept(w)
<1>1. [Next]_vars /\ ~UNCHANGED vars => Next
  OBVIOUS
<1>2. ~UNCHANGED vars
  BY DEF vars
<1>3. \A i \in Invitations : ~Expire(i)
  BY DEF Expire
<1>4. PICK w \in Workers : Ask(w) \/ Read(w) \/ Write(w)
  BY <1>1, <1>2, <1>3 DEF Next
<1>5. ~Ask(w)
  BY DEF Ask, BeginInvite, BeginAccept, BeginRevoke, BeginUpdate, Begin
<1>6. ~Read(w)
  BY ReadActs
<1>7. ~CommitInvite(w) /\ ~CommitRevoke(w) /\ ~Abort(w)
  BY DEF CommitInvite, CommitRevoke, Abort
<1> QED BY <1>4, <1>5, <1>6, <1>7 DEF Write

(* Redeeming an invitation and joining the team are one step, however many  *)
(* requests overlap: whoever joins redeems an invitation of their own, for  *)
(* the first time and with its role, and whoever redeems one is on the team *)
(* (accept_invitation writes both in one transaction).                      *)
THEOREM JoiningIsRedeeming == Spec => JoinsByInvitation
<1> DEFINE Joins ==
      /\ \A p \in People :
           members[p] = None /\ members'[p] # None =>
             \E i \in Sent : /\ ~invites[i].accepted
                             /\ invites'[i].accepted
                             /\ invites[i].person = p
                             /\ members'[p] = [role |-> invites[i].role, active |-> TRUE]
      /\ \A i \in Sent :
           ~invites[i].accepted /\ invites'[i].accepted =>
             members'[invites[i].person] # None
<1>1. ASSUME TInv, [Next]_vars
      PROVE  Joins
  <2>1. ASSUME NEW p \in People, members[p] = None, members'[p] # None
        PROVE  \E i \in Sent : /\ ~invites[i].accepted
                               /\ invites'[i].accepted
                               /\ invites[i].person = p
                               /\ members'[p] = [role |-> invites[i].role,
                                                 active |-> TRUE]
    <3>1. PICK w \in Workers : CommitUpdate(w) \/ CommitAccept(w)
      BY <1>1, <2>1, WritersOfMembers DEF TInv
    <3> DEFINE t == tx[w]
    <3>2. TypeOK /\ CarriesFacts(w) /\ t \in Transaction
      BY <1>1, <3>1 DEF TInv, TypeOK, CommitUpdate, CommitAccept, At, Idle
    <3>3. t.person = p /\ t.loaded = None
      <4>1. p = t.person
        BY <2>1, <3>1, <3>2 DEF CommitUpdate, CommitAccept, TypeOK
      <4> QED BY <2>1, <3>2, <4>1 DEF CarriesFacts
    <3>4. CommitAccept(w) /\ t.kind = "accept"
      BY <3>1, <3>2, <3>3 DEF CommitUpdate, CommitAccept, At, CarriesFacts
    <3>5. /\ t.invitation \in Sent /\ t.person = invites[t.invitation].person
          /\ t.wants = [role |-> invites[t.invitation].role, active |-> TRUE]
      BY <3>2, <3>4 DEF CarriesFacts
    <3>6. /\ members' = [members EXCEPT ![t.person] = t.wants]
          /\ invites' = [invites EXCEPT ![t.invitation].accepted = TRUE]
      BY <3>3, <3>4 DEF CommitAccept
    <3> HIDE DEF t
    <3>7. members'[p] = t.wants
      BY <2>1, <3>2, <3>3, <3>6 DEF TypeOK
    <3>8. invites[t.invitation] \in Invite
      BY <3>2, <3>5 DEF TypeOK, Sent
    <3>9. invites'[t.invitation] = [invites[t.invitation] EXCEPT !.accepted = TRUE]
      BY <3>2, <3>5, <3>6 DEF TypeOK, Sent
    <3>10. invites'[t.invitation].accepted
      BY <3>8, <3>9 DEF Invite
    <3>11. ~invites[t.invitation].accepted
      BY <1>1, <2>1, <3>3, <3>5 DEF TInv, RedeemedAreMembers
    <3> QED BY <3>3, <3>5, <3>7, <3>10, <3>11
  <2>2. ASSUME NEW i \in Sent, ~invites[i].accepted, invites'[i].accepted
        PROVE  members'[invites[i].person] # None
    <3>1. TInv' /\ RowsStay
      BY <1>1, TInvStep
    <3>2. i \in Sent' /\ invites'[i].person = invites[i].person
      BY <3>1 DEF RowsStay, Sent
    <3> QED BY <2>2, <3>1, <3>2 DEF TInv, RedeemedAreMembers
  <2> QED BY <2>1, <2>2
<1>2. TInv /\ [Next]_vars => TInv'
  BY TInvStep
<1>3. TInv /\ [Next]_vars => [Joins]_vars
  BY <1>1
<1> QED BY <1>2, <1>3, TInvInit, PTL DEF Spec, JoinsByInvitation

-----------------------------------------------------------------------------
(* The race for the last seats, between any number of threads.              *)
(*                                                                         *)
(* Only a request that has passed the check, or is in the middle of it with *)
(* a count that is out of date, can let somebody in beyond the limit.  One  *)
(* that is let in is one such request less, and a check that passes makes   *)
(* none: to pass when k seats too many are taken, its count must have been  *)
(* k + 1 seats out of date.  So the requests that are still dangerous when  *)
(* k seats too many are taken, and the k of the past, are fewer than all.   *)

(* The request would add a member or an invitation: it has passed the check *)
(* of seats, or will not come to it. *)
Adds(w) ==
  \/ At(w, {"invite"}, "invitee")
  \/ At(w, {"invite"}, "commit")
  \/ At(w, {"update"}, "commit") /\ tx[w].wants.active /\ ~tx[w].loaded.active
  \/ At(w, {"accept"}, "commit") /\ (tx[w].loaded = None \/ ~tx[w].loaded.active)

(* The invitation that is redeemed is pending, and its seat reserved. *)
BringsOwnSeat(w) == tx[w].kind = "accept" /\ tx[w].invitation \in Pending

(* Between the two counts, with the first one more than k members behind. *)
FarBehind(w, k) == /\ At(w, {"invite", "accept", "update"}, "pending")
                   /\ tx[w].used + k < Cardinality(Active)

Dangerous(k) ==
  {w \in Workers :
     \/ FarBehind(w, k)
     \/ Adds(w) /\ (BringsOwnSeat(w) => SeatLimit + k < Taken)}

RaceInv ==
  SeatLimit # None =>
    \A k \in Nat :
      SeatLimit + k <= Taken => Cardinality(Dangerous(k)) + k < Cardinality(Workers)

(* Sets of people, of invitations and of threads are finite ...             *)
LEMMA PartsAreFinite ==
  ASSUME NEW S, S \subseteq People \/ S \subseteq Invitations \/ S \subseteq Workers
  PROVE  IsFiniteSet(S) /\ Cardinality(S) \in Nat
<1>1. CASE S \subseteq People
  BY <1>1, TeamIsFinite, FS_Subset, FS_CardinalityType
<1>2. CASE S \subseteq Invitations
  BY <1>2, TeamIsFinite, FS_Subset, FS_CardinalityType
<1>3. CASE S \subseteq Workers
  BY <1>3, TeamIsFinite, FS_Subset, FS_CardinalityType
<1> QED BY <1>1, <1>2, <1>3

(* ... so what is counted is numbers, before and after a step.              *)
LEMMA Countable ==
  /\ IsFiniteSet(Active) /\ Cardinality(Active) \in Nat
  /\ IsFiniteSet(Pending) /\ Cardinality(Pending) \in Nat
  /\ Taken \in Nat /\ Taken = Cardinality(Active) + Cardinality(Pending)
  /\ \A k : IsFiniteSet(Dangerous(k)) /\ Cardinality(Dangerous(k)) \in Nat
<1>1. Active \subseteq People /\ Pending \subseteq Invitations
  BY DEF Active, Pending, Sent
<1>2. \A k : Dangerous(k) \subseteq Workers
  BY DEF Dangerous
<1> QED BY <1>1, <1>2, PartsAreFinite DEF Taken

(* The same after a step. *)
LEMMA CountableNext ==
  /\ IsFiniteSet(Active') /\ Cardinality(Active') \in Nat
  /\ IsFiniteSet(Pending') /\ Cardinality(Pending') \in Nat
  /\ Taken' \in Nat /\ Taken' = Cardinality(Active') + Cardinality(Pending')
  /\ \A k \in Nat : IsFiniteSet(Dangerous(k)') /\ Cardinality(Dangerous(k)') \in Nat
<1>1. Active' \subseteq People /\ Pending' \subseteq Invitations
  BY DEF Active, Pending, Sent
<1>2. \A k \in Nat : Dangerous(k)' \subseteq Workers
  BY DEF Dangerous
<1> QED BY <1>1, <1>2, PartsAreFinite DEF Taken

(* How the size of a set follows its elements. *)
LEMMA Sizes ==
  ASSUME NEW S, IsFiniteSet(S)
  PROVE  /\ \A T \in SUBSET S : Cardinality(T) <= Cardinality(S)
         /\ \A x : \A T \in SUBSET (S \cup {x}) : Cardinality(T) <= Cardinality(S) + 1
         /\ \A x \in S : \A T \in SUBSET (S \ {x}) : Cardinality(T) + 1 <= Cardinality(S)
<1>1. Cardinality(S) \in Nat
  BY FS_CardinalityType
<1>2. ASSUME NEW T \in SUBSET S
      PROVE  Cardinality(T) <= Cardinality(S)
  BY FS_Subset
<1>3. ASSUME NEW x, NEW T \in SUBSET (S \cup {x})
      PROVE  Cardinality(T) <= Cardinality(S) + 1
  <2>1. /\ IsFiniteSet(S \cup {x})
        /\ Cardinality(S \cup {x}) <= Cardinality(S) + 1
    BY <1>1, FS_AddElement
  <2>2. IsFiniteSet(T) /\ Cardinality(T) <= Cardinality(S \cup {x})
    BY <2>1, FS_Subset
  <2>3. Cardinality(T) \in Nat /\ Cardinality(S \cup {x}) \in Nat
    BY <2>1, <2>2, FS_CardinalityType
  <2> QED BY <1>1, <2>1, <2>2, <2>3
<1>4. ASSUME NEW x \in S, NEW T \in SUBSET (S \ {x})
      PROVE  Cardinality(T) + 1 <= Cardinality(S)
  <2>1. /\ IsFiniteSet(S \ {x})
        /\ Cardinality(S \ {x}) = Cardinality(S) - 1
    BY FS_RemoveElement
  <2>2. IsFiniteSet(T) /\ Cardinality(T) <= Cardinality(S \ {x})
    BY <2>1, FS_Subset
  <2>3. Cardinality(T) \in Nat
    BY <2>2, FS_CardinalityType
  <2> QED BY <1>1, <2>1, <2>2, <2>3
<1> QED BY <1>2, <1>3, <1>4

(* A request that waits while d members are added is not more dangerous     *)
(* than it was, counted d seats earlier.                                    *)
LEMMA StillDangerous ==
  ASSUME TypeOK, SeatLimit \in Nat, NEW d \in {0, 1}, NEW k \in Nat, d <= k,
         SeatLimit + k <= Taken', Taken' <= Taken + d,
         Cardinality(Active') <= Cardinality(Active) + d,
         Pending \subseteq Pending' \/ Taken' < Taken + d,
         NEW v \in Workers, tx'[v] = tx[v], v \in Dangerous(k)'
  PROVE  v \in Dangerous(k - d)
<1>1. /\ Taken \in Nat /\ Cardinality(Active) \in Nat
      /\ Taken' \in Nat /\ Cardinality(Active') \in Nat
  BY Countable, CountableNext
<1>2. CASE FarBehind(v, k)'
  <2>1. /\ At(v, {"invite", "accept", "update"}, "pending")
        /\ tx[v].used + k < Cardinality(Active') /\ tx[v].used \in Nat
    BY <1>2 DEF FarBehind, At, Idle, TypeOK, Transaction
  <2>2. FarBehind(v, k - d)
    BY <1>1, <2>1 DEF FarBehind
  <2> QED BY <2>2 DEF Dangerous
<1>3. CASE Adds(v)' /\ (BringsOwnSeat(v)' => SeatLimit + k < Taken')
  <2>1. Adds(v)
    BY <1>3 DEF Adds, At, Idle
  <2>2. ASSUME BringsOwnSeat(v) PROVE SeatLimit + (k - d) < Taken
    <3>1. CASE BringsOwnSeat(v)'
      BY <1>1, <1>3, <3>1
    <3>2. CASE ~BringsOwnSeat(v)'
      <4>1. ~(Pending \subseteq Pending')
        BY <2>2, <3>2 DEF BringsOwnSeat
      <4> QED BY <1>1, <4>1
    <3> QED BY <3>1, <3>2
  <2> QED BY <2>1, <2>2 DEF Dangerous
<1> QED BY <1>2, <1>3 DEF Dangerous

(* A step that adds nobody makes nobody more dangerous. *)
LEMMA NoneMore ==
  ASSUME RaceInv, SeatLimit \in Nat, Taken' <= Taken,
         \A k \in Nat : SeatLimit + k <= Taken' => Dangerous(k)' \subseteq Dangerous(k)
  PROVE  RaceInv'
<1> SUFFICES ASSUME NEW k \in Nat, SeatLimit + k <= Taken'
             PROVE  Cardinality(Dangerous(k)') + k < Cardinality(Workers)
  BY DEF RaceInv
<1>1. SeatLimit + k <= Taken
  BY Countable, CountableNext
<1>2. Cardinality(Dangerous(k)) + k < Cardinality(Workers)
  BY <1>1, SeatAssumption DEF RaceInv
<1>3. Cardinality(Dangerous(k)') <= Cardinality(Dangerous(k))
  BY Countable, Sizes
<1> QED BY <1>2, <1>3, Countable, CountableNext, PartsAreFinite

(* A step that adds one is the end of one that was dangerous. *)
LEMMA OneLess ==
  ASSUME RaceInv, SeatLimit \in Nat, Taken' <= Taken + 1, NEW w \in Workers,
         \A k \in Nat : w \notin Dangerous(k)',
         \A k \in Nat : k > 0 /\ SeatLimit + k <= Taken' =>
           Dangerous(k)' \subseteq Dangerous(k - 1) /\ w \in Dangerous(k - 1)
  PROVE  RaceInv'
<1> SUFFICES ASSUME NEW k \in Nat, SeatLimit + k <= Taken'
             PROVE  Cardinality(Dangerous(k)') + k < Cardinality(Workers)
  BY DEF RaceInv
<1>1. Cardinality(Dangerous(k)') \in Nat /\ Cardinality(Workers) \in Nat
  BY CountableNext, PartsAreFinite
<1>2. CASE k = 0
  <2>1. Dangerous(k)' \in SUBSET (Workers \ {w})
    BY DEF Dangerous
  <2>2. Cardinality(Dangerous(k)') + 1 <= Cardinality(Workers)
    BY <2>1, TeamIsFinite, Sizes
  <2> QED BY <1>1, <1>2, <2>2
<1>3. CASE k > 0
  <2>1. /\ k - 1 \in Nat /\ SeatLimit + (k - 1) <= Taken
    BY <1>3, Countable, CountableNext
  <2>2. Cardinality(Dangerous(k - 1)) + (k - 1) < Cardinality(Workers)
    BY <2>1, SeatAssumption DEF RaceInv
  <2>3. Dangerous(k)' \in SUBSET (Dangerous(k - 1) \ {w}) /\ w \in Dangerous(k - 1)
    BY <1>3
  <2>4. Cardinality(Dangerous(k)') + 1 <= Cardinality(Dangerous(k - 1))
    BY <2>3, Countable, Sizes
  <2>5. Cardinality(Dangerous(k - 1)) \in Nat
    BY Countable
  <2> QED BY <1>1, <2>2, <2>4, <2>5
<1> QED BY <1>2, <1>3

(* So a step of one worker that adds nobody keeps the bound if the worker    *)
(* does not become dangerous by it ...                                      *)
LEMMA HarmlessKeeps ==
  ASSUME TypeOK, RaceInv, SeatLimit \in Nat, NEW w \in Workers,
         \A v \in Workers \ {w} : tx'[v] = tx[v],
         Taken' <= Taken, Cardinality(Active') <= Cardinality(Active),
         Pending \subseteq Pending' \/ Taken' < Taken,
         \A k \in Nat : SeatLimit + k <= Taken' /\ w \in Dangerous(k)' => w \in Dangerous(k)
  PROVE  RaceInv'
<1>1. ASSUME NEW k \in Nat, SeatLimit + k <= Taken', NEW v \in Dangerous(k)'
      PROVE  v \in Dangerous(k)
  <2>1. CASE v = w
    BY <1>1, <2>1
  <2>2. CASE v # w
    <3>1. v \in Workers \ {w}
      BY <1>1, <2>2 DEF Dangerous
    <3>2. /\ Taken \in Nat /\ Taken' \in Nat
          /\ Cardinality(Active) \in Nat /\ Cardinality(Active') \in Nat
      BY Countable, CountableNext
    <3>3. /\ Taken' <= Taken + 0 /\ Cardinality(Active') <= Cardinality(Active) + 0
          /\ Pending \subseteq Pending' \/ Taken' < Taken + 0
          /\ 0 <= k /\ k - 0 = k
      BY <3>2
    <3>4. v \in Dangerous(k - 0)
      BY <1>1, <3>1, <3>3, StillDangerous
    <3> QED BY <3>3, <3>4
  <2> QED BY <2>1, <2>2
<1> QED BY <1>1, NoneMore

(* ... and one that adds one keeps it if it is the end of a request that has *)
(* passed the check.                                                        *)
LEMMA CommitKeeps ==
  ASSUME TypeOK, RaceInv, SeatLimit \in Nat, NEW w \in Workers,
         \A v \in Workers \ {w} : tx'[v] = tx[v],
         Taken' <= Taken + 1, Cardinality(Active') <= Cardinality(Active) + 1,
         Pending \subseteq Pending' \/ Taken' < Taken + 1,
         Adds(w), Idle(w)', BringsOwnSeat(w) => Taken' < Taken + 1
  PROVE  RaceInv'
<1>1. /\ Taken \in Nat /\ Taken' \in Nat
  BY Countable, CountableNext
<1>2. ASSUME NEW k \in Nat
      PROVE  w \notin Dangerous(k)'
  BY DEF Dangerous, FarBehind, Adds, At
<1>3. ASSUME NEW k \in Nat, k > 0, SeatLimit + k <= Taken'
      PROVE  Dangerous(k)' \subseteq Dangerous(k - 1) /\ w \in Dangerous(k - 1)
  <2>1. w \in Dangerous(k - 1)
    BY <1>1, <1>3 DEF Dangerous
  <2>2. ASSUME NEW v \in Dangerous(k)'
        PROVE  v \in Dangerous(k - 1)
    <3>1. v \in Workers \ {w}
      BY <1>2, <1>3, <2>2 DEF Dangerous
    <3>2. 1 <= k
      BY <1>3
    <3> QED BY <1>3, <3>1, <3>2, StillDangerous
  <2> QED BY <2>1, <2>2
<1> QED BY <1>2, <1>3, OneLess

(* A request that has only begun, or that leaves without a trace, is not     *)
(* dangerous.                                                               *)
LEMMA AskRaces ==
  ASSUME TInv, RaceInv, SeatLimit \in Nat, NEW w \in Workers, Ask(w)
  PROVE  RaceInv'
<1>1. TypeOK
  BY DEF TInv
<1>2. PICK t : tx' = [tx EXCEPT ![w] = t]
  BY DEF Ask, BeginInvite, BeginAccept, BeginRevoke, BeginUpdate, Begin
<1>3. members' = members /\ invites' = invites
  BY DEF Ask, BeginInvite, BeginAccept, BeginRevoke, BeginUpdate, Begin
<1>4. Active' = Active /\ Pending' = Pending /\ Taken' = Taken
  BY <1>3 DEF Active, Pending, Sent, Taken
<1>5. \A v \in Workers \ {w} : tx'[v] = tx[v]
  BY <1>1, <1>2 DEF TypeOK
<1>6. ~At(w, {"invite", "accept", "update"}, "pending")' /\ ~Adds(w)'
  <2>1. CASE \E i \in Invitations, p \in People, role \in Roles : BeginInvite(w, i, p, role)
    <3>1. tx'[w].kind = "invite" /\ tx'[w].at = "count"
      BY <1>1, <2>1 DEF BeginInvite, Begin, TypeOK
    <3> QED BY <3>1 DEF At, Adds
  <2>2. ASSUME NEW i \in Invitations, BeginAccept(w, i)
        PROVE  ~At(w, {"invite", "accept", "update"}, "pending")' /\ ~Adds(w)'
    <3>1. tx'[w].kind = "accept" /\ tx'[w].at = "membership"
      BY <1>1, <2>2 DEF BeginAccept, Begin, TypeOK
    <3> QED BY <3>1 DEF At, Adds
  <2>3. ASSUME NEW i \in Invitations, BeginRevoke(w, i)
        PROVE  ~At(w, {"invite", "accept", "update"}, "pending")' /\ ~Adds(w)'
    <3>1. tx'[w].kind = "revoke" /\ tx'[w].at = "commit"
      BY <1>1, <2>3 DEF BeginRevoke, Begin, TypeOK
    <3> QED BY <3>1 DEF At, Adds
  <2>4. ASSUME NEW p \in People, NEW role \in Roles, NEW active \in BOOLEAN,
               BeginUpdate(w, p, role, active)
        PROVE  ~At(w, {"invite", "accept", "update"}, "pending")' /\ ~Adds(w)'
    <3>1. /\ tx'[w].kind = "update" /\ tx'[w].at \in {"owners", "count", "commit"}
          /\ tx'[w].wants.active = active /\ tx'[w].loaded = members[p]
      BY <1>1, <2>4 DEF BeginUpdate, Begin, TypeOK
    <3>2. tx'[w].at = "commit" => ~(active /\ ~members[p].active)
      BY <1>1, <2>4 DEF BeginUpdate, Begin, TypeOK
    <3> QED BY <3>1, <3>2 DEF At, Adds
  <2> QED BY <2>1, <2>2, <2>3, <2>4 DEF Ask
<1>7. \A k \in Nat : w \notin Dangerous(k)'
  BY <1>6 DEF Dangerous, FarBehind
<1>8. /\ Taken' <= Taken /\ Cardinality(Active') <= Cardinality(Active)
      /\ Pending \subseteq Pending'
  BY <1>4, Countable
<1> QED BY <1>1, <1>5, <1>7, <1>8, HarmlessKeeps

(* The check lets nobody become dangerous: when k seats too many are taken,  *)
(* a count that is not more than k members behind does not pass it.         *)
LEMMA ReadRaces ==
  ASSUME TInv, RaceInv, SeatLimit \in Nat, NEW w \in Workers, Read(w)
  PROVE  RaceInv'
<1> DEFINE t == tx[w]
<1>1. /\ TypeOK /\ ~Idle(w) /\ t \in Transaction /\ CarriesFacts(w)
      /\ UNCHANGED <<members, invites>>
      /\ tx' = [tx EXCEPT ![w] = tx'[w]]
  BY ReadActs DEF TInv
<1>2. /\ tx'[w].kind = t.kind /\ tx'[w].invitation = t.invitation
      /\ tx'[w].wants = t.wants
  BY <1>1, ReadActs
<1>3. Active' = Active /\ Pending' = Pending /\ Taken' = Taken
  BY <1>1 DEF Active, Pending, Sent, Taken
<1>4. \A v \in Workers \ {w} : tx'[v] = tx[v]
  BY <1>1 DEF TypeOK
<1>5. /\ Taken \in Nat /\ Taken = Cardinality(Active) + Cardinality(Pending)
      /\ Cardinality(Active) \in Nat /\ Cardinality(Pending) \in Nat
      /\ t.used \in Nat /\ IsFiniteSet(Pending)
  BY <1>1, Countable DEF Transaction
<1> HIDE DEF t
<1>6. ASSUME NEW k \in Nat, SeatLimit + k <= Taken', w \in Dangerous(k)'
      PROVE  w \in Dangerous(k)
  <2>1. CASE CountOwners(w)
    <3>1. /\ t.kind = "update"
          /\ tx'[w].at = (IF t.wants.active /\ ~t.loaded.active THEN "count" ELSE "commit")
          /\ tx'[w].loaded = t.loaded
      BY <1>1, <2>1 DEF CountOwners, Proceed, At, TypeOK, Transaction, t
    <3>2. ~FarBehind(w, k)' /\ ~Adds(w)'
      BY <1>2, <3>1 DEF FarBehind, Adds, At
    <3> QED BY <1>6, <3>2 DEF Dangerous
  <2>2. CASE FindMembership(w)
    <3>1. /\ t.kind = "accept"
          /\ tx'[w].at = (IF t.person \in Active THEN "commit" ELSE "count")
          /\ tx'[w].loaded = members[t.person]
      BY <1>1, <2>2 DEF FindMembership, At, TypeOK, Transaction, t
    <3>2. ~FarBehind(w, k)' /\ ~Adds(w)'
      BY <1>2, <3>1 DEF FarBehind, Adds, At, Active
    <3> QED BY <1>6, <3>2 DEF Dangerous
  <2>3. CASE CountMembers(w)
    <3>1. tx'[w].at = "pending" /\ tx'[w].used = Cardinality(Active)
      BY <1>1, <2>3 DEF CountMembers, TypeOK, Transaction, t
    <3>2. ~FarBehind(w, k)' /\ ~Adds(w)'
      BY <1>3, <1>5, <3>1 DEF FarBehind, Adds, At
    <3> QED BY <1>6, <3>2 DEF Dangerous
  <2>4. CASE CountPending(w)
    <3> DEFINE own == IF t.kind = "accept" THEN {t.invitation} ELSE {}
    <3>1. /\ At(w, {"invite", "accept", "update"}, "pending")
          /\ Room(t.used, Cardinality(Pending \ own))
          /\ tx'[w].at \in {"invitee", "commit"}
      BY <1>1, <2>4 DEF CountPending, Proceed, TypeOK, Transaction, t
    <3>2. t.used + Cardinality(Pending \ own) + 1 <= SeatLimit
      BY <3>1, SeatAssumption DEF Room
    <3>3. w \in Workers /\ Adds(w)' /\ (BringsOwnSeat(w)' => SeatLimit + k < Taken')
      BY <1>6, <3>1 DEF Dangerous, FarBehind, At
    <3>4. CASE BringsOwnSeat(w)'
      <4>1. own = {t.invitation} /\ t.invitation \in Pending
        BY <1>2, <1>3, <3>4 DEF BringsOwnSeat
      <4>2. Cardinality(Pending \ own) = Cardinality(Pending) - 1
        BY <1>5, <4>1, FS_RemoveElement
      <4>3. SeatLimit + k < Taken
        BY <1>3, <3>3, <3>4
      <4>4. t.used + k < Cardinality(Active)
        <5> HIDE DEF own
        <5> QED BY <1>5, <3>2, <4>2, <4>3
      <4> QED BY <3>1, <4>4 DEF Dangerous, FarBehind, t
    <3>5. CASE ~BringsOwnSeat(w)'
      <4>1. Pending \ own = Pending
        BY <1>2, <1>3, <3>5 DEF BringsOwnSeat
      <4>2. t.used + k < Cardinality(Active)
        <5>1. Cardinality(Pending \ own) = Cardinality(Pending)
          BY <4>1
        <5>2. SeatLimit + k <= Taken
          BY <1>3, <1>6
        <5> HIDE DEF own
        <5> QED BY <1>5, <3>2, <5>1, <5>2
      <4> QED BY <3>1, <4>2 DEF Dangerous, FarBehind, t
    <3> QED BY <3>4, <3>5
  <2>5. CASE CheckInvitee(w)
    <3>1. At(w, {"invite"}, "invitee") /\ ~BringsOwnSeat(w)
      BY <2>5 DEF CheckInvitee, At, BringsOwnSeat
    <3> QED BY <3>1 DEF Dangerous, Adds
  <2> QED BY <2>1, <2>2, <2>3, <2>4, <2>5 DEF Read
<1>7. /\ Taken' <= Taken /\ Cardinality(Active') <= Cardinality(Active)
      /\ Pending \subseteq Pending'
  BY <1>3, <1>5
<1> QED BY <1>1, <1>4, <1>6, <1>7, HarmlessKeeps

(* Who is on the team after one membership is written. *)
LEMMA ActiveAfter ==
  ASSUME TypeOK, NEW p \in People, NEW row,
         members' = [members EXCEPT ![p] = row]
  PROVE  /\ Active' \subseteq Active \cup {p}
         /\ (row # None /\ row.active => p \in Active) => Active' \subseteq Active
BY DEF Active, TypeOK

(* Which invitations are pending after one that was sent is marked. *)
LEMMA PendingAfter ==
  ASSUME TypeOK, NEW i \in Sent, NEW row \in Invite,
         row.accepted \/ row.revoked \/ row.expired,
         invites' = [invites EXCEPT ![i] = row]
  PROVE  Pending' = Pending \ {i}
<1>1. i \in Invitations /\ invites'[i] = row
      /\ \A k \in Invitations \ {i} : invites'[k] = invites[k]
  BY DEF TypeOK, Sent
<1>2. \A k \in Invitations \ {i} : k \in Pending' <=> k \in Pending
  BY <1>1 DEF Pending, Sent
<1>3. i \notin Pending'
  BY <1>1 DEF Pending
<1> QED BY <1>2, <1>3 DEF Pending, Sent

(* Fewer of them are fewer seats that are taken, if nobody joins. *)
LEMMA FewerPending ==
  ASSUME NEW i, Pending' = Pending \ {i}, NEW d \in {0, 1},
         Cardinality(Active') <= Cardinality(Active) + d
  PROVE  /\ Taken' <= Taken + d
         /\ Pending \subseteq Pending' \/ Taken' < Taken + d
         /\ i \in Pending => Taken' < Taken + d
<1>1. /\ Cardinality(Active) \in Nat /\ Cardinality(Pending) \in Nat
      /\ Taken = Cardinality(Active) + Cardinality(Pending)
      /\ Cardinality(Active') \in Nat /\ Cardinality(Pending') \in Nat
      /\ Taken' = Cardinality(Active') + Cardinality(Pending')
  BY Countable, CountableNext
<1>2. CASE i \in Pending
  <2>1. Cardinality(Pending') = Cardinality(Pending) - 1
    BY <1>2, Countable, FS_RemoveElement
  <2>2. Taken' <= Taken + d /\ Taken' < Taken + d
    BY <1>1, <2>1
  <2> QED BY <2>2
<1>3. CASE i \notin Pending
  <2>1. Pending' = Pending
    BY <1>3
  <2>2. Cardinality(Pending') = Cardinality(Pending)
    BY <2>1
  <2>3. Taken' <= Taken + d
    BY <1>1, <2>2
  <2> QED BY <1>3, <2>1, <2>3
<1> QED BY <1>2, <1>3

(* Whoever lets somebody in was dangerous, and is no more. *)
LEMMA WriteRaces ==
  ASSUME TInv, RaceInv, SeatLimit \in Nat, NEW w \in Workers, Write(w)
  PROVE  RaceInv'
<1> DEFINE t == tx[w]
<1>1. /\ TypeOK /\ ~Idle(w) /\ t \in Transaction /\ CarriesFacts(w)
  BY DEF TInv, TypeOK, Idle, Write, CommitInvite, CommitRevoke, CommitUpdate,
         CommitAccept, Abort, At
<1>2. End(w)
  BY DEF Write, CommitInvite, CommitRevoke, CommitUpdate, CommitAccept, Abort
<1>3. Idle(w)' /\ \A v \in Workers \ {w} : tx'[v] = tx[v]
  BY <1>1, <1>2, EndActs
<1>4. \A k \in Nat : w \notin Dangerous(k)'
  BY <1>3 DEF Dangerous, FarBehind, Adds, At
<1>5. /\ IsFiniteSet(Active) /\ Cardinality(Active) \in Nat
      /\ IsFiniteSet(Pending) /\ Cardinality(Pending) \in Nat
      /\ Taken = Cardinality(Active) + Cardinality(Pending)
      /\ Cardinality(Active') \in Nat /\ Cardinality(Pending') \in Nat
      /\ Taken' = Cardinality(Active') + Cardinality(Pending')
  BY Countable, CountableNext
<1> HIDE DEF t
<1>6. CASE CommitInvite(w)
  <2>1. /\ At(w, {"invite"}, "commit") /\ t.kind = "invite" /\ members' = members
        /\ t.invitation \in Invitations \ Sent
    BY <1>1, <1>6 DEF CommitInvite, At, CarriesFacts, t
  <2>2. \A i \in Invitations \ {t.invitation} : invites'[i] = invites[i]
    BY <1>1, <1>6 DEF CommitInvite, TypeOK, t
  <2>3. Pending' \subseteq Pending \cup {t.invitation} /\ Pending \subseteq Pending'
    BY <2>1, <2>2 DEF Pending, Sent
  <2>4. Active' = Active
    BY <2>1 DEF Active
  <2>5. Cardinality(Pending') <= Cardinality(Pending) + 1
    BY <1>5, <2>3, Sizes
  <2>6. Cardinality(Active') = Cardinality(Active)
    BY <2>4
  <2>7. /\ Taken' <= Taken + 1 /\ Cardinality(Active') <= Cardinality(Active) + 1
    BY <1>5, <2>5, <2>6
  <2>8. Adds(w) /\ ~BringsOwnSeat(w)
    BY <2>1 DEF Adds, BringsOwnSeat, t
  <2> QED BY <1>1, <1>3, <2>3, <2>7, <2>8, CommitKeeps
<1>7. CASE CommitRevoke(w)
  <2> DEFINE row == [invites[t.invitation] EXCEPT !.revoked = TRUE]
  <2>1. /\ members' = members /\ t.invitation \in Sent
        /\ invites' = [invites EXCEPT ![t.invitation].revoked = TRUE]
    BY <1>1, <1>7 DEF CommitRevoke, At, CarriesFacts, t
  <2>2. invites[t.invitation] \in Invite
    BY <1>1, <2>1 DEF TypeOK, Sent
  <2>3. row \in Invite /\ row.revoked
    BY <2>2 DEF Invite
  <2>4. invites' = [invites EXCEPT ![t.invitation] = row]
    BY <2>1
  <2> HIDE DEF row
  <2>5. Pending' = Pending \ {t.invitation}
    BY <1>1, <2>1, <2>3, <2>4, PendingAfter
  <2>6. Cardinality(Active') = Cardinality(Active)
    BY <2>1 DEF Active
  <2>7. /\ 0 \in {0, 1} /\ Cardinality(Active') <= Cardinality(Active) + 0
    BY <1>5, <2>6
  <2>8. Taken' <= Taken + 0 /\ (Pending \subseteq Pending' \/ Taken' < Taken + 0)
    BY <2>5, <2>7, FewerPending
  <2>9. /\ Taken' <= Taken /\ Cardinality(Active') <= Cardinality(Active)
        /\ Pending \subseteq Pending' \/ Taken' < Taken
    BY <1>5, <2>7, <2>8
  <2> QED BY <1>1, <1>3, <1>4, <2>9, HarmlessKeeps
<1>8. CASE CommitUpdate(w)
  <2>1. /\ At(w, {"update"}, "commit") /\ t.kind = "update" /\ invites' = invites
        /\ t.loaded \in Standing /\ t.wants \in Standing /\ t.person \in People
        /\ members[t.person] # None
    BY <1>1, <1>8 DEF CommitUpdate, At, CarriesFacts, Transaction, t
  <2> DEFINE row == Overwritten(members[t.person], t.loaded, t.wants)
  <2>2. members' = [members EXCEPT ![t.person] = row]
    BY <1>8 DEF CommitUpdate, t
  <2>3. members[t.person] \in Standing
    BY <1>1, <2>1 DEF TypeOK
  <2>4. row.active = (IF t.loaded.active = t.wants.active THEN members[t.person].active
                      ELSE t.wants.active)
    BY <2>1, <2>3, OverwrittenType
  <2> HIDE DEF row
  <2>5. Pending' = Pending
    BY <2>1 DEF Pending, Sent
  <2>6. Cardinality(Pending') = Cardinality(Pending)
    BY <2>5
  <2>7. CASE Adds(w)
    <3>1. Active' \subseteq Active \cup {t.person}
      BY <1>1, <2>1, <2>2, ActiveAfter
    <3>2. Cardinality(Active') <= Cardinality(Active) + 1
      BY <1>5, <3>1, Sizes
    <3>3. Taken' <= Taken + 1
      BY <1>5, <2>6, <3>2
    <3>4. ~BringsOwnSeat(w)
      BY <2>1 DEF BringsOwnSeat, t
    <3> QED BY <1>1, <1>3, <2>5, <2>7, <3>2, <3>3, <3>4, CommitKeeps
  <2>8. CASE ~Adds(w)
    <3>1. ~(t.wants.active /\ ~t.loaded.active)
      BY <2>1, <2>8 DEF Adds, t
    <3>2. row.active => t.person \in Active
      BY <2>1, <2>4, <3>1 DEF Active, Standing
    <3>3. Active' \subseteq Active
      BY <1>1, <2>1, <2>2, <3>2, ActiveAfter
    <3>4. Cardinality(Active') <= Cardinality(Active)
      BY <1>5, <3>3, Sizes
    <3>5. Taken' <= Taken
      BY <1>5, <2>6, <3>4
    <3> QED BY <1>1, <1>3, <1>4, <2>5, <3>4, <3>5, HarmlessKeeps
  <2> QED BY <2>7, <2>8
<1>9. CASE CommitAccept(w)
  <2>1. /\ At(w, {"accept"}, "commit") /\ t.kind = "accept"
        /\ t.invitation \in Sent /\ t.person \in People
        /\ t.loaded # None => t.loaded \in Standing /\ members[t.person] # None
        /\ t.wants = [role |-> invites[t.invitation].role, active |-> TRUE]
        /\ invites' = [invites EXCEPT ![t.invitation].accepted = TRUE]
    BY <1>1, <1>9 DEF CommitAccept, At, CarriesFacts, Transaction, t
  <2>2. invites[t.invitation] \in Invite
    BY <1>1, <2>1 DEF TypeOK, Sent
  <2>3. t.wants \in Standing /\ t.wants.active = TRUE
    BY <2>1, <2>2 DEF Invite, Standing
  <2> DEFINE mark == [invites[t.invitation] EXCEPT !.accepted = TRUE]
  <2>4. mark \in Invite /\ mark.accepted
    BY <2>2 DEF Invite
  <2>5. invites' = [invites EXCEPT ![t.invitation] = mark]
    BY <2>1
  <2> HIDE DEF mark
  <2>6. Pending' = Pending \ {t.invitation}
    BY <1>1, <2>1, <2>4, <2>5, PendingAfter
  <2>7. PICK row : /\ members' = [members EXCEPT ![t.person] = row]
                   /\ t.loaded # None /\ t.loaded.active /\ row.active
                        => t.person \in Active
    <3>1. CASE t.loaded = None
      BY <1>9, <3>1 DEF CommitAccept, t
    <3>2. CASE t.loaded # None
      <4> DEFINE row == Overwritten(members[t.person], t.loaded, t.wants)
      <4>1. members' = [members EXCEPT ![t.person] = row]
        BY <1>9, <3>2 DEF CommitAccept, t
      <4>2. members[t.person] \in Standing /\ t.loaded \in Standing
        BY <1>1, <2>1, <3>2 DEF TypeOK
      <4>3. row.active = (IF t.loaded.active = t.wants.active
                          THEN members[t.person].active ELSE t.wants.active)
        BY <2>3, <4>2, OverwrittenType
      <4> HIDE DEF row
      <4>4. t.loaded.active /\ row.active => t.person \in Active
        BY <2>1, <2>3, <3>2, <4>3 DEF Active, Standing
      <4> QED BY <4>1, <4>4
    <3> QED BY <3>1, <3>2
  <2>8. CASE Adds(w)
    <3>1. Active' \subseteq Active \cup {t.person}
      BY <1>1, <2>1, <2>7, ActiveAfter
    <3>2. Cardinality(Active') <= Cardinality(Active) + 1
      BY <1>5, <3>1, Sizes
    <3>3. /\ Taken' <= Taken + 1
          /\ Pending \subseteq Pending' \/ Taken' < Taken + 1
          /\ t.invitation \in Pending => Taken' < Taken + 1
      BY <2>6, <3>2, FewerPending
    <3>4. BringsOwnSeat(w) => Taken' < Taken + 1
      BY <3>3 DEF BringsOwnSeat, t
    <3> QED BY <1>1, <1>3, <2>8, <3>2, <3>3, <3>4, CommitKeeps
  <2>9. CASE ~Adds(w)
    <3>1. t.loaded # None /\ t.loaded.active
      BY <2>1, <2>9 DEF Adds, t
    <3>2. Active' \subseteq Active
      BY <1>1, <2>1, <2>7, <3>1, ActiveAfter
    <3>3. Cardinality(Active') <= Cardinality(Active)
      BY <1>5, <3>2, Sizes
    <3>4. 0 \in {0, 1} /\ Cardinality(Active') <= Cardinality(Active) + 0
      BY <1>5, <3>3
    <3>5. Taken' <= Taken + 0 /\ (Pending \subseteq Pending' \/ Taken' < Taken + 0)
      BY <2>6, <3>4, FewerPending
    <3>6. Taken' <= Taken /\ (Pending \subseteq Pending' \/ Taken' < Taken)
      BY <1>5, <3>5
    <3> QED BY <1>1, <1>3, <1>4, <3>3, <3>6, HarmlessKeeps
  <2> QED BY <2>8, <2>9
<1>10. CASE Abort(w)
  <2>1. Active' = Active /\ Pending' = Pending /\ Taken' = Taken
    BY <1>10 DEF Abort, Active, Pending, Sent, Taken
  <2>2. /\ Taken' <= Taken /\ Cardinality(Active') <= Cardinality(Active)
        /\ Pending \subseteq Pending'
    BY <1>5, <2>1
  <2> QED BY <1>1, <1>3, <1>4, <2>2, HarmlessKeeps
<1> QED BY <1>6, <1>7, <1>8, <1>9, <1>10 DEF Write

(* A reservation that runs out makes room, and the request that redeems it   *)
(* dangerous - with one seat less to fear for.                              *)
LEMMA ExpireRaces ==
  ASSUME TInv, RaceInv, SeatLimit \in Nat, NEW i \in Invitations, Expire(i)
  PROVE  RaceInv'
<1> DEFINE row == [invites[i] EXCEPT !.expired = TRUE]
<1>1. /\ TypeOK /\ i \in Sent /\ members' = members /\ tx' = tx
      /\ invites' = [invites EXCEPT ![i].expired = TRUE]
  BY DEF Expire, Pending, TInv
<1>2. invites[i] \in Invite
  BY <1>1 DEF TypeOK, Sent
<1>3. row \in Invite /\ row.expired
  BY <1>2 DEF Invite
<1>4. invites' = [invites EXCEPT ![i] = row]
  BY <1>1
<1> HIDE DEF row
<1>5. Pending' = Pending \ {i}
  BY <1>1, <1>3, <1>4, PendingAfter
<1>6. Cardinality(Active') = Cardinality(Active)
  BY <1>1 DEF Active
<1>7. /\ 0 \in {0, 1} /\ Cardinality(Active') <= Cardinality(Active) + 0
      /\ Taken \in Nat /\ Taken' \in Nat
  BY <1>6, Countable, CountableNext
<1>8. Taken' <= Taken + 0 /\ (Pending \subseteq Pending' \/ Taken' < Taken + 0)
  BY <1>5, <1>7, FewerPending
<1>9. ASSUME NEW k \in Nat, SeatLimit + k <= Taken', NEW v \in Dangerous(k)'
      PROVE  v \in Dangerous(k)
  <2>1. v \in Workers /\ tx'[v] = tx[v]
    BY <1>1, <1>9 DEF Dangerous
  <2>2. 0 <= k /\ k - 0 = k
    BY <1>9
  <2>3. v \in Dangerous(k - 0)
    BY <1>1, <1>7, <1>8, <1>9, <2>1, <2>2, StillDangerous
  <2> QED BY <2>2, <2>3
<1>10. Taken' <= Taken
  BY <1>7, <1>8
<1> QED BY <1>9, <1>10, NoneMore

(* Nobody is dangerous when a company signs up, and its owner has a seat. *)
LEMMA RaceInvInit == Init => RaceInv
<1> SUFFICES ASSUME Init, SeatLimit # None, NEW k \in Nat, SeatLimit + k <= Taken
             PROVE  Cardinality(Dangerous(k)) + k < Cardinality(Workers)
  BY DEF RaceInv
<1>1. Active = {Founder} /\ Pending = {}
  <2>1. \A p \in People : p \in Active <=> p = Founder
    <3>1. [role |-> "owner", active |-> TRUE] # None
      <4>1. [role |-> "owner", active |-> TRUE] \in [role : Roles, active : BOOLEAN]
        BY RolesAssumption
      <4> QED BY <4>1, WorkersAssumption
    <3> QED BY <3>1 DEF Init, Active
  <2>2. Active = {Founder}
    BY <2>1, PeopleAssumption DEF Active
  <2>3. Pending = {}
    BY DEF Init, Pending, Sent
  <2> QED BY <2>2, <2>3
<1>2. Taken = 1
  <2>1. Cardinality(Active) = 1
    BY <1>1, FS_Singleton
  <2>2. Cardinality(Pending) = 0
    BY <1>1, FS_EmptySet
  <2> QED BY <2>1, <2>2 DEF Taken
<1>3. Dangerous(k) = {}
  BY DEF Init, Dangerous, FarBehind, Adds, At, Idle
<1>4. k = 0
  BY <1>2, SeatAssumption
<1>5. Cardinality(Dangerous(k)) = 0
  BY <1>3, FS_EmptySet
<1>6. Cardinality(Workers) \in Nat /\ Cardinality(Workers) # 0
  BY TeamIsFinite, FS_EmptySet, PartsAreFinite
<1> QED BY <1>4, <1>5, <1>6

(* Every step keeps the bound on the dangerous requests. *)
LEMMA RaceInvStep ==
  ASSUME TInv, RaceInv, [Next]_vars
  PROVE  RaceInv'
<1>1. CASE SeatLimit = None
  BY <1>1 DEF RaceInv
<1>2. CASE SeatLimit # None
  <2>1. SeatLimit \in Nat
    BY <1>2, SeatAssumption
  <2>2. CASE UNCHANGED vars
    <3>1. members' = members /\ invites' = invites /\ tx' = tx
      BY <2>2 DEF vars
    <3>2. Taken' = Taken /\ Taken \in Nat
      BY <3>1, Countable DEF Taken, Active, Pending, Sent
    <3>3. \A k \in Nat : Dangerous(k)' = Dangerous(k)
      BY <3>1, <3>2 DEF Dangerous, FarBehind, Adds, BringsOwnSeat, At, Idle, Active,
                        Pending, Sent
    <3> QED BY <2>1, <3>2, <3>3, NoneMore
  <2>3. CASE Next
    BY <2>1, <2>3, AskRaces, ReadRaces, WriteRaces, ExpireRaces DEF Next
  <2> QED BY <2>2, <2>3
<1> QED BY <1>1, <1>2

(* Overlapping requests that each find a last seat overbook the plan by at   *)
(* most one seat for every thread but one, however many people, seats and   *)
(* threads there are and whatever else happens in between (the check of     *)
(* assert_seat_available reads two counts and locks neither).               *)
THEOREM RacesAreBounded == Spec => []OverbookingIsBounded
<1>1. TInv /\ RaceInv /\ [Next]_vars => TInv' /\ RaceInv'
  BY TInvStep, RaceInvStep
<1>2. ASSUME RaceInv, SeatLimit # None
      PROVE  Taken < SeatLimit + Cardinality(Workers)
  <2> DEFINE n == Cardinality(Workers)
  <2>1. n \in Nat /\ Taken \in Nat /\ SeatLimit \in Nat
    BY <1>2, Countable, PartsAreFinite, SeatAssumption
  <2>2. Cardinality(Dangerous(n)) \in Nat
    BY Countable
  <2>3. SeatLimit + n <= Taken => Cardinality(Dangerous(n)) + n < n
    BY <1>2, <2>1 DEF RaceInv
  <2> QED BY <2>1, <2>2, <2>3
<1>3. RaceInv => OverbookingIsBounded
  BY <1>2 DEF OverbookingIsBounded
<1> QED BY <1>1, <1>3, TInvInit, RaceInvInit, PTL DEF Spec

-----------------------------------------------------------------------------
(* Requests that come one at a time. *)

OneAtATime == \E w : Workers = {w}

(* The request takes the owner's role or place from somebody who has both,   *)
(* or had the role.                                                         *)
LosesOwner(w) ==
  LET t == tx[w] IN
  /\ t.kind = "update" /\ t.loaded.role = "owner"
  /\ ~t.wants.active \/ t.wants.role # "owner"

(* Nobody else writes what the open request has read: whoever accepts is     *)
(* still new and has no second invitation, whoever is invited is new, what  *)
(* was loaded is what is there, and an owner was counted besides the one    *)
(* that goes.                                                               *)
ReadsStayTrue(w) ==
  LET t == tx[w] IN
  /\ t.kind = "accept" =>
       /\ members[t.person] = None /\ t.loaded = None
       /\ \A i \in Pending \ {t.invitation} : invites[i].person # t.person
  /\ At(w, {"invite"}, "commit") =>
       /\ members[t.person] = None
       /\ \A i \in Pending : invites[i].person # t.person
  /\ t.kind = "update" => t.loaded = members[t.person]
  /\ LosesOwner(w) /\ t.at # "owners" => Cardinality(ActiveOwners) > 1

SerialInv ==
  /\ InviteesAreNew
  /\ KeepsAnOwner
  /\ \A w \in Workers : ~Idle(w) => ReadsStayTrue(w)

(* A request begins with what is there. *)
LEMMA AskIsSerial ==
  ASSUME TInv, SerialInv, NEW w \in Workers, Workers = {w}, Ask(w)
  PROVE  SerialInv'
<1>1. TypeOK /\ members' = members /\ invites' = invites
  BY DEF TInv, Ask, BeginInvite, BeginAccept, BeginRevoke, BeginUpdate, Begin
<1>2. InviteesAreNew' /\ KeepsAnOwner'
  BY <1>1 DEF SerialInv, InviteesAreNew, KeepsAnOwner, ActiveOwners, Active, Pending, Sent
<1>3. Pending' = Pending
  BY <1>1 DEF Pending, Sent
<1>4. ReadsStayTrue(w)'
  <2>1. CASE \E i \in Invitations, p \in People, role \in Roles : BeginInvite(w, i, p, role)
    <3>1. tx'[w].kind = "invite" /\ tx'[w].at = "count"
      BY <1>1, <2>1 DEF BeginInvite, Begin, TypeOK
    <3> QED BY <3>1 DEF ReadsStayTrue, LosesOwner, At
  <2>2. ASSUME NEW i \in Invitations, BeginAccept(w, i)
        PROVE  ReadsStayTrue(w)'
    <3>1. /\ tx'[w].kind = "accept" /\ tx'[w].loaded = None
          /\ tx'[w].invitation = i /\ tx'[w].person = invites[i].person
          /\ i \in Pending
      BY <1>1, <2>2 DEF BeginAccept, Begin, TypeOK
    <3>2. /\ members[invites[i].person] = None
          /\ \A k \in Pending \ {i} : invites[k].person # invites[i].person
      BY <3>1 DEF SerialInv, InviteesAreNew
    <3> QED BY <1>1, <1>3, <3>1, <3>2 DEF ReadsStayTrue, LosesOwner, At
  <2>3. ASSUME NEW i \in Invitations, BeginRevoke(w, i)
        PROVE  ReadsStayTrue(w)'
    <3>1. tx'[w].kind = "revoke"
      BY <1>1, <2>3 DEF BeginRevoke, Begin, TypeOK
    <3> QED BY <3>1 DEF ReadsStayTrue, LosesOwner, At
  <2>4. ASSUME NEW p \in People, NEW role \in Roles, NEW active \in BOOLEAN,
               BeginUpdate(w, p, role, active)
        PROVE  ReadsStayTrue(w)'
    <3>1. /\ tx'[w].kind = "update" /\ tx'[w].person = p
          /\ tx'[w].wants = [role |-> role, active |-> active]
          /\ tx'[w].loaded = members[p]
      BY <1>1, <2>4 DEF BeginUpdate, Begin, TypeOK
    <3>2. members[p].role = "owner" /\ (~active \/ role # "owner")
            => tx'[w].at = "owners"
      BY <1>1, <2>4 DEF BeginUpdate, Begin, TypeOK
    <3>3. LosesOwner(w)' => tx'[w].at = "owners"
      BY <3>1, <3>2 DEF LosesOwner
    <3> QED BY <1>1, <3>1, <3>3 DEF ReadsStayTrue, At
  <2> QED BY <2>1, <2>2, <2>3, <2>4 DEF Ask
<1> QED BY <1>2, <1>4 DEF SerialInv

(* A check that passes makes what it checks true of what will be written. *)
LEMMA ReadIsSerial ==
  ASSUME TInv, SerialInv, NEW w \in Workers, Workers = {w}, Read(w)
  PROVE  SerialInv'
<1> DEFINE t == tx[w]
<1>1. /\ TypeOK /\ ~Idle(w) /\ t \in Transaction /\ ReadsStayTrue(w)
      /\ members' = members /\ invites' = invites
      /\ tx'[w].kind = t.kind /\ tx'[w].invitation = t.invitation
      /\ tx'[w].person = t.person /\ tx'[w].wants = t.wants
  BY ReadActs DEF TInv, SerialInv
<1>2. InviteesAreNew' /\ KeepsAnOwner'
  BY <1>1 DEF SerialInv, InviteesAreNew, KeepsAnOwner, ActiveOwners, Active, Pending, Sent
<1>3. Pending' = Pending /\ ActiveOwners' = ActiveOwners
  BY <1>1 DEF Pending, Sent, ActiveOwners, Active
<1>4. Cardinality(ActiveOwners') = Cardinality(ActiveOwners)
  BY <1>3
<1> HIDE DEF t
<1>5. CASE CountOwners(w)
  <2>1. /\ t.kind = "update" /\ tx'[w].loaded = t.loaded
        /\ Cardinality(ActiveOwners) > 1
    BY <1>1, <1>5 DEF CountOwners, Proceed, At, TypeOK, Transaction, t
  <2>2. ReadsStayTrue(w)'
    BY <1>1, <1>4, <2>1 DEF ReadsStayTrue, At, t
  <2> QED BY <1>2, <2>2 DEF SerialInv
<1>6. CASE FindMembership(w)
  <2>1. t.kind = "accept" /\ tx'[w].loaded = members[t.person]
    BY <1>1, <1>6 DEF FindMembership, At, TypeOK, Transaction, t
  <2>2. ReadsStayTrue(w)'
    BY <1>1, <1>3, <2>1 DEF ReadsStayTrue, At, LosesOwner, t
  <2> QED BY <1>2, <2>2 DEF SerialInv
<1>7. CASE CountMembers(w) \/ CountPending(w)
  <2>1. /\ tx'[w].loaded = t.loaded /\ t.at \in {"count", "pending"}
        /\ t.kind = "invite" => tx'[w].at # "commit"
    BY <1>1, <1>7 DEF CountMembers, CountPending, Proceed, At, TypeOK, Transaction, t
  <2>2. LosesOwner(w)' => Cardinality(ActiveOwners) > 1
    BY <1>1, <2>1 DEF ReadsStayTrue, LosesOwner, t
  <2>3. ReadsStayTrue(w)'
    BY <1>1, <1>3, <1>4, <2>1, <2>2 DEF ReadsStayTrue, At, t
  <2> QED BY <1>2, <2>3 DEF SerialInv
<1>8. CASE CheckInvitee(w)
  <2>1. /\ t.kind = "invite" /\ members[t.person] = None
        /\ \A i \in Pending : invites[i].person # t.person
    BY <1>1, <1>8 DEF CheckInvitee, At, t
  <2>2. ReadsStayTrue(w)'
    BY <1>1, <1>3, <2>1 DEF ReadsStayTrue, LosesOwner, At
  <2> QED BY <1>2, <2>2 DEF SerialInv
<1> QED BY <1>5, <1>6, <1>7, <1>8 DEF Read

(* Fewer invitations that are pending, and no new members, leave the         *)
(* invitees new.                                                            *)
LEMMA StillNew ==
  ASSUME InviteesAreNew, Pending' \subseteq Pending,
         \A i \in Pending' : /\ invites'[i].person = invites[i].person
                             /\ members'[invites[i].person] = None
  PROVE  InviteesAreNew'
BY DEF InviteesAreNew

(* Among several there is another. *)
LEMMA AnotherOne ==
  ASSUME NEW S, IsFiniteSet(S), Cardinality(S) > 1, NEW x
  PROVE  \E y \in S : y # x
<1> SUFFICES ASSUME \A y \in S : y = x PROVE FALSE
  OBVIOUS
<1>1. S = {} \/ S = {x}
  OBVIOUS
<1>2. Cardinality(S) = 0 \/ Cardinality(S) = 1
  BY <1>1, FS_EmptySet, FS_Singleton
<1> QED BY <1>2

(* So what is written keeps an owner and makes nobody a member who is still  *)
(* invited.                                                                 *)
LEMMA WriteIsSerial ==
  ASSUME TInv, SerialInv, NEW w \in Workers, Workers = {w}, Write(w)
  PROVE  SerialInv'
<1> DEFINE t == tx[w]
<1>1. /\ TypeOK /\ ~Idle(w) /\ t \in Transaction /\ CarriesFacts(w) /\ ReadsStayTrue(w)
  BY DEF TInv, SerialInv, TypeOK, Idle, Write, CommitInvite, CommitRevoke, CommitUpdate,
         CommitAccept, Abort, At
<1>2. Idle(w)'
  BY <1>1, EndActs
     DEF Write, CommitInvite, CommitRevoke, CommitUpdate, CommitAccept, Abort
<1>3. InviteesAreNew /\ KeepsAnOwner
  BY DEF SerialInv
<1>4. ASSUME members' = members PROVE KeepsAnOwner'
  BY <1>3, <1>4 DEF KeepsAnOwner, ActiveOwners, Active
<1> HIDE DEF t
<1>5. CASE CommitInvite(w)
  <2>1. /\ At(w, {"invite"}, "commit") /\ t.kind = "invite" /\ members' = members
        /\ t.invitation \in Invitations \ Sent
    BY <1>1, <1>5 DEF CommitInvite, At, CarriesFacts, t
  <2>2. /\ members[t.person] = None
        /\ \A i \in Pending : invites[i].person # t.person
    BY <1>1, <2>1 DEF ReadsStayTrue, t
  <2>3. /\ \A i \in Invitations \ {t.invitation} : invites'[i] = invites[i]
        /\ invites'[t.invitation].person = t.person
    BY <1>1, <1>5, <2>1 DEF CommitInvite, TypeOK, t
  <2>4. Pending' \subseteq Pending \cup {t.invitation}
    BY <2>3 DEF Pending, Sent
  <2>5. \A i \in Pending : i # t.invitation /\ i \in Invitations
    BY <2>1 DEF Pending, Sent
  <2>6. InviteesAreNew'
    BY <1>3, <2>1, <2>2, <2>3, <2>4, <2>5 DEF InviteesAreNew
  <2> QED BY <1>2, <1>4, <2>1, <2>6 DEF SerialInv
<1>6. CASE CommitRevoke(w)
  <2> DEFINE row == [invites[t.invitation] EXCEPT !.revoked = TRUE]
  <2>1. /\ members' = members /\ t.invitation \in Sent
        /\ invites' = [invites EXCEPT ![t.invitation].revoked = TRUE]
    BY <1>1, <1>6 DEF CommitRevoke, At, CarriesFacts, t
  <2>2. invites[t.invitation] \in Invite
    BY <1>1, <2>1 DEF TypeOK, Sent
  <2>3. row \in Invite /\ row.revoked
    BY <2>2 DEF Invite
  <2>4. invites' = [invites EXCEPT ![t.invitation] = row]
    BY <2>1
  <2> HIDE DEF row
  <2>5. Pending' = Pending \ {t.invitation}
    BY <1>1, <2>1, <2>3, <2>4, PendingAfter
  <2>6. \A i \in Pending' : i \in Pending /\ invites'[i] = invites[i]
    BY <1>1, <2>4, <2>5 DEF TypeOK, Pending, Sent
  <2>7. InviteesAreNew'
    BY <1>3, <2>1, <2>5, <2>6, StillNew DEF InviteesAreNew
  <2> QED BY <1>2, <1>4, <2>1, <2>7 DEF SerialInv
<1>7. CASE CommitUpdate(w)
  <2>1. /\ At(w, {"update"}, "commit") /\ t.kind = "update" /\ invites' = invites
        /\ t.loaded \in Standing /\ t.wants \in Standing /\ t.person \in People
        /\ t.loaded = members[t.person]
    BY <1>1, <1>7 DEF CommitUpdate, At, CarriesFacts, Transaction, ReadsStayTrue, t
  <2> DEFINE row == Overwritten(members[t.person], t.loaded, t.wants)
  <2>2. members' = [members EXCEPT ![t.person] = row]
    BY <1>7 DEF CommitUpdate, t
  <2>3. row \in Standing /\ row.active = t.wants.active /\ row.role = t.wants.role
    BY <2>1, OverwrittenType
  <2> HIDE DEF row
  <2>4. /\ members'[t.person] = row /\ row # None
        /\ \A p \in People \ {t.person} : members'[p] = members[p]
    BY <1>1, <2>1, <2>2, <2>3, WorkersAssumption DEF TypeOK, Standing
  <2>5. Pending' = Pending /\ \A i \in Pending : invites[i].person \in People
    BY <1>1, <2>1 DEF TypeOK, Pending, Sent, Invite
  <2>6. \A i \in Pending : invites[i].person # t.person
    BY <1>3, <2>1, WorkersAssumption DEF InviteesAreNew, Standing
  <2>7. InviteesAreNew'
    BY <1>3, <2>1, <2>4, <2>5, <2>6, StillNew DEF InviteesAreNew
  <2>8. ASSUME NEW p \in ActiveOwners, p # t.person
        PROVE  p \in ActiveOwners'
    BY <2>4, <2>8 DEF ActiveOwners, Active
  <2>9. CASE LosesOwner(w)
    <3>1. Cardinality(ActiveOwners) > 1
      BY <1>1, <2>1, <2>9 DEF ReadsStayTrue, At, t
    <3>2. IsFiniteSet(ActiveOwners)
      BY PartsAreFinite DEF ActiveOwners, Active
    <3>3. PICK p \in ActiveOwners : p # t.person
      BY <3>1, <3>2, AnotherOne
    <3> QED BY <1>2, <2>7, <2>8, <3>3 DEF SerialInv, KeepsAnOwner
  <2>10. CASE ~LosesOwner(w)
    <3>1. PICK p \in ActiveOwners : TRUE
      BY <1>3 DEF KeepsAnOwner
    <3>2. CASE p = t.person
      <4>1. t.wants.active /\ t.wants.role = "owner"
        BY <2>1, <2>10, <3>1, <3>2 DEF ActiveOwners, Active, LosesOwner, t
      <4>2. p \in ActiveOwners'
        BY <2>1, <2>3, <2>4, <3>2, <4>1 DEF ActiveOwners, Active
      <4> QED BY <1>2, <2>7, <4>2 DEF SerialInv, KeepsAnOwner
    <3>3. CASE p # t.person
      BY <1>2, <2>7, <2>8, <3>1, <3>3 DEF SerialInv, KeepsAnOwner
    <3> QED BY <3>2, <3>3
  <2> QED BY <2>9, <2>10
<1>8. CASE CommitAccept(w)
  <2>1. /\ t.kind = "accept" /\ t.invitation \in Sent /\ t.person \in People
        /\ t.person = invites[t.invitation].person
        /\ t.wants = [role |-> invites[t.invitation].role, active |-> TRUE]
        /\ members[t.person] = None /\ t.loaded = None
        /\ \A i \in Pending \ {t.invitation} : invites[i].person # t.person
        /\ invites' = [invites EXCEPT ![t.invitation].accepted = TRUE]
    BY <1>1, <1>8 DEF CommitAccept, At, CarriesFacts, Transaction, ReadsStayTrue, t
  <2>2. members' = [members EXCEPT ![t.person] = t.wants]
    BY <1>8, <2>1 DEF CommitAccept, t
  <2>3. invites[t.invitation] \in Invite
    BY <1>1, <2>1 DEF TypeOK, Sent
  <2> DEFINE mark == [invites[t.invitation] EXCEPT !.accepted = TRUE]
  <2>4. mark \in Invite /\ mark.accepted
    BY <2>3 DEF Invite
  <2>5. invites' = [invites EXCEPT ![t.invitation] = mark]
    BY <2>1
  <2> HIDE DEF mark
  <2>6. Pending' = Pending \ {t.invitation}
    BY <1>1, <2>1, <2>4, <2>5, PendingAfter
  <2>7. \A i \in Pending' : /\ i \in Pending /\ invites'[i] = invites[i]
                            /\ invites[i].person \in People \ {t.person}
    BY <1>1, <2>1, <2>5, <2>6 DEF TypeOK, Pending, Sent, Invite
  <2>8. \A p \in People \ {t.person} : members'[p] = members[p]
    BY <1>1, <2>2 DEF TypeOK
  <2>9. InviteesAreNew'
    BY <1>3, <2>6, <2>7, <2>8, StillNew DEF InviteesAreNew
  <2>10. ActiveOwners \subseteq ActiveOwners'
    BY <2>1, <2>8 DEF ActiveOwners, Active
  <2> QED BY <1>2, <1>3, <2>9, <2>10 DEF SerialInv, KeepsAnOwner
<1>9. CASE Abort(w)
  <2>1. members' = members /\ invites' = invites
    BY <1>9 DEF Abort
  <2>2. InviteesAreNew'
    BY <1>3, <2>1 DEF InviteesAreNew, Pending, Sent
  <2> QED BY <1>2, <1>4, <2>1, <2>2 DEF SerialInv
<1> QED BY <1>5, <1>6, <1>7, <1>8, <1>9 DEF Write

(* Only time goes on between the statements of a request, and it takes       *)
(* nothing from what they have read.                                        *)
LEMMA ExpireIsSerial ==
  ASSUME TInv, SerialInv, NEW i \in Invitations, Expire(i)
  PROVE  SerialInv'
<1> DEFINE row == [invites[i] EXCEPT !.expired = TRUE]
<1>1. /\ TypeOK /\ i \in Sent /\ members' = members /\ tx' = tx
      /\ invites' = [invites EXCEPT ![i].expired = TRUE]
      /\ InviteesAreNew /\ KeepsAnOwner
  BY DEF Expire, Pending, TInv, SerialInv
<1>2. invites[i] \in Invite
  BY <1>1 DEF TypeOK, Sent
<1>3. row \in Invite /\ row.expired
  BY <1>2 DEF Invite
<1>4. invites' = [invites EXCEPT ![i] = row]
  BY <1>1
<1> HIDE DEF row
<1>5. Pending' = Pending \ {i}
  BY <1>1, <1>3, <1>4, PendingAfter
<1>6. \A k \in Pending' : k \in Pending /\ invites'[k] = invites[k]
  BY <1>1, <1>4, <1>5 DEF TypeOK, Pending, Sent
<1>7. InviteesAreNew'
  BY <1>1, <1>5, <1>6, StillNew DEF InviteesAreNew
<1>8. ActiveOwners' = ActiveOwners
  BY <1>1 DEF ActiveOwners, Active
<1>9. KeepsAnOwner'
  BY <1>1, <1>8 DEF KeepsAnOwner
<1>10. ASSUME NEW w \in Workers, ~Idle(w)'
       PROVE  ReadsStayTrue(w)'
  <2>1. ~Idle(w) /\ ReadsStayTrue(w) /\ tx'[w] = tx[w]
    BY <1>1, <1>10 DEF Idle, SerialInv
  <2>2. Cardinality(ActiveOwners') = Cardinality(ActiveOwners)
    BY <1>8
  <2>3. At(w, {"invite"}, "commit")' => At(w, {"invite"}, "commit")
    BY <2>1 DEF At
  <2>4. LosesOwner(w)' => LosesOwner(w)
    BY <2>1 DEF LosesOwner
  <2> QED BY <1>1, <1>6, <2>1, <2>2, <2>3, <2>4 DEF ReadsStayTrue
<1> QED BY <1>7, <1>9, <1>10 DEF SerialInv

(* The founder owns the company and nobody is invited when it signs up. *)
LEMMA SerialInvInit == Init => SerialInv
<1> SUFFICES ASSUME Init PROVE SerialInv
  OBVIOUS
<1>1. Pending = {} /\ \A w \in Workers : Idle(w)
  BY DEF Init, Pending, Sent, Idle
<1>2. [role |-> "owner", active |-> TRUE] \in [role : Roles, active : BOOLEAN]
  BY RolesAssumption
<1>3. members[Founder] = [role |-> "owner", active |-> TRUE] /\ members[Founder] # None
  BY <1>2, PeopleAssumption, WorkersAssumption DEF Init
<1>4. Founder \in ActiveOwners
  BY <1>3, PeopleAssumption DEF ActiveOwners, Active
<1> QED BY <1>1, <1>4 DEF SerialInv, InviteesAreNew, KeepsAnOwner

(* Every step keeps it while requests come one at a time. *)
LEMMA SerialInvStep ==
  ASSUME OneAtATime, TInv, SerialInv, [Next]_vars
  PROVE  SerialInv'
<1>1. PICK w : Workers = {w}
  BY DEF OneAtATime
<1>2. w \in Workers
  BY <1>1
<1>3. CASE UNCHANGED vars
  <2>1. members' = members /\ invites' = invites /\ tx' = tx
    BY <1>3 DEF vars
  <2> QED BY <2>1 DEF SerialInv, InviteesAreNew, KeepsAnOwner, ReadsStayTrue, LosesOwner,
                      At, Idle, ActiveOwners, Active, Pending, Sent
<1>4. CASE Next
  <2>1. (Ask(w) \/ Read(w) \/ Write(w)) \/ \E i \in Invitations : Expire(i)
    BY <1>1, <1>4 DEF Next
  <2> QED BY <1>1, <1>2, <2>1, AskIsSerial, ReadIsSerial, WriteIsSerial, ExpireIsSerial
<1> QED BY <1>3, <1>4

(* Both invariants, of requests that come one at a time. *)
OneByOne == OneAtATime /\ TInv /\ SerialInv

(* It holds of every state if it holds of the threads. *)
LEMMA OneByOneHolds == OneAtATime => (Spec => []OneByOne)
<1>1. OneAtATime /\ Init => OneByOne
  BY TInvInit, SerialInvInit DEF OneByOne
<1>2. OneByOne /\ [Next]_vars => OneByOne'
  BY TInvStep, SerialInvStep DEF OneByOne, OneAtATime
<1> QED BY <1>1, <1>2, PTL DEF Spec

(* Requests that come one at a time never lose the last active owner: "a     *)
(* company can never remove its last active owner" is true of each of them  *)
(* (_active_owner_count before a demotion or a deactivation).               *)
THEOREM OwnerIsKept == OneAtATime => (Spec => []KeepsAnOwner)
<1>1. OneByOne => KeepsAnOwner
  BY DEF OneByOne, SerialInv
<1> QED BY <1>1, OneByOneHolds, PTL

(* ... and never invite a member, nor anybody twice at a time: an invitation *)
(* never meets a membership whose role it would overwrite (create_invitation *)
(* checks both and accept_invitation relies on it).                         *)
THEOREM InvitedOnce == OneAtATime => (Spec => []InviteesAreNew)
<1>1. OneByOne => InviteesAreNew
  BY DEF OneByOne, SerialInv
<1> QED BY <1>1, OneByOneHolds, PTL

(* ... and never need more seats than the plan has, however it is filled:    *)
(* the bound on races with a single thread.                                 *)
THEOREM SeatsAreRespected == OneAtATime => (Spec => []SeatsRespected)
<1>1. ASSUME OneAtATime, OverbookingIsBounded
      PROVE  SeatsRespected
  <2>1. Cardinality(Workers) = 1
    BY <1>1, TeamIsFinite, FS_Singleton DEF OneAtATime
  <2>2. SeatLimit # None => SeatLimit \in Nat
    BY SeatAssumption
  <2> QED BY <1>1, <2>1, <2>2, Countable DEF SeatsRespected, OverbookingIsBounded
<1>2. OneByOne /\ OverbookingIsBounded => SeatsRespected
  BY <1>1 DEF OneByOne
<1> QED BY <1>2, OneByOneHolds, RacesAreBounded, PTL
=============================================================================
