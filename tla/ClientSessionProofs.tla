------------------------- MODULE ClientSessionProofs -------------------------
(***************************************************************************)
(* Proofs about ClientSession, for any number of companies and of requests *)
(* that are open at a time.                                                *)
(***************************************************************************)
EXTENDS ClientSession, TLAPS

(* An invitation is to a company; what has no answer yet has not been       *)
(* executed; who waits has a refresh under way.                             *)
Careful(q, f) ==
  /\ q.kind = "accept" /\ q.at # "ok" => q.company \in Companies
  /\ q.at # "ok" => q.landed = None
  /\ q.at = "waits" => f.at \in {"sent", "ok", "failed"}

AllCareful == \A r \in Requests : Open(r) => Careful(requests[r], flight)

IInv == TypeOK /\ AllCareful

-----------------------------------------------------------------------------
(* The scope of a new pair is a company of the user, and the only one.      *)
LEMMA ScopeType == Scope \in Scopes
BY DEF Scope, Scopes

(* What a login or a refresh issues is a token pair.                        *)
LEMMA IssuedType == Issued \in Token
BY ScopeType DEF Issued, Token

(* A request that is sent, and one that is sent again, is a request. *)
LEMMA SentType ==
  ASSUME NEW kind \in {"login", "accept", "switch", "me", "page", "write"},
         NEW token \in Token \cup {None}, NEW company \in Scopes
  PROVE  Sent(kind, token, company) \in Request
BY DEF Sent, Request, Scopes

(* A request that is sent again is a request.                               *)
LEMMA RetriedType ==
  ASSUME NEW q \in Request, NEW token \in Token \cup {None}
  PROVE  Retried(q, token) \in Request
BY DEF Retried, Request

(* An open request is a request.                                            *)
LEMMA OpenType ==
  ASSUME TypeOK, NEW r \in Requests, Open(r)
  PROVE  requests[r] \in Request
BY DEF TypeOK, Open

(* One request changes, the others keep their types.                        *)
LEMMA BecomesType ==
  ASSUME TypeOK, NEW r \in Requests, NEW q \in Request \cup {None}, Becomes(r, q)
  PROVE  requests' \in [Requests -> Request \cup {None}]
BY DEF TypeOK, Becomes

(* A request ends.                                                          *)
LEMMA ClosedType ==
  ASSUME TypeOK, NEW r \in Requests
  PROVE  Closed(r) \in [Requests -> Request \cup {None}]
BY DEF TypeOK, Closed

(* Queries are dropped from the cache.                                      *)
LEMMA DroppedType ==
  ASSUME TypeOK, NEW kinds
  PROVE  Dropped(kinds) \in [Requests -> Request \cup {None}]
<1>1. ASSUME NEW r \in Requests, Open(r)
      PROVE  Unheard(requests[r]) \in Request \cup {None}
  BY <1>1, OpenType DEF Unheard, Request
<1> QED BY <1>1 DEF Dropped, TypeOK

(* A switch that is pending is forgotten with its page, and is otherwise    *)
(* what it was.                                                             *)
LEMMA UnmountedSame ==
  ASSUME NEW open \in [Requests -> Request \cup {None}], NEW s \in Requests,
         Unmounted(open)[s] # None
  PROVE  /\ open[s] # None /\ open[s] \in Request
         /\ \/ Unmounted(open)[s] = open[s]
            \/ /\ open[s].kind = "switch"
               /\ Unmounted(open)[s] = [open[s] EXCEPT !.heard = FALSE]
BY DEF Unmounted

(* Requests whose page is unmounted are requests.                           *)
LEMMA UnmountedType ==
  ASSUME NEW open \in [Requests -> Request \cup {None}]
  PROVE  Unmounted(open) \in [Requests -> Request \cup {None}]
<1>1. ASSUME NEW q \in Request PROVE [q EXCEPT !.heard = FALSE] \in Request
  BY DEF Request
<1> QED BY <1>1 DEF Unmounted

(* After a sign-in or a switch: /auth/me is sent, or the pending one shared. *)
LEMMA RefetchedCases ==
  ASSUME NEW r \in Requests, NEW kinds
  PROVE  \/ Refetched(r, kinds) = [Dropped(kinds) EXCEPT ![r] = None]
         \/ Refetched(r, kinds) = [Dropped(kinds \cup {"me"}) EXCEPT
                                     ![r] = Sent("me", requests[r].token, None)]
BY DEF Refetched

(* What the tab does with a new pair: only a switch drops the pages.        *)
LEMMA PairCases ==
  ASSUME NEW r \in Requests, SignIn(r) \/ Switched(r)
  PROVE  \E kinds \in SUBSET {"me", "page"}, new \in {None, Sent("me", requests[r].token, None)} :
           /\ requests' = [Dropped(kinds) EXCEPT ![r] = new]
           /\ requests[r].kind = "switch" => "page" \in kinds
           /\ requests[r].kind \in {"login", "accept", "switch"}
<1>1. CASE SignIn(r)
  <2>1. requests' = Refetched(r, {}) /\ requests[r].kind \in {"login", "accept"}
    BY <1>1 DEF SignIn
  <2>2. \/ requests' = [Dropped({}) EXCEPT ![r] = None]
        \/ requests' = [Dropped({} \cup {"me"}) EXCEPT
                          ![r] = Sent("me", requests[r].token, None)]
    BY <2>1, RefetchedCases
  <2>3. {} \in SUBSET {"me", "page"} /\ {} \cup {"me"} \in SUBSET {"me", "page"}
    OBVIOUS
  <2> QED BY <2>1, <2>2, <2>3
<1>2. CASE Switched(r)
  <2>1. requests' = Refetched(r, {"page"}) /\ requests[r].kind = "switch"
    BY <1>2 DEF Switched
  <2>2. \/ requests' = [Dropped({"page"}) EXCEPT ![r] = None]
        \/ requests' = [Dropped({"page"} \cup {"me"}) EXCEPT
                          ![r] = Sent("me", requests[r].token, None)]
    BY <2>1, RefetchedCases
  <2>3. /\ {"page"} \in SUBSET {"me", "page"} /\ "page" \in {"page"}
        /\ {"page"} \cup {"me"} \in SUBSET {"me", "page"} /\ "page" \in {"page"} \cup {"me"}
    OBVIOUS
  <2> QED BY <2>1, <2>2, <2>3
<1> QED BY <1>1, <1>2

(* An answer brings a token pair.                                           *)
LEMMA PairedType ==
  ASSUME TypeOK, NEW r \in Requests, Open(r), NEW pair \in Token
  PROVE  Paired(r, pair) \in Request
BY OpenType DEF Paired, Request, Scopes

-----------------------------------------------------------------------------
(* Nothing is stored and nothing is open.                                   *)
LEMMA InitType == Init => TypeOK
<1> SUFFICES ASSUME Init PROVE TypeOK
  OBVIOUS
<1>1. member \in SUBSET Companies /\ changed \in BOOLEAN /\ store \in Token \cup {None}
  BY DEF Init
<1>2. flight \in Flight
  BY DEF Init, NoFlight, Flight
<1>3. requests \in [Requests -> Request \cup {None}]
  BY DEF Init
<1>4. me \in [scope : Scopes] \cup {None} /\ page \in Scopes
  BY DEF Init, Scopes
<1> QED BY <1>1, <1>2, <1>3, <1>4 DEF TypeOK

(* What the user does keeps the types. *)
LEMMA UserType ==
  ASSUME TypeOK, NEW r \in Requests, User(r)
  PROVE  TypeOK'
<1>1. CASE Login(r)
  <2>1. Sent("login", None, None) \in Request
    BY SentType DEF Scopes
  <2> QED BY <1>1, <2>1, BecomesType DEF Login, TypeOK
<1>2. CASE FetchMe(r)
  <2>1. Sent("me", store, None) \in Request
    BY SentType DEF Scopes, TypeOK
  <2> QED BY <1>2, <2>1, BecomesType DEF FetchMe, Send, TypeOK
<1>3. CASE OpenPage(r)
  <2>1. Sent("page", store, None) \in Request
    BY SentType DEF Scopes, TypeOK
  <2> QED BY <1>3, <2>1, BecomesType DEF OpenPage, Send, TypeOK
<1>4. CASE Write(r)
  <2>1. store \in Token
    BY <1>4 DEF Write, Authenticated, TypeOK
  <2>2. Sent("write", store, store.scope) \in Request
    BY <2>1, SentType DEF Token
  <2> QED BY <1>4, <2>2, BecomesType DEF Write, Send, TypeOK
<1>5. ASSUME NEW c \in Companies, Accept(r, c) PROVE TypeOK'
  <2>1. Sent("accept", None, c) \in Request
    BY SentType DEF Scopes
  <2> QED BY <1>5, <2>1, BecomesType DEF Accept, TypeOK
<1>6. ASSUME NEW c \in Companies, Switch(r, c) PROVE TypeOK'
  <2>1. Sent("switch", store, c) \in Request
    BY SentType DEF Scopes, TypeOK
  <2> QED BY <1>6, <2>1, BecomesType DEF Switch, Send, TypeOK
<1> QED BY <1>1, <1>2, <1>3, <1>4, <1>5, <1>6 DEF User

(* What the server and the network do keeps the types. *)
LEMMA ServerType ==
  ASSUME TypeOK, AllCareful, NEW r \in Requests, Server(r)
  PROVE  TypeOK'
<1>1. CASE ServeLogin(r)
  BY <1>1, IssuedType, PairedType, BecomesType DEF ServeLogin, SentAs, TypeOK
<1>2. CASE ServeAccept(r)
  <2> DEFINE pair == [scope |-> requests[r].company, valid |-> TRUE]
  <2>1. Open(r) /\ requests[r] \in Request /\ requests[r].kind = "accept"
    BY <1>2, OpenType DEF ServeAccept, SentAs
  <2>2. pair \in Token
    BY <2>1 DEF Token, Request
  <2>3. member' \subseteq Companies
    BY <1>2, <2>1 DEF ServeAccept, SentAs, AllCareful, Careful, TypeOK
  <2> QED BY <1>2, <2>1, <2>2, <2>3, PairedType, BecomesType DEF ServeAccept, TypeOK
<1>3. CASE ServeUnauthorized(r)
  <2>1. [requests[r] EXCEPT !.at = "unauthorized", !.token = None] \in Request
    BY <1>3, OpenType DEF ServeUnauthorized, SentAs, Request
  <2> QED BY <1>3, <2>1, BecomesType DEF ServeUnauthorized, TypeOK
<1>4. CASE ServeSwitch(r)
  <2> DEFINE pair == [scope |-> requests[r].company, valid |-> TRUE]
  <2>1. Open(r) /\ requests[r] \in Request
    BY <1>4, OpenType DEF ServeSwitch, SentAs
  <2>2. pair \in Token
    BY <2>1 DEF Token, Request
  <2> QED BY <1>4, <2>1, <2>2, PairedType, BecomesType DEF ServeSwitch, TypeOK
<1>5. CASE ServeQuery(r)
  <2> DEFINE answer == [requests[r] EXCEPT !.at = "ok", !.token = None,
                          !.company = requests[r].token.scope, !.again = FALSE]
  <2>1. requests[r] \in Request /\ requests[r].token \in Token
    BY <1>5, OpenType DEF ServeQuery, SentAs, Known, Request
  <2>2. answer \in Request
    BY <2>1 DEF Request, Token
  <2>3. Becomes(r, answer) \/ Becomes(r, None)
    BY <1>5 DEF ServeQuery
  <2> QED BY <1>5, <2>2, <2>3, BecomesType DEF ServeQuery, TypeOK
<1>6. CASE ServeWrite(r)
  <2> DEFINE answer == [requests[r] EXCEPT !.at = "ok", !.token = None,
                          !.landed = requests[r].token.scope, !.again = FALSE]
  <2>1. requests[r] \in Request /\ requests[r].token \in Token
    BY <1>6, OpenType DEF ServeWrite, SentAs, Known, Request
  <2>2. answer \in Request
    BY <2>1 DEF Request, Token
  <2>3. Becomes(r, answer) \/ Becomes(r, None)
    BY <1>6 DEF ServeWrite
  <2> QED BY <1>6, <2>2, <2>3, BecomesType DEF ServeWrite, TypeOK
<1>7. CASE Lose(r)
  BY <1>7, ClosedType DEF Lose, TypeOK
<1> QED BY <1>1, <1>2, <1>3, <1>4, <1>5, <1>6, <1>7 DEF Server

(* What the tab does with an answer keeps the types. *)
LEMMA HearType ==
  ASSUME TypeOK, NEW r \in Requests, Hear(r)
  PROVE  TypeOK'
<1> DEFINE q == requests[r]
<1>1. Open(r) /\ q \in Request
  BY OpenType DEF Hear, HearMe, HearPage, HearWrite, SignIn, Switched, AwaitRefresh,
                  RetryAtOnce, GiveUp, Answered
<1>2. q.company \in Scopes /\ q.token \in Token \cup {None}
  BY <1>1 DEF Request
<1>3. CASE HearMe(r) \/ HearPage(r) \/ HearWrite(r)
  BY <1>2, <1>3, ClosedType, UnmountedType DEF HearMe, HearPage, HearWrite, TypeOK
<1>4. ASSUME NEW kinds
      PROVE  Refetched(r, kinds) \in [Requests -> Request \cup {None}]
  <2>1. Sent("me", q.token, None) \in Request
    BY <1>2, SentType DEF Scopes
  <2>2. /\ Dropped(kinds) \in [Requests -> Request \cup {None}]
        /\ Dropped(kinds \cup {"me"}) \in [Requests -> Request \cup {None}]
    BY DroppedType
  <2>3. /\ [Dropped(kinds) EXCEPT ![r] = None] \in [Requests -> Request \cup {None}]
        /\ [Dropped(kinds \cup {"me"}) EXCEPT ![r] = Sent("me", q.token, None)]
              \in [Requests -> Request \cup {None}]
    BY <2>1, <2>2
  <2> QED BY <2>3, RefetchedCases
<1>5. CASE SignIn(r) \/ Switched(r)
  BY <1>2, <1>4, <1>5 DEF SignIn, Switched, TypeOK, Scopes
<1>6. CASE AwaitRefresh(r)
  <2>1. [q EXCEPT !.at = "waits"] \in Request
    BY <1>1 DEF Request
  <2>2. flight' \in Flight
    BY <1>6 DEF AwaitRefresh, TypeOK, Flight
  <2> QED BY <1>6, <2>1, <2>2, BecomesType DEF AwaitRefresh, TypeOK
<1>7. CASE RetryAtOnce(r)
  <2>1. Retried(q, flight.token) \in Request
    BY <1>1, RetriedType DEF TypeOK, Flight
  <2> QED BY <1>7, <2>1, BecomesType DEF RetryAtOnce, TypeOK
<1>8. CASE GiveUp(r)
  BY <1>8, ClosedType, UnmountedType DEF GiveUp, TypeOK
<1> QED BY <1>3, <1>5, <1>6, <1>7, <1>8 DEF Hear

(* The waiters are sent again, or get their 401.                            *)
LEMMA ReleasedType ==
  ASSUME TypeOK, NEW token \in Token \cup {None}
  PROVE  Released(token) \in [Requests -> Request \cup {None}]
<1>1. ASSUME NEW r \in Requests, Waiting(r)
      PROVE  Retried(requests[r], token) \in Request
  BY <1>1, OpenType, RetriedType DEF Waiting, Answered
<1> QED BY <1>1 DEF Released, TypeOK

(* The shared refresh keeps the types. *)
LEMMA RefreshType ==
  ASSUME TypeOK, Refresh
  PROVE  TypeOK'
<1>1. CASE ServeRefresh
  BY <1>1, IssuedType DEF ServeRefresh, TypeOK, Flight
<1>2. CASE LoseRefresh
  BY <1>2 DEF LoseRefresh, TypeOK, Flight
<1>3. CASE Refreshed
  <2>1. flight.token \in Token \cup {None} /\ flight' \in Flight
    BY <1>3 DEF Refreshed, TypeOK, Flight
  <2> QED BY <1>3, <2>1, ReleasedType DEF Refreshed, TypeOK
<1>4. CASE NotRefreshed
  <2>1. flight' \in Flight
    BY <1>4 DEF NotRefreshed, Flight
  <2> QED BY <1>4, <2>1, ReleasedType, UnmountedType DEF NotRefreshed, TypeOK
<1>5. CASE Tick
  BY <1>5 DEF Tick, NoFlight, TypeOK, Flight
<1> QED BY <1>1, <1>2, <1>3, <1>4, <1>5 DEF Refresh

(* So do a sign-out, a reload, the clock and an owner. *)
LEMMA RestType ==
  ASSUME TypeOK, SignOut \/ Reload \/ Expire \/ \E c \in Companies : Leave(c)
  PROVE  TypeOK'
<1>1. CASE SignOut
  BY <1>1, DroppedType, UnmountedType DEF SignOut, TypeOK, Scopes
<1>2. CASE Reload
  BY <1>2 DEF Reload, NoFlight, TypeOK, Flight, Scopes
<1>3. CASE Expire
  <2>1. ASSUME NEW r \in Requests, Open(r), requests[r].token # None
        PROVE  [requests[r] EXCEPT !.token.valid = FALSE] \in Request
    BY <2>1, OpenType DEF Request, Token
  <2>2. requests' \in [Requests -> Request \cup {None}]
    BY <1>3, <2>1 DEF Expire, TypeOK
  <2>3. store' \in Token \cup {None}
    BY <1>3 DEF Expire, TypeOK, Token
  <2> QED BY <1>3, <2>2, <2>3 DEF Expire, TypeOK
<1>4. ASSUME NEW c \in Companies, Leave(c) PROVE TypeOK'
  BY <1>4 DEF Leave, TypeOK
<1> QED BY <1>1, <1>2, <1>3, <1>4

-----------------------------------------------------------------------------
(* One request changes, the others do not.                                  *)
LEMMA BecomesSame ==
  ASSUME TypeOK, NEW r \in Requests, NEW q, Becomes(r, q)
  PROVE  requests'[r] = q /\ \A s \in Requests \ {r} : requests'[s] = requests[s]
BY DEF Becomes, TypeOK

(* A request that changes carefully, while the refresh only starts, disturbs no other. *)
LEMMA CarefulBecomes ==
  ASSUME TypeOK, AllCareful, NEW r \in Requests, NEW q, Becomes(r, q),
         flight' = flight \/ flight.at = "none",
         q = None \/ Careful(q, flight')
  PROVE  AllCareful'
<1>1. ASSUME NEW s \in Requests \ {r}, Open(s) PROVE Careful(requests[s], flight')
  BY <1>1 DEF AllCareful, Careful
<1> QED BY <1>1, BecomesSame DEF AllCareful, Open

(* What the user sends is new. *)
LEMMA UserCareful ==
  ASSUME TypeOK, AllCareful, NEW r \in Requests, User(r)
  PROVE  AllCareful'
<1>1. ASSUME NEW kind, NEW token, NEW company, kind = "accept" => company \in Companies,
             Becomes(r, Sent(kind, token, company)), UNCHANGED flight
      PROVE  AllCareful'
  BY <1>1, CarefulBecomes DEF Careful, Sent
<1> QED BY <1>1 DEF User, Login, FetchMe, OpenPage, Write, Accept, Switch, Send

(* Only an answer says that a write has been executed. *)
LEMMA ServerCareful ==
  ASSUME TypeOK, AllCareful, NEW r \in Requests, Server(r)
  PROVE  AllCareful'
<1> DEFINE q == requests[r]
<1>1. UNCHANGED flight
  BY DEF Server, ServeLogin, ServeAccept, ServeUnauthorized, ServeSwitch, ServeQuery,
         ServeWrite, Lose
<1>2. Open(r) /\ q \in Request /\ Careful(q, flight)
  BY OpenType DEF Server, ServeLogin, ServeAccept, ServeUnauthorized, ServeSwitch,
                  ServeQuery, ServeWrite, Lose, SentAs, Answered, AllCareful
<1>3. ASSUME NEW pair PROVE Careful(Paired(r, pair), flight)
  BY <1>2 DEF Paired, Careful, Request
<1>4. CASE ServeLogin(r) \/ ServeAccept(r) \/ ServeSwitch(r)
  BY <1>1, <1>3, <1>4, CarefulBecomes DEF ServeLogin, ServeAccept, ServeSwitch
<1>5. CASE ServeUnauthorized(r)
  <2>1. q.at = "sent"
    BY <1>5 DEF ServeUnauthorized, SentAs
  <2>2. Careful([q EXCEPT !.at = "unauthorized", !.token = None], flight)
    BY <1>2, <2>1 DEF Careful, Request
  <2> QED BY <1>1, <1>5, <2>2, CarefulBecomes DEF ServeUnauthorized
<1>6. CASE ServeQuery(r)
  <2>1. Careful([q EXCEPT !.at = "ok", !.token = None, !.company = q.token.scope,
                          !.again = FALSE], flight)
    BY <1>2 DEF Careful, Request
  <2> QED BY <1>1, <1>6, <2>1, CarefulBecomes DEF ServeQuery
<1>7. CASE ServeWrite(r)
  <2>1. Careful([q EXCEPT !.at = "ok", !.token = None, !.landed = q.token.scope,
                          !.again = FALSE], flight)
    BY <1>2 DEF Careful, Request
  <2> QED BY <1>1, <1>7, <2>1, CarefulBecomes DEF ServeWrite
<1>8. CASE Lose(r)
  BY <1>1, <1>8, CarefulBecomes DEF Lose, Closed, Becomes
<1> QED BY <1>4, <1>5, <1>6, <1>7, <1>8 DEF Server

(* What the cache drops is as careful as it was. *)
LEMMA DroppedCareful ==
  ASSUME TypeOK, AllCareful, NEW kinds, NEW s \in Requests, Dropped(kinds)[s] # None
  PROVE  Careful(Dropped(kinds)[s], flight)
<1>1. Open(s)
  BY DEF Dropped, Open
<1>2. requests[s] \in Request /\ Careful(requests[s], flight)
  BY <1>1, OpenType DEF AllCareful
<1>3. Careful([requests[s] EXCEPT !.heard = FALSE], flight)
  BY <1>2 DEF Careful, Request
<1> QED BY <1>2, <1>3 DEF Dropped, Unheard

(* Requests are as careful when the page that shows them is unmounted.      *)
LEMMA UnmountedCareful ==
  ASSUME NEW open \in [Requests -> Request \cup {None}], NEW f,
         \A s \in Requests : open[s] # None => Careful(open[s], f),
         requests' = Unmounted(open), flight' = f
  PROVE  AllCareful'
<1> SUFFICES ASSUME NEW s \in Requests, requests'[s] # None
             PROVE  Careful(requests'[s], f)
  BY DEF AllCareful, Open
<1>1. open[s] \in Request /\ Careful(open[s], f)
  BY UnmountedSame
<1>2. Careful([open[s] EXCEPT !.heard = FALSE], f)
  BY <1>1 DEF Careful, Request
<1> QED BY <1>1, <1>2, UnmountedSame

(* A request is sent again only when it was refused.                        *)
LEMMA RetriedCareful ==
  ASSUME NEW q \in Request, NEW f, Careful(q, f), NEW token, NEW g,
         q.at \in {"unauthorized", "waits"}
  PROVE  Careful(Retried(q, token), g)
BY DEF Careful, Retried, Request

(* What is sent again has not been executed. *)
LEMMA HearCareful ==
  ASSUME TypeOK, AllCareful, NEW r \in Requests, Hear(r)
  PROVE  AllCareful'
<1> DEFINE q == requests[r]
<1>1. Open(r) /\ q \in Request /\ Careful(q, flight)
  BY OpenType DEF Hear, HearMe, HearPage, HearWrite, SignIn, Switched, AwaitRefresh,
                  RetryAtOnce, GiveUp, Answered, AllCareful
<1>2. ASSUME requests' = Closed(r), UNCHANGED flight PROVE AllCareful'
  BY <1>2, CarefulBecomes DEF Closed, Becomes
<1>3. CASE HearMe(r) \/ HearPage(r) \/ HearWrite(r) \/ GiveUp(r)
  <2>1. UNCHANGED flight /\ (requests' = Closed(r) \/ requests' = Unmounted(Closed(r)))
    BY <1>3 DEF HearMe, HearPage, HearWrite, GiveUp
  <2>2. \A s \in Requests : Closed(r)[s] # None => Careful(Closed(r)[s], flight)
    BY DEF Closed, AllCareful, Open, TypeOK
  <2> QED BY <1>2, <2>1, <2>2, ClosedType, UnmountedCareful
<1>4. CASE SignIn(r) \/ Switched(r)
  <2>1. UNCHANGED flight
    BY <1>4 DEF SignIn, Switched
  <2>2. Careful(Sent("me", q.token, None), flight)
    BY DEF Careful, Sent
  <2>3. PICK kinds \in SUBSET {"me", "page"},
              new \in {None, Sent("me", requests[r].token, None)} :
          /\ requests' = [Dropped(kinds) EXCEPT ![r] = new]
          /\ requests[r].kind = "switch" => "page" \in kinds
          /\ requests[r].kind \in {"login", "accept", "switch"}
    BY <1>4, PairCases
  <2>4. ASSUME NEW s \in Requests, requests'[s] # None
        PROVE  Careful(requests'[s], flight)
    BY <2>2, <2>3, <2>4, DroppedType, DroppedCareful
  <2> QED BY <2>1, <2>4 DEF AllCareful, Open
<1>5. CASE AwaitRefresh(r)
  <2>1. flight' = flight \/ flight.at = "none"
    BY <1>5 DEF AwaitRefresh
  <2>2. flight'.at \in {"sent", "ok", "failed"}
    BY <1>5 DEF AwaitRefresh, TypeOK, Flight
  <2>3. Careful([q EXCEPT !.at = "waits"], flight')
    BY <1>1, <1>5, <2>2 DEF Careful, Request, AwaitRefresh, Answered
  <2> QED BY <1>5, <2>1, <2>3, CarefulBecomes DEF AwaitRefresh
<1>6. CASE RetryAtOnce(r)
  <2>1. Careful(Retried(q, flight.token), flight)
    BY <1>1, <1>6, RetriedCareful DEF RetryAtOnce, Answered
  <2> QED BY <1>6, <2>1, CarefulBecomes DEF RetryAtOnce
<1> QED BY <1>3, <1>4, <1>5, <1>6 DEF Hear

(* Who waits is released by the end of the refresh. *)
LEMMA ReleasedCareful ==
  ASSUME TypeOK, AllCareful, NEW token, NEW f, NEW s \in Requests,
         Released(token)[s] # None
  PROVE  Careful(Released(token)[s], f)
<1>1. Open(s)
  BY DEF Released, Waiting, Answered, Open
<1>2. requests[s] \in Request /\ Careful(requests[s], flight)
  BY <1>1, OpenType DEF AllCareful
<1>3. CASE Waiting(s)
  <2>1. Careful(Retried(requests[s], token), f)
    BY <1>2, <1>3, RetriedCareful DEF Waiting, Answered
  <2> QED BY <1>3, <2>1 DEF Released
<1>4. CASE ~Waiting(s)
  <2>1. requests[s].at # "waits"
    BY <1>1, <1>4 DEF Waiting, Answered
  <2> QED BY <1>2, <1>4, <2>1 DEF Released, Careful
<1> QED BY <1>3, <1>4

(* The refresh moves on and nobody is left waiting for it.                  *)
LEMMA RefreshCareful ==
  ASSUME TypeOK, AllCareful, Refresh
  PROVE  AllCareful'
<1>1. CASE ServeRefresh \/ LoseRefresh
  <2>1. UNCHANGED requests /\ flight'.at \in {"sent", "ok", "failed"}
    BY <1>1 DEF ServeRefresh, LoseRefresh
  <2> QED BY <2>1 DEF AllCareful, Careful, Open
<1>2. CASE Refreshed \/ NotRefreshed
  <2>1. PICK token \in {flight.token, None} :
          requests' = Released(token) \/ requests' = Unmounted(Released(token))
    BY <1>2 DEF Refreshed, NotRefreshed
  <2>2. Released(token) \in [Requests -> Request \cup {None}]
    BY ReleasedType DEF TypeOK, Flight
  <2> QED BY <2>1, <2>2, ReleasedCareful, UnmountedCareful DEF AllCareful, Open
<1>3. CASE Tick
  <2>1. \A s \in Requests : Open(s) => requests[s].at # "waits"
    BY <1>3 DEF Tick, AllCareful, Careful
  <2> QED BY <1>3, <2>1 DEF Tick, AllCareful, Careful, Open
<1> QED BY <1>1, <1>2, <1>3 DEF Refresh

(* Signing out, a reload, an expiry and a lost membership touch no write and strand nobody. *)
LEMMA RestCareful ==
  ASSUME TypeOK, AllCareful,
         SignOut \/ Reload \/ Expire \/ \E c \in Companies : Leave(c)
  PROVE  AllCareful'
<1>1. CASE SignOut
  <2>1. requests' = Unmounted(Dropped({"me", "page"})) /\ UNCHANGED flight
    BY <1>1 DEF SignOut
  <2> QED BY <2>1, DroppedType, DroppedCareful, UnmountedCareful
<1>2. CASE Reload
  BY <1>2 DEF Reload, AllCareful, Open
<1>3. CASE Expire
  <2> SUFFICES ASSUME NEW s \in Requests, Open(s)' PROVE Careful(requests'[s], flight)
    BY <1>3 DEF AllCareful, Expire
  <2>1. Open(s)
    BY <1>3 DEF Expire, Open
  <2>2. requests[s] \in Request /\ Careful(requests[s], flight)
    BY <2>1, OpenType DEF AllCareful
  <2>3. Careful([requests[s] EXCEPT !.token.valid = FALSE], flight)
    BY <2>2 DEF Careful, Request
  <2> QED BY <1>3, <2>2, <2>3 DEF Expire
<1>4. ASSUME NEW c \in Companies, Leave(c) PROVE AllCareful'
  BY <1>4 DEF Leave, AllCareful, Open
<1> QED BY <1>1, <1>2, <1>3, <1>4

-----------------------------------------------------------------------------
(* Nothing is open.                                                         *)
LEMMA InitInv == Init => IInv
<1>1. Init => AllCareful
  BY DEF Init, AllCareful, Open
<1> QED BY <1>1, InitType DEF IInv

(* Whoever steps, the invariant is kept.                                    *)
LEMMA StepInv == IInv /\ [Next]_vars => IInv'
<1> SUFFICES ASSUME TypeOK, AllCareful, [Next]_vars PROVE IInv'
  BY DEF IInv
<1>1. ASSUME NEW r \in Requests, User(r) PROVE IInv'
  BY <1>1, UserType, UserCareful DEF IInv
<1>2. ASSUME NEW r \in Requests, Server(r) PROVE IInv'
  BY <1>2, ServerType, ServerCareful DEF IInv
<1>3. ASSUME NEW r \in Requests, Hear(r) PROVE IInv'
  BY <1>3, HearType, HearCareful DEF IInv
<1>4. CASE Refresh
  BY <1>4, RefreshType, RefreshCareful DEF IInv
<1>5. CASE SignOut \/ Reload \/ Expire \/ \E c \in Companies : Leave(c)
  BY <1>5, RestType, RestCareful DEF IInv
<1>6. CASE UNCHANGED vars
  BY <1>6 DEF vars, IInv, TypeOK, AllCareful, Open
<1> QED BY <1>1, <1>2, <1>3, <1>4, <1>5, <1>6 DEF Next

(* The invariant holds of every behaviour. *)
THEOREM Invariance == Spec => []IInv
BY InitInv, StepInv, PTL DEF Spec

(* The variables keep their types, for any requests and companies. *)
THEOREM TypeCorrect == Spec => []TypeOK
<1>1. IInv => TypeOK
  BY DEF IInv
<1> QED BY <1>1, Invariance, PTL

(* A request that is sent again after a 401 has not been executed before.   *)
THEOREM AtMostOnce == Spec => []WritesHappenOnce
<1>1. IInv => WritesHappenOnce
  BY DEF IInv, AllCareful, Careful, WritesHappenOnce, SentAs
<1> QED BY <1>1, Invariance, PTL

(* Whoever waits for the shared refresh has one that will release them.     *)
THEOREM NoOneWaitsInVain == Spec => []WaitersAreReleased
<1>1. IInv => WaitersAreReleased
  BY DEF IInv, AllCareful, Careful, WaitersAreReleased, Waiting, Answered
<1> QED BY <1>1, Invariance, PTL

-----------------------------------------------------------------------------
(* What holds while nobody's memberships have changed.  The companies m of  *)
(* the user, the scope k of a refreshed pair and the stored pair s are      *)
(* parameters, so that the lemmas are about one state.                      *)

(* A pair is for a company of the user, or is what a refresh would bring.   *)
OfUser(t, m, k) == t # None => t.scope \in m \cup {k}

(* A pair is what a refresh would bring.                                    *)
Plain(t, k) == t # None => t.scope = k

(* The next request, with the pair s, goes to company c or to none.         *)
Suits(s, c) == s # None => s.scope \in {None, c}

(* A write is sent to its company or with a refreshed pair; the answer that *)
(* a page will have as current suits the stored pair.                       *)
SteadyRequest(q, s, m, k) ==
  /\ OfUser(q.token, m, k)
  /\ q.kind = "login" => Plain(q.token, k)
  /\ q.kind = "write" =>
       /\ q.company \in m \cup {k}
       /\ q.at = "sent" /\ q.token # None => q.token.scope \in {q.company, k}
       /\ q.landed \in {None, q.company}
  /\ q.kind # "write" => q.landed = None
  /\ q.kind = "page" /\ q.at = "ok" =>
       q.heard /\ q.company \in m /\ Suits(s, q.company)
  /\ q.kind = "page" /\ q.heard /\ q.at = "sent" /\ q.token # None =>
       (q.token.scope \in m => Suits(s, q.token.scope))

SteadyState ==
  /\ OfUser(store, member, Scope)
  /\ Plain(flight.token, Scope)
  /\ \A r \in Requests : Open(r) => SteadyRequest(requests[r], store, member, Scope)
  /\ page # None => page \in member /\ Suits(store, page)

(* The page of an invitation is alone in its tab, but for /auth/me.         *)
AcceptsAlone ==
  \A r \in Requests : Open(r) /\ requests[r].kind = "accept" =>
    /\ requests[r].heard /\ page = None
    /\ \A s \in Requests \ {r} : Open(s) => requests[s].kind = "me"

Steady == ~changed => SteadyState

SInv == IInv /\ AcceptsAlone /\ Steady

-----------------------------------------------------------------------------
(* A refresh brings the only company of the user, or none.                  *)
LEMMA ScopeIsOnly == Scope # None => member = {Scope}
BY DEF Scope

(* A refreshed pair suits whatever company of the user is on the pages.     *)
LEMMA PlainSuits ==
  ASSUME NEW t, Plain(t, Scope), NEW c \in member
  PROVE  Suits(t, c)
BY ScopeIsOnly DEF Plain, Suits

(* A refreshed pair is one of the user.                                     *)
LEMMA PlainIsOfUser ==
  ASSUME NEW t, Plain(t, Scope)
  PROVE  OfUser(t, member, Scope)
BY DEF Plain, OfUser

(* What is issued without a preference is a refreshed pair.                 *)
LEMMA IssuedIsPlain == Plain(Issued, Scope)
BY DEF Plain, Issued

(* A request stays steady when the pair in local storage is refreshed or cleared. *)
LEMMA SteadyUnderRefresh ==
  ASSUME NEW q, NEW s, SteadyRequest(q, s, member, Scope), NEW t, Plain(t, Scope)
  PROVE  SteadyRequest(q, t, member, Scope)
BY PlainSuits DEF SteadyRequest

(* A request that is no page's does not mind what is stored.                *)
LEMMA SteadyElsewhere ==
  ASSUME NEW q, NEW s, SteadyRequest(q, s, member, Scope), NEW t,
         q.kind # "page" \/ (~q.heard /\ q.at # "ok")
  PROVE  SteadyRequest(q, t, member, Scope)
BY DEF SteadyRequest

(* A request that is sent again with a refreshed pair is steady: a write    *)
(* reaches its company or none.                                             *)
LEMMA SteadyRetry ==
  ASSUME TypeOK, NEW q \in Request, NEW s, SteadyRequest(q, s, member, Scope), NEW t,
         Plain(t, Scope)
  PROVE  \A u : OfUser(u, member, Scope) =>
                  SteadyRequest(Retried(q, t), u, member, Scope)
<1> SUFFICES ASSUME NEW u, OfUser(u, member, Scope)
             PROVE  SteadyRequest(Retried(q, t), u, member, Scope)
  OBVIOUS
<1> DEFINE new == Retried(q, t)
<1>1. /\ new.at = "sent" /\ new.token = t /\ new.kind = q.kind
      /\ new.company = q.company /\ new.landed = q.landed /\ new.heard = q.heard
  BY DEF Retried, Request
<1> HIDE DEF new
<1>2. OfUser(t, member, Scope)
  BY PlainIsOfUser
<1>3. t # None /\ t.scope \in member => Suits(u, t.scope)
  BY ScopeIsOnly, NoneAssumption DEF Plain, OfUser, Suits, TypeOK
<1>4. SteadyRequest(new, u, member, Scope)
  BY <1>1, <1>2, <1>3 DEF SteadyRequest, Plain
<1> QED BY <1>4 DEF new

(* One request changes, and nothing else that the tab keeps but the refresh. *)
LEMMA SteadyBecomes ==
  ASSUME TypeOK, SteadyState, NEW r \in Requests, NEW q, Becomes(r, q),
         UNCHANGED <<member, store, page>>, Scope' = Scope, Plain(flight'.token, Scope),
         q = None \/ SteadyRequest(q, store, member, Scope)
  PROVE  SteadyState'
<1>1. ASSUME NEW s \in Requests, requests'[s] # None
      PROVE  SteadyRequest(requests'[s], store, member, Scope)
  BY <1>1, BecomesSame DEF SteadyState, Open
<1> QED BY <1>1 DEF SteadyState, Open

(* The memberships are what they were and so is what a refresh brings.      *)
LEMMA Quiet ==
  ASSUME TypeOK, [Next]_vars, ~changed'
  PROVE  /\ ~changed /\ member' = member /\ Scope' = Scope
         /\ \A c \in Companies : ~Leave(c)
<1>1. ~changed /\ member' = member
  <2>1. ASSUME NEW r \in Requests, User(r) PROVE UNCHANGED <<member, changed>>
    BY <2>1 DEF User, Login, FetchMe, OpenPage, Write, Accept, Switch
  <2>2. ASSUME NEW r \in Requests, Server(r), ~ServeAccept(r)
        PROVE  UNCHANGED <<member, changed>>
    BY <2>2 DEF Server, ServeLogin, ServeUnauthorized, ServeSwitch,
                ServeQuery, ServeWrite, Lose
  <2>3. ASSUME NEW r \in Requests, ServeAccept(r) PROVE ~changed /\ member' = member
    BY <2>3 DEF ServeAccept
  <2>4. ASSUME NEW r \in Requests, Hear(r) PROVE UNCHANGED <<member, changed>>
    BY <2>4 DEF Hear, HearMe, HearPage, HearWrite, SignIn, Switched,
                AwaitRefresh, RetryAtOnce, GiveUp
  <2>5. CASE Refresh
    BY <2>5 DEF Refresh, ServeRefresh, LoseRefresh, Refreshed, NotRefreshed, Tick
  <2>6. CASE SignOut \/ Reload \/ Expire
    BY <2>6 DEF SignOut, Reload, Expire
  <2>7. ~ \E c \in Companies : Leave(c)
    BY DEF Leave
  <2>8. CASE UNCHANGED vars
    BY <2>8 DEF vars
  <2> QED BY <2>1, <2>2, <2>3, <2>4, <2>5, <2>6, <2>7, <2>8 DEF Next
<1>2. Scope' = Scope
  BY <1>1 DEF Scope
<1>3. \A c \in Companies : ~Leave(c)
  BY DEF Leave
<1> QED BY <1>1, <1>2, <1>3

-----------------------------------------------------------------------------
(* Who opens the page of an invitation does nothing else meanwhile.         *)

(* Requests end, are answered and go on: none begins.                       *)
LEMMA AloneStays ==
  ASSUME AcceptsAlone, page' \in {page, None},
         \A s \in Requests : requests'[s] # None =>
           /\ Open(s) /\ requests'[s].kind = requests[s].kind
           /\ requests[s].kind = "accept" => requests'[s].heard = requests[s].heard
  PROVE  AcceptsAlone'
BY DEF AcceptsAlone, Open

(* So they do when a page is unmounted.                                     *)
LEMMA AloneUnmounted ==
  ASSUME AcceptsAlone, page' \in {page, None},
         NEW open \in [Requests -> Request \cup {None}], requests' = Unmounted(open),
         \A s \in Requests : open[s] # None =>
           /\ Open(s) /\ open[s].kind = requests[s].kind
           /\ requests[s].kind = "accept" => open[s].heard = requests[s].heard
  PROVE  AcceptsAlone'
<1>1. ASSUME NEW s \in Requests, requests'[s] # None
      PROVE  /\ Open(s) /\ requests'[s].kind = requests[s].kind
             /\ requests[s].kind = "accept" => requests'[s].heard = requests[s].heard
  <2>1. /\ open[s] # None /\ open[s] \in Request
        /\ \/ requests'[s] = open[s]
           \/ open[s].kind = "switch" /\ requests'[s] = [open[s] EXCEPT !.heard = FALSE]
    BY <1>1, UnmountedSame
  <2>2. [open[s] EXCEPT !.heard = FALSE].kind = open[s].kind
    BY <2>1 DEF Request
  <2> QED BY <2>1, <2>2
<1> QED BY <1>1, AloneStays

(* One request goes on or ends.                                             *)
LEMMA AloneBecomes ==
  ASSUME TypeOK, AcceptsAlone, NEW r \in Requests, Open(r), NEW q, Becomes(r, q),
         UNCHANGED page,
         q = None \/ (q.kind = requests[r].kind /\ q.heard = requests[r].heard)
  PROVE  AcceptsAlone'
BY BecomesSame, AloneStays DEF Open

(* Nobody opens another page while that of an invitation waits.             *)
LEMMA AloneWithUser ==
  ASSUME TypeOK, AcceptsAlone, NEW r \in Requests, User(r)
  PROVE  AcceptsAlone'
<1>1. ASSUME NEW kind, NEW token, NEW company, kind # "accept",
             ~Hears({"login", "accept"}), Becomes(r, Sent(kind, token, company))
      PROVE  AcceptsAlone'
  <2>1. ASSUME NEW s \in Requests PROVE ~(Open(s) /\ requests[s].kind = "accept")
    BY <1>1 DEF AcceptsAlone, Hears
  <2>2. Sent(kind, token, company).kind # "accept"
    BY <1>1 DEF Sent
  <2> QED BY <1>1, <2>1, <2>2, BecomesSame DEF AcceptsAlone, Open
<1>2. ASSUME NEW c \in Companies, Accept(r, c) PROVE AcceptsAlone'
  <2> DEFINE new == Sent("accept", None, c)
  <2>1. new.kind = "accept" /\ new.heard
    BY DEF Sent
  <2>2. requests'[r] = new /\ \A s \in Requests \ {r} : requests'[s] = requests[s]
    BY <1>2, BecomesSame DEF Accept
  <2>3. page' = None /\ \A s \in Requests \ {r} : Open(s) => requests[s].kind = "me"
    BY <1>2 DEF Accept
  <2> HIDE DEF new
  <2> QED BY <2>1, <2>2, <2>3 DEF AcceptsAlone, Open
<1>3. ASSUME \E c \in Companies : Switch(r, c) PROVE AcceptsAlone'
  BY <1>1, <1>3 DEF Switch, Send, Authenticated
<1>4. CASE Login(r)
  BY <1>1, <1>4 DEF Login
<1>5. CASE FetchMe(r)
  <2>1. ~Hears({"login", "accept"})
    BY <1>5 DEF FetchMe, Hears
  <2> QED BY <1>1, <1>5, <2>1 DEF FetchMe, Send
<1>6. CASE OpenPage(r) \/ Write(r)
  BY <1>1, <1>6 DEF OpenPage, Write, Send, Authenticated
<1> QED BY <1>2, <1>3, <1>4, <1>5, <1>6 DEF User

(* The server answers and the network loses.                                *)
LEMMA AloneWithServer ==
  ASSUME TypeOK, AcceptsAlone, NEW r \in Requests, Server(r)
  PROVE  AcceptsAlone'
<1> DEFINE q == requests[r]
<1>1. UNCHANGED page /\ Open(r) /\ q \in Request
  BY OpenType DEF Server, ServeLogin, ServeAccept, ServeUnauthorized, ServeSwitch,
                  ServeQuery, ServeWrite, Lose, SentAs, Answered
<1>2. ASSUME NEW pair PROVE Paired(r, pair).kind = q.kind /\ Paired(r, pair).heard = q.heard
  BY <1>1 DEF Paired, Request
<1>3. CASE ServeLogin(r) \/ ServeAccept(r) \/ ServeSwitch(r)
  BY <1>1, <1>2, <1>3, AloneBecomes DEF ServeLogin, ServeAccept, ServeSwitch
<1>4. CASE ServeUnauthorized(r)
  <2> DEFINE new == [q EXCEPT !.at = "unauthorized", !.token = None]
  <2>1. new.kind = q.kind /\ new.heard = q.heard
    BY <1>1 DEF Request
  <2> QED BY <1>1, <1>4, <2>1, AloneBecomes DEF ServeUnauthorized
<1>5. CASE ServeQuery(r)
  <2> DEFINE new == [q EXCEPT !.at = "ok", !.token = None, !.company = q.token.scope,
                              !.again = FALSE]
  <2>1. new.kind = q.kind /\ new.heard = q.heard
    BY <1>1 DEF Request
  <2> QED BY <1>1, <1>5, <2>1, AloneBecomes DEF ServeQuery
<1>6. CASE ServeWrite(r)
  <2> DEFINE new == [q EXCEPT !.at = "ok", !.token = None, !.landed = q.token.scope,
                              !.again = FALSE]
  <2>1. new.kind = q.kind /\ new.heard = q.heard
    BY <1>1 DEF Request
  <2> QED BY <1>1, <1>6, <2>1, AloneBecomes DEF ServeWrite
<1>7. CASE Lose(r)
  BY <1>1, <1>7, AloneBecomes DEF Lose, Closed, Becomes
<1> QED BY <1>3, <1>4, <1>5, <1>6, <1>7 DEF Server

(* What the cache drops was open, and is of the same kind.                  *)
LEMMA DroppedSame ==
  ASSUME TypeOK, NEW kinds, NEW s \in Requests, Dropped(kinds)[s] # None
  PROVE  /\ Open(s) /\ requests[s] \in Request
         /\ \/ Dropped(kinds)[s] = requests[s] /\ requests[s].kind \notin kinds
            \/ /\ requests[s].kind \in kinds /\ requests[s].at # "ok"
               /\ Dropped(kinds)[s] = [requests[s] EXCEPT !.heard = FALSE]
<1>1. Open(s)
  BY DEF Dropped, Open
<1> QED BY <1>1, OpenType DEF Dropped, Unheard

(* What a request that waited has become.                                   *)
LEMMA ReleasedSame ==
  ASSUME TypeOK, NEW token, NEW s \in Requests, Released(token)[s] # None
  PROVE  /\ Open(s) /\ requests[s] \in Request
         /\ \/ Released(token)[s] = requests[s] /\ ~Waiting(s)
            \/ Released(token)[s] = Retried(requests[s], token) /\ Waiting(s) /\ token # None
<1>1. Open(s)
  BY DEF Released, Waiting, Answered, Open
<1> QED BY <1>1, OpenType DEF Released

(* An answer that brings a new page or a new pair is not beside an invitation. *)
LEMMA AloneWithHear ==
  ASSUME TypeOK, AcceptsAlone, NEW r \in Requests, Hear(r)
  PROVE  AcceptsAlone'
<1> DEFINE q == requests[r]
<1>1. Open(r) /\ q \in Request
  BY OpenType DEF Hear, HearMe, HearPage, HearWrite, SignIn, Switched, AwaitRefresh,
                  RetryAtOnce, GiveUp, Answered
<1>2. CASE HearMe(r) \/ HearWrite(r) \/ GiveUp(r)
  <2>1. /\ UNCHANGED page
        /\ requests' = Closed(r) \/ requests' = Unmounted(Closed(r))
    BY <1>2 DEF HearMe, HearWrite, GiveUp
  <2>2. \A s \in Requests : Closed(r)[s] # None => Open(s) /\ Closed(r)[s] = requests[s]
    BY DEF Closed, TypeOK, Open
  <2> QED BY <2>1, <2>2, ClosedType, AloneUnmounted, AloneStays
<1>3. CASE HearPage(r)
  <2>1. \A s \in Requests : Open(s) => requests[s].kind # "accept"
    BY <1>1, <1>3 DEF AcceptsAlone, HearPage
  <2>2. \A s \in Requests : requests'[s] # None => Open(s) /\ requests'[s] = requests[s]
    BY <1>3 DEF HearPage, Closed, TypeOK, Open
  <2> QED BY <2>1, <2>2 DEF AcceptsAlone, Open
<1>4. CASE SignIn(r) \/ Switched(r)
  <2>1. PICK kinds \in SUBSET {"me", "page"},
              new \in {None, Sent("me", requests[r].token, None)} :
          /\ requests' = [Dropped(kinds) EXCEPT ![r] = new]
          /\ requests[r].kind = "switch" => "page" \in kinds
          /\ requests[r].kind \in {"login", "accept", "switch"}
    BY <1>4, PairCases
  <2>2. new = None \/ new.kind = "me"
    BY <2>1 DEF Sent
  <2>3. q.kind \in {"login", "accept", "switch"}
    BY <1>4 DEF SignIn, Switched
  <2>4. \A s \in Requests \ {r} : Open(s) => requests[s].kind # "accept"
    BY <1>1, <2>3 DEF AcceptsAlone
  <2>5. ASSUME NEW s \in Requests, requests'[s] # None
        PROVE  requests'[s].kind # "accept"
    <3>1. CASE s = r
      BY <2>1, <2>2, <2>5, <3>1, DroppedType
    <3>2. CASE s # r
      <4>1. requests'[s] = Dropped(kinds)[s]
        BY <2>1, <3>2, DroppedType
      <4>2. Open(s) /\ requests[s] \in Request
        BY <2>5, <4>1, DroppedSame
      <4>3. [requests[s] EXCEPT !.heard = FALSE].kind = requests[s].kind
        BY <4>2 DEF Request
      <4>4. requests'[s] \in {requests[s], [requests[s] EXCEPT !.heard = FALSE]}
        BY <2>5, <4>1, DroppedSame
      <4>5. requests'[s].kind = requests[s].kind
        BY <4>3, <4>4
      <4> QED BY <2>4, <3>2, <4>2, <4>5
    <3> QED BY <3>1, <3>2
  <2> QED BY <2>5 DEF AcceptsAlone, Open
<1>5. CASE AwaitRefresh(r)
  <2> DEFINE new == [q EXCEPT !.at = "waits"]
  <2>1. new.kind = q.kind /\ new.heard = q.heard
    BY <1>1 DEF Request
  <2> QED BY <1>1, <1>5, <2>1, AloneBecomes DEF AwaitRefresh
<1>6. CASE RetryAtOnce(r)
  <2> DEFINE new == Retried(q, flight.token)
  <2>1. new.kind = q.kind /\ new.heard = q.heard
    BY <1>1 DEF Retried, Request
  <2> QED BY <1>1, <1>6, <2>1, AloneBecomes DEF RetryAtOnce
<1> QED BY <1>2, <1>3, <1>4, <1>5, <1>6 DEF Hear

(* A refresh, a sign-out, a reload, an expiry and an owner open nothing.    *)
LEMMA AloneWithRest ==
  ASSUME TypeOK, AcceptsAlone,
         Refresh \/ SignOut \/ Reload \/ Expire \/ \E c \in Companies : Leave(c)
  PROVE  AcceptsAlone'
<1>1. CASE ServeRefresh \/ LoseRefresh \/ Tick \/ \E c \in Companies : Leave(c)
  BY <1>1, AloneStays DEF ServeRefresh, LoseRefresh, Tick, Leave, Open
<1>2. CASE Refreshed \/ NotRefreshed
  <2>1. PICK token \in {flight.token, None} :
          requests' = Released(token) \/ requests' = Unmounted(Released(token))
    BY <1>2 DEF Refreshed, NotRefreshed
  <2>2. ASSUME NEW s \in Requests, Released(token)[s] # None
        PROVE  /\ Open(s) /\ Released(token)[s].kind = requests[s].kind
               /\ Released(token)[s].heard = requests[s].heard
    <3>1. Open(s) /\ requests[s] \in Request
      BY <2>2, ReleasedSame
    <3>2. /\ Retried(requests[s], token).kind = requests[s].kind
          /\ Retried(requests[s], token).heard = requests[s].heard
      BY <3>1 DEF Retried, Request
    <3> QED BY <2>2, <3>1, <3>2, ReleasedSame
  <2>3. Released(token) \in [Requests -> Request \cup {None}] /\ UNCHANGED page
    BY <1>2, ReleasedType DEF TypeOK, Flight, Refreshed, NotRefreshed
  <2> QED BY <2>1, <2>2, <2>3, AloneStays, AloneUnmounted
<1>3. CASE SignOut
  <2> DEFINE rest == Dropped({"me", "page"})
  <2>1. requests' = Unmounted(rest) /\ page' = None
    BY <1>3 DEF SignOut
  <2>2. ASSUME NEW s \in Requests, rest[s] # None
        PROVE  /\ Open(s) /\ rest[s].kind = requests[s].kind
               /\ requests[s].kind = "accept" => rest[s].heard = requests[s].heard
    <3>1. Open(s) /\ requests[s] \in Request
      BY <2>2, DroppedSame
    <3>2. [requests[s] EXCEPT !.heard = FALSE].kind = requests[s].kind
      BY <3>1 DEF Request
    <3>3. \/ rest[s] = requests[s]
          \/ /\ requests[s].kind \in {"me", "page"}
             /\ rest[s] = [requests[s] EXCEPT !.heard = FALSE]
      BY <2>2, DroppedSame
    <3> QED BY <3>1, <3>2, <3>3
  <2>3. rest \in [Requests -> Request \cup {None}]
    BY DroppedType
  <2> HIDE DEF rest
  <2> QED BY <2>1, <2>2, <2>3, AloneUnmounted
<1>4. CASE Reload
  BY <1>4, AloneStays DEF Reload
<1>5. CASE Expire
  <2>1. ASSUME NEW s \in Requests, requests'[s] # None
        PROVE  /\ Open(s) /\ requests'[s].kind = requests[s].kind
               /\ requests'[s].heard = requests[s].heard
    <3>1. Open(s)
      BY <1>5, <2>1 DEF Expire, Open
    <3>2. requests[s] \in Request
      BY <3>1, OpenType
    <3>3. /\ [requests[s] EXCEPT !.token.valid = FALSE].kind = requests[s].kind
          /\ [requests[s] EXCEPT !.token.valid = FALSE].heard = requests[s].heard
      BY <3>2 DEF Request
    <3> QED BY <1>5, <3>1, <3>3 DEF Expire
  <2> QED BY <1>5, <2>1, AloneStays DEF Expire
<1> QED BY <1>1, <1>2, <1>3, <1>4, <1>5 DEF Refresh

-----------------------------------------------------------------------------
(* Nobody's memberships change, and the state stays steady.                 *)

(* What the user sends goes to the company of the stored pair.              *)
LEMMA SteadyWithUser ==
  ASSUME TypeOK, SteadyState, NEW r \in Requests, User(r), Scope' = Scope
  PROVE  SteadyState'
<1>0. UNCHANGED <<member, store, flight, page>>
  BY DEF User, Login, FetchMe, OpenPage, Write, Accept, Switch
<1>1. ASSUME NEW kind, NEW token \in {None, store}, NEW company,
             kind = "login" => token = None,
             kind = "write" => store # None /\ company = store.scope,
             Becomes(r, Sent(kind, token, company))
      PROVE  SteadyState'
  <2> DEFINE new == Sent(kind, token, company)
  <2>1. /\ new.kind = kind /\ new.at = "sent" /\ new.token = token
        /\ new.company = company /\ new.landed = None
    BY DEF Sent
  <2> HIDE DEF new
  <2>2. OfUser(token, member, Scope)
    BY <1>1 DEF SteadyState, OfUser
  <2>3. SteadyRequest(new, store, member, Scope)
    BY <1>1, <2>1, <2>2 DEF SteadyRequest, SteadyState, OfUser, Plain, Suits
  <2> QED BY <1>0, <1>1, <2>3, SteadyBecomes DEF new, SteadyState
<1>2. ASSUME \E c \in Companies : Accept(r, c) \/ Switch(r, c) PROVE SteadyState'
  BY <1>1, <1>2 DEF Accept, Switch, Send
<1>3. CASE Login(r)
  BY <1>1, <1>3 DEF Login
<1>4. CASE FetchMe(r) \/ OpenPage(r)
  <2>1. Becomes(r, Sent("me", store, None)) \/ Becomes(r, Sent("page", store, None))
    BY <1>4 DEF FetchMe, OpenPage, Send
  <2> QED BY <1>1, <2>1
<1>5. CASE Write(r)
  <2>1. Becomes(r, Sent("write", store, store.scope)) /\ store # None
    BY <1>5 DEF Write, Send, Authenticated
  <2> QED BY <1>1, <2>1
<1> QED BY <1>2, <1>3, <1>4, <1>5 DEF User

(* The server reads the company of a request off its pair.                  *)
LEMMA SteadyWithServer ==
  ASSUME TypeOK, SteadyState, NEW r \in Requests, Server(r), member' = member,
         Scope' = Scope
  PROVE  SteadyState'
<1> DEFINE q == requests[r]
<1>1. UNCHANGED <<store, flight, page>> /\ Open(r) /\ q \in Request
  BY OpenType DEF Server, ServeLogin, ServeAccept, ServeUnauthorized, ServeSwitch,
                  ServeQuery, ServeWrite, Lose, SentAs, Answered
<1>2. SteadyRequest(q, store, member, Scope) /\ OfUser(store, member, Scope)
  BY <1>1 DEF SteadyState
<1>3. ASSUME NEW new, new = None \/ SteadyRequest(new, store, member, Scope),
             Becomes(r, new)
      PROVE  SteadyState'
  BY <1>1, <1>3, SteadyBecomes DEF SteadyState
<1>4. ASSUME NEW pair, OfUser(pair, member, Scope), q.kind \notin {"page", "write"},
             q.kind = "login" => Plain(pair, Scope), Becomes(r, Paired(r, pair))
      PROVE  SteadyState'
  <2> DEFINE new == Paired(r, pair)
  <2>1. /\ new.kind = q.kind /\ new.at = "ok" /\ new.token = pair /\ new.landed = q.landed
    BY <1>1 DEF Paired, Request
  <2> HIDE DEF new
  <2>2. SteadyRequest(new, store, member, Scope)
    BY <1>2, <1>4, <2>1 DEF SteadyRequest
  <2> QED BY <1>3, <1>4, <2>2 DEF new
<1>5. CASE ServeLogin(r)
  <2>1. Becomes(r, None) \/ Becomes(r, Paired(r, Issued))
    BY <1>5 DEF ServeLogin
  <2>2. OfUser(Issued, member, Scope) /\ Plain(Issued, Scope)
    BY IssuedIsPlain, PlainIsOfUser
  <2>3. q.kind = "login"
    BY <1>5 DEF ServeLogin, SentAs
  <2> QED BY <1>3, <1>4, <2>1, <2>2, <2>3
<1>6. CASE ServeAccept(r) \/ ServeSwitch(r)
  <2> DEFINE pair == [scope |-> q.company, valid |-> TRUE]
  <2>1. Becomes(r, None) \/ (Becomes(r, Paired(r, pair)) /\ q.company \in member)
    BY <1>6 DEF ServeAccept, ServeSwitch
  <2>2. q.company \in member => OfUser(pair, member, Scope)
    BY DEF OfUser
  <2>3. q.kind \in {"accept", "switch"}
    BY <1>6 DEF ServeAccept, ServeSwitch, SentAs
  <2> QED BY <1>3, <1>4, <2>1, <2>2, <2>3
<1>7. CASE ServeUnauthorized(r)
  <2> DEFINE new == [q EXCEPT !.at = "unauthorized", !.token = None]
  <2>1. /\ new.kind = q.kind /\ new.at = "unauthorized" /\ new.token = None
        /\ new.company = q.company /\ new.landed = q.landed
    BY <1>1 DEF Request
  <2>2. Becomes(r, new)
    BY <1>7 DEF ServeUnauthorized
  <2> HIDE DEF new
  <2>3. SteadyRequest(new, store, member, Scope)
    BY <1>2, <2>1 DEF SteadyRequest, OfUser, Plain
  <2> QED BY <1>3, <2>2, <2>3
<1>8. CASE ServeQuery(r)
  <2> DEFINE new == [q EXCEPT !.at = "ok", !.token = None, !.company = q.token.scope,
                              !.again = FALSE]
  <2>1. /\ new.kind = q.kind /\ new.at = "ok" /\ new.token = None /\ new.heard = q.heard
        /\ new.company = q.token.scope /\ new.landed = q.landed
    BY <1>1 DEF Request
  <2>2. /\ q.kind \in {"me", "page"} /\ q.at = "sent" /\ q.token # None
        /\ \/ Becomes(r, None)
           \/ /\ q.heard /\ (q.kind = "me" \/ q.token.scope \in member)
              /\ Becomes(r, new)
    BY <1>8 DEF ServeQuery, SentAs, Known
  <2> HIDE DEF new
  <2>3. q.heard /\ (q.kind = "me" \/ q.token.scope \in member)
          => SteadyRequest(new, store, member, Scope)
    BY <1>2, <2>1, <2>2 DEF SteadyRequest, OfUser, Plain
  <2> QED BY <1>3, <2>2, <2>3
<1>9. CASE ServeWrite(r)
  <2> DEFINE new == [q EXCEPT !.at = "ok", !.token = None, !.landed = q.token.scope,
                              !.again = FALSE]
  <2>1. /\ new.kind = q.kind /\ new.at = "ok" /\ new.token = None
        /\ new.company = q.company /\ new.landed = q.token.scope
    BY <1>1 DEF Request
  <2>2. /\ q.kind = "write" /\ q.at = "sent" /\ q.token # None
        /\ Becomes(r, None) \/ (q.token.scope \in member /\ Becomes(r, new))
    BY <1>9 DEF ServeWrite, SentAs, Known
  <2> HIDE DEF new
  <2>3. q.token.scope \in member => q.token.scope = q.company
    BY <1>2, <2>2, ScopeIsOnly, NoneAssumption DEF SteadyRequest, TypeOK
  <2>4. q.token.scope \in member => SteadyRequest(new, store, member, Scope)
    BY <1>2, <2>1, <2>2, <2>3 DEF SteadyRequest, OfUser, Plain
  <2> QED BY <1>3, <2>2, <2>4
<1>10. CASE Lose(r)
  BY <1>3, <1>10 DEF Lose, Closed, Becomes
<1> QED BY <1>5, <1>6, <1>7, <1>8, <1>9, <1>10 DEF Server

(* A query that the cache has dropped is as steady as it was, and one of a  *)
(* page that is dropped does not mind what is stored.                       *)
LEMMA SteadyDropped ==
  ASSUME TypeOK, SteadyState, NEW kinds, NEW s \in Requests, Dropped(kinds)[s] # None
  PROVE  /\ SteadyRequest(Dropped(kinds)[s], store, member, Scope)
         /\ "page" \in kinds \/ Dropped(kinds)[s].kind # "page" =>
              \A t : SteadyRequest(Dropped(kinds)[s], t, member, Scope)
<1> DEFINE q == requests[s]
           new == [q EXCEPT !.heard = FALSE]
<1>1. Open(s) /\ q \in Request
  BY DroppedSame
<1>2. SteadyRequest(q, store, member, Scope)
  BY <1>1 DEF SteadyState
<1>3. /\ new.kind = q.kind /\ new.at = q.at /\ new.token = q.token /\ ~new.heard
      /\ new.company = q.company /\ new.landed = q.landed
  BY <1>1 DEF Request
<1>4. \/ Dropped(kinds)[s] = q /\ q.kind \notin kinds
      \/ q.kind \in kinds /\ q.at # "ok" /\ Dropped(kinds)[s] = new
  BY DroppedSame
<1> HIDE DEF new
<1>5. CASE Dropped(kinds)[s] = q /\ q.kind \notin kinds
  <2>1. ASSUME q.kind # "page", NEW t PROVE SteadyRequest(q, t, member, Scope)
    BY <1>2, <2>1, SteadyElsewhere
  <2> QED BY <1>2, <1>5, <2>1
<1>6. CASE q.at # "ok" /\ Dropped(kinds)[s] = new
  <2>1. SteadyRequest(new, store, member, Scope)
    BY <1>2, <1>3, <1>6 DEF SteadyRequest
  <2>2. ASSUME NEW t PROVE SteadyRequest(new, t, member, Scope)
    BY <1>3, <1>6, <2>1, SteadyElsewhere
  <2> QED BY <1>6, <2>1, <2>2
<1> QED BY <1>4, <1>5, <1>6

(* Requests are as steady when the page that shows them is unmounted.       *)
LEMMA SteadyUnmounted ==
  ASSUME NEW open \in [Requests -> Request \cup {None}], NEW t,
         \A s \in Requests : open[s] # None => SteadyRequest(open[s], t, member, Scope),
         NEW s \in Requests, Unmounted(open)[s] # None
  PROVE  SteadyRequest(Unmounted(open)[s], t, member, Scope)
<1> DEFINE q == open[s]
           new == [q EXCEPT !.heard = FALSE]
<1>1. /\ q \in Request /\ SteadyRequest(q, t, member, Scope)
      /\ Unmounted(open)[s] = q \/ (q.kind = "switch" /\ Unmounted(open)[s] = new)
  BY UnmountedSame
<1>2. /\ new.kind = q.kind /\ new.at = q.at /\ new.token = q.token
      /\ new.company = q.company /\ new.landed = q.landed
  BY <1>1 DEF Request
<1> HIDE DEF new
<1>3. q.kind = "switch" => SteadyRequest(new, t, member, Scope)
  BY <1>1, <1>2 DEF SteadyRequest
<1> QED BY <1>1, <1>3

(* The tab takes over the pair of a sign-in or of a switch: the pages are   *)
(* dropped, or could be of no other company.                                *)
LEMMA SteadyWithPair ==
  ASSUME TypeOK, SteadyState, AcceptsAlone, NEW r \in Requests, SignIn(r) \/ Switched(r),
         Scope' = Scope
  PROVE  SteadyState'
<1> DEFINE q == requests[r]
           me1 == Sent("me", q.token, None)
<1>1. Open(r) /\ q \in Request /\ q.at = "ok"
  BY OpenType DEF SignIn, Switched, Answered
<1>2. SteadyRequest(q, store, member, Scope)
  BY <1>1 DEF SteadyState
<1>3. /\ UNCHANGED <<member, flight>> /\ store' = q.token /\ page' = None
      /\ \/ q.kind \in {"login", "accept"} /\ requests' = Refetched(r, {})
         \/ q.kind = "switch" /\ requests' = Refetched(r, {"page"})
  BY DEF SignIn, Switched
<1>4. /\ me1.kind = "me" /\ me1.at = "sent" /\ me1.token = q.token /\ me1.landed = None
  BY DEF Sent
<1>5. OfUser(q.token, member, Scope)
  BY <1>2 DEF SteadyRequest
<1> HIDE DEF me1
<1>6. SteadyRequest(me1, q.token, member, Scope)
  BY <1>4, <1>5 DEF SteadyRequest
<1>7. PICK kinds \in SUBSET {"me", "page"},
            new \in {None, Sent("me", requests[r].token, None)} :
        /\ requests' = [Dropped(kinds) EXCEPT ![r] = new]
        /\ requests[r].kind = "switch" => "page" \in kinds
        /\ requests[r].kind \in {"login", "accept", "switch"}
  BY PairCases
<1>8. ASSUME NEW s \in Requests, requests'[s] # None
      PROVE  SteadyRequest(requests'[s], q.token, member, Scope)
  <2>1. CASE s = r
    <3>1. new \in {None, me1}
      BY <1>7 DEF me1
    <3> QED BY <3>1, <1>6, <1>7, <1>8, <2>1, DroppedType
  <2>2. CASE s # r
    <3> DEFINE rest == Dropped(kinds)[s]
    <3>1. requests'[s] = rest /\ rest # None
      BY <1>7, <1>8, <2>2, DroppedType
    <3>2. /\ SteadyRequest(rest, store, member, Scope)
          /\ "page" \in kinds \/ rest.kind # "page" =>
               \A t : SteadyRequest(rest, t, member, Scope)
      BY <3>1, SteadyDropped
    <3>3. CASE q.kind = "switch"
      BY <1>7, <3>1, <3>2, <3>3
    <3>4. CASE q.kind = "login"
      <4>1. Plain(q.token, Scope)
        BY <1>2, <3>4 DEF SteadyRequest
      <4> QED BY <3>1, <3>2, <4>1, SteadyUnderRefresh
    <3>5. CASE q.kind = "accept"
      <4>1. Open(s) /\ requests[s] \in Request
        BY <3>1, DroppedSame
      <4>2. requests[s].kind = "me"
        BY <1>1, <2>2, <3>5, <4>1 DEF AcceptsAlone
      <4>3. [requests[s] EXCEPT !.heard = FALSE].kind = "me"
        BY <4>1, <4>2 DEF Request
      <4>4. rest = requests[s] \/ rest = [requests[s] EXCEPT !.heard = FALSE]
        BY <3>1, DroppedSame
      <4>5. rest.kind # "page"
        BY <4>2, <4>3, <4>4
      <4> QED BY <3>1, <3>2, <4>5
    <3> QED BY <1>7, <3>3, <3>4, <3>5
  <2> QED BY <2>1, <2>2
<1> QED BY <1>3, <1>5, <1>8 DEF SteadyState, Open

(* What the tab does with an answer keeps pages and writes in their company. *)
LEMMA SteadyWithHear ==
  ASSUME TypeOK, SteadyState, AcceptsAlone, NEW r \in Requests, Hear(r), Scope' = Scope
  PROVE  SteadyState'
<1> DEFINE q == requests[r]
<1>1. Open(r) /\ q \in Request
  BY OpenType DEF Hear, HearMe, HearPage, HearWrite, SignIn, Switched, AwaitRefresh,
                  RetryAtOnce, GiveUp, Answered
<1>2. SteadyRequest(q, store, member, Scope) /\ Plain(flight.token, Scope)
  BY <1>1 DEF SteadyState
<1>3. CASE HearMe(r) \/ HearWrite(r)
  <2>1. /\ UNCHANGED <<member, store, page, flight>>
        /\ requests' = Closed(r) \/ requests' = Unmounted(Closed(r))
    BY <1>3 DEF HearMe, HearWrite
  <2>2. \A s \in Requests : Closed(r)[s] # None =>
          SteadyRequest(Closed(r)[s], store, member, Scope)
    BY DEF Closed, TypeOK, Open, SteadyState
  <2>3. ASSUME NEW s \in Requests, requests'[s] # None
        PROVE  SteadyRequest(requests'[s], store, member, Scope)
    BY <2>1, <2>2, <2>3, ClosedType, SteadyUnmounted
  <2> QED BY <2>1, <2>3 DEF SteadyState, Open
<1>4. CASE HearPage(r)
  <2>1. /\ UNCHANGED <<member, store, flight>> /\ page' = q.company
        /\ q.company \in member /\ Suits(store, q.company)
    BY <1>2, <1>4 DEF HearPage, Answered, SteadyRequest
  <2>2. \A s \in Requests : requests'[s] # None => Open(s) /\ requests'[s] = requests[s]
    BY <1>4 DEF HearPage, Closed, TypeOK, Open
  <2> QED BY <2>1, <2>2 DEF SteadyState, Open
<1>5. CASE SignIn(r) \/ Switched(r)
  BY <1>5, SteadyWithPair
<1>6. CASE AwaitRefresh(r)
  <2> DEFINE new == [q EXCEPT !.at = "waits"]
  <2>1. /\ new.kind = q.kind /\ new.at = "waits" /\ new.token = q.token
        /\ new.company = q.company /\ new.landed = q.landed
    BY <1>1 DEF Request
  <2>2. /\ Becomes(r, new) /\ UNCHANGED <<member, store, page>>
    BY <1>6 DEF AwaitRefresh
  <2>3. flight'.token = flight.token
    BY <1>6 DEF AwaitRefresh, TypeOK, Flight
  <2> HIDE DEF new
  <2>4. SteadyRequest(new, store, member, Scope)
    BY <1>2, <2>1 DEF SteadyRequest
  <2> QED BY <1>2, <2>2, <2>3, <2>4, SteadyBecomes
<1>7. CASE RetryAtOnce(r)
  <2>1. SteadyRequest(Retried(q, flight.token), store, member, Scope)
    BY <1>1, <1>2, SteadyRetry DEF SteadyState
  <2>2. Becomes(r, Retried(q, flight.token)) /\ UNCHANGED <<member, store, page, flight>>
    BY <1>7 DEF RetryAtOnce
  <2> QED BY <1>2, <2>1, <2>2, SteadyBecomes
<1>8. CASE GiveUp(r)
  <2>1. /\ UNCHANGED <<member, flight, page>> /\ store' = None
        /\ requests' = Unmounted(Closed(r))
    BY <1>8 DEF GiveUp
  <2>2. ASSUME NEW s \in Requests, Closed(r)[s] # None
        PROVE  SteadyRequest(Closed(r)[s], None, member, Scope)
    <3>1. Open(s) /\ Closed(r)[s] = requests[s]
      BY <2>2 DEF Closed, TypeOK, Open
    <3>2. SteadyRequest(requests[s], store, member, Scope) /\ Plain(None, Scope)
      BY <3>1 DEF SteadyState, Plain
    <3> QED BY <3>1, <3>2, SteadyUnderRefresh
  <2>3. ASSUME NEW s \in Requests, requests'[s] # None
        PROVE  SteadyRequest(requests'[s], None, member, Scope)
    BY <2>1, <2>2, <2>3, ClosedType, SteadyUnmounted
  <2> QED BY <2>1, <2>3 DEF SteadyState, Open, OfUser, Suits
<1> QED BY <1>3, <1>4, <1>5, <1>6, <1>7, <1>8 DEF Hear

(* The refresh brings the only company there is, or none.                   *)
LEMMA SteadyWithRefresh ==
  ASSUME TypeOK, SteadyState, Refresh, Scope' = Scope
  PROVE  SteadyState'
<1>1. CASE ServeRefresh \/ LoseRefresh \/ Tick
  <2>1. UNCHANGED <<member, store, requests, page>>
    BY <1>1 DEF ServeRefresh, LoseRefresh, Tick
  <2>2. flight'.token \in {None, Issued}
    BY <1>1 DEF ServeRefresh, LoseRefresh, Tick, NoFlight
  <2>3. Plain(flight'.token, Scope)
    BY <2>2, IssuedIsPlain DEF Plain
  <2> QED BY <2>1, <2>3 DEF SteadyState, Open
<1>2. CASE Refreshed \/ NotRefreshed
  <2>1. PICK token \in {flight.token, None} :
          /\ requests' = Released(token) \/ requests' = Unmounted(Released(token))
          /\ store' = token
    BY <1>2 DEF Refreshed, NotRefreshed
  <2>2. UNCHANGED <<member, page>>
    BY <1>2 DEF Refreshed, NotRefreshed
  <2>3. Plain(token, Scope) /\ OfUser(token, member, Scope)
    BY PlainIsOfUser DEF SteadyState, Plain
  <2>4. flight'.token \in {flight.token, None}
    BY <1>2 DEF Refreshed, NotRefreshed, TypeOK, Flight
  <2>5. Plain(flight'.token, Scope)
    BY <2>4 DEF SteadyState, Plain
  <2>6. ASSUME NEW s \in Requests, Released(token)[s] # None
        PROVE  SteadyRequest(Released(token)[s], token, member, Scope)
    <3>1. Open(s) /\ requests[s] \in Request
      BY <2>6, ReleasedSame
    <3>2. SteadyRequest(requests[s], store, member, Scope)
      BY <3>1 DEF SteadyState
    <3>3. /\ SteadyRequest(requests[s], token, member, Scope)
          /\ SteadyRequest(Retried(requests[s], token), token, member, Scope)
      BY <2>3, <3>1, <3>2, SteadyUnderRefresh, SteadyRetry
    <3> QED BY <2>6, <3>3, ReleasedSame
  <2>7. ASSUME NEW s \in Requests, requests'[s] # None
        PROVE  SteadyRequest(requests'[s], token, member, Scope)
    <3>1. Released(token) \in [Requests -> Request \cup {None}]
      BY ReleasedType DEF TypeOK, Flight
    <3> QED BY <2>1, <2>6, <2>7, <3>1, SteadyUnmounted
  <2>8. page # None => Suits(token, page)
    BY <2>3, PlainSuits DEF SteadyState
  <2> QED BY <2>1, <2>2, <2>3, <2>5, <2>7, <2>8 DEF SteadyState, Open
<1> QED BY <1>1, <1>2 DEF Refresh

(* A sign-out clears, a reload forgets, an expiry changes no scope.         *)
LEMMA SteadyWithRest ==
  ASSUME TypeOK, SteadyState, SignOut \/ Reload \/ Expire, Scope' = Scope
  PROVE  SteadyState'
<1>1. CASE SignOut
  <2>1. /\ UNCHANGED <<member, flight>> /\ store' = None /\ page' = None
        /\ requests' = Unmounted(Dropped({"me", "page"}))
    BY <1>1 DEF SignOut
  <2>2. ASSUME NEW s \in Requests, requests'[s] # None
        PROVE  SteadyRequest(requests'[s], None, member, Scope)
    BY <2>1, <2>2, DroppedType, SteadyDropped, SteadyUnmounted
  <2> QED BY <2>1, <2>2 DEF SteadyState, Open, OfUser
<1>2. CASE Reload
  BY <1>2 DEF Reload, NoFlight, SteadyState, Plain, Open
<1>3. CASE Expire
  <2>1. UNCHANGED <<member, flight, page>> /\ (store = None => store' = None)
    BY <1>3 DEF Expire
  <2>2. store # None => store'.scope = store.scope
    BY <1>3 DEF Expire, TypeOK, Token
  <2>3. ASSUME NEW s \in Requests, requests'[s] # None
        PROVE  SteadyRequest(requests'[s], store', member, Scope)
    <3> DEFINE q == requests[s]
               new == [q EXCEPT !.token.valid = FALSE]
    <3>1. Open(s)
      BY <1>3, <2>3 DEF Expire, Open
    <3>2. q \in Request /\ SteadyRequest(q, store, member, Scope)
      BY <3>1, OpenType DEF SteadyState
    <3>3. SteadyRequest(q, store', member, Scope)
      BY <2>1, <2>2, <3>2 DEF SteadyRequest, Suits
    <3>4. ASSUME q.token # None PROVE SteadyRequest(new, store', member, Scope)
      <4>1. q.token \in Token
        BY <3>2, <3>4 DEF Request
      <4>2. /\ new.kind = q.kind /\ new.at = q.at /\ new.heard = q.heard
            /\ new.company = q.company /\ new.landed = q.landed
            /\ new.token = [q.token EXCEPT !.valid = FALSE]
        BY <3>2 DEF Request
      <4>3. new.token.scope = q.token.scope
        BY <4>1, <4>2 DEF Token
      <4> HIDE DEF new
      <4> QED BY <3>3, <3>4, <4>2, <4>3 DEF SteadyRequest, OfUser, Plain
    <3> QED BY <1>3, <3>3, <3>4 DEF Expire
  <2> QED BY <2>1, <2>2, <2>3 DEF SteadyState, Open, OfUser, Suits
<1> QED BY <1>1, <1>2, <1>3

-----------------------------------------------------------------------------
(* Nothing is open, stored or shown.                                        *)
LEMMA InitSteady == Init => SInv
<1> SUFFICES ASSUME Init PROVE AcceptsAlone /\ Steady
  BY InitInv DEF SInv
<1>1. AcceptsAlone
  BY DEF Init, AcceptsAlone, Open
<1>2. SteadyState
  BY DEF Init, SteadyState, Open, OfUser, Plain, NoFlight
<1> QED BY <1>1, <1>2 DEF Steady

(* Whoever steps, the state stays steady until a membership changes.        *)
LEMMA StepSteady == SInv /\ [Next]_vars => SInv'
<1> SUFFICES ASSUME IInv, AcceptsAlone, Steady, [Next]_vars PROVE SInv'
  BY DEF SInv
<1>0. TypeOK /\ IInv'
  BY StepInv DEF IInv
<1>1. AcceptsAlone'
  <2>1. CASE UNCHANGED vars
    BY <2>1 DEF vars, AcceptsAlone, Open
  <2> QED BY <1>0, <2>1, AloneWithUser, AloneWithServer, AloneWithHear, AloneWithRest
          DEF Next
<1>2. ASSUME ~changed' PROVE SteadyState'
  <2>1. /\ SteadyState /\ member' = member /\ Scope' = Scope
        /\ \A c \in Companies : ~Leave(c)
    BY <1>0, <1>2, Quiet DEF Steady
  <2>2. CASE UNCHANGED vars
    BY <2>1, <2>2 DEF vars, SteadyState, Open
  <2>3. ASSUME NEW r \in Requests, User(r) \/ Server(r) \/ Hear(r) PROVE SteadyState'
    BY <1>0, <2>1, <2>3, SteadyWithUser, SteadyWithServer, SteadyWithHear
  <2>4. CASE Refresh \/ SignOut \/ Reload \/ Expire
    BY <1>0, <2>1, <2>4, SteadyWithRefresh, SteadyWithRest
  <2> QED BY <2>1, <2>2, <2>3, <2>4 DEF Next
<1> QED BY <1>0, <1>1, <1>2 DEF SInv, Steady

(* The strengthened invariant holds of every behaviour. *)
THEOREM Steadiness == Spec => []SInv
BY InitSteady, StepSteady, PTL DEF Spec

(* As long as nobody's memberships change, a write that is sent again with  *)
(* a refreshed pair is executed in the company that it was first sent to,   *)
(* or nowhere.                                                              *)
THEOREM WritesKeepTheirCompany == Spec => []WritesStayPut
<1>1. SInv => WritesStayPut
  BY DEF SInv, Steady, SteadyState, SteadyRequest, WritesStayPut
<1> QED BY <1>1, Steadiness, PTL

(* As long as nobody's memberships change, what the pages have as current   *)
(* is of the company that the next request goes to.                         *)
THEOREM PagesAreOfTheToken == Spec => []PagesFollowToken
<1>1. SInv => PagesFollowToken
  BY DEF SInv, Steady, SteadyState, Suits, PagesFollowToken
<1> QED BY <1>1, Steadiness, PTL
=============================================================================
