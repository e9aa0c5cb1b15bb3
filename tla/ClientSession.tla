---------------------------- MODULE ClientSession ----------------------------
(***************************************************************************)
(* One browser tab, its user and the server: the token pair in local       *)
(* storage, the requests of lib/api.ts with their shared refresh, and what *)
(* lib/auth.tsx keeps of the answers, while the network delays and loses   *)
(* answers, tokens expire and memberships change.                          *)
(*                                                                         *)
(* A request is sent, served and received in three steps.  What JavaScript *)
(* does between two awaits is one step.                                    *)
(***************************************************************************)
CONSTANTS
  Companies,
  Requests,    \* the requests the tab may have open at a time
  None

ASSUME NoneAssumption == None \notin Companies

VARIABLES
  member,      \* the companies the user is an active member of
  changed,     \* history: has that ever changed?
  store,       \* the token pair in local storage, or None
  flight,      \* refreshInFlight
  requests,    \* requests[r]: an open request, or None
  me,          \* the cached answer of /auth/me, or None
  page         \* the company whose data the pages have as current, or None

vars == <<member, changed, store, flight, requests, me, page>>

Scopes == Companies \cup {None}

(* An access token and its refresh token; only the former expires.          *)
Token == [scope : Scopes, valid : BOOLEAN]

(* at: on the wire, answered, or awaiting the refresh.  token: the one sent, *)
(* then the pair of the answer.  company: what a switch or an invitation is *)
(* for, what a write was first sent to, what the answer of a query is about. *)
(* A refusal other than 401 changes nothing in the tab and ends the request. *)
Request ==
  [kind : {"login", "accept", "switch", "me", "page", "write"},
   at : {"sent", "ok", "unauthorized", "waits"},
   token : Token \cup {None},
   company : Scopes,
   again : BOOLEAN,     \* is this the second attempt?
   heard : BOOLEAN,     \* does the query cache still want the answer?
   landed : Scopes]     \* where a write has been executed

Flight == [at : {"none", "sent", "ok", "failed", "settled"},
           token : Token \cup {None}]

NoFlight == [at |-> "none", token |-> None]

Init ==
  /\ member \in SUBSET Companies
  /\ changed = FALSE
  /\ store = None
  /\ flight = NoFlight
  /\ requests = [r \in Requests |-> None]
  /\ me = None
  /\ page = None

-----------------------------------------------------------------------------
Open(r) == requests[r] # None

Hears(kinds) == \E r \in Requests :
  Open(r) /\ requests[r].kind \in kinds /\ requests[r].heard

Becomes(r, request) == requests' = [requests EXCEPT ![r] = request]

(* send, with the token of the moment. *)
Sent(kind, token, company) ==
  [kind |-> kind, at |-> "sent", token |-> token, company |-> company,
   again |-> FALSE, heard |-> TRUE, landed |-> None]

Send(r, kind, company) ==
  /\ ~Open(r)
  /\ Becomes(r, Sent(kind, store, company))

(* While the login or the invitation page waits, nothing else is clicked.   *)
Authenticated == store # None /\ me # None /\ ~Hears({"login", "accept"})

(* Login.tsx: the page is for those who are not authenticated. *)
Login(r) ==
  /\ store = None \/ (me = None /\ ~Hears({"me"}))
  /\ ~Hears({"login", "accept"})
  /\ ~Open(r)
  /\ Becomes(r, Sent("login", None, None))
  /\ UNCHANGED <<member, changed, store, flight, me, page>>

(* AcceptInvite.tsx: the link of an e-mail, which loads the client anew.    *)
Accept(r, c) ==
  /\ page = None
  /\ \A s \in Requests : Open(s) => requests[s].kind = "me"
  /\ ~Open(r)
  /\ Becomes(r, Sent("accept", None, c))
  /\ UNCHANGED <<member, changed, store, flight, me, page>>

(* The first half of switchCompany: to another company, and one at a time    *)
(* as long as the page is there.                                            *)
Switch(r, c) ==
  /\ Authenticated
  /\ me.scope # c
  /\ ~Hears({"switch"})
  /\ Send(r, "switch", c)
  /\ UNCHANGED <<member, changed, store, flight, me, page>>

(* The query of AuthProvider: enabled by a token, fetched when it mounts,   *)
(* becomes enabled or stale, or the network is back.                        *)
FetchMe(r) ==
  /\ store # None
  /\ ~Hears({"me", "login", "accept"})
  /\ Send(r, "me", None)
  /\ UNCHANGED <<member, changed, store, flight, me, page>>

(* A query or a mutation of a page behind Protected.                        *)
OpenPage(r) ==
  /\ Authenticated /\ me.scope # None
  /\ ~Hears({"page"})
  /\ Send(r, "page", None)
  /\ UNCHANGED <<member, changed, store, flight, me, page>>

Write(r) ==
  /\ Authenticated /\ me.scope # None
  /\ Send(r, "write", store.scope)
  /\ UNCHANGED <<member, changed, store, flight, me, page>>

(* The cache drops its queries.  One that is open goes on, since a 401 has  *)
(* its effects all the same; an answer that is there is not heard.          *)
Unheard(q) == IF q.at = "ok" THEN None ELSE [q EXCEPT !.heard = FALSE]

Dropped(kinds) ==
  [r \in Requests |->
     IF Open(r) /\ requests[r].kind \in kinds THEN Unheard(requests[r])
     ELSE requests[r]]

(* The page that shows a switch as pending is unmounted; the switch goes on. *)
Unmounted(open) ==
  [r \in Requests |->
     IF open[r] # None /\ open[r].kind = "switch" THEN [open[r] EXCEPT !.heard = FALSE]
     ELSE open[r]]

(* tokens.clear() and queryClient.clear() *)
SignOut ==
  /\ Authenticated
  /\ store' = None
  /\ me' = None
  /\ page' = None
  /\ requests' = Unmounted(Dropped({"me", "page"}))
  /\ UNCHANGED <<member, changed, flight>>

(* The tab is loaded anew; what the server has yet to do it does unheard.   *)
Reload ==
  /\ requests' = [r \in Requests |-> None]
  /\ flight' = NoFlight
  /\ me' = None
  /\ page' = None
  /\ UNCHANGED <<member, changed, store>>

-----------------------------------------------------------------------------
(* The server. *)

(* access_token_minutes pass for the tokens in use; a pair that is on its    *)
(* way is younger than that.                                                *)
Expire ==
  /\ store' = IF store = None THEN None ELSE [store EXCEPT !.valid = FALSE]
  /\ requests' = [r \in Requests |->
                    IF Open(r) /\ requests[r].at = "sent" /\ requests[r].token # None
                    THEN [requests[r] EXCEPT !.token.valid = FALSE]
                    ELSE requests[r]]
  /\ UNCHANGED <<member, changed, flight, me, page>>

(* An owner deactivates the user's membership. *)
Leave(c) ==
  /\ c \in member
  /\ member' = member \ {c}
  /\ changed' = TRUE
  /\ UNCHANGED <<store, flight, requests, me, page>>

(* Wrong on purpose: the variants called ...Wrong are bugs that a property  *)
(* excludes; no specification uses them.                                    *)

(* The first company of several is taken. *)
ScopeWrong == IF member = {} THEN None ELSE CHOOSE c \in member : TRUE

(* _issue_tokens without a preference: the only company there is, or none.  *)
Scope ==
  IF \E c \in Companies : member = {c} THEN CHOOSE c \in Companies : member = {c}
  ELSE None

Issued == [scope |-> Scope, valid |-> TRUE]

Paired(r, pair) ==
  [requests[r] EXCEPT !.at = "ok", !.token = pair, !.company = None, !.again = FALSE]

SentAs(r, kinds) ==
  Open(r) /\ requests[r].at = "sent" /\ requests[r].kind \in kinds

ServeLogin(r) ==
  /\ SentAs(r, {"login"})
  /\ Becomes(r, IF member = {} THEN None ELSE Paired(r, Issued))
  /\ UNCHANGED <<member, changed, store, flight, me, page>>

ServeAccept(r) ==
  /\ SentAs(r, {"accept"})
  /\ member' = member \cup {requests[r].company}
  /\ changed' = (changed \/ member' # member)
  /\ Becomes(r, Paired(r, [scope |-> requests[r].company, valid |-> TRUE]))
  /\ UNCHANGED <<store, flight, me, page>>

(* get_principal; get_current_membership is in the services below. *)
Known(r) == requests[r].token # None /\ requests[r].token.valid

ServeUnauthorized(r) ==
  /\ SentAs(r, {"switch", "me", "page", "write"}) /\ ~Known(r)
  /\ Becomes(r, [requests[r] EXCEPT !.at = "unauthorized", !.token = None])
  /\ UNCHANGED <<member, changed, store, flight, me, page>>

ServeSwitch(r) ==
  /\ SentAs(r, {"switch"}) /\ Known(r)
  /\ LET c == requests[r].company IN
       Becomes(r, IF c \in member THEN Paired(r, [scope |-> c, valid |-> TRUE])
                  ELSE None)
  /\ UNCHANGED <<member, changed, store, flight, me, page>>

ServeQuery(r) ==
  /\ SentAs(r, {"me", "page"}) /\ Known(r)
  /\ LET scope == requests[r].token.scope IN
       Becomes(r, IF requests[r].heard /\ (requests[r].kind = "me" \/ scope \in member)
                  THEN [requests[r] EXCEPT !.at = "ok", !.token = None,
                                           !.company = scope, !.again = FALSE]
                  ELSE None)
  /\ UNCHANGED <<member, changed, store, flight, me, page>>

ServeWrite(r) ==
  /\ SentAs(r, {"write"}) /\ Known(r)
  /\ LET scope == requests[r].token.scope IN
       Becomes(r, IF scope \in member
                  THEN [requests[r] EXCEPT !.at = "ok", !.token = None,
                                           !.landed = scope, !.again = FALSE]
                  ELSE None)
  /\ UNCHANGED <<member, changed, store, flight, me, page>>

ServeRefresh ==
  /\ flight.at = "sent"
  /\ flight' = IF member = {} THEN [at |-> "failed", token |-> None]
               ELSE [at |-> "ok", token |-> Issued]
  /\ UNCHANGED <<member, changed, store, requests, me, page>>

(* What the tab does with an answer, or without one. *)
Answered(r, at) == Open(r) /\ requests[r].at = at

Closed(r) == [requests EXCEPT ![r] = None]

(* A write that has no answer is sent again. *)
LoseWrong(r) ==
  /\ SentAs(r, {"login", "accept", "switch", "me", "page", "write"}) \/ Answered(r, "ok")
  /\ IF requests[r].kind = "write" /\ ~requests[r].again
     THEN Becomes(r, [requests[r] EXCEPT !.at = "sent", !.token = store, !.again = TRUE])
     ELSE requests' = Closed(r)
  /\ UNCHANGED <<member, changed, store, flight, me, page>>

(* The network loses a request or its answer, or the server errs.           *)
Lose(r) ==
  /\ SentAs(r, {"login", "accept", "switch", "me", "page", "write"}) \/ Answered(r, "ok")
  /\ requests' = Closed(r)
  /\ UNCHANGED <<member, changed, store, flight, me, page>>

LoseRefresh ==
  /\ flight.at \in {"sent", "ok"}
  /\ flight' = [at |-> "failed", token |-> None]
  /\ UNCHANGED <<member, changed, store, requests, me, page>>

-----------------------------------------------------------------------------
(* With a company the pages are in Layout, without one ChooseCompany is all. *)
Moves(scope) == me # None /\ (me.scope = None) # (scope = None)

HearMe(r) ==
  /\ Answered(r, "ok") /\ requests[r].kind = "me"
  /\ me' = [scope |-> requests[r].company]
  /\ requests' = IF Moves(requests[r].company) THEN Unmounted(Closed(r)) ELSE Closed(r)
  /\ UNCHANGED <<member, changed, store, flight, page>>

HearPage(r) ==
  /\ Answered(r, "ok") /\ requests[r].kind = "page"
  /\ page' = requests[r].company
  /\ requests' = Closed(r)
  /\ UNCHANGED <<member, changed, store, flight, me>>

HearWrite(r) ==
  /\ Answered(r, "ok") /\ requests[r].kind = "write"
  /\ requests' = Closed(r)
  /\ UNCHANGED <<member, changed, store, flight, me, page>>

(* Request r has brought a pair: /auth/me again.  One that is pending is     *)
(* shared when the query has no data yet or was disabled, else dropped.      *)
Refetched(r, kinds) ==
  IF Hears({"me"}) /\ (me = None \/ store = None)
  THEN [Dropped(kinds) EXCEPT ![r] = None]
  ELSE [Dropped(kinds \cup {"me"}) EXCEPT ![r] = Sent("me", requests[r].token, None)]

(* signIn: the new pair, everything cached is stale.                        *)
SignIn(r) ==
  /\ Answered(r, "ok") /\ requests[r].kind \in {"login", "accept"}
  /\ store' = requests[r].token
  /\ page' = None
  /\ requests' = Refetched(r, {})
  /\ UNCHANGED <<member, changed, flight, me>>

(* The pages of the former company are not dropped. *)
SwitchedWrong(r) ==
  /\ Answered(r, "ok") /\ requests[r].kind = "switch"
  /\ store' = requests[r].token
  /\ requests' = Refetched(r, {})
  /\ UNCHANGED <<member, changed, flight, me, page>>

(* The second half of switchCompany, whatever has happened meanwhile: the   *)
(* new pair, everything cached but `me` removed.                            *)
Switched(r) ==
  /\ Answered(r, "ok") /\ requests[r].kind = "switch"
  /\ store' = requests[r].token
  /\ page' = None
  /\ requests' = Refetched(r, {"page"})
  /\ UNCHANGED <<member, changed, flight, me>>

Retried(q, token) == [q EXCEPT !.at = "sent", !.token = token, !.again = TRUE]

(* The first 401: the refresh in flight is awaited, or a new one is sent.   *)
AwaitRefresh(r) ==
  /\ Answered(r, "unauthorized") /\ ~requests[r].again /\ store # None
  /\ flight.at # "settled"
  /\ flight' = IF flight.at = "none" THEN [flight EXCEPT !.at = "sent"] ELSE flight
  /\ Becomes(r, [requests[r] EXCEPT !.at = "waits"])
  /\ UNCHANGED <<member, changed, store, me, page>>

(* Between the answer and the next tick the settled promise is still there. *)
RetryAtOnce(r) ==
  /\ Answered(r, "unauthorized") /\ ~requests[r].again /\ store # None
  /\ flight.at = "settled" /\ flight.token # None
  /\ Becomes(r, Retried(requests[r], flight.token))
  /\ UNCHANGED <<member, changed, store, flight, me, page>>

(* A 401 that is final: tokens.clear(). *)
GiveUp(r) ==
  /\ Answered(r, "unauthorized")
  /\ \/ requests[r].again
     \/ store = None
     \/ flight.at = "settled" /\ flight.token = None
  /\ store' = None
  /\ requests' = Unmounted(Closed(r))
  /\ UNCHANGED <<member, changed, flight, me, page>>

(* The requests that await the refresh go on: with its token, or not.       *)
Waiting(r) == Answered(r, "waits")

Released(token) ==
  [r \in Requests |->
     IF ~Waiting(r) THEN requests[r]
     ELSE IF token = None THEN None ELSE Retried(requests[r], token)]

(* The answer is stored, not the pair in it. *)
RefreshedWrong ==
  /\ flight.at = "ok"
  /\ store' = flight
  /\ flight' = [flight EXCEPT !.at = "settled"]
  /\ requests' = Released(flight.token)
  /\ UNCHANGED <<member, changed, me, page>>

Refreshed ==
  /\ flight.at = "ok"
  /\ store' = flight.token
  /\ flight' = [flight EXCEPT !.at = "settled"]
  /\ requests' = Released(flight.token)
  /\ UNCHANGED <<member, changed, me, page>>

(* Only the pair is forgotten. *)
NotRefreshedWrong ==
  /\ flight.at = "failed"
  /\ store' = None
  /\ flight' = [at |-> "settled", token |-> None]
  /\ UNCHANGED <<member, changed, requests, me, page>>

(* Refused: the pair is cleared.  Lost: it is cleared by the requests that  *)
(* wait, whose 401 is final now, and at least the one that asked does.      *)
NotRefreshed ==
  /\ flight.at = "failed"
  /\ store' = None
  /\ flight' = [at |-> "settled", token |-> None]
  /\ requests' = Unmounted(Released(None))
  /\ UNCHANGED <<member, changed, me, page>>

(* setTimeout(() => { refreshInFlight = null }, 0) *)
Tick ==
  /\ flight.at = "settled"
  /\ flight' = NoFlight
  /\ UNCHANGED <<member, changed, store, requests, me, page>>

-----------------------------------------------------------------------------
User(r) ==
  \/ Login(r) \/ FetchMe(r) \/ OpenPage(r) \/ Write(r)
  \/ \E c \in Companies : Accept(r, c) \/ Switch(r, c)

Server(r) ==
  \/ ServeLogin(r) \/ ServeAccept(r) \/ ServeUnauthorized(r) \/ ServeSwitch(r)
  \/ ServeQuery(r) \/ ServeWrite(r) \/ Lose(r)

Hear(r) ==
  \/ HearMe(r) \/ HearPage(r) \/ HearWrite(r) \/ SignIn(r) \/ Switched(r)
  \/ AwaitRefresh(r) \/ RetryAtOnce(r) \/ GiveUp(r)

Refresh == ServeRefresh \/ LoseRefresh \/ Refreshed \/ NotRefreshed \/ Tick

Next ==
  \/ \E r \in Requests : User(r) \/ Server(r) \/ Hear(r)
  \/ Refresh \/ SignOut \/ Reload \/ Expire
  \/ \E c \in Companies : Leave(c)

Spec == Init /\ [][Next]_vars

-----------------------------------------------------------------------------
TypeOK ==
  /\ member \in SUBSET Companies
  /\ changed \in BOOLEAN
  /\ store \in Token \cup {None}
  /\ flight \in Flight
  /\ requests \in [Requests -> Request \cup {None}]
  /\ me \in [scope : Scopes] \cup {None}
  /\ page \in Scopes

(* The retry after a 401 executes no write twice: what is sent again has    *)
(* not been executed, however answers and refreshes overlap.                *)
WritesHappenOnce ==
  \A r \in Requests : SentAs(r, {"write"}) => requests[r].landed = None

(* "The tenant a request runs against is decided at login/switch time": as  *)
(* long as nobody's memberships change, a write is executed in the company  *)
(* that its first token was for, or nowhere, though the retry has a token   *)
(* that nobody chose.                                                       *)
WritesStayPut ==
  ~changed => \A r \in Requests :
    Open(r) => requests[r].landed \in {None, requests[r].company}

(* "Everything except identity was scoped to the previous company, so drop  *)
(* it outright": as long as nobody's memberships change, what the pages     *)
(* have as current is from the company that the next request goes to,       *)
(* whatever answers arrive late.                                            *)
PagesFollowToken ==
  ~changed /\ store # None /\ page # None => store.scope \in {None, page}

(* Nobody waits for ever on the shared refresh: who waits has a refresh     *)
(* under way that will release them, also one that is refused or lost.      *)
WaitersAreReleased ==
  \A r \in Requests :
    Waiting(r) => flight.at \in {"sent", "ok", "failed"}
=============================================================================
