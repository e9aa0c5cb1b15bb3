# ServiceLine in TLA+

ServiceLine is a FastAPI service (`src/api`) over PostgreSQL with a React client
(`src/web`). Companies (tenants) book jobs for their customers, put crews on
them, number them, and invite the people who do the work. This directory models
the parts of it whose correctness depends on the order in which things happen,
checks them with TLC on small instances, and proves what matters most with TLAPS
for every instance.

Paths below are relative to `src/`; line numbers are in `PROJECT.json`, which
maps every definition to the code it translates.

## 1. Inventory

### 1.1 What everything stands on

A request is served by one thread, in one database session and one transaction
(`api/app/deps.py`, `get_db`): the dependency binds the tenant, hands the session
to the handler, commits when the handler has returned and rolls back when
anything raised. Handlers only `flush()`. Four facts of this construction shape
every model here:

* **READ COMMITTED.** Each SELECT sees what is committed when it starts. Nothing
  but the counter of job numbers is read `FOR UPDATE`.
* **Blind writes.** SQLAlchemy sends `UPDATE ... SET <changed columns> WHERE id`.
  What a guard looked at earlier in the transaction is not looked at again.
* **`autoflush=False`.** What a handler changed reaches the database at its own
  `flush()`es and at the commit, in that order, and a row that was written stays
  locked until the end.
* **Constraints.** Unique constraints, partial indexes and CHECKs refuse at the
  flush; the request then ends as a 500 and leaves nothing behind.

### 1.2 Components

| component | state | operations | what is hard | what makes it correct |
|---|---|---|---|---|
| Job numbers (`services/job_numbers.py`) | a counter per company and year | `allocate` inside `create_job` | two first jobs of a year, rollback after allocation, New Year, the pool running out | numbers unique, none skipped, nobody rejected by the constraint, everybody answered |
| Status machine (`services/jobs.py`, `models/enums.py`) | status, `completed_at`, `canceled_at` | `transition` | long paths, stale requests | timestamps agree with the status; only moves of the table |
| Scheduling (`services/scheduling.py`) | local date and window, UTC instants | `to_utc`, `recompute_window`, `find_conflicts` | four handlers change what the instants derive from; clocks change | a window is stored as the instants it promises; instants of open jobs are never stale; clashes are found, and only clashes |
| Dispatch board (`web/src/pages/DispatchBoard.tsx`) | the card being dragged, the dialog of the last refusal | drop a card, book it anyway, leave it | two boards at once, a dialog about clashes of a minute ago, answers that are lost | nobody is booked twice in silence |
| Crew (`services/jobs.py`, migration 0002) | assignments, one lead | `set_lead`, `set_helpers` | the partial index and the order of the flush | one lead; helpers survive a change of lead |
| Jobs API (`routers/jobs.py`) | all of the above | create, update, schedule, change status; list, board | two flushes in one request, conflicts checked by one endpoint only | status settles with date and lead; double-booking reported |
| Customers (`routers/customers.py`) | customers, addresses, timezone, primary flag | create, update, add / update address | a timezone change rewrites jobs; the primary flag | every open job follows; at most one primary address, and none lost by accident |
| Invitations (`routers/invitations.py`) | invitations | create, preview, accept, revoke, expiry | counting seats while others do, redeeming twice | redeeming and joining are one step; nobody is invited twice |
| Memberships (`routers/memberships.py`) | role, active flag | update, list | last owner, reactivation | an owner remains |
| Plan limits (`services/limits.py`) | - | `assert_seat_available` | two counts, no lock | members and pending invitations fit the plan |
| Request transactions (`deps.py`, `core/db.py`) | sessions, pool, tenant binding | `get_db`, `get_unscoped_db`, `get_identity_db` | pool limit, commit after the response, binding per transaction | a transaction sees one tenant |
| Signup and sign-in (`routers/auth.py`, `services/slug.py`, `core/security.py`) | users, tenants, tokens | signup, login, refresh, switch, me | races on slug and email, tokens that outlive memberships | one account per email, a scope only where there is a membership |
| Browser session (`web/src/lib/api.ts`, `auth.tsx`, `App.tsx`) | two tokens in local storage, a shared refresh, a query cache | request with retry, sign in/out, switch company | answers that arrive after the user moved on; a retry with a token nobody chose | writes happen once and where they were meant, pages show the token's company, nobody waits in vain |
| Tenant isolation (migration 0001, `core/db.py`, `main.py`) | settings of a transaction, row level security policies | `bind_context`, `bind_invite_token`; startup check | a query outside its binding, a connection with somebody else's, users of several companies | a request sees and changes its own company's rows |
| Tenant settings, audit log, seed, the other web pages | single rows, an append-only log | reads and simple writes | - | - |

### 1.3 How they interact

`create_job` calls job numbers, crew and scheduling in one transaction;
`schedule_job` calls scheduling, crew, conflict detection and the status machine,
with a flush before the conflict check and another after the status;
`update_address` rewrites jobs of the address; `update_member` changes who may be
put on a job but takes nobody off. A board calls `schedule_job` for every drop,
turns a 409 into a question, and calls it again with `allow_conflicts` when the
dispatcher insists. Invitations and memberships share the seat
count and nothing else. Every statement of every handler passes the policies,
which look at the settings its dependency (or, before there is a token, the handler
itself) has bound. The browser session talks to all of them over HTTP.

The hazards this gives rise to are listed with their lines in `PROJECT.json`.

## 2. Modules

| module | models | kind |
|---|---|---|
| `NumberLedger` | what numbering promises: filing a job is one step | abstract specification |
| `JobNumbers` | `allocate` in `create_job`, statement by statement, with the pool | component |
| `JobNumbersProofs` | invariants and refinement of `JobNumbers` | proofs |
| `Scheduling` | local times, instants, clashes, on clocks that change; and what they are to mean | operators |
| `SchedulingProofs` | that they mean it | proofs |
| `Bookings` | boards, New job form and corrections of timezones, as overlapping transactions over several jobs of one lead | component |
| `BookingsProofs` | all properties of `Bookings` | proofs |
| `JobRules` | status table, timestamps, instants, crews, clashes | operators |
| `JobLifecycle` | what a status promises to billing | abstract specification |
| `Dispatch` | the write endpoints of jobs, addresses and members, each one step | component, abstract for the next |
| `JobTransactions` | the same endpoints as overlapping transactions | component |
| `JobTransactionsProofs` | all properties of `JobTransactions`; alone, it implements `Dispatch` | proofs |
| `Team` | invitations, memberships and seats, statement by statement | component |
| `TeamProofs` | all properties of `Team` that hold | proofs |
| `Addresses` | the primary address of a customer, flush by flush | component |
| `AddressesProofs` | all properties of `Addresses` | proofs |
| `ClientSession` | one tab: tokens, requests, the shared refresh, the caches; and the server it talks to | component |
| `ClientSessionProofs` | all properties of `ClientSession` | proofs |
| `Tenancy` | connections, the settings bound to them, the policies; signup, sign-in, and who may see and change memberships and invitations | component |
| `TenancyProofs` | all safety properties of `Tenancy` | proofs |
| `MC...` | instances for TLC | |

Definitions named `...Wrong` are variants of their neighbour with a bug a
property excludes; no specification uses them.

### 2.1 JobNumbers

A request goes `new -> ensure -> select -> update -> insert -> inserted -> done`,
one database statement per action: `INSERT ... ON CONFLICT DO NOTHING`
(`EnsureRow`, which waits for somebody else's uncommitted row), `SELECT ... FOR
UPDATE` (`SelectForUpdate`), the flush of the counter, the insert of the job under
its unique constraint, the commit. `rowLock` is who owns a counter row and
`draft` what they wrote and nobody else sees. `Rollback` may happen anywhere:
an exception, a lost connection or a dead process are the same to the database.
`NewYear` moves the clock `allocate` reads.

### 2.2 JobRules, Dispatch, JobTransactions

`JobRules` holds what the services compute. The row of a job is `status, date,
start, end, start_utc, end_utc, address, completed, canceled` (the timestamps of a
status as "has a value"): the ends of the window and of the instants are columns of
their own, any of them NULL. The crew maps members to `off`, `helper` or `lead`. A
date is a number and a zone its distance behind UTC, so instants are hours. A
**half window** (a start without an end, which `PATCH /jobs` accepts) has no
instants. `Stores` is what the CHECKs `window_order` and `window_utc_order` let
through.

`Dispatch` is one action per endpoint: guards from the schema validators, the
404/403/400/409 returns and the table, effects from the handler with everything
it calls. A refused request changes nothing and is no step.

`JobTransactions` runs the same requests as transactions of `Workers`. The
handlers up to the first flush are `Load...` actions; then come the flushes in
the order the code makes them: the row, the crew, the clash check (which reads
what others have committed by now), the status of `schedule_job`'s second flush,
and for `update_address` the zone, the SELECT of the jobs, and their rows at
commit. A flush waits for rows that another open transaction has written
(`Locks`, `Held`) and is refused by the constraints on assignments
(`CrewRejected`) and by the CHECKs, which look at the row that the UPDATE leaves
(`FlushRow`, `FlushInstants`). `Delta` and `Merge` are SQLAlchemy's "changed columns
only", column by column: of two requests that overlap, each may have written one end
of a window.
`gone` are assignment rows another transaction deleted after this one loaded
them, for which an UPDATE raises and a DELETE only warns. `Abort` may happen
anywhere and covers a refusing constraint, a clash, a deadlock victim and a
crash.

Abstractions: the SELECTs of one load are one moment; the assignments of a job
are locked together, and the two flushes of `set_lead` are one step (`FlushCrew`);
the rows of an address's jobs are locked in one step;
`update_member` is one step here (module `Team` takes it apart); job number,
title, notes, type and priority are left out, since no guard of these handlers
reads them. The office is an owner who is always there and may make every
request kept for dispatchers; technicians and the rest of `MaySee` and
`IsTechnician` decide who may change a status. As in the code, `update_job` and
`change_status` are open to any active member who finds the job and is not a
technician.

### 2.3 Scheduling, Bookings

`Scheduling` is `services/scheduling.py` over daylight saving. A zone is its
distance behind UTC and one changeover: at the instant `Change[z]` its clock jumps
by `Jump[z]`, forward, back, or not at all. `Reads` is the clock on the wall;
`ToUtc` is `to_utc`, that is, Python's `ZoneInfo` with `fold=0`. What a promise in
local time means is stated without it (`Promised`: the first instant at which the
clock shows that time or, if it never does, the one at which it would have), and so
is what a clash means (`Share`: some moment in both).

`Bookings` has what two jobs, two boards and a correction of a timezone do to one
another. The row of a job is its date, its lead and its instants, a column each; a
transaction has what its handler loaded (`from`) and what it is to become (`to`), and
its UPDATE sets the columns in which they differ (`Updated`, `UpdatedPair`). So two
requests can leave a pair of instants that neither wanted, half of it NULL even; the
CHECK is on the pair that is left.

| code | actions |
|---|---|
| the New job form, `create_job` | `BeginCreate`, `CommitCreate` |
| a card dropped on a cell or on the tray, `schedule_job` up to its flush | `Drop` |
| "Book it anyway" (`allow_conflicts`), "Leave it" | `Confirm`, `Dismiss` |
| `schedule_job`: flush, clash check, 409, commit; the board's `onError` and `onSuccess` | `Pass`, `Refuse`, `CommitSchedule` |
| `update_address` with a timezone: flush of the zone, SELECT of the open jobs, commit | `BeginAddress`, `SelectJobs`, `CommitAddress` |
| a refusing constraint, a lost connection, a dead process | `Abort` |

Five facts of the code that the model has kept:

* `find_conflicts` reads what is committed and locks nothing about the lead, so two
  bookings of one lead in flight do not see each other.
* "Book it anyway" accepts a date and a lead, not the clashes that were shown.
* `onSuccess` closes the dialog of its board whatever it shows; when the answer to
  a success is lost the dialog stays (`closed` in `Commit`).
* `update_address` selects the jobs once and writes their instants at its commit,
  with its zone; a booking reads the zone once and writes after it. Whichever of
  two that overlap over a job comes last can leave it with instants of the other
  zone or the other date, although `customers.py:358-360` says the board is "never
  briefly wrong".

* `schedule_job` checks the lead and the instants of its own session and writes only
  what it changed. When another request has changed the rest since it loaded the job,
  what is stored is a booking nobody checked.

Three fields of a transaction exist for the properties only. `checked` is what the
clash check looks at: the instants of the request, or, for an override, of the request
whose refusal opened the dialog. `told` collects the jobs that were listed in that
dialog, and other jobs that were rebooked after the check. `NobodyIsSurprised` is
about the commits that leave the lead and the instants that were checked
(`AsChecked`): of those, none books anybody twice over a job that is not in `told`,
whatever happened to the job in between. It says nothing of the other commits, and
could not: of two drops of one card, one moves it to another day and the other, which
had loaded it before, checks the old day and writes only its new lead; the job is then
on the new day with the new lead, over a job that may have been there for weeks, and
nobody is asked (`jobs.py:514-532`). Without `AsChecked` the run finds it, in 13
states. The same goes for an override after the zone of the address has been
corrected. `met` collects the jobs over which a transaction has
overlapped one that may disturb their instants: a booking and a correction, or two
bookings that found the instants wrong. It spreads to those that begin while such a
transaction is open, because the damage does: a booking that starts from a row
somebody is about to overwrite writes only the columns it changes itself.

Abstractions: jobs stay open and keep their window, which no board sends; status,
helpers and the order of the row and crew locks are `JobTransactions`'; the flush
and the clash check after it are one step; the zone is flushed when the correction
begins (a second correction of the address that has to wait for the row begins
later); an answer arrives with the end of its transaction or never; a board shows
what is committed; the New job form has no field for a lead and sends no window
without a date, and what other clients may put into `POST /jobs`, `PATCH /jobs`
and the reopening of a job are left to `Dispatch` and `JobTransactions`.

What the model showed and no property forbids: the New job form makes jobs with a
date and no lead, which the board files under no column and not in the tray (its
tray then says "Everything is assigned.", and `routers/jobs.py:270-273` that "the
board has to render unassigned work too"); two crossing drops of one card can
leave a job in that state, or in the tray with a window; and a refusal may be
computed with a zone that has been corrected since. A refusal can also be about no
moment at all: when another request has meanwhile changed one column of the instants
and this one sends the other, the CHECK passes on a pair it does not see, while the
clash check gets the empty interval of the session (`RefusedForAClash` names this
exception). A window that begins in the
skipped hour and is not longer than the jump is stored in the wrong order, and the
CHECK `window_utc_order` turns a valid booking, or a correction of the address,
into a 500.

### 2.4 Team

`People` are emails; `members[p]` is the membership row, `invites[i]` the
invitation. A transaction's `at` names its next statement: the count of owners,
the lookup of an existing membership, the count of members, the count of pending
invitations, the two checks of the invitee, the commit. A guard uses what its own
statement read. `Expire` is the seven days passing, at any moment.

### 2.5 Addresses

`rows[a]` is the row of one customer's address (`primary`, `active`), `None` while
it does not exist; `create_customer` is the initial state, with its first address
or without. A request loads all rows (`Load...`), flushes the addresses it takes
the flag from (`Clear`), flushes its own (`Write`), commits. The partial unique
index looks at every flush: at committed rivals at once, at uncommitted ones by
waiting for their transaction (`Rivals`, `Waits`).

Two facts that surprised us, both kept by the model: one PATCH may make an address
primary and inactive, since the guard of `update_address` looks at the flag from
before the request; and `add_address` looks for the former primary address among
the active ones only, so after such a PATCH an address that asks to be primary is
refused by the index. `RefusedForAReason` names the second as its only exception,
and `PrimaryStaysActive` is about an address that was primary and active before.

A third: `schemas/customer.py:55` accepts `is_primary: false`, which no page of the web
client sends and no guard refuses. On the primary address it leaves the customer
without one. So `OnePrimary` says "at most one", and `FlagIsNotLost` that nothing else
loses the flag: no overlap of additions and changes, and no such PATCH on an address
that is not the primary one at its commit.

### 2.6 ClientSession

`store` is the token pair in local storage, `flight` is `refreshInFlight`,
`requests[r]` an open call of `request`, `me` the cached answer of `/auth/me` and
`page` the company whose data the pages hold as current. A token is its company
(or none) and whether the access token is still valid. What JavaScript does
between two awaits is one action:

| code | actions |
|---|---|
| `request` up to `fetch` | `Login`, `Accept`, `Switch`, `FetchMe`, `OpenPage`, `Write`, each where the pages allow it |
| the server | `ServeLogin`, `ServeAccept`, `ServeSwitch`, `ServeQuery`, `ServeWrite`, `ServeUnauthorized`, `ServeRefresh`, from the membership of that moment |
| after the first 401 | `AwaitRefresh` (joins the refresh or starts it), `RetryAtOnce` (the settled promise, before its next tick), `GiveUp` |
| `refreshAccessToken` after its answer | `Refreshed`, `NotRefreshed`, and `Tick` for `setTimeout(..., 0)` |
| the callers of `request` | `SignIn`, `Switched`, `HearMe`, `HearPage`, `HearWrite` |
| `signOut`, a reload | `SignOut`, `Reload` |
| the world | `Expire`, `Leave`, `Lose`, `LoseRefresh` |

Nothing ties an answer to the session it was asked in: a switch that answers after
a sign-out signs the user in again (`Switched`), and so does a refresh
(`Refreshed`). The model keeps both. That a switch is pending is state of the page it
was asked on: when that page is unmounted, by a sign-out or by a switch between no
company and one (`Unmounted`, `Moves`), the switch goes on and another may begin. A
fetch of `/auth/me` that is still pending is shared by whoever asks again
(`Refetched`).

Abstractions: one tab and one user; an error other than 401 ends the request at
once, since all it does is show a message; a 5xx answer and an expired refresh
token are a refresh that fails; data the cache has marked as stale counts as
none; a pair on its way does not expire before it is stored; an invitation is
opened in a client loaded for it. `changed` is a history variable: has a
membership begun or ended? When one has, the server itself moves the user (the
only company that is left is chosen), and the properties about companies make no
promise. `landed` is a history variable of a write.

### 2.7 Tenancy

`accounts`, `slug`, `members` and `invites` are the committed rows of four tables;
`guc[c]` the three settings of the transaction on connection `c`, `None` when a
setting is unset; `session[c]` the request that has the connection. The policies
of migration 0001 are operators on the settings: what a SELECT sees
(`MembershipsSeen`, with `memberships_select_own`; `TenantsSeen`, whose inner
SELECT is under the policies of memberships; `InvitationsSeen`) and what the other
commands may write (`Writable`). NULL equals nothing, which is why an unbound
setting admits nothing.

A request begins with its dependency (`BeginTenant` for `get_db`, `BeginIdentity`
for `get_identity_db`; `BeginSignup`, `BeginAccept` and `BeginLogin` for
`get_unscoped_db`, whose handlers bind what they learn) and from what is left on the
connection. Then come its SELECTs, one action each: `Check` is
`get_current_membership`, `ReadOwn` and `ReadNames` are login, refresh, switch and
`/auth/me`, `ActList`, `ActFind`, `ActInvite` and `ActRevoke` the handlers'. `seen`
is what the last one returned. `Register` and `Found` are the two flushes of a
signup, which wait for the unique indexes on email and slug. Commits are actions of
their own and rollback may happen anywhere (`Abort`): it is also the refused flush,
the 403, the 404 and the dead process. `End` gives the connection back.

What the model has kept although it is not what one expects: a signup is blind to the
companies there are, so `unique_slug` never retries a name that is taken, and the
index refuses it at a flush that nobody catches; and a user of two companies sees
their rows of both in every request of either. `update_member` finds such a row and
only the policy for UPDATE stops it (`WritesStayInTenant`); `set_lead` finds it and
nothing stops it (`tenancy_assignees`).

Abstractions: rows are known by company and email, and an invitation to be accepted
is neither expired nor revoked (module `Team` has that); roles, seats and the
contents of rows are `Team`'s too; passwords are right; a refresh is a login by
token; any former member may still have a token; a row that never existed is a 404
and no request. Crews are not among the tables: an `assign` request ends with the
membership it found. `ever` is a history variable.

## 3. Runs

| run | question | bounds, and why they are enough | result |
|---|---|---|---|
| `job_numbers` | are numbers unique and gapless, does everybody finish | 3 requests (two rivals and one who comes after), 2 companies, 2 years, 2 connections so that one request has to wait or time out | holds |
| `jobs_one_worker` | are transactions, run alone and cut short anywhere, the requests of `Dispatch`, and do the handlers keep a job consistent when nothing overlaps | 1 job, 2 addresses, 2 zones, all eight statuses, both values of `allow_conflicts`; windows that are whole, half (either half) or of no length, since PATCH sends any of them and the CHECK has to refuse the last. About 344,000 states, the slowest run | holds |
| `jobs_overlapping` | what survives two overlapping requests | 2 workers, 2 members, 1 job without windows (leads and statuses are what the properties are about) | holds |
| `team_serial` | do the guards suffice one request at a time | 3 people, 3 invitations, 2 roles, 2 seats: the founder, one member, one too many | holds |
| `team_overlapping` | how bad can the seat race get, and does joining still take an invitation of one's own, redeemed in the same step | 2 workers, 3 people, 3 invitations, 2 seats | holds |
| `bookings` | do requests leave the instants right, is a booking that was checked made over no job its dispatcher could not know of, are refusals founded, on the night the clocks change | 3 jobs, two of them there from the start, two at an address that moves from Denver to Phoenix and one that stays in Phoenix: their windows lie in the skipped hour and around it, are back to back in one zone and clash in the other; 2 leads and 1 day, so that a card is dropped on another lead, on the tray, or from a date without a lead; 2 requests in flight, which is what a collision takes; one board, whose dispatcher may drop the next card before the first has answered, so that its requests overlap as those of two boards do | holds |
| `addresses` | is there at most one primary address, is the flag lost only to a request that says so, and is nobody refused without a rival | 2 workers, 3 addresses (a former, a present and a next primary one), every value a PATCH may send, `is_primary: false` included | holds |
| `client_session` | what may late answers, retries and a shared refresh do to a session | 2 companies (one is chosen for the user, two are not), 2 open requests (both waiting for one refresh, or a write or a page overtaken by a switch, sign-out or sign-in) | holds |
| `tenancy` | does a request see and change its own company's rows only, whoever had the connection | 2 connections (each other's rivals and successors), 2 people and 2 companies (one person in both, one in neither), 2 slugs | holds |
| `jobs_stale_status` | is every move one of the table's | as `jobs_overlapping`, 1 member | violated |
| `team_last_owner` | does an owner always remain | as `team_overlapping`, 2 people | violated |
| `tenancy_assignees` | is whoever is put on a job a member of its company | as `tenancy`, 1 connection | violated |

The violated ones compare the code with what its documentation says of it; each
is a finding in `PROJECT.json`, with the lines. `KeepsAnOwner` and
`SeatsRespected` hold when requests come one at a time (`team_serial`). With two
workers the first fails, and so does the second (`assert_seat_available` counts,
then the handler writes, with no lock in between, while `README.md:121` promises
seat limits); `OverbookingIsBounded` says how far that goes, one person per
further thread.

Deadlock is checked except in the runs of `Team` with two workers: a company that
has lost its last owner really stops. `JobNumbers` ends in `AllServed`, a step that
does nothing.

**Fairness.** Only `job_numbers` has a liveness property, `EveryRequestEnds`, under
weak fairness of each request's own next statement (`Step`): a thread that can
run does run, and a row lock or a connection that is free is taken. Rollback,
timeout and the calendar are under no obligation. Weak fairness is enough since
the bounded number of requests cannot starve one another for ever; with an
unbounded stream of rivals the queue of PostgreSQL's lock manager would be what
guarantees it. The other modules state safety only: a request there may always
be cut short, by a lost connection or a closed tab, and nothing tries again. For
`ClientSession`, whose callers await a promise that others settle,
`WaitersAreReleased` says as an invariant what a liveness property would: whoever
waits has somebody whose next step releases them.

**Symmetry** is used where members, jobs, workers, people, invitations or requests are
interchangeable (in `Tenancy` also companies, slugs and connections), and only with properties whose formulas do not tell them apart.

## 4. Proofs

`JobNumbersProofs` proves, for any finite or infinite set of requests and tenants,
any range of years and any pool:

* `TypeCorrect`, `MutualExclusion`, `Uniqueness`, `Gapless`: the safety properties
  of the run `job_numbers`;
* `Refinement`: `JobNumbers` implements `NumberLedger`.

None of the properties is inductive. The invariant `IInv` adds to them what the
code relies on without saying so: a request between SELECT and the end of its
transaction owns its counter's row (`rowLock`); what it read is the committed
`next_value`, or 1 if it inserted the row itself; its `draft` is that plus one;
and the committed jobs of a counter carry exactly `1 .. next_value - 1`. From
ownership follows mutual exclusion; from the last two, that the number about to
be inserted is not among the committed ones; and the commit extends the interval
by one. Each action has a lemma; `StepInv` puts them together. The assumptions
are those of the module: the years are naturals in order, the pool is not empty,
`None` is not a request or a counter.

`AddressesProofs` proves `PrimaryIsUnique` and `FlagIsKept` for any number of
addresses and of overlapping requests, and for PATCHes that send any value of the
flag. The strengthening (`CarriesOK`) is about what open transactions carry: one that
takes the flag gives it (`Gives`); one that adds an address owns it, and the first of
a customer asks for the flag (`OwnsNew`); and one that has passed the index with the
flag has no rival, committed or in another transaction past the index (`Settled`).
The last is what the index and its waiting establish, and what makes the commit leave
at most one; `Gives` and `OwnsNew` are why a commit that leaves none is a PATCH with
`is_primary: false` on the primary address. For `RefusalsHaveReasons` and `PrimaryIsKept` (`LInv`) the
rows a request has loaded are kept in mind: it takes the flag from all of them that
had it (when it adds an address, from the active ones only) and does not deactivate
the one that was primary there (`ActsOnItsLoad`). So a rival the index finds is one
it did not load, or the exception of section 2.5.

`ClientSessionProofs` proves `TypeCorrect`, `AtMostOnce` and `NoOneWaitsInVain` for
any companies and any number of open requests. The
strengthening (`Careful`) follows one request: a write that is on the wire,
refused or waiting has not been executed, since only an answer other than 401
executes it and that ends the retries; and one that waits has a refresh that is
sent, answered or failed, never a settled one, because the promise settles and
releases its waiters in one step.
`WritesKeepTheirCompany` and `PagesAreOfTheToken` rest on `SInv`. While no membership
has changed, tokens are of the user's companies, a refreshed pair leads where the old
one did or to the only company there is, a write is sent to its company whichever pair
it is sent with, and an answer that a page still takes suits the stored pair
(`Steady`). The part that took longest to find is `AcceptsAlone`: the page of an
invitation is alone in its tab but for `/auth/me`, so the pair an acceptance stores
replaces none that a write or a page is using.

`TenancyProofs` proves every property of the run `tenancy`, for any people, companies,
slugs and connections: `TypeCorrect`, `Isolation`, `OwnBinding`, `ContainedWrites`,
`RevocationIsImmediate` and `UniqueSignups`. The invariant has two parts. `AllCareful`
says of each open request that what its transaction is bound to is its own (`Binds`),
that the rows it was given are its company's or its user's and are still rows
(`Sees`; memberships are never deleted), and that whoever is an active member now, or
has passed the check, has been one during the request (`Witnesses`); and of a free
connection that it is unbound. With the policies this gives isolation: a row that is
visible has its company or its user among the settings, and no row's is `None`. `Apart`
says that of the signups past an index no two have the same email or slug, and no
company has the slug of one that is to commit. There are three ways to step (a request
goes on, ends, or decides about a membership, which others take note of), each with a
lemma (`ReplaceKeeps`, `EndKeeps`, `DecideKeeps`).

`SchedulingProofs` shows, for every zone, changeover and window, that `to_utc` keeps
the promise (`PromisesAreKept`), that comparing ends finds exactly the bookings that
share a moment (`OverlapIsSharing`), and exactly which valid windows the CHECK of
migration 0002 refuses (`OrderIsKept`).

`BookingsProofs` proves the four properties of the run `bookings` for any jobs,
zones, changeovers, windows, leads, boards and number of requests in flight.

* `TypeCorrect`: the CHECK looks at the flush, the row is seen at the commit, and the
  UPDATE sets some columns of whatever is there then. So `TypesInv` adds to `TypeOK`
  that nobody else writes the row in between: the locks of two transactions are apart
  (`LocksApart`), a job being created is nobody else's (`CreatesApart`), and hence
  what a flushed request will leave is in order (`FlushedOK`); besides, that what a
  correction has selected and a dialog shows exists.
* `NoSurprises`: `KnowsInv` says of each open request that the lead and the instants
  it has had checked would collide only with jobs it was told of or that were
  rebooked since (`Informed`), and the same of what a dialog offers (`Warned`). Both
  are about what was checked, not about the job as it is, so that a commit disturbs
  them for others only by the jobs it rebooks; `AsChecked` ties them to the booking
  that is left. What a commit leaves otherwise is not covered (section 2.3).
* `RefusalsAreFounded` is `OverlapIsSharing` at the moment of the refusal, for
  intervals that are in order; that the other's is, `TypesInv` says, and that the
  request's is if nobody has changed the instants since it loaded them.
* `InstantsLeftRight`: `MetInv` says that all who are open over a job have met
  another over it or none has (`Agreed`); that who has met nobody is undisturbed
  (`Unhurt`): its `to` has the zone of now, its job is as loaded or right since, and
  a correction's selection is what it would select again; and that two bookings open
  over one job, having met nobody, find it right (`Paired`). A commit that respects
  this (`Careful`) leaves its jobs right and the others unhurt. The hard case is a booking that writes a new
  date but, since they come out the same, no instants: with `DaysAreApart` they come
  out the same only for jobs without a window.

The assumptions are those of the module; two deserve a word. `NoClockSkipsADay`: no
clock jumps a day forward (as Samoa's did in 2011; then a booking moved from the
skipped day to the next would indeed keep its instants, and two crossing drops could
leave the wrong ones). `NoneIsNoRecord`: `None` is neither a row, a request nor a
dialog.

`TeamProofs` proves the properties of both passing runs of `Team`, for any people,
invitations, seats and threads.

* `TypeCorrect` and `JoiningIsRedeeming`: `TInv` says what each open request may rely
  on (`CarriesFacts`), that no two requests are about to send the same invitation, and
  that whoever has redeemed one is a member; rows are never removed (`RowsStay`).
* `RacesAreBounded` is a counting argument. A request is dangerous at excess `k` when
  it is past the check of seats and will take one it does not hold yet, or between its
  two counts with a first count more than `k` out of date. While at least `k` seats
  too many are taken, the dangerous requests and `k` together are fewer than the
  threads (`RaceInv`): the thread that took the last seat is idle, and whoever counts
  now is refused. Each commit that takes a seat ends one dangerous request, so the
  bound is inductive where `OverbookingIsBounded` is not.
* `OwnerIsKept`, `InvitedOnce` and `SeatsAreRespected` have the hypothesis
  `OneAtATime`, that there is one thread: then what a request has read is still true
  at its commit (`ReadsStayTrue`). Without it the first and the last are the findings
  of section 3.

`TeamIsFinite` is assumed since seats are counted, and that there is a thread since
the bound is the number of threads but one. `NoneIsNoInvite` keeps "not sent" apart
from an invitation.

`JobTransactionsProofs` proves for any jobs, members, addresses, windows and workers
`TypeCorrect`, `AtMostOneLead`, `StampsAreKept` and `OnlySchedulesDeadlock`. A request
writes what it computed from a row that others have changed meanwhile, so the
invariant `JInv` cannot say that it writes the right row. It says what survives:

* what a request writes leaves a row with its timestamps, *whatever* others have made
  of the row (`Harmless`): the status of a complete or canceled job is written with
  its timestamp, and a timestamp is taken away with another status only;
* whose row, or rows, have passed the CHECKs holds them until it ends, so that the
  CHECKs still hold of the row it leaves (`RowSettled`, `RowsSettled`), although it
  writes one end of a window and somebody else may have written the other;
* whose crew has passed the indexes holds the crew's rows, so what it saw there is
  still so at its commit (`CrewSettled`), which is why the unique index on leads
  suffices;
* a request that still waits holds nothing, or the row of its address, for which only
  those wait that hold nothing; except for `schedule_job`, which flushes twice.

With one worker (`OneAtATime`), `Refinement` shows that transactions, with their
flushes and checks, broken off anywhere, are the requests of `Dispatch`. The invariant
`OneByOne` adds to `JInv` a promise (`AllPromised`): what an open request has loaded is
what is committed, what it carries does to the committed data exactly what the endpoint
of its name in `Dispatch` does, and its clash check has been passed, is still to come
or is not called for. A load makes the promise, flushes keep it, the commit is the step
of `Dispatch`, everything else a stutter. Through it the properties of `Dispatch` are
proved: `LifecycleIsFollowed` (`ExactInv`: a row has the timestamps its status asks
for and no others), `FreshnessIsKept` and `CrewChangesSettle`. The
hypothesis is needed: two overlapping requests break the table (`jobs_stale_status`),
and with it the life of a job.

The assumptions added for this are `MembersAssumption` (a crew is finite: leads are
counted) and `NothingToDo` (`None` is neither a status nor a record of a check).

Only model-checked: `EveryRequestEnds`, since liveness under fairness is outside the
prover's reach. Every other property of a passing run is a theorem.

## 5. Not modelled

* Daylight saving in `Dispatch` and `JobTransactions`, whose zones have a fixed
  offset (`Bookings` has it); more than one changeover in the days that are looked
  at; names of timezones that `resolve_zone` does not know.
* The cards a board shows while its data is older than what is committed.
* Whether a response leaves before the commit: with `fastapi>=0.115` (`deps.py:99`)
  that depends on the version installed; a request of `Bookings` or `ClientSession`
  is answered at its commit.
* Reads (lists, the board, the audit page) and what pages render.
* The check at startup that the database role cannot bypass the policies, and the
  tables whose policy is the plain comparison with the bound company.
* Tenant settings, audit entries (inserted in the transaction of their request),
  seed and startup.
* Dead code: `peek`, `assert_downgrade_allowed`, `board_range_utc`.

## 6. Plan

In this order, the most important behaviour first:

1. done: numbering, the status machine, dispatch, transactions, the team.
2. done: `Addresses`.
3. done: `ClientSession`.
4. done: `Tenancy`.
5. done: `Scheduling`, local time with a daylight saving gap and fold and the
   overlap of half-open intervals, against reference definitions, with proofs.
6. done: `Bookings` and its proofs.
7. done: proofs of the lifecycle and of the freshness of instants, through the
   refinement of `Dispatch`; one lead, the timestamps and deadlocks for any number of
   workers; `Team`; the rest of `Addresses` and of `ClientSession`.
8. The refinement of `Dispatch` for many workers whose requests do not overlap over a
   job, a crew or an address, in place of one worker; shorter proofs where leaves
   repeat each other.
