# Verification of the greenhouse irrigation control service

TLA+ specifications of the backend in `src/backend` (Go, Gin, GORM, Redis), of
what it promises, and of the control desk in `src/frontend` (React, Zustand)
that is its client; TLC runs on small instances, and TLAPS proofs for instances
of any size.

## The system

| Component | State | Operations | Modelled in |
|---|---|---|---|
| Valve execution service (`service/valve_execution.go`, its handler and model) | rows of `valve_executions`: status, version, business fields, who asked for and who confirmed a remote start, soft-delete mark | Create, Update, Transition, RequestControl, ConfirmControl, Delete; List, Get, StatusCounts | `ValveExecution` |
| Zone, reading and plan services | one table each, same shape without the control fields | Create, Update, Transition, Delete; the reads | `DomainService` |
| Versioned store (`repository/base.go`) | none of its own: statements on the tables | Get, Create, Update by id *and* version, Delete by id; List, CountByStatus | the writes: `RecordService`; the lists and counts: `RecordLists` |
| Audit log (`service/security.go`, `repository/security.go`) | rows of `audit_logs`, only ever appended | Audit; List, Summary, History | the append: `RecordService`; the queries: `AuditReports` |
| Status graphs (`constants/status.go`) | constants | CanTransition | `StateGraphs` |
| Authentication and role gates (`middleware/auth.go`, `handler/*.Register`) | none; the role is a claim of the token | Authenticate, RequireRoles, RequireMinimumRole, Login | gates: `Records`, `ValveExecution`, `DomainService` |
| Rate limiter (`middleware/ratelimit.go`) | per key and minute: a counter in Redis, a bucket in a map of the process | Middleware, increment, incrementLocal, cleanupLocal; Status | `RateLimiter` |
| Server lifecycle and demo data (`cmd/server/main.go`, `database/database.go`, `docker-compose.yml`) | the phase of the process, the rows of all tables | connect, migrate, seed, serve, stop, restart by the container | `ServerLifecycle` |
| Request context and timeout (`middleware/request.go`) | none | deadline of 15 s, request ids, recovery | the deadline: the failing statements of `RecordService` |
| System endpoints (`handler/system.go`) | none | Overview, Audits, AuditSummary, AuditHistory; Health, Login, Session, Runtime | the first four: `RecordLists`, `AuditReports` |
| Configuration (`config/config.go`) | none: read once from the environment at each start | Load, Validate | `Configuration` |
| DTO validation, HTTP envelope (`dto`, `constants/errors.go`) | none | field checks, formats | not modelled |
| Frontend stores, polling, session, control drawer (`src/frontend/src`) | lists per entity, session in `localStorage`, the record in the dialog or the drawer, what is under way | load, create, transition, switch account, logout, request and confirm | `ControlDesk` (the executions page) |

**Interaction.** A browser or API client sends a request; the limiter counts
it, the token is checked, the role gate admits it, and one goroutine serves
it. The service reads the row, applies its guards, changes its copy, and writes
the whole row back with `UPDATE ... WHERE id = ? AND version = ?`, where the
version is the one *the client sent*. Then it inserts the audit row and reads
the record again for the answer. These are up to four statements without a
common transaction: requests meet only in the database, through the version,
the unique index on the code and the soft-delete mark.

**What is hard.** Requests interleave between any two statements. Statements
fail, also after they took effect, when the deadline cancels them. The process
can die between a write and its audit entry; shutdown waits ten seconds for
requests that may last fifteen. The version compared is the client's, not the
one of the row read. In the browser, calls are answered out of order, after
their page was closed, or never, and a user acts on a copy that others have
changed. Deleted rows are invisible to queries but not to the unique index.
The limiter has two counters with two notions of "this minute".
A report is several statements, and a list several requests, on tables that
change in between, in an order that the writes themselves rearrange.
`PROJECT.json` lists these hazards at their lines.

**What makes the components correct.** Services: an operation takes effect on
the record as it is, one edge of its graph at a time, and a remote start has
two people. Store: of the writers that hold a version one wins, and none
overwrites what it has not seen. Audit log: what it says happened, in an order
that fits; and (as documented) it says everything. Limiter: no counter lets
more than the limit pass, nobody is refused who kept it, memory is bounded.
Reads: what a page, a count or a report leaves out or shows twice is accounted
for by the writes that came between its statements. Lifecycle: an interrupted
start leaves a database the next start completes, a delete is final, a server
that serves is within the limits of its configuration, the server comes back.
Control desk: a user changes only what was on the screen, a confirmation is for
one version, what the page offers is what the service accepts, and nothing
spins for ever.

## Modules

- `StateGraphs`, `Records`, `ValveRecords`, `DomainRecords`: the status graphs
  and the rows. A record is known by its *code*: the unique index gives a code
  at most one row for ever, so the numeric id is not needed. Business fields
  are one value of `Data`; the pairs (user, time) of a control step are the
  user name, since the code sets both together.
- `RecordService`: how every request is served. `table` is the database,
  `audits` the log in id order, `pc` and `job` the goroutines. `Prepare` is the
  arrival, the first Get and the changes to the copy, one step since only the
  Get touches shared state. `Store`, `Conflict`, `StoreFails` are the three
  outcomes of the statement; `RecordAudit`, `AuditFails` those of the audit
  insert (Create and Update ignore its error, the others answer it); `Reply`
  is the last Get; `Crash` loses all goroutines and keeps the database. A
  request that is refused before it writes changes nothing and is not a step.
- `ValveExecution` and `DomainService`: the operations of the services, each
  the guards and assignments of one method, on top of `RecordService`. In
  `DomainService` the three services are `ZoneService`, `ReadingService` and
  `PlanService`, and `Zones`, `Readings` and `Plans` their handlers; their text
  is the same but for the graph, the initial status and the roles, and so are
  their actions. `entity` says, from the initial state on, which of the
  tables a code is in, and `seeded` which codes had a row when the server first
  served: the demo rows, plans that are approved and scheduled among them
  (`FirstTables`, `database.go:128-203`).
- `ValveControl`, `DomainControl`: what the APIs promise, one atomic step per
  operation. The services are shown to implement them with the table as it is
  as the refinement mapping: the handlers' steps that write map to one abstract
  step, all others to stuttering. `MayMove`, `MayAsk` and `MayConfirm` are the
  guards of the status change and of the two control steps.
- `RateLimiter`: minutes pass with `Tick`; a request takes its Redis key in one
  minute and may be counted in the next. `asked`, `passed` and `refused` are
  history variables for the properties; they are forgotten when no request can
  be counted in their minute any more.
- `ServerLifecycle`: the start as connect and migrate (`Start`), one `SeedTable`
  per table, `Serve`; `SeedRefused` is the demo INSERT that meets the unique
  index, `SeedFails` and `Stop` are faults. While it serves, records are
  created and deleted. A start begins with the environment the container has:
  `Configuration` puts the settings together with their defaults and validates
  them, and a process whose environment does not load stays down until
  `Deploy` makes the container anew with another. A setting is what decides
  about it: a text, a length, a number; one that does not parse is treated as
  unset, as the code does.
- `Paging`: the page size as the handler binds it and the repository normalises
  it, the two statements of a page, and a client of the API that asks for the
  pages 1, 2, 3, ... of one size, as far as it likes. It is no part of the
  frontend: the record stores and the audit page load page 1 only
  (`factory.ts:23`, `AuditPage.tsx:8`), and no page uses the hook
  `usePagination.ts`, which is not modelled.
- `RecordLists`: the lists of records and the overview. The rows keep only
  their status; `order` is `ORDER BY updated_at DESC, id DESC`. A write moves
  its record to the front, or short of it when writes that were stamped later
  overtook it. A page is cut from `Listed`, the codes that match (`Matching`) as
  they come in the order. `watch` is a history variable: which records nobody
  wrote since the read began, and how many left the list or moved up in it.
- `AuditReports`: the audit endpoints. An entry has the time it was stamped with,
  which may be long before it is inserted, so the log in id order need not be
  the log by time. A summary is five statements over a window whose start is
  fixed before the first; a history sorts and cuts. `settled` and `arrived` are
  history variables.
- `ControlDesk`: one browser tab with the executions page, as a client of
  `ValveControl`, which it EXTENDS: other clients take any of its steps, the
  desk's calls those that fit their version, account and new status (`Accepts`
  is what the service checks of a call, `Performs` what it does). A call is
  sent, served or failed, and answered, each a step; a command reads its row
  again between its change and its answer (`ReadBack`), when others may have
  changed it or it is gone. What the code does between
  two `await`s is one step, since JavaScript does not interrupt it. `Answer`
  has a case per kind of call, and ends a create, a transition or a control
  step by making its load. `open` says that the page that made the call is
  still there: a closed page's answers change the store, which is global, and
  nothing of the next page. The checkbox is reset in the step that changes the
  record shown, since React runs that effect before the next click. Sending
  `expectedVersion` from a record it has loaded, the desk is a client as
  `Predicted = {}` assumes in `ValveExecution`; so its service may be taken to
  be the atomic one.
- `MC*`: the constants of the runs.

## Runs

| Run | Instance | Shows |
|---|---|---|
| `valve_atomic` | one execution, three writing roles, two handlers, two data values, versions up to 5, failing statements and crashes | the service implements `ValveControl`; no lost update; the two-person rule |
| `valve_trail` | an execution seeded as succeeded, all faults, versions up to 3 | the audit trail is a walk, has no phantom entry, and a successful answer is audited |
| `valve_progress` | no faults, versions up to 4, clients that also send versions 2 and 3 unread, fairness | the trail is complete; the two-person rule and one winner per version need no honest client; requests end, a collision has a winner |
| `domain` | one record of each entity in turn, a plan also seeded in each status, two handlers, versions up to 3, no faults | zones, readings and plans implement `DomainControl`; a plan made through the API leaves draft by a reviewer's audited move |
| `rate_limiter` | three keys, two requests at a time and two per minute, three minutes, limit 1, cleaning from 2 entries | budgets, earned refusals, cleaning |
| `reads` | two zones and an execution, a third zone to be created, three writes; three entries of three kinds at three instants | pages and histories leave out and repeat no more than the writes between their statements explain, the overview counts each record once, the figures of a summary fit together |
| `lifecycle` | a demo and a client record per table, eight environments, two faults or deployments, fairness | seeding survives interruption, deletes are final, a server that serves is within the limits of its configuration, no start hangs, the server comes back |
| `control_desk` | one execution from its creation to version 4, an administrator and a reviewer, two calls at a time, another tab that signs in and out | the desk changes only what it showed; ticks, offers and indicators are right |
| `found_*` | the smallest instance that shows it | the findings below |

**Bounds.** One code is enough for the services: no operation reads or writes
two records. Two handlers are enough for every race on one row that the properties distinguish,
since each handler's step depends on the row and its own job only; the proofs
lift the bound for what they cover. Version 5 allows create, request, confirm,
a transition back to planned and one more write to race; version 3 gives two
writes and their audit entries in either order, and each further write repeats
the same pairs. In `domain` only a plan starts with a seeded row (`MCInit`): what
distinguishes the three services is their graph, and a seeded row of a zone or
a reading is in a status that is reached anyway; the theorems have seeded rows
of all three. It has no faults either; the theorem of atomic operations has
them. Runs without a property of the trail hide it (`VIEW
WithoutTrail`); that is sound because no action reads it. Handlers, keys and
requests are symmetric (they are never compared or chosen), except in the
liveness runs, which use no symmetry. The desk has one record as
well: with two, the drawer could change from one to the other by a late answer;
the checkbox is reset then by the same effect as for a new version of one
record. Version 4 is create, request, confirm and a status change. Two calls
are a load that is overtaken, or a command beside a load. The limiter's
threshold of 512 is a parameter: what matters is that it can be reached and exceeded within two
minutes. In `reads` the default page is one record and the largest two
(`DefaultPageSize`, `MaxPageSize`), so that sizes below, at and above the
limits are asked for and a list of three has more than one page in either
size; two pages (`MaxPages`) cover two records one by one and three in
pairs, and what a page does to the one after it is seen from the second on;
window and history are limited alike (`DefaultWindow`, `MaxWindow`,
`DefaultLimit`, `MaxLimit`). `MaxWrites = 3` suffices for a record to be pushed
over a page boundary and back and for one to leave, and reaches every order of
the records from the one they start in; `MaxEntries = 3` and `MaxTime = 2` let
entries lie before, in and after the start of a window and be inserted in
another order than their time. The lists and the reports share no variable, so
each behaviour is one of either. The eight environments of `lifecycle` are one
with everything set, some with nothing or next to nothing set, and for each
setting that is validated one at its bound or beyond it; `MaxFaults` counts
deployments as well. `CHECK_DEADLOCK FALSE` is set for `rate_limiter` and the
lifecycle runs, whose bounded time and faults end.

**Fairness.** `ValveExecution!FairSpec` is weak fairness of each handler's
steps: a goroutine runs on, and the deadline of 15 s ends every wait for the
database. The arrival of requests is not fair. `ServerLifecycle!FairSpec` is
weak fairness of the start: the container restarts what exits and a start runs
on; the number of faults is bounded.

Weak fairness is defined with ENABLED, which the prover cannot expand. The
proofs of liveness therefore assume what it comes to in these specifications,
as a formula of its own: `StepsRunOn` in `ValveExecution_proofs` (each handler is
idle again and again, or steps again and again) and `StartsRunOn` in
`ServerLifecycle` (the process serves, or is down with a configuration that does
not load, again and again, or its start gets on again and again). That
`FairSpec` implies them is not proved. TLC checks the conclusions, `RequestsEnd`,
`SomeRequestWins` and `ComesBack`, under `FairSpec` itself, and `StartsRunOn` too:
it fails as soon as a start can be at work with no step to take.

## Findings

1. `found_unaudited`: the audit entry is a statement after the committed write,
   so a failure between the two leaves a change without an entry, and Create and
   Update even answer success (README.md:44 promises an entry for every change).
2. `found_stale_request`: `running -> planned` keeps the control request, so the
   next start needs only a confirmation (README.md:62 promises both steps).
3. `found_bypass`: `succeeded -> running` by the general interface starts
   without confirmation (VALIDATION.md:15 says it cannot be bypassed).
4. `found_crash_loop`: deleting every record of a table that held demo records
   makes each later start fail on the unique index (docker-compose.yml:43 wants
   the backend restarted).

A difference without a run, since both sides are constants: README.md:21 and
README.md:54 of the repository let a viewer query the audit log, `router.go:54`,
`:57` and `:58` ask for a reviewer (`AuditReports!MayReport`).

## Proofs

All theorems hold for any codes, users and roles, number of handlers, data,
bounds and faults, under the named assumptions of the modules (a role for every
user; the marks `NoRow`, `NoJob`, `NoUser`, `NoItem`, `NoCall` are none of the
values they stand beside; seeded rows have a status of their graph and are
finitely many; faults and bounds of their types).

`ValveExecution_proofs`:

- `TypeCorrect`: the type invariant; it is strengthened by what a handler that
  is prepared or stored knows of its job (an update has read a live row, a
  create none).
- `StartsAreIndependent`: the two-person rule. `ConfirmedIndependently` is not
  inductive, since a handler may be about to store any row; the invariant adds
  that the row in every job obeys the rule too, which each operation
  establishes from the row it read. No version argument is needed, so the rule
  holds for dishonest clients as well.
- `VersionsAdvanceByOne`: from the WHERE clause alone.
- `UpdatesAreNotLost` (assumes `Predicted = {}`, clients that send versions they
  have read): a job whose new version is one above the row's has read that very
  row. Inductive with: the row read is the current row or has a smaller version.
- `ServiceImplementsControl` (same assumption): every step of the service is a
  step of `ValveControl` or leaves the table alone, using the previous
  invariant: the row the operation was computed from is the row it replaces.
- `RequestsComeToAnEnd` (`RequestsEnd`, assumes `StepsRunOn`): a request goes
  through the phases prepared, stored, replying in this order (`StepAdvances`),
  and only its own steps and a crash change its phase (`OthersStep`), so one
  leads-to per phase and their composition suffice. No assumption on faults or
  on the number of handlers.
- `CollisionsHaveAWinner` (`SomeRequestWins`, assumes `StepsRunOn` and that neither
  statement nor process fails): a handler whose statement can hit stays so
  until the row is changed (`WinnerWaits`; another's write that overtakes it is
  then the winner), and its own next step hits (`WinnerSteps`). With failing
  statements all of them may lose, which is why the assumption is there.

`ValveTrail_proofs`, on top of the former:

- `NothingIsInvented` (`NoPhantomAudit`). The invariant speaks of the entries
  that are recorded and of those a handler is about to make, together
  (`InTrail`): every one of them is borne by its row, and no two are of the
  same write. The second needs the versioned UPDATE: two handlers that stored
  the same version cannot both have succeeded.
- `TrailWalks` (`TrailIsAWalk`, assumes `Predicted = {}`). The entry of the
  latest write ends in the status the row has, and consecutive entries fit;
  that a new one does follows from the invariant of `UpdatesAreNotLost`.
- `TrailHasEveryWrite` (`TrailComplete`, assumes `Faults = {}`): every version of
  a row the API created is in the trail or in a handler's hands.
- `SuccessHasItsEntry` (`SuccessIsAudited`): a handler that is about to answer a
  change of status, a control step or a delete has left its entry.

`DomainService_proofs`: `TypeCorrect`, with what a handler knows of its job
(`Jobs`) and how the row in it was computed (`Computed`);
`ServiceImplementsControl` (assumes `Predicted = {}`), by the invariant that a
row read with the current version is the current row; `PlansMoveUnderReview`
(assumes `Faults = {}`): a plan that was not seeded and is beyond draft has the
reviewer's entry, or the handler that is about to make it, and later writes keep
it. Of the seeded plans the property says nothing: they have no entry.

`ServerLifecycle_proofs`: `TypeCorrect`; `ServersAreSeeded`, by the invariant
that the tables counted as seeded have held a record and that no step takes a
row away; `DeletesAreFinal`; `ServersAreWithinLimits`, since a process that is
not down has loaded its configuration, and a configuration that loads has been
validated or, for the life of tokens, which is not, has had its default.
`ServersComeBack` (`ComesBack`, assumes `StartsRunOn` and `FaultsEnd`, that faults
and deployments stop at some time): a server that is on its way back
(`Returning`: not serving, each table filled, or its demo records insertable, a
configuration that loads) stays so (`ReturningStays`), so its seeding is never
refused; each step of its start takes it to the next stage (`Stage`), and once
faults have ended nothing takes it back (`StageAdvances`, `StageStays`).
`FaultsEnd` holds of the model because faults are counted up to `MaxFaults`; to
prove that needs induction over numbers in a temporal proof, so it is assumed.

`RateLimiter_proofs`: `TypeCorrect`, and three theorems over one invariant,
`LimiterInv`. The properties compare what a counter let through, or was asked,
with the limit; the code only has the count. The invariant relates the two:
as long as a request may still be counted in a Redis entry, its count lies
between what it let through and what it was asked (an answer that was lost
counts, but lets nothing through); the local bucket of the minute has exactly
the count of what it was asked; nobody has asked for a later minute.
`BudgetHolds` and `RefusalsHaveAReason` follow from the two sides of that;
`StaleBucketsStayFew` from the cleaning that precedes every increment.

`ControlDesk_proofs` (the browser tab with any number of calls under way):

- `TypeCorrect`, with what a call has to be for its operation (`CallOK`) and that
  a call its page waits for is of the page shown; so an answer that is late
  finds no dialog or drawer.
- `ActsOnlyOnWhatWasShown`: the list, the dialog, the drawer and the calls hold
  copies, and a copy with the version of a live row is that row (`IsCopy`),
  since every step of the service adds one to the version. A command is
  performed only on a row of its version.
- `TicksAreForOneVersion`, from the two places that show a record.
- `IndicatorsEnd` (`NothingSpinsForEver`), with the drawer's command waiting for a
  call of its own, which a status change that ends does not end.
- `OffersFitTheService` (`OffersAreAccepted`), by the invariant `OfferInv`: no copy in
  the list, the dialog, the drawer or an answer is of a deleted row; what the
  dialog holds, and what a call was sent for, fits the role of the account of
  the page, which does not change while the page is open since at most one
  login is under way and the page is closed meanwhile (`LoginInv`). What fits,
  on a row that is still what was shown, meets the guards of the service.

`Paging_proofs` has what the audit pages and the lists of records share: the
invariant of a client that asks for page after page while the list changes.

- An item is known by its *rank*, the number of items up to it. The invariant,
  `PagesInv`, says of the items under watch at each point: the ones the pages so
  far have passed over (rank within the pages, not in the client's hands) are at
  most as many as have left the list, since only a departure moves an item up
  past the boundary; and `k` places, for some `k`, are not used up yet by
  repeats, so that repeats and `k` together are at most the arrivals, and what
  the client has lies at most `k` places beyond the boundary. The existential is
  what makes it inductive: a bound on the repeats alone does not say how many
  more the arrivals may still cause.
- One lemma per step: `FirstPageKeeps`, `CountKeeps`, `FindKeeps`, and `WritesKeep`
  for a write, from how far it may move ranks.
- `RepeatsBounded` and `AllReadMisses` draw the conclusions. When the pages cover
  the total of the last count (`AllRead`), what is missed is what was passed
  over, and what is beyond a total that was counted before the last arrivals.
- `Moved` says how a write changes an order: removing an item and inserting it
  at or before its old place keeps the others in their order, and whatever was
  behind the item stays behind it.

`Reads_proofs` has the theorems, for any codes, tables, entries, page sizes,
windows and limits:

- `ReportTypeCorrect` and `ListTypeCorrect`, with the shapes the properties do
  not need but the steps do: the ids of the log are consecutive, the order has
  each live record once, the live records are finitely many, a row has a status
  of its own table (closure of the four graphs).
- `HistoriesKeepTheNewest`: a history is the beginning of an order by time, so
  what it leaves out is no younger than what it shows; entries that arrive
  before the statement may push a settled one out, never replace a younger one
  by an older.
- `SummariesAddUp` (`SummaryInv`): the five statements run while entries arrive, so
  each figure is bounded by what lies in the window at its time, and the log
  only grows; each later statement therefore covers the earlier figures.
- `AuditPagesMissFewEntries`: of the entries no other shares the time of
  (`SettledInv`), the rank is the number of entries as recent (`EntryRank`); an
  insertion adds at most one to a rank, and none leaves.
- `OverviewsCountOnce` (`OverviewInv`): the figures of a table are a partition of
  its live records at that statement (`TableAddsUp`), which lie between the
  records that stayed and the records that ever were there; that relation only
  becomes weaker while records come and go.
- `ListPagesMissAndRepeatFew` (`ListPagesInv`): nobody wrote a watched record, so
  it still matches, and its rank among the matching records moves by at most
  one for each write, by the case of the write: it enters, leaves, moves up or
  is no business of the list (`RankWritten`).

Every property of a passing run is a theorem but one. Only model-checked are
`StartsRunOn`, which `ServersComeBack` assumes and which follows from weak
fairness by ENABLED; that `RequestsEnd`, `SomeRequestWins` and `ComesBack` follow
from the weak fairness of `FairSpec`, where the theorems assume `StepsRunOn` and
`StartsRunOn`; and the violations of the `found_*` runs. That faults come to an
end is by the construction of the model.

## Not modelled, and why

- Health, Session and Runtime: each answers what one statement, the token or
  the configuration says and keeps nothing. Of the lists: the text of the
  search, which filters in the same statements as the status; the order of
  audit entries that share their time, which the code leaves open (the
  properties do not count them).
- Of the configuration: addresses, passwords and the list of proxies, which are
  taken as they are; what is shown of it to the public.
- `usePagination.ts`, which no page uses; that the four tables of an overview
  are counted at different instants, which nothing promises away.
- Of the control desk: the text of the search (a set of codes it matches), the
  create dialog, error messages, a reload of the browser page, and the pages of
  zones, readings and plans, which have the same store and component.
- Token and password checks: cryptography. A role gate is the set of accounts
  whose role claim it admits; claims do not change while a token lives.
- Loss of counts by Redis itself, several server processes: one process is
  deployed.
- Business field validation, trimming, upper-casing, time stamps: data no
  property tells apart.

## Plan

Done: the services, the reads, the limiter, the lifecycle with its
configuration and the control desk, with the proofs above. Next:

1. Model: the list of the control desk catching up with the table once nothing
   changes (fairness of polling and answers); sessions: login, expiry of tokens and the account behind them.
2. Proofs: what those extensions need; every safety and liveness property the
   runs check is a theorem, the liveness ones under fairness as stated above.
