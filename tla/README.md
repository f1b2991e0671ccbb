# Verification of the GeoRisk backend in TLA+

This directory models the GeoRisk API (`src/georisk`): what happens to an assessment
and everything that hangs on it (datasets, results, reports, alerts, areas of
interest), and to the users of a tenant and their sessions, when several HTTP
requests, database transactions and workflow stages act on them at the same time, and
what the formulas behind the results compute. It holds TLA+ modules, TLC
configurations that check them on small instances, and TLAPS proofs for every
value of the constants. Source paths below are relative to the repository's root.

## 1. The system

A FastAPI service over PostgreSQL and Redis, written as bounded contexts
(`src/georisk/contexts/<context>/{domain,application,infrastructure,interface}`).
Each request runs as a coroutine with its own database session(s). There is no
message broker: a handler writes its domain events to an `outbox` table in its own
transaction, and what follows from an event is called in-process.

| component | state it keeps | operations | hard behaviour |
|---|---|---|---|
| assessment: aggregate and handlers | status, bound template, progress of each stage | lifecycle commands, start workflow, start / complete / fail stage, advance | long command sequences; two state machines that must agree |
| assessment: persistence, outbox | row + `version`, event numbers | load, version check, flush, append event, commit | lost updates, duplicate event numbers, lock waits |
| assessment: workflow engine | nothing but its call stack | start_workflow, execute_stage, dispatch, retry, advance | stale work lists, races with manual calls, lost requests, recursion |
| assessment: workflow templates | DAG of stage definitions, DRAFT / PUBLISHED / DEPRECATED | create, validate, publish | cycles, duplicate definitions, concurrent publishing |
| assessment: queries | none | get, list with cursors | pages while rows are inserted |
| identity: sessions | refresh tokens, access tokens, denylist, reset tokens, `token_generation` | login, refresh (rotation with reuse detection), logout, reset, revoke all, permission check | two refreshes of one token; revoke-all racing a rotation; access tokens that outlive a change of role |
| identity: users, tenants, invitations | users, roles, statuses, invitations | invite, accept, change role, suspend, deactivate | last-owner check read before it is used |
| data_acquisition | jobs, catalogued datasets and their versions, variable selections | schedule, execute (fetch, parse, preprocess, index), catalogue, revise | two executions of one job, a crash while RUNNING, version races, partial results |
| analysis | stage results, risk layers | compute, record, draw a layer; the FIRAS and WRRAS formulas | `next_version` is `SELECT max + 1` without a lock; stages read other stages' latest |
| prediction | variable selections, model runs | select, correlate, fit, run | as analysis; ties, singular designs |
| reporting | reports | generate, fail, finalize | sections read at different times; two finalizations |
| geospatial | AOI versions, sampling campaigns | define or revise, configure, generate points | two active versions; rounding of allocations; concave areas |
| validation | runs, metrics, verdicts | run on classes or on regressions | ties, undefined metrics, a page of 1000 runs |
| notification | rules, subscriptions, notifications | create and edit rules and subscriptions, evaluate | delivery before commit, repeated evaluation, edits during a loop |
| dashboard | none | read-only aggregation | |
| rate limiting | Redis window counters, in-process fallback | check | two counters per window, window boundary |
| idempotency, background tasks | keys with a TTL | run once | a retry while the first call runs, expiry |
| api, middleware, observability, settings | configuration | wiring | |
| audit | empty packages | | |
| migrations | schema | | which constraints really exist |

How they interact: a route calls a command handler; the handler opens one session,
loads an aggregate through a repository, calls a method of it, saves and appends an
outbox event, and commits. `WorkflowEngine` chains handlers of the assessment
context with the stage executors (`stage_executors.py`, the other contexts'
handlers) by plain awaits. Contexts refer to each other by id only.

`PROJECT.json` lists every component with its status, and the hazards of the code
with the line each one bites at and the properties that cover it.

## 2. Modules and the code they model

```
AssessmentDomain            pure operators: the aggregate and both status machines
  |- AssessmentLifecycle    abstract specification: one atomic command per step
  |- AssessmentStore        one row, its transactions, its outbox   (refines Lifecycle)
  |- WorkflowEngine         requests, dispatch loops, retries, their transactions
WorkflowTemplate            construction and validation of a template
UserAdministration          users, roles, statuses and invitations of a tenant
AccessControl               permission codes of routes and roles
  |- IdentitySessions       tokens, rotation, revocation, access checks of one user
AcquisitionPipeline         what a provider may answer and what the import makes of it
  |- DataAcquisition        jobs and the dataset catalogue
VersionedLog                abstract specification: rows only added, versions without gaps
  |- AssessmentResults      stage results, layers, predictions, validations, reports
                            (refines VersionedLog)
Statistics                  metrics, correlations, least squares
RiskIndices                 the index formulas of both hazard strategies
RateLimiter                 fixed windows in Redis and in each process
EarlyWarning                alert rules, subscriptions, evaluations
Sampling                    areas, point in polygon, allocation
  |- Geospatial             AOI versions and sampling campaigns
<M>Proofs                   theorems about M (AssessmentDomain, AssessmentStore,
                            WorkflowEngine, DataAcquisition)
LifecycleAndAoiProofs       theorems about AssessmentLifecycle, Geospatial with Sampling,
                            RiskIndices and Statistics
UserAndAlertProofs          theorems about UserAdministration and EarlyWarning
AdmissionProofs             theorems about IdentitySessions and RateLimiter
TemplateAndResultProofs     theorems about WorkflowTemplate and AssessmentResults
MC<M>                       constants for TLC
```

**AssessmentDomain** (`contexts/assessment/domain/entities.py`, `value_objects.py`,
`workflow_value_objects.py`, `workflow_template.py`). `LEGAL_TRANSITIONS` and
`STAGE_LEGAL_TRANSITIONS` are the code's tables. `Legal(a, c)` is the conjunction of
what the entity method and its handler check before anything is written,
`Apply(a, c)` what they assign. A progress map without an entry answers a lookup
with a fresh entry, so it is a total function. Names, timestamps, result references
and error texts are left out: no guard reads them. Note that the generic routes
`start` and `validate` lead to RUNNING and VALIDATED without a template; they are
commands here like the others.

**AssessmentLifecycle** is what the context promises: every committed handler
(`application/handlers.py`, `workflow_handlers.py`) is one atomic legal command.

**AssessmentStore** (`infrastructure/repositories.py`, `db/outbox_writer.py`,
`db/session.py` and the transaction in each handler) cuts a handler into `Load`,
`Save` (the version check), `Flush` (the UPDATE that autoflush sends before
`append_event`'s SELECT, taking the row lock), `AppendEvent`, `Commit`, with
`Conflict` (OptimisticConcurrencyError) and `Rollback` at every point. PostgreSQL's
READ COMMITTED rules and SQLAlchemy's habits (autoflush; an UPDATE sets the changed
columns only, found by comparison with the re-selected row) are external and
modelled from how the code uses them. Nothing keeps two transactions from being
between version check and commit together. The history variable `met` records when
they were, until the row is without a transaction again: no step reads it, and the
properties that such a meeting breaks are claimed with it as their exception.

**WorkflowEngine** (`application/workflow_engine.py`, the two workflow routes).
A request's position in the call chain is `pc`, its recursion is the stack `frames`,
one entry per enclosing `_dispatch_runnable_stages` loop holding what is left of
that loop's list. Between any two awaits other requests and users may act. An
executor is reduced to its outcome: `execute` catches what its context raises and
returns success or failure. A command handler takes two steps, here as in the code:
`Check` is everything up to `save`'s version check, `Handle` the UPDATE and the commit,
computed from the row held and keyed by id alone. Between them the handlers of other
requests and users check and commit; `met` records which were open together. A handler
that is `Refused` by the aggregate, or meets a version `Conflict`, raises through all
loops of its request; `RequestLost` ends a request anywhere (process death, a cancelled
connection, a database error), inside a transaction or between two. A request that goes
while it executes a stage is `abandoned`, for the property that asks who left a stage
RUNNING.
Templates have one definition per stage type here; lists that define a type twice
are treated in WorkflowTemplate. They have at least one stage and allow every stage at
least one attempt, as `WorkflowTemplate.create` and `StageDefinition` demand.

**WorkflowTemplate** (`domain/workflow_template.py`, `StageDefinition`) builds a
template definition by definition, then runs `_validate_dag` one loop iteration per
step, visiting the dict in any order, so that the verdict is shown not to depend on
it. `graph` is the dict (the last definition of a type wins), `stage_definitions`
the tuple without its order.

**UserAdministration** (`contexts/identity/application/handlers_user.py`,
`handlers_tenant.py`, the password handlers of `handlers_auth.py`, `User` and its
repository). Registration is two transactions (`CreateTenant`, `CreateOwner`), as in
the code. Every handler that changes a user is `Load`, `Check` (the count of active
owners, then the entity method), `Save` (the version check on the re-selected row)
and `Commit` (the UPDATE of the changed columns, and the invitation's `used_at` for
an accepted invitation), with `Refuse`, `Conflict` and `Rollback`. Handlers overlap in
every way the code allows. Two history variables record where that matters: `raced`
the users of whom two handlers were past the version check at once, `crossed` the
handlers of two owners' removals that were between count and commit at once. No step
reads them. Sessions are left to IdentitySessions; e-mail uniqueness, profile edits and events are left out.

**IdentitySessions** (`handlers_auth.py`, the token part of `handlers_user.py`,
`domain/entities.py`, `infrastructure/repositories.py`, `interface/dependencies.py`)
follows one user. A session token stands for a refresh token and the access token
issued with it. A request reads in one step and commits in another; rotations overlap
freely, since refresh tokens have no version. A bulk revocation
(password change or reset, "log out everywhere", suspension, deactivation, detected
reuse) ends the tokens it selected and, except for reuse, raises `token_generation`;
`Accepted` is what `get_current_claims` checks on each request. Requests that write
the user's row are loaded, `SaveUser` (the version check on the row selected again) and
a commit of the columns that differ, without a lock between them: two that are past the
check together write the same version and generation, which `raced` records. A token keeps the role it was
issued with until it expires, which `dependencies.py` accepts knowingly, so roles are not
part of the state. What each role may do comes from **AccessControl**: the codes the
routes ask for and the grants of the migrations, per context. Token strings, hashes
and expiry times are abstracted (a token is expired or not at any moment).

**DataAcquisition** (`data_acquisition/application/handlers.py`,
`domain/entities.py`) has jobs, the rows of one dataset name, and the sessions of
executors and editors. `Execute` is two transactions with the fetch between;
**AcquisitionPipeline** (the provider adapters, the parsers, `gee_connector.py`) says
which answers a provider may give to a request and which outcome the handler derives:
a failed job, an escaped exception that leaves the job RUNNING, or a dataset with an
account of each preprocessing step and index.

**AssessmentResults** (the handlers of analysis, prediction, validation and reporting,
`api/workflow_stage_executors.py`, `api/reporting_ports.py`) keeps the five result
tables as one sequence in commit order. A request reads its inputs one SELECT at a
time, then `max(version) + 1`, then commits. A row records when its request began and
when it was created, which is what freshness is stated with. Without a UNIQUE
constraint two rows may share a version; **VersionedLog** is the promise that remains:
one row is added at a time, and its version is at most one above the highest of its
key, so that none is skipped. Stages depend on stages (`InputDependencies`), and one
fixed order of reads (`ReadOrder`) stands for the order of the handlers' awaits.

**Statistics** (`validation/domain/metrics.py`, `regression_metrics.py`,
`prediction/domain/correlation.py`, `regression.py`) and **RiskIndices**
(`analysis/strategies/firas`, `wrras`) are the formulas, each next to an independent
characterisation: AUC by counting pairs against rank sums, normal equations against
least squares, tau-b against its definition, monotonicity of the indices. Rationals
are exact in Statistics; indices are integers in ten-thousandths in RiskIndices, the
digits the code rounds to. A float's own rounding is therefore not modelled. The
entropy weights of FIRAS (`ewm.py`) are given with a survey, since the handler
computes them from the indicators of the tenant's earlier assessments:
`ComputeWeights` gives an indicator that was always the same no weight, falls back to
equal weights as the code does, and shares the weight equally among several that
differed, where the code's shares follow from logarithms. TLC sees surveys without
history and with one indicator that differed once, for which this is exact; the
theorems hold for any shares.

**RateLimiter** (`rate_limiting.py`) follows one bucket of one client: the clock is
read before the await, Redis counts or fails or counts and fails, and a failure is
counted by the process instead.

**EarlyWarning** (`notification/application/handlers.py`, `api/notification_ports.py`)
has the rows, the requests that edit them, and the evaluation loop with one step per
SELECT and send, committing at its end or lost on the way. An UPDATE writes the
columns that differ from what the session loaded.

**Geospatial** (`geospatial/application/handlers.py`, `domain/entities.py`) has AOI
versions and campaigns; **Sampling** is `domain/geometry.py` and `domain/sampling.py`
on integer coordinates chosen so that no drawn point falls on an edge, each ring
scaled to metres at its own mean latitude (`LonScale`). The seeded
generator is a fixed but unknown stream per geometry.

Operators marked "Faulty variant" are not part of any specification. Each is the
form a plausible bug would give the definition that follows it; `PROJECT.json`
("mutants") names one for every property of a run, with the property that notices it.

## 3. What the runs check

| run | question |
|---|---|
| lifecycle | Does no sequence of commands rebind a workflow, undo a COMPLETE stage, lose an attempt, or touch progress before RUNNING? |
| store | With transactions interleaved as the code allows: are events numbered 1, 2, 3, ..., does every transaction end, and is each commit a legal command on the row it finds, until two have met between version check and commit? |
| engine_concurrent | A workflow request that may be lost, a manual request and all user commands at once, until two handlers meet: one executor per stage, DAG respected by dispatch, attempts bounded, no automatic stage forgotten once all requests have returned? |
| engine_live | Requests may be lost or meet conflicts: do nested loops and retries end, and does each started stage get an outcome unless the request executing it went before that? |
| template | Does validation end with the right verdict, and can an accepted template never block? |
| users | Two handlers that overlap in every way: does the tenant keep an active owner until removals cross or handlers race, do used invitations stay accepted and statuses follow the table for users nobody raced on? |
| sessions | Two requests of any kind on one user's tokens: do revocation, reset, suspension and logout end the sessions they should, is there one live token per login unless rotations overlapped, is no access token accepted after a revocation until writers of the user's row raced, can a viewer change nothing and an owner reach every route? |
| acquisition | Two executors and an editor: do started jobs settle, do completed jobs and datasets belong together, do versions form a chain of write-once rows, is every index and step accounted for? |
| results | Two requests on the result tables: do versions follow the order of requests that do not overlap, and is none skipped, inputs complete, progress references sound, reports fresh? In the same run, on every dataset and survey within the bounds: the statistics and the index formulas; and the limiter on its own. |
| alerts | Two clerks edit rules and subscriptions and results arrive while an evaluation loops: no alert missed, none stale or false, one row per rule, subscription and channel? |
| geospatial | Two requests define, revise and sample: one active version unless they raced, its permanence, points inside, counts as asked, samples that belong to one version? |
| sampling_minimum | Does every stratum get the minimum per class the allocation's docstring promises? No: the one run that is violated. |

All but the last pass. Properties that belong together are one conjunction of named parts
(`TokenFamilies == TypeOK /\ OneLiveTokenPerLogin /\ LogoutEnds`); each part has its own
comment and a faulty variant that violates it. Type invariants that are theorems
(`AssessmentStore`, `WorkflowEngine`, `WorkflowTemplate`, `UserAdministration`) are not
asked for again by a run of their own; elsewhere the type invariant is a part of such a
conjunction. What the documentation promises and the code does not keep is in
section 6, with a configuration for each counterexample.

`results` holds four independent parts (requests, statistics, indices, limiter), one
at a time: `MCAssessmentResults` starts with requests and no data, or with one dataset
or one survey and no requests, and lets the limiter run only while no request has
started. Checking them interleaved would multiply states and say nothing more, since
they share none.

Several properties have the form `met = {} => ...` or except users or requests that
`raced`. The exception is the overlap between version check and commit that the code
does not prevent (`UPDATE ... WHERE id = ?`, without a version): the models contain it,
the history variable marks it, and section 6 has, for each such property, the same
statement without the exception and the configuration in which it fails. What is
claimed is therefore that this overlap is the only way to break the property: stale
loads, conflicts, rollbacks, losses and every other interleaving do not.

`NothingForgotten` is claimed when every request has returned and no two handlers met. A request that raises
or is lost drops what its loops still held, and nobody picks it up: a manual call that
wins the race for a stage between the dispatcher's status check and its start has this
effect. Manual calls are not held to the DAG either; the route does not ask the
template, and `DispatchRespectsDag` speaks of dispatched stages only.

`AttemptsBounded` is the bound the code does keep (section 6 has the one it does not): `max_attempts`, plus one per other COMPLETE stage (each
completion dispatches again), plus one per manual call.

**Bounds.** *Lifecycle*: two templates that share a stage, one stage type that no
template defines, two attempts per stage (`AttemptCap`); a third attempt repeats the
second. *Store*: two transactions on one row, since every hazard here is a pair (one
overtakes the other), and six events (`MaxEvents`), enough for DRAFT, READY, RUNNING,
a stage started and settled. *Engine*: `Diamond` (two independent stages and one that
needs both) is the smallest DAG in which a list goes stale while nested loops run it
off, `Gated` has a MANUAL stage, `Unpublished` must be refused; two attempts; two
requests in flight, one of each route. *Template*: three stage types and four
definitions, which includes cycles of length two and three and duplicate definitions.
*Users*: two changes of each user (`MaxVersion`), enough to accept an invitation and
lose or gain ownership; two users and two overlapping handlers, since again every
hazard is a pair; the handlers are interchangeable. *Sessions*: two requests,
interchangeable, three tokens (a login, its successor and the successor's
rival or a second login) and two revocations. `SearchBound` stops the search after four
logins, rotations and revocations in all, two of them once requests have raced (from
then on `AccessEnds` says nothing), and `SearchView` identifies states that no step and
no property tells apart. *Acquisition*: one satellite or HTTP job
and one upload, whose requests cover every branch of the pipeline, two executors for
the same job, an editor, one direct catalogue entry. *Results*: three rows being
written by two requests, so that a version can be read, overtaken and read again;
pages of two runs instead of 1000, so that the page is overrun; two of the five
stages, one that reads another; every dataset of up to four observations with values
0..2, which has every pattern of ties; every survey with all indicators on one of four
levels but one indicator on any of five, the last out of range, and for FIRAS the same after an
earlier assessment from which one indicator differed; four requests of a
client with a quota of one, two processes and two windows. *Alerts*: two rules, one
subscription, two edits, one evaluation. *Geospatial*: three versions, since
the third shows what two active ones lead to; a concave area and one of two parts;
allocations with ties, remainders of both signs and equal labels, among them
proportions 10, 10, 11 of seven points, where the remainder does not go to the largest
stratum; two scales of longitude, for areas at different latitudes.
The theorems below need none of these bounds.

**Fairness.** *Engine*: weak fairness of each request's own steps: the event loop
resumes every coroutine that awaits, and executors return; and a user's open
transaction commits. No fairness for new commands or lost requests: in `engine_live`
every request may be lost or meet a conflict at any step, and `EngineSettles` names the
one place where that leaves a stage RUNNING (`Abandoned`).
*Store*: weak fairness of a transaction's steps; strong fairness of `Flush`, since
PostgreSQL queues the waiters of a row lock. *Template*: weak fairness of validation,
a loop without an await. *Acquisition*: weak fairness of each executor, with losing it
(`abandoned`) always possible: `StartedJobsSettle` is about the rest. The other modules
claim safety only and state no fairness: their requests either commit or are lost, and
nothing in the code retries them.

**Deadlock** is not checked: every instance comes to rest legitimately (archived or
cancelled assessments, all requests answered, a template published or refused, users
at `MaxVersion`, all ids used up, bounds reached).

## 4. What is proved

All for every value of the constants: stage types, templates, requests, transactions,
users, roles, tokens, jobs, rows, processes, windows. The assumptions on constants are
those of the modules; besides typing they say that a template has a stage and allows
every stage an attempt (`WorkflowTemplate.create`, `StageDefinition`), that executors
are not editors, and that the names `"editor"` and `"redis"`, which mark who wrote a row
or counted a request, are no job and no process. Only the theorems on areas and
formulas named below have further hypotheses, and state them. No theorem assumes a
schedule: what an overlap breaks is excepted in the property, by a history variable.

* `AssessmentDomainProofs`: lemmas on `Apply` and `Legal`: commands keep an
  assessment an assessment, keep `Sound` (untouched before RUNNING, attempts agree
  with statuses), keep the binding and never undo work. Later proofs cite these
  instead of the definitions.
* `LifecycleAndAoiProofs`, lifecycle: the properties of run `lifecycle`. The inductive
  invariant `Inv` is `TypeOK`, `UntouchedBeforeRunning` and `AttemptsMatchStatus`
  together; the two action properties need the second one, because `start_workflow`
  overwrites binding and progress and only the order of statuses makes that
  harmless.
* `AssessmentStoreProofs`: `OutboxNumbering` for any number of concurrent
  transactions. Inductive: the lock holder is the one flushed transaction, its
  pending numbers continue the committed ones, everyone else has none. `SerialWrites`
  (nothing is computed from a stale row) and `Refinement` (each commit is a legal
  command of AssessmentLifecycle) rest on `Serial`, which holds until two transactions
  meet: a transaction whose loaded version is current loaded the current row, and one
  at a time is past the check. It holds again once the row is without a transaction,
  whatever the meeting left there.
* `WorkflowEngineProofs`: `SingleExecutor` and `DagRespected`. Two layers: until two
  handlers meet, what a handler has checked is still so when it commits (`Serial`), so
  each step is one of an engine whose handlers are atomic (`AtomicView`); this is proved,
  not assumed. On those steps the inductive invariant adds `FramesOK`: every stage left in any frame has all its
  predecessors COMPLETE, a request inside a loop has a bound template. It is
  preserved because COMPLETE is final and the binding permanent, the lemmas of
  AssessmentDomainProofs; that is the whole reason why lists computed long ago may
  still be worked off.
  Beside it stands a second invariant, `Obligations` (theorem `Accounting`).
  `NoneForgotten`: while a workflow runs, every stage that could be dispatched has a
  request that cares for it: it is attempting the stage, has it in one of its lists, or
  is about to read the list anew (`Watched`); when no request is left in
  flight, nothing is. `AttemptsStayBounded`: each dispatch claims at most one attempt
  of a stage that has attempts left, and only completions and manual calls, which are
  the credit of the bound, allow one more (`Budget`, an inequality between cardinalities
  of sets of requests). The invariant has to count the requests that have decided on a
  retry but not begun it, which is where a stale attempt count could have slipped in.
* `UserAndAlertProofs`, users, for any number of overlapping handlers:
  `InvitationsUsed`, `StatusLegal` and `OwnerKept`. For the first two the inductive
  invariant says, user by user and for those nobody raced on, that a handler whose loaded
  version is current loaded the current row (`Versioned`) and that at most one is past
  the version check (`OneOpen`). `OwnerKept` adds, until removals cross or handlers
  race, that at most one removal is open (`OneRemoval`) and that an active owner exists
  besides the one it changes (`AnotherOwner`): every other commit works on a current
  row and takes no owner away, so the count stays good until it is used.
* `UserAndAlertProofs`, alerts, for any rules, subscriptions and requests:
  `AlertsSound`, `NoneMissed` and `IndependentEdits`. `AlertInv` says what each request
  holds. An edit in flight differs from what it loaded in the one column its command sets
  (`EditOK`), which is why an UPDATE of the changed columns undoes nobody else's.
  Of an evaluation it says what it has quoted so far (`HistoryOK`), that what has been
  due from its beginning is still ahead of it or reported (`RulesOK`,
  `SubscriptionsOK`, `DueOK`), and that its rows are one per triple (`PendingOK`). The
  loop works with copies; the proof needs that no edit changes the subject, operator
  or channels of a row (`SameRules`, `SameSubscriptions`).
* `LifecycleAndAoiProofs`, areas: `AreaIsActive` and `HistoryIsImmutable`, for any number
  of overlapping requests. `AoiInv` says what a request in flight may rely on: the row it
  read still exists, superseded or not, and the points it computed are the ones that
  would be computed now (`Holdings`); and that no version exceeds the number of rows, which
  with `OneActiveUnlessRaced` makes the versions gapless. That two active rows stay for
  ever is a consequence of steps, not of any check.
  `PointsInside` and `SamplesShared` are parts of `SamplesAreSound`: the points of a
  campaign lie in the area it was drawn on, and their counts are the allocation's.
  The allocation is a sum over a finite set of labels, and induction over data is not
  available; `Growing` replaces it (a family of subsets that contains the empty set and
  is closed under adding a member contains the whole set), and the sum lemmas
  (`SumAdd`, `SumLinear`, `SumImage`, `SumBetween`) rest on it. `SamplesSound` is the
  whole property under the hypothesis `CellsMakeUpAreas`: for the geometries given, the shoelace
  area is the area of the cells that ray casting finds inside. TLC evaluates that for
  its geometries as part of the run; that it holds for every simple polygon is geometry.
* `LifecycleAndAoiProofs`, indices: `NowhereSafer`, for any two surveys with integer
  levels and any weighting (`IsWeighting`: natural numbers, not all nothing): no FIRAS or
  WRRAS index of a situation that is nowhere better is lower at the same weights. That
  the weights themselves move with the indicators is another matter (section 6). Each
  formula is a rounded, clamped sum or product of monotone terms; the lemma of each index
  names those terms, so that a key on the wrong side has no proof. `IndicesSound` adds
  the ranges that the next formula demands of its inputs.
  `CheckedSurveys`: the surveys of the run are among those the theorems are about.
* `LifecycleAndAoiProofs`, statistics, for series of any length: `RocExact`,
  `CorrelationsAgree` and `SubsamplesAreSpread`. `RankByCounting` is the common ground:
  twice an average rank is twice the number of smaller values plus the number of equal
  ones plus one, which says what a run of ties in the sorted order amounts to. With it
  the rank sum of the positives counts pairs (`RankSum`), and so do the trapezoids, threshold
  by threshold (`PairsByThreshold`). Spearman and Kendall are bounded by the inequality
  of Cauchy and Schwarz (by Lagrange's identity) and by counting
  signs. `CheckedObservations`: the datasets of the run are such series.

* `AdmissionProofs`, sessions, for any number of overlapping requests, tokens and
  revocations: `AccessTokensEnd` from `Stamps` (generations count the bumps wherever they
  were copied to, and who can still commit a bump has loaded the current one; the version
  check of the user's row makes that true, until two requests race past it). `OldSessionsAreOver` and `OneLineOfTokens`
  from what a revocation in flight may have missed (`Missed`: a live token it has not
  chosen was inserted by an overlapping rotation and is marked so), from `PresentedLive`
  (only a token that was live when it was presented is rotated) and from `Founded`
  (a family is named after its first token). `RolesAndRoutes`: the permissions each
  route asks for against those granted to each role, context by context.
* `AdmissionProofs`, limiter: `LimiterExact`, for any clock, quota, window and number of
  processes. `LimiterInv` says what each counter has counted: as long as a window lasts,
  its key in Redis has counted exactly the requests that hit it and does not expire; a
  process has counted exactly those of the last window it was in, which is never ahead
  of the clock. So the k-th request of a window gets the number k, and at most the quota
  of them pass. A request that Redis counts after its window's end may find the key
  expired: it is marked `late`, and `QuotaHolds` excepts it.
* `DataAcquisitionProofs`: `CatalogueSound`, `DatasetsBelongToJobs`, `NothingGoesBack`.
  Lemmas on AcquisitionPipeline (`ProcessVerdicts` and those before it) say what every
  outcome of the pipeline is, for all requests that `schedule` accepts: its indices
  are accounted for and a shapefile has content. The inductive invariant adds that a job which no second
  executor restarted has one runner while RUNNING (`OneRunner`) and, until it completes,
  the columns it was scheduled with (`Untouched`): `complete` writes them all at once.
* `TemplateAndResultProofs`, templates: `NeverStuck` and `ExactVerdict`. Inductive: the keys are
  split into `resolved` and `remaining`; the resolved ones are in Kahn's order
  (`ResolvedInOrder`: whatever is done, the first resolved stage that is not has its
  predecessors done); and a pass that has made no progress so far has only passed
  over stages that were blocked (`BlockedWhenIdle`), so at the end those left wait
  for each other.
* `TemplateAndResultProofs`, results, for any number of requests and rows. `ResultsInv`
  says of every row and of every request in flight what it holds of the tables. It is
  preserved by others' steps because tables only grow: `Later(t, u)`, of which the
  lemmas `Later...` say that what was read from `t` is still right in `u`. `ResultsSound`
  and `VersionsInOrder` follow from it: whoever begins after a commit reads a maximum
  that counts it, and a request keeps the number it has computed.
  `FreshReports` holds section by section (`SectionFresh`): a SELECT that comes after the
  request began sees at least what was there then, and the page of the validation reader
  shows all runs as long as they fit (`PageShowsAll`). `TablesAreALog` is the refinement
  of VersionedLog, and `NoVersionIsSkipped` carries its `GapFree` back to the tables: the
  versions of each key are 1 to the highest, whatever fails or is lost. That the sets of
  versions have a maximum is shown by the least-number principle (`LeastNumber`,
  `MaxIs`), which rests on the well-foundedness of finite sets.

Only model-checked:

* the liveness properties (`TransactionsEnd`, `EngineSettles`, `ValidationEnds`,
  `StartedJobsSettle`), which need fairness and ENABLED, out of the prover's reach;
* `MetricsAreRight` and `ModelsAreRight` as wholes. Of the first, `RocIsExact` is
  proved; kappa, F1, the verdict and the regression metrics compare rationals in lowest
  terms, and `gcd` is a recursive function over pairs, about which nothing can be
  proved without induction over its definition. Of the second, all but the fit is
  proved; Gauss elimination is a fold over such rationals;
* that shoelace formula and ray casting agree (`CellsMakeUpAreas`);
* the counterexamples of section 6.

## 5. Not modelled, and why

* Remote services, file formats and pixels: what a provider answers and whether bytes
  parse is an outcome in AcquisitionPipeline.
* Floating point: statistics are exact rationals, indices have the digits the code
  rounds to. p-values and standard errors need special functions; the shares of the
  entropy weights among several indicators that differed need logarithms (equal shares
  in the runs, any in the theorems). Burn probability, fire regime and burn severity, optional
  stages of WRRAS, and the optimal threshold of the ROC curve are left out.
* Queries and the dashboard only read. Middleware, settings, observability and the
  composition root are wiring, except the adapters in `api/` that connect contexts,
  which are part of the models that use them. `audit` is empty.
* Commands that insert or replace one row and guard nothing: data sources, predictor
  variables, quality flags, profile edits.
* Migrations matter by the constraints they do or do not create (no unique constraint
  on versions or sequence numbers, no version condition in an UPDATE), which enter the
  models, and by the permissions they seed (AccessControl).
* Idempotency keys: the helper in `db/idempotency.py` has no caller among the handlers
  (commands carry an `idempotency_key` none of them reads), and the Celery application
  has no task that changes state.
* Concurrent publishing of one template: WorkflowTemplate has one publisher. The row
  both write is the same; the event is appended twice.

## 6. What the code does not keep

Each of these configurations asks for one property that a comment or docstring
promises; TLC answers with a counterexample. They are kept beside the runs so that a
fix can be seen to work (`tlc -config <cfg> <module>`).

| configuration, property | what happens | what is promised |
|---|---|---|
| `MCAssessmentStore_race.cfg`, `CommittedTransitionsLegal` | `save` compares versions after a plain SELECT and the UPDATE is keyed by id alone, so two handlers that both pass overwrite each other (CANCELLED becomes READY) | "checked before a transition is persisted" (`assessment/domain/entities.py:56`) |
| `MCWorkflowEngine_race.cfg`, `ExecutorsApart` | two `start_stage` handlers of one stage both pass the check and both commit: two requests execute it | "checked before a transition is persisted" (`assessment/domain/entities.py:56`) |
| `MCWorkflowEngine_budget.cfg`, `RetriesWithinBudget` | `runnable_stages` returns FAILED stages whatever their attempts, so a sibling's completion gives an exhausted stage another one | "bounded by StageDefinition.max_attempts" (`workflow_value_objects.py:72`) |
| `MCWorkflowEngine_crash.cfg`, `RunningStagesSettle` | a request lost between a stage's start and its outcome leaves the stage RUNNING, and no command starts it again | "nothing here depends on the in-process call chain for correctness, only for latency" (`workflow_engine.py:25`) |
| `MCUserAdministration_race.cfg`, `OwnerAlwaysRemains` | two removals of two owners both count two | "The 'at least one OWNER remains' invariant is enforced here" (`handlers_user.py:2`) |
| `MCUserAdministration_reactivate.cfg`, `PasswordOnceInvited` | `reactivate` takes INVITED to ACTIVE without a password; the invitation is then refused for ever | "None while status == INVITED, before AcceptInvitation" (`identity/domain/entities.py:125`) |
| `MCIdentitySessions_reuse.cfg`, `ReuseEndsSessions` | reuse of a rotated token revokes refresh tokens but leaves `token_generation`, so access tokens go on until they expire | "nuke every active session for this user" (`handlers_auth.py:203`) |
| `MCIdentitySessions_overlap.cfg`, `AccessAlwaysEnds` | two overlapping revocations both write the generation they loaded, plus one; a token issued between them is of that generation and goes on | "Bumps the counter every previously-issued access token's `gen` claim is checked against" (`identity/domain/entities.py:252`) |
| `AssessmentResults_overlap.cfg`, `VersionsUnique` | two computations of one stage both read `max(version)` and both insert the next | "a re-run creates a new version ... triple, never overwrites" (`analysis/domain/entities.py:4`) |
| `MCAssessmentResults_reweighted.cfg`, `WorseIsNeverSaferReweighted` | the entropy weights are computed with the new values: an indicator that begins to differ takes weight from the one that differed before. With `education_level` alone different before (and at its best now), improving `housing_quality` from 0.3333 to 0.6667 raises FVI from 0 to 0.0252; with an indicator that alone differed at its worst, worsening another by a third lowers FVI from 1 to 0.8993 | "higher = more vulnerable" (`firas/vulnerability.py:95`) |
| `MCGeospatial_minimum.cfg`, `MinimumPerClass` | 1000 points shared 99 to 1 give the smaller stratum 10 (run `sampling_minimum`) | "never silently drops the minimum-per-class guarantee" (`geospatial/domain/sampling.py:60`) |
| `AssessmentResults_finalize.cfg`, `FinalizedIsFinal` | two finalizations both see the DRAFT; the second overwrites who finalized and when | "no method on Report can change a FINALIZED (or FAILED) row further" (`reporting/domain/value_objects.py:33`) |

The module is the one the name begins with. One more of the properties that hold states
such an exception openly: `OneActiveUnlessRaced` (two overlapping revisions leave two
active versions, after which, by `TwoActiveIsPermanent`, every read of the active one
raises) against "only one is ever ACTIVE" in the `AoiStatus` docstring.

Further observations made while modelling, without a property of their own:

* *Permissions*: `ROLE_PERMISSIONS` calls itself the single source of truth and lacks
  the codes that migrations 0013 and 0014 seed for notification and dashboard.
* *Acquisition*: an upload with indices and no source gets no account of them, though
  a comment (`handlers.py:594`) says that uploads never request any. Exceptions of the
  CSV module, of WKB and of base64 decoding are not caught and leave the job RUNNING.
  `CatalogDataset` may add a second version 1 to a name.
* *Readers*: the latest validation is looked for among the first 1000 runs
  (`reporting_ports.py:277`, `notification_ports.py:132`, `dashboard_ports.py:182`);
  the prediction port limits rows before it drops those without the requested codes
  (`prediction_ports.py:149`).
* *Statistics*: the fitted model's `rmse` divides by n and its `mse` by n - k - 1,
  while the validation metrics have `rmse` as the root of `mse`; kappa is 0 on perfect
  agreement within a single class; labels that were not declared drop out of accuracy.
* *Indices*: FIRAS does not check the range of its capacity indicators, WRRAS does;
  FIRAS caps an exposure ratio at 1 where WRRAS refuses.
* *Alerts*: messages are sent before the transaction commits, so a lost evaluation has
  sent without a row and its repetition sends again; the docstring of the channel port
  says that a notification is already stored by then. A loop may compare one reading
  of a rule with a later reading of its metric. Activating an active rule writes
  nothing, so an overlapping deactivation wins.
* *Geospatial*: two generations of one DRAFT campaign both pass the check. For an area
  whose bounding-box centre lies outside, the fallback point makes generation raise,
  where the comment says it is better than failing. The allocation's comment says that
  "the largest stratum" gets the remainder; it goes to the first of those with the largest *rounded*
  share (10, 10 and 11 parts of seven points become 3, 2 and 2). The proof found this:
  an earlier `AllocationIsFair` said what the comment says and was false. It found as well
  how many strata rounding can bear, n (n - 2) < 2 size (`Countable`). Rings that overlap or cross
  themselves are accepted and their area counted twice.
* *Rate limits*: a Redis key may start again when a request reaches Redis after its
  window's end (`late` in `QuotaHolds`); a failing Redis adds a quota per process.

## 7. Plan

Done: everything named in section 2, with every invariant and action property of the
runs stated by a theorem but the two named under "Only model-checked". What is left:

1. The rest of `MetricsAreRight` and `FitIsLeastSquares`: a statement of them in
   cross-multiplied integers, without `Frac`, would take them within reach.
2. Two publishers in WorkflowTemplate (both writing the same row, the event twice).
3. Cursor pagination while rows are inserted.
