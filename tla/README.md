# Verification of AgentHive: backend and console

The backend of AgentHive (`src/backend`, Python, FastAPI) serves chats and agents
to the tenants of one installation: it routes every model call through a gateway
with budgets and a circuit breaker, runs media generation jobs on Celery workers,
keeps knowledge bases, talks to chat channels, and licenses its agent modules.
Its console (`src/frontend`, TypeScript, React) signs users in, shows them the
pages their role permits, and works on the backend's data.  This directory holds TLA+
models of their stateful core, the TLC instances that check them, and proofs checked by
TLAPS.  `PROJECT.json` maps every definition
to the lines it translates, and lists runs, hazards and theorems.

To check a run: `tlc -config GatewayCalls.cfg MCLLMGateway` (the module of each
run is in the table below); to check the proofs: `tlapm LLMGateway_proofs.tla`.

## 1. Inventory

Everything runs on asyncio: a handler is atomic from one `await` to the next,
and any other handler may run in between.  State is shared in three ways: in the
memory of a process (breaker, limiters, token cache), in PostgreSQL (sessions
with `expire_on_commit=False`, `autoflush=False` and no version columns, so a
handler works on the row as it loaded it and its UPDATE overwrites the columns it
changed), and through Redis (Celery tasks, one rate limiter).

The console runs on the event loop of a browser tab in the same way: a handler is
atomic from one `await` to the next, and effects run after a render, with the state
of that render.  A page holds its state while it is mounted.  `sessionStorage`, the
readable CSRF cookie and the session cookie, which scripts cannot reach, outlive a
reload.

| Component | State it keeps | Operations | What is hard | What makes it correct |
|---|---|---|---|---|
| LLM circuit breaker, `llm/circuit_breaker.py` | a circuit per deployment, under a lock | outcomes, queries, operator overrides | late outcomes, time, lazy OPEN→HALF_OPEN | opens at its threshold, closes only on recent probes, never stuck open |
| LLM gateway, `llm/gateway.py` | local reservation and routes of each call | `chat`, `stream_chat`, `test_connection` | fallbacks, partial streams, cancellation, database faults | one answer from one deployment, every reservation of a call that is not interrupted closed once, calls end |
| Budget guard, `llm/budget.py`, `usage.py` | ledger events, usage rows, alerts | reserve, settle, release | check and write are apart; concurrent calls | overspending bounded, one alert per crossing |
| Router, `llm/router.py` | none (reads breaker and catalogue) | `plan` | all circuits open | no healthy deployment left out |
| Policy, pricing, cost centres | rows | evaluate | precedence of rules | deny wins over allow |
| Agent concurrency limiter, `services/agent_concurrency.py` | counters by tenant, user, agent | acquire with wait, release | several scopes at once, cancellation, deadline | exact counters, limits kept, every wait answered |
| Media generation jobs, `services/media_generation_*.py`, `workers/media_tasks.py` | job row, reservation and queue entries in its metadata, Celery tasks | create, enqueue, execute, poll, callback, cancel, retry, status update | stale rows, late callbacks, lost tasks, double delivery | a reservation closed once, terminal is final, queued jobs run |
| Knowledge documents, `services/knowledge_service.py` | document row, chunks, object | upload, ingest, re-ingest, delete | deletion during ingestion, crash in INGESTING | no chunks of deleted documents |
| Channel tokens, `services/channel_token_service.py` | process-local cache | get, refresh, batch refresh | checked under a lock, filled outside it | no expired token, newest token wins |
| Authentication, `services/auth_service.py` | users, `auth_version`, failure buckets | bootstrap, login, refresh, logout | check before and record after awaits | a locked key stays locked; logout ends sessions |
| Rate limiter, `middleware/rate_limit.py` | sliding window in memory, fixed window in Redis | allow | fallback while Redis is down | limit per window |
| Licences and modules, `services/license_service.py`, `agent_module_service.py` | licence, module and instance rows | activate, deactivate, install, enable, disable, reconcile | concurrent activations, counts read before inserts | one active licence, dependencies enabled |
| Console session, `App.tsx`, `lib/api/core.ts`, `pages/auth` | state of App, cached user, two cookies, prototype flag | status, refresh, login, set-up, logout, reload, refusals | answers of an earlier session, a cache that outlives the session, lost logouts | fails closed; signed out holds nothing; the user shown owns the cookie |
| Workspaces and navigation, `App.tsx`, `lib/workspaces.ts`, `lib/permissions.ts`, `AppShell.tsx` | page, workspace, stored preference | side bar, links, switch, three effects | effects of one render overwrite each other | comes to rest on a page the user may see |
| Chat console, `hooks/admin/chat.ts` | lists, open conversation, messages, sending | list, open, create, send, stream, stop | five awaits in a row, stop or failure at each | no endless "thinking", sending ends, the right transcript |
| Knowledge page, `useKnowledgePageController.ts`, `hooks/admin/knowledge.ts` | bases, selection, documents with a request counter | select, load, upload, create, delete | overlapping loads, handlers that go on with old values | the documents asked for last, of the selected base |
| Media board, `useMediaPageController.ts` | jobs, polling, busy buttons | load, poll, job actions | loads overtake each other, polls skipped and torn down | catches up, nothing disabled for ever |
| Digital employees page, `useDigitalEmployeesController.ts` | selected employee, filter, the chat hook's state | select, filter, new task, send | the open conversation follows the employee by an effect, calls overlap | a message reaches the employee it was written for |
| Chats, agents, MCP, channels, retrieval, administration, audit, health, API, migrations, other console pages | rows, or nothing | CRUD, formatting, calls | little of their own: their waits are in the components above | |

The components meet as follows.  A chat (`chat_service`) enters the concurrency
limiter, runs an agent, and the agent calls the gateway.  The gateway asks policy,
budget and router; the router asks the breaker; outcomes go back to breaker, usage
and budget.  A media job uses the same budget guard, once per attempt, but keeps
its reservation in its own row across requests, tasks and callbacks.  In the console
the session decides which page is mounted; the pages send requests in its name, and a
refusal of any of them ends it by an event of the window.

The hazards found in the survey, with their lines, are in `PROJECT.json`.

## 2. Modules

| Module | What it is | Depends on |
|---|---|---|
| `Circuit` | one circuit as a pure record, each method of the breaker as an operator | |
| `CircuitBreaker` | the breaker: all circuits, any order of calls, time | `Circuit` |
| `LLMGateway` | calls in flight, with router, breaker, budget and usage composed into them | `Circuit` |
| `Admission` | abstract promise of the concurrency limiter: who runs, and the limits | |
| `AgentConcurrency` | the limiter with its counters, waits and deadlines; implements `Admission` | `Admission` (INSTANCE) |
| `MediaJob` | one media job, its budget ledger, its tasks, and the sessions that work on it | |
| `Workspaces` | who sees which page, and where the console goes instead; pure | |
| `ConsoleSession` | the session of a tab, its navigation, what the browser keeps | `Workspaces` |
| `ChatConsole` | the chat page | |
| `LatestLoad` | abstract promise of a panel of documents | |
| `DocumentPanel` | the panel with numbered, overlapping loads; implements `LatestLoad` | `LatestLoad` (INSTANCE) |
| `KnowledgePage` | bases, selection and document actions around the panel | `DocumentPanel` |
| `MediaBoard` | the board of media jobs with its polling | |
| `Console` | the session and the page that is mounted | the five above, but for `LatestLoad` |
| `EmployeeDesk` | the page of the digital employees, with overlapping calls | |
| `KnowledgeDocument` | the documents of one knowledge base in the backend, and the sessions that work on them | |
| `MC…` | instances for TLC | the module named |
| `…_proofs` | theorems | the module named, `TLAPS` |

Operators named `Definition_Something` in the models are *variants*: the same
definition with a plausible mistake.  Each property of a passing run is shown to
fail when one of them takes the definition's place, so no property is idle.  No
specification uses them.

### Circuit, CircuitBreaker

A circuit is the record `_DeploymentCircuit`.  `opened_at` becomes `openedFor`,
the clock ticks since it opened, cut off at `Cooldown`, as the code only asks
whether the cooldown has passed.  `AfterQuery`, `AfterSuccess`, `AfterFailure`
and `Forced` are what `is_open`/`get_state`/`snapshot`, `record_success`,
`record_failure` and `force_state` do to the record.  All methods hold the
breaker's lock, so each is one step.  Outcomes are enabled in every state because
a call may report after the circuit has changed.  Two history variables, which no
guard reads, serve the properties: `probes`, the successes since the circuit was
last open, and `operated`, the deployments whose last change was an operator's
override, so that a failure that would restart the cooldown is never taken for
an operator forcing the circuit open.

### LLMGateway

A worker is a request in flight.  `pc` is the await it stands at:

| `pc` | the handler awaits | next actions |
|---|---|---|
| `reserve` | policy, the guard's check of what is spent | `Refuse`, `Reserve` |
| `reserving` | the guard's commits of the reserve events | `RecordReservation` |
| `plan` | `router.plan`, `_routes_for_connection_test` | `Plan` |
| `unroutable` | the failure row of a call without routes | `Unroutable` |
| `attempt` | the adapter | `Delta`, `AdapterReturns`, `AdapterRaises`, `StreamHttpError`, `TestReportsFailure` |
| `settle` | `budget.settle` | `Settle`, `SettleRaises` |
| `record` | the usage row | `RecordUsage`, `RecordTest`, `RecordRaises` |
| `failed` | the usage row of the failed attempt | `NextRoute`, `GiveUp` |

`kind` tells the three entry points apart (`explicit_test` is a connection test
that names its deployment and may carry temporary credentials).  `todo` holds the
routes not given up; `resv` is the handler's own idea of its reservation, `ledger`
the events that were really written: they differ when `_record_budget_event`
swallows an error.  `DbFaults` lets every commit and read fail, `Cancels` lets the
client go away at every await: `Cancel` leaves written or unwritten whatever the await
was writing (`Writing`).  In `reserving` the guard commits one reserve event per scope
and the handler does not know yet that it holds a reservation; a cancelled stream
releases one it knows of, but that release may be cancelled as well.  The history
variable `interrupted` marks both cases; no guard reads it.

Left out: one hard and one soft policy stand for all that match a call; costs are
whole units; period windows do not end; usage rows of failed calls are only read
by reports; cost-aware ordering of equal priorities.

### Admission, AgentConcurrency

`Admission` says only who runs (`inside`) and that nobody enters beyond a limit.
`AgentConcurrency` has what the code has: a counter per scope (`active`, a missing
entry is 0), requests that look, sleep and look again until their deadline
(`Look`, `slept` counts the sleeps), are refused with 429, or go away.  What runs
under the lock contains no `await` and is one step.  `MaxSleeps` is the number of
sleeps that fit into the configured wait; because the event loop may be late a
request may also be refused earlier, if it is blocked.  The refinement maps
`inside` to the requests whose phase is "inside".  `reset()` is called by tests
only and is left out; limits are constants, as the settings are.

### MediaJob

Follows one job after `create_media_generation_job`.  A *session* (worker task,
API request, webhook) loads the row into `copy`, works for a while, and commits
(`Closes` is the settlement or release of the reservation that goes with it):
`Updated` writes exactly the columns that differ from what was loaded.  `job` is
the row, of which status, `external_job_id` and the interesting parts of the
metadata are kept (the budget reservation, the two queue entries); `ledger` counts
the closing events of each reservation; `tasks` are the waiting Celery tasks.
`Open` covers the guards of all user requests, and the rest of each request is an
action of its own, so that other sessions run in between.  The status a provider
reports is chosen when it is applied: nothing observes it earlier.  `Die` ends a
session anywhere; its task is not delivered again (Celery acknowledges early).

A task whose handler refuses it before it changes anything, because the account, the
module licence, the provider or the policy does not permit it any more, ends with an
exception (`Raises`): the task is gone, the job as it was, and its queue entry keeps it
from being queued again.  `refused` is a history variable: that happened to a worker's
task since the job got its present reservation.

`submits` numbers the jobs the provider accepts and `owner` remembers the
reservation each was submitted under.  `overtaken` and `died` are history
variables: a commit went over a change its session had not seen; a session died.

Left out: what access rights, module licence and model policy say (only that such a check
may refuse is modelled), archiving of outputs beyond its success or failure, metadata that a PATCH
could put over the reservation, and the failure of a ledger event in the middle of
a commit.

### Workspaces, ConsoleSession

`Workspaces` has the tables of `data.ts` and `rolePresets` and the functions over
them.  An account is named by its role preset, which stands for its permissions.
`VisibleNavItems` is a table, so that TLC computes it once; it holds the entries by
their places in `NavItems`, whose order decides which page comes first.

`ConsoleSession` is `App`: `authState` and `authUser`; `boot`, the call that
"checking" waits for; `submitted`, the login under way.  `stored`, `csrf`, `cookie`
and `protoFlag` are the browser's; `initialized` and `version` (the `auth_version` of
each account) the backend's.  A token holds its user and the version it was issued
under and is valid while the version stands (`Valid`).  A call is served and its
answer handled in one step, which may come at any time after the call; a request of a
page is remembered by the token it was sent with (`requests`), a logout likewise
(`logouts`, in the order they were sent), because both may be answered under another
session.  `RunEffects` is one run of the three navigation effects, in their order,
on the state of one render.  `confirmed` is a history variable: whom the backend
confirmed since the page was loaded.

`Reload` drops what is in flight, but a login or logout on its way may still have
reached the backend.  `CookiesExpire` takes both cookies, `Revoke` moves a version on,
as a logout in another place does.  `Targets` contains the page `builder`, which
pages link to and no navigation table has.

### ChatConsole

`send` is the call of `sendMessage` with the await it stands at: `creating` (the
conversation), `streaming`, `refetching` (the saved transcript), `listing`, and
`restoring` after a stop.  Of what is displayed, `messages` keeps whose saved
transcript it is and the state of the streamed answer's bubble.  `load` is the load of
the effect that is not cancelled: opening a conversation replaces it.  `origin` is the
conversation that was open when the message was sent, which is the one the handler
knows.  A stream's error event is swallowed by the parser of the stream, hence looks
like its end.  `blank` are the conversations of the backend with an answer that came
without content: a provider may answer with nothing, `done` then follows no delta, and
the empty message is saved.  `messages.blank` says that one is on display; the page shows
dots in its place (`ChatPage.tsx:83`), now and whenever the transcript is loaded again.
`NoEndlessThinking` allows these dots and no others.

### LatestLoad, DocumentPanel, KnowledgePage

`LatestLoad` has no requests: a panel is asked for the documents of a base, and
displays those, or none, when it is done.  `DocumentPanel` numbers its loads; a load of
another base takes two numbers, one of them in the clean-up of the effect.  The
administrators' hook and the employees' hook are the same code and one model.
`KnowledgePage` adds the list, the selection with the effect that moves it, and the
actions.  A document action remembers the base it was rendered with, as its closure
does.

### MediaBoard

Jobs are `active` (queued or running) or `finished`: the page asks for no more.  A load
is served (`ServeLoad`) and displayed (`DisplayLoad`) at different times, so an older
one can be displayed later.  Each load knows who waits for it: the page, the poll, a
job's button, the batch, the form.  When the last active job goes from the board the
effect is torn down, and a poll in flight keeps nobody waiting (`Retired`).

### Console

The session, and one page of three mounted exactly while the content area displays it
to a user who is signed in.  A step of the session that mounts a page lets the backend
behind it be in any state; one that unmounts it drops the page's state.  Steps are of
two kinds: those users, lifetimes and faults set going, of which there are at most
`MaxEvents`, and the ones that follow from them, which are free.  Employees read
knowledge, only accounts with `knowledge:write` act on it.

### EmployeeDesk

The page of the digital employees uses the hook of the chat page the other way round:
the employee is chosen, and the effect of `selectedEmployee` (`FollowSelection`) opens
one of its conversations, or none.  React has run the effects of a render before the
user's next event, so commands wait for `~Following`; answers do not.  A call is one
handler in flight with the await it stands at: `opening` (`createSession` of
`startConversation` or `ensureEmployeeSession`), `ensuring` (the hook's own
`ensureSession`, after the first was refused), `streaming`, `refetching`, `listing`.
`employee` is the one selected at the click, `origin` the conversation the handler's
closure knows, `session` where the message goes; `refused` remembers that opening a
conversation of the employee failed.  `sending` is set only when the message is sent,
so other calls start while a conversation is being opened.  `switched` is a history
variable: another conversation is open than one a message is being sent to.  The page
has no button that stops a stream.  The draft, the task summary and the sample data of
the prototype mode are left out, and so is the bubble, which `ChatConsole` has.  The
list of employees answers any subset of them, its first element is any fixed one.

### KnowledgeDocument

A *session* is the database session of one handler: `pc` is the await it stands at, `copy`
the status it read with the row, `doomed` the committed chunks its transaction has
deleted.  A commit is one step: `Written` leaves the column alone when the value assigned
equals the one that was loaded, as SQLAlchemy does, and overwrites it otherwise.
Statements run READ COMMITTED, the default of PostgreSQL.  A DELETE removes the chunks
that were committed when it began (`BeginDelete`) and waits for whoever is deleting them
(`EndDelete`); the INSERT waits for whoever is inserting chunks of the document, and if
chunks were committed meanwhile, `UNIQUE (document_id, chunk_index)` breaks the
transaction, in which the handler cannot record the failure either (`Insert`).  `Refused`
is every other statement the database refuses, at any await: a text with a NUL at the
flush, a search vector that is too long, an embedding of another dimension, two archivings
that wait for each other's rows.  The transaction is aborted; during an ingestion the
commit of FAILED in the handler of exceptions (`:1075`) raises as well, and the row stays
INGESTING.  A failure in Python, reading, parsing or computing an embedding, is committed
(`ParseFails`, `Finish`).  A row read again after a commit is refreshed (`Refresh`), or
loaded anew, since nothing holds it in the identity map.

| `pc` | the handler is about to | next actions |
|---|---|---|
| `create`, `put` | insert the row, store the object | `Create`, `PutObject` |
| `load`, `list` | read the row, or the rows of the base | `Load`, `List` |
| `clear`, `clearing` | delete the chunks | `BeginDelete`, `EndDelete` |
| `save` | commit the new status | `Reset`, `Delete`, `Archive`, `MarkFailed` |
| `saved`, `completed`, `started` | read the row again | `Refresh` |
| `complete`, `start` | commit UPLOADED, commit INGESTING | `Complete`, `Start` |
| `parse` | read and parse the object | `ParseFails`, `BeginDelete` |
| `replacing`, `insert`, `embed` | replace the chunks and commit the outcome | `EndDelete`, `Insert`, `Finish` |

`stale`, `overtaken`, `lost` and `refused` are history: no guard reads them.  `stale` are
the documents others have committed since the session decided on them.  `Refresh` does not
clear it: a session that reads its row again does not look at the status it finds, so what
it commits next was decided before; `overtaken` therefore also covers commits over a change
the session had read.  `WhatIsDeletedIsGone` and `IndexedIsRetrievable` except documents
that were overtaken, `IngestingIsSomeones` also those whose ingestion died or was refused
since their last commit.  Of the two DELETEs of an ingestion's start the model keeps the
later one.  A document without text raises (`document_processing.py:58`) and becomes
FAILED, as one that cannot be parsed.
Left out: the stored object, external engines, the fallback without a database, the
counter `document_count`, access rights.

## 3. Runs

| Run | Module, cfg | Checks | Result |
|---|---|---|---|
| `circuit_breaker` | `MCCircuitBreaker`, `CircuitBreaker.cfg` | opening at the threshold, closing on probes only, recovery (liveness) | holds |
| `gateway_calls` | `MCLLMGateway`, `GatewayCalls.cfg` | two calls at a time, no faults: types, bounded overspending, exactly one closing event, healthy deployments stay in, calls end | holds |
| `gateway_faults` | `MCLLMGateway`, `GatewayFaults.cfg` | one call at a time, database faults and cancellation at every await: an answer has one source, a stream's reservation is closed unless its writing or its release was interrupted, the hard limit is exact | holds |
| `gateway_hard_limit` | `MCLLMGateway`, `GatewayHardLimit.cfg` | the hard limit with two calls | **violated** |
| `agent_slots` | `MCAgentConcurrency`, `AgentSlots.cfg` | exact counters, refinement of `Admission`, deserved refusals, every wait answered | holds |
| `media_jobs` | `MCMediaJob`, `MediaJobs.cfg` | a worker and a request on one job, crashes, tasks that are refused, one retry | holds |
| `media_canceled` | `MCMediaJob`, `MediaCanceled.cfg` | a canceled job stays canceled | **violated** |
| `media_callback` | `MCMediaJob`, `MediaCallback.cfg` | a callback decides only the attempt it is about | **violated** |
| `console` | `MCConsole`, `Console.cfg` | session, navigation and the three pages: seven invariants, six liveness properties, the refinement of `LatestLoad` | holds |
| `console_documents` | `MCKnowledgePage`, `ConsoleDocuments.cfg` | the documents displayed are those of the selected base | **violated** |
| `employee_desk` | `MCEmployeeDesk`, `EmployeeDesk.cfg` | a message reaches its employee, the transcript is that of the employee selected, `sending` is some call's, effect and selection do not chase each other | holds |
| `knowledge_documents` | `MCKnowledgeDocument`, `KnowledgeDocument.cfg` | three overlapping handlers that wait, fail, are refused and die: deleted is gone, indexed is retrievable, INGESTING is some session's or was left by one that could not commit | holds |

The four violations are disagreements between the code and what the repository
says of it:

* `HardLimitHolds`: `docs/cost-governance.md:103` says that a request over the
  limit is rejected.  The check reads what is recorded as spent and ignores what
  other calls have reserved, so two calls pass on the same reading.  What does hold
  is `OverspendIsBounded`: by no more than the calls in flight can cost (proved).
* `CanceledIsFinal`: the table of transitions gives a canceled job no next status
  and a test says the same of terminal jobs.  A worker that loaded the job as
  queued commits "running" over the cancellation.
* `CallbackOfThisAttempt`: `docs/deployment.md:268` says a wrong `external_job_id`
  is answered with 409.  A retry clears the stored id, so a late callback of the
  earlier attempt is accepted.
* `ShownDocumentsAreSelected`: a test of the documents' hook
  (`hooks/admin/knowledge.test.tsx:61`) is called "keeps documents for the latest admin
  knowledge base".  The hook does; the page does not: an upload goes on, after its
  await, with the `refetchDocuments` of the base it was started in
  (`useKnowledgePageController.ts:217`, `:228`, `:257`, `:269`).  If another base was
  selected meanwhile, that load is the latest, and the documents of the first base
  appear under the second one's name until something loads them again.

### Bounds, and why they are enough

* Breaker: two deployments (they do not interact), both thresholds 2, so that one
  outcome is not enough and counters are carried over; cooldown of 2 ticks;
  failures counted to 3, one past the threshold.
* Gateway: two deployments (one fallback), two workers (every race here is between
  two calls) and three calls, so that a call follows the calls that overspent;
  costs of 1 and 2 against an estimate of 1, so that a call costs more than it
  reserved.  `gateway_faults` has one worker, as the faults are inside a call, and five
  calls, which reach the limit of three; a call costs what was estimated, for only then
  can a limit be exact.
* Limiter: five requests of two tenants; three compete for one tenant's two places,
  two of them share a user and two an agent.  One sleep separates the first look
  from the last.
* Media: one worker and one request (the races are between two sessions), two
  reservations (one retry), two jobs at the provider, one waiting task of a kind.
  `Ordered` is a constraint of this run: its properties are claims about behaviours
  in which no session commits over a change it has not seen, so states after such a
  commit need no exploring; with a version column on the row there would be none.
  What happens after such a commit is what `media_canceled` shows.
* Console: two accounts, one that sees every page in both workspaces and one that sees
  few and has no workspace of administration, so that a page can be open that the next
  user must not see; two conversations and two bases, so that one can be open while the
  other is loading; one job, as jobs do not interact.  Three events, while the start,
  every answer, the effects and the polling are free: the races here are between one
  command and the answers to one or two earlier ones (start a load, switch, switch back;
  log in, log out, reload; act, fail, refresh), and the initial states already hold a
  stale cache, an old cookie, a foreign workspace and a prototype flag in all
  combinations.  `console_documents` has the page alone and three commands.
* Digital employees: two employees in two categories, so that a filter can hide the one
  selected, a conversation of each and one of nobody, two calls, as an answer can only
  be misled by one other call's conversation.  The calls are symmetric.
* Knowledge documents: one document, since handlers of different documents share only
  the archiving, and three symmetric sessions: one that ingests, one that deletes or
  ingests again over it, and one more that overtakes or waits for either.  (Two sessions
  on two documents hold as well.)  There are no counters to bound: a session ends and begins
  again.  The run may stop, as an archived base accepts no request.
* Two sign-ins overlapping one late logout need four events and are beyond this
  instance; the session's three invariants are proved for any number.

### Fairness

* Breaker: the clock ticks, and some request keeps asking about each deployment
  (the router asks for every candidate of every call).
* Gateway: a handler goes on (`WF` of `Step`): adapters have timeouts and the event
  loop resumes handlers.  Cancellation, starts and the yielding of deltas are not
  assumed; a stream that yields for ever is excluded because `AdapterReturns` stays
  enabled, which the adapter's timeout justifies.
* Limiter: a waiting request looks again; executions need *not* end.
* Media: sessions run on, and idle workers take waiting tasks.  Crashes may happen;
  the liveness property excepts behaviours with a crash, and those in which a check
  refused the task (`Raises`), which loses it in the same way.
* Console: a call is given up after 30 seconds (`DEFAULT_API_TIMEOUT_MS`), so the calls
  of the start, of signing in and of signing out are answered, and so are those a chat,
  a panel or a board has in flight; on the board the *oldest* load and the oldest call,
  because a timeout runs per call and younger ones must not be answered instead for
  ever.  React runs effects (`RunEffects`), intervals tick (`PollTick`).  A stream has
  no time limit and is *not* assumed to end, nor are users to do anything, nor requests
  of the pages to be answered.

## 4. Proofs

TLC checks the instances above; the following holds for all values of the constants
that satisfy the named assumptions:

* `CircuitAssumption`, `GatewayAssumption`, `ConcurrencyAssumption`: positive thresholds,
  finitely many workers and requests, a bound on what a call costs, natural limits;
* `MediaAssumption`: a worker is no request, the bounds are numbers, and there is a
  reservation;
* `SessionAssumption`: nobody is no account, and every account has a role of the table;
* `ChatAssumption`, `PanelAssumption`, `BaseAssumption`, `JobAssumption`,
  `DeskAssumption`, `KnowledgeAssumption`: what stands for no conversation, no base, no
  job and no document is none, and a list of bases has a first one;
* `EventsAssumption`: the bound on the console's events is a number, as large as one likes.

Every invariant and every action property that a passing run checks is a theorem.  Three of
the gateway's have hypotheses in the theorem itself, because the code keeps them only
there.  `ClosedExactlyOnce` needs a database that
answers and clients that stay (`gateway_calls` has these values), `HealthyStaysClosed`
such a database and no connection test with credentials of its own (the same run; clients
may go away in the theorem), and `HardLimitHolds` one call at a time that costs no more
than it reserves (`gateway_faults` has these values; `gateway_hard_limit` shows it fail
with two).

| Theorem | Says |
|---|---|
| `CircuitBreaker_proofs!BreakerSafety` | types, `ClosedBelowThreshold`, `OpenHasOpeningTime`, `ProbesAreRecent` |
| `CircuitBreaker_proofs!ProbesCloseCircuit` | `ClosesOnlyOnProbes` |
| `LLMGateway_proofs!GatewayTypeCorrect` | types, under every fault |
| `LLMGateway_proofs!GatewaySingleSource` | `SingleSource`, under every fault and cancellation |
| `LLMGateway_proofs!GatewayOverspendBounded` | `OverspendIsBounded` |
| `LLMGateway_proofs!GatewayStreamsClose` | `StreamsCloseUnlessInterrupted`, under every fault and cancellation |
| `LLMGateway_proofs!GatewayClosesOnce` | `ClosedExactlyOnce`, without database faults and cancellation |
| `LLMGateway_proofs!GatewayHealthyStaysClosed` | `HealthyStaysClosed`, without database faults and tests with their own credentials |
| `LLMGateway_proofs!GatewayHardLimitHolds` | `HardLimitHolds`, for one call at a time that costs what it reserved at most |
| `LLMGateway_proofs!GatewayCircuitsRecover` | the breaker's `ClosedBelowThreshold` and `OpenHasOpeningTime` among the calls of the gateway |
| `MediaJob_proofs!MediaTypes`, `MediaClosedOnce`, `MediaFinalUnlessRetried` | types, `ClosedOnceIfOrdered`, `FinalUnlessRetried` |
| `AgentConcurrency_proofs!SlotsAccounted` | counters are exact |
| `AgentConcurrency_proofs!LimiterKeepsPromise` | the limiter implements `Admission` |
| `AgentConcurrency_proofs!RefusalsDeserved` | `RefusedOnlyWhenFull` |
| `CircuitBreaker_proofs!BreakerTypeCorrect`, `OpenCircuitsRecover`, `ProbesStayRecent` | the parts of `BreakerSafety`, one by one |
| `AgentConcurrency_proofs!LimiterTypeCorrect` | types |
| `Console_proofs!SessionFailsClosed`, `SignedOutTabHoldsNothing`, `ShownUserOwnsCookie` | `FailClosed`, `SignedOutHoldsNothing`, `ShownUserIsSessionUser` of the session |
| `Console_proofs!SessionTypeCorrect`, `BoardTypeCorrect` | types of the session and of the media board |
| `Console_proofs!ChatNeverThinksForEver`, `ChatTranscriptSettles` | `NoEndlessThinking`, `TranscriptSettles` of the chat page |
| `Console_proofs!PanelLatestWins`, `PanelImplementsLatestLoad` | `LatestWins`; the panel implements `LatestLoad` |
| `Console_proofs!ConsoleRunsSession` | every behaviour of the console is one of `ConsoleSession` |
| `Console_proofs!ConsoleSessionSafe` | the session's three properties in the console |
| `Console_proofs!ConsoleLatestWins`, `ConsoleImplementsLatestLoad` | the panel's promise in the console |
| `Console_proofs!ConsoleChatSafe` | the chat page's two promises in the console |
| `Console_proofs!ConsoleTypeCorrect` | `ConsoleTypeOK`: the session and whichever page is mounted |
| `EmployeeDesk_proofs!DeskTypeCorrect`, `MessagesReachTheirEmployee` | types, `RightEmployee` of the digital employees' page |
| `EmployeeDesk_proofs!DeskTranscriptIsEmployees`, `DeskSendingIsSomeones`, `DeskFollowsAtOnce` | `TranscriptIsEmployees`, `SendingIsSomeones`, `FollowsAtOnce` |
| `KnowledgeDocument_proofs!DeletedIsGone`, `IndexedHasChunks`, `IngestingIsOwned` | `WhatIsDeletedIsGone`, `IndexedIsRetrievable`, `IngestingIsSomeones` |
| `KnowledgeDocument_proofs!KnowledgeTypeCorrect` | types |

Arguments.  *Breaker:* `Sound` (in `Circuit_proofs`) describes one circuit and its probes,
each operator preserves it, and the breaker's invariant is `Sound` of every circuit.
`ProbesAreRecent` alone is not inductive: it needs that a closed circuit is below its
threshold and that the probes of a half-open circuit bound its counter. *Gateway:* typing
needs that a routed call has a route left (`First` of an empty set is nothing) and that
circuits are `Sound`.  `SingleSource` needs `ShownInv`: what a stream has shown is its
current route, for a failed route that has shown something is the last one tried.
`OverspendIsBounded` is inductive over typing: an admission happens with `spent + Estimate
<= HardLimit`, hence at most the other workers have been admitted since, and writing a
usage row moves at most `MaxCost` from the calls in flight to what is spent; finite-set
cardinalities do the counting.  `StreamsCloseUnlessInterrupted` needs that a stream has no
reservation while it is checked and recorded, one from there on, and none that is open
once its answer is settled (`StreamHeld`).  `ClosedExactlyOnce` speaks of calls that have
ended; `Accounts` says what the ledger must hold at each await before that.
`HealthyStaysClosed` is inductive with the kinds of the calls in flight: a failure is
recorded for the route that was tried, and `CanFail` says which can.  `HardLimitHolds` is
`OverspendIsBounded` with one worker. *Media:* the events of the job's reservation say how
the job has ended (`LedgerOfJob`), which each commit keeps as long as it goes over nothing
its session has not seen, for then what the session decided on is the row.  A retry gets a
reservation nobody knows (`Reservations`): above all that were made, not closed, in no
session's copy, and two sessions that retry hold different ones.  That is not enough for
the sessions which cancel or retry, for what permits them is read when they begin
(`Labelled`).  `FinalUnlessRetried` then follows from the table: every commit but a
retry's makes one of its transitions (`CommitsTransition`), and none leads out of a
terminal status.  *Limiter:* counters are the number of executions and none is above its
limit, so a comparison of counters is a comparison of executions; the rest is one step per
action. *Session:* the three properties support each other (`SessionInv`): an answer that
signs in sets the user on display, the cached one and the cookie to the account it names,
and everything that signs out clears what the tab holds, whichever session it was sent
for, so that late logouts and refusals can only take a session, never give another user's.
Its types fall into the account's and the place's (`AccountTypeOK`, `PlaceTypeOK`): the
place changes only through functions over the tables, which answer pages of the
navigation, since a side bar that is not empty has a first entry.  *Chat:* a bubble with
dots has a call that will answer for it (`WaitsForSomething`), and `GiveUp`, the exception
handler, removes or fills the bubble on every way out; dots that stay are of an answer the
backend has without content (`BlankIsSaved`), since a stream without a delta has a
conversation it is saved in (`SentSomewhere`).  For `TranscriptSettles`, `Following` says
whose answers are still to come: the load's is the open conversation's, and so is the sent
message's unless another one was opened. *Panel:* the numbers of pending loads are at most
`latest`, and a pending load with the latest number is the one of `asked` and is unique
(`Numbered`): every other answer is a stutter of `LatestLoad`, the latest is its `Finish`.
*Console:* a page's step leaves the session alone, so `ConsoleSpec => SessionSpec` and the
session's theorems carry over; every step of the knowledge page is a step of the panel or
leaves it, and leaving the page is, in `LatestLoad`, asking for no base.  Likewise the
chat page's two promises hold through every mount and unmount (`ChatHolds`): a page that
is left is empty, one that is entered begins with whatever the backend has, and nothing is
kept while it is away (`Unmounted`).  *Digital employees:* `RightEmployee` is not
inductive: a call whose conversation is refused goes on with `origin`.  `GoodCall` adds
that a message which has to open a conversation found none open, for at the click the
effect had run and would have left one of another employee; refused, it asks for one of
nobody.  A call has no conversation before that, and each action changes one call, into a
good one (`OneCall`).  `TranscriptIsEmployees` needs `Settled`: a load under way and,
unless the conversation was left, every live message are the open conversation's, so that
no answer of an overlapping call displays another one; that the open conversation is the
selected employee's is what `~Following` says. `SendingIsSomeones` is inductive over the
types: the flag is set by the step that makes a message live, and whoever ends a message
clears it, also when another one is still on its way.  `FollowsAtOnce` is a fact about the
selection, case by case of who is visible. *Knowledge documents:* none of the three is
inductive, as a commit decides on what was read several awaits earlier.  `Sound` says what
a session may rely on while it has missed no commit: the status it read is the row's
(`Knows`), what it listed is what there is (`Lists`), and what it has deleted is all there
was (`Deletes`).  A step that commits nothing has to keep that for its own session
(`LocalStep`); a commit makes all others miss what it changed (`CommitOthers`), so only
its own effect is left to check (`CommitStep`).

Only model-checked: liveness (`OpenIsTemporary`, `CallsEnd`, `Answered`,
`EnqueuedIsTaken`, `SessionAnswers`, `NavigationSettles`, `SendEnds`,
`DocumentsLoadingEnds`, `BoardCatchesUp`, `ActionsEnd`), which the prover does not do
under fairness.  The gateway's circuits are proved to be those of the breaker state by
state (`GatewayCircuitsRecover`, and `Sound` of each); that every step of the gateway is a
sequence of the breaker's steps is not stated, as its history of probes has no
counterpart there.

## 5. Not modelled

Policy evaluation and pricing (pure functions, planned), channel tokens, login and rate
limits, licences and modules (planned, below); retrieval and parsing (text processing),
vendor formats, CRUD administration, health checks, migrations and API routing (no
protocol of their own).

Of the console: the other pages (lists and forms over one request at a time, with a
flag that cancels stale answers as in the modelled hooks), the store of sample data of
the prototype mode (synchronous; the mode itself is a state of the session), the
language, the loading of page bundles, legacy tokens of older releases, the events panel
of the selected media job, the plan of a media job and the retrieval test, several tabs
of one browser, and the development principal of a backend that runs without
authentication.  While a page is not displayed nothing is kept of it; its calls in
flight still reach the backend, whose state a page finds arbitrary when it is mounted.

Faults the models reach and no property forbids, most of them because nothing in the
repository says otherwise, are these; many of those of the backend are in the hazard
list: a cancelled chat and a chat that meets a database fault leak their reservation, and so
does a stream whose client goes away while its reservation is being written; a
database fault after the answer is blamed on the deployment; a settled call may still
fail; two calls that settle together may both raise the soft alert, or one more may raise
it after a usage row was not written, although `docs/cost-governance.md:40` and `:113`
say that only the first crossing does; a test with temporary credentials counts
against the live circuit; a success while a circuit is open closes it without a probe,
which a comment (`circuit_breaker.py:191`) says "shouldn't happen"; a running media job
can be submitted twice, and one whose task was refused stays queued and cannot be queued
again.  Of knowledge documents: an ingestion that loaded its row before
a deletion and commits after it leaves chunks, which the retrieval finds as it reads no
document rows (`rag/pgvector.py:193`), although `docs/deployment.md:390` says that
deleted documents do not appear in retrievals again; two overlapping ingestions may
leave INDEXED without chunks; a process lost in the middle, or a statement the database
refuses there, leaves INGESTING, which neither a completion nor a re-ingestion accepts.
In the console: an answer without content is displayed as dots for good; a logout answered
after the next login signs that login out, and so does a refusal of an earlier session's
request; a conversation opened while a message is being sent is overwritten by the
transcript of the one the message went to; a slow older load that shows every job as
finished stops the polling of the board; a stream that never ends keeps the page sending
until the user stops it; a navigation to `builder` ends on the landing page, although
`tests/e2e/smoke.spec.ts:60` expects an administrator to open it.  On the page of the
digital employees two messages that are sent at the same time share the flag `sending`,
which the first to end clears; a message whose conversation could not be opened goes to
a conversation of nobody; a draft begun for one employee may be sent to another.

## 6. Plan

1. Proofs: the circuits of the gateway move only as the breaker's operators move them;
   the steps from which liveness follows (what a step may not undo), as action properties.
2. `ChannelToken` and `LoginLimiter`: check, await, write.
3. `Governance`: licences, modules and their dependencies.
4. The policy algorithm as an operator against a declarative definition.

The modules to be proved about use no RECURSIVE operators.
