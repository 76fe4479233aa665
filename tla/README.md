# Dolshoe, specified in TLA+

Dolshoe is a self-hosted error reporting and tracing service: a NestJS API over
PostgreSQL, a web application, and reporters for Python, Node, Deno, Bun and
LogTape. This directory holds specifications of the parts of it whose
correctness depends on the *order* of things (statements of overlapping
requests, threads, microtasks, expiring leases, retries, answers that come late)
or on two parts that must count alike (a reporter and the schema that takes what
it sends). TLC checks them on small instances; TLAPS proves the safety properties
of every run, for every instance. Paths are relative to the root of the repository.

- [1. The system](#1-the-system)
- [2. The modules](#2-the-modules)
- [3. The runs](#3-the-runs)
- [4. What does not hold](#4-what-does-not-hold)
- [5. The proofs](#5-the-proofs)
- [6. What is not modelled](#6-what-is-not-modelled)
- [7. Plan](#7-plan)

## 1. The system

### 1.1 Components

| Component | State | Operations | Modelled by |
|---|---|---|---|
| Message queue (`apps/api/src/message-queue`) | table `QueueMessage`: availability, attempt, lease, deduplication key | enqueue, claim, acknowledge, retry | `MessageQueue`, `PostgresMessageQueue` |
| Python delivery worker (`packages/python/src/dolshoe/worker.py`, `client.py`) | bounded queue, delivery thread, two batches, failure counters | capture, flush, close, fork, the thread's loop | `DeliveryWorker` |
| Memberships and roles (`apps/api/src/organizations`) | table `Membership` | create organization, change a role, remove, leave | `Memberships` |
| Invitations (`organizations/invitation.service.ts`) | table `Invitation` | create, revoke, accept, redeem at sign-in | `Invitations` |
| Organizations and what belongs to them (`organizations/*.guard.ts`, `projects`, and the routes under `orgs/:orgSlug`) | tables `Organization`, `Membership`, `Invitation`, `Project`, and what is stored for a project | resolve the slug and the role; list, show, create, change, delete | `Tenancy` |
| Error reports and alert evaluation (`error-reporting`, `alerts`) | tables `ErrorReport`, `AlertRule` | receive, evaluate, administer rules | `AlertEvaluation` |
| Notification adapters (`alerts/*-adapter.ts`) | one request per channel of a firing | post, wait, post again, warn | `Notifications` |
| Alert rule administration (web form, contract, service) | the draft, the request, the row, the line drawn of it | type, submit, store, rename, delete | `AlertRules` |
| Stored exceptions (fingerprint, list, detail) | one JSON column | store, list, get | `StoredReports` |
| Dashboard (`apps/api/src/dashboard`, the overview) | the results of a dozen statements | summarize, draw the trend | `Dashboard` |
| Sign-in and accounts, sessions (`apps/api/src/auth`) | accounts, sessions, state cookie, claim lock | begin, call back, claim, adopt, redeem, mock | `SignIn` |
| Projects, tokens, ingestion guard (`projects`, `ingestion`) | tables `Project`, `ProjectToken` | issue, revoke, verify, resolve a request's project | `Ingestion` |
| Log records and tracing (`log-recording`, `tracing`) | tables `LogRecord`, `Span` | store, receipts, retention, list, waterfall | `Ingestion`, `Traces`, `SpanOrder` |
| JavaScript reporter core (`packages/core/src/client.ts`) | two queues, pending promises, a failure flag | capture, flush, close | `Reporter` |
| Runtime reporters and Python hooks (`packages/{node,deno,bun}`, `hooks.py`, `__init__.py`) | installed hooks, the current client, the limit of frames | init, close, crash | `Hooks` |
| Spans and scopes (`scope.py`, `span.py`, `scope.ts`, `span-scope.ts`) | what is active in each thread, task or chain of awaits | with_span, with_scope, set a tag | `Contexts` |
| Conversions of both reporters and the contracts of the server | none | normalize, validate | `WireContract` |
| Web resources, filters and screens (`apps/web/src/lib`, `routes`) | what is on a screen, the requests behind it | load, poll, filter, write, leave | `Screens` |
| Web controls (`apps/web/src/screens`) | drafts, busy flags, dialogs, one-time secrets | submit, confirm, fail, dismiss | `Controls` |
| LogTape sink, Python logging bridge, test double, schema, API process, UI components, application shell, examples | none of their own, or what was fetched | | not modelled, [section 6](#6-what-is-not-modelled) |

### 1.2 How they interact

- Reporters send error reports, logs and OTLP spans over HTTP. A sender may
  never learn that a request succeeded and repeat it, so an identifier arrives
  more than once (`AlertEvaluation`: `Receive` is enabled for any event at any
  time; `Ingestion`: `AdmitAgain`).
- The API keeps all its state in PostgreSQL at READ COMMITTED. A handler is a
  chain of awaited statements; except where the code opens a transaction, other
  requests run between any two of them. Each module has one step per statement.
- `ErrorReportService.receive` awaits `AlertEvaluationService` before it
  answers; a notification is started and not awaited. `Notifications` begins
  where `AlertEvaluation` ends: with a firing.
- `InvitationService.redeem` writes the membership table, and so do the
  requests about members. `Invitations` therefore extends `Memberships` and
  leaves its requests running beside the links; that what links do to the
  memberships is what `Memberships` allows is a theorem.
- The guards read a role, a session or a token once, and the handler behind them
  acts on what they read. Behind the guard of an organization a handler runs one
  statement that names it, or looks for a row within it and then goes by the
  row's identifier alone (`Tenancy`).
- In a Python application any thread captures events and one daemon thread sends
  them; they share a `queue.Queue`, two lists and two counters. In JavaScript
  one thread does both, and the interleaving is that of its promises.
- In the browser an effect runs some time after the render that made it due, and
  answers come in any order; a control's request and the list it changes are
  two requests.
- The message queue has an implementation and tests, but nothing in the
  repository calls it yet: it is checked as the library it is.

### 1.3 What is hard, and what should be true

| Where | Hard behaviour | Correctness |
|---|---|---|
| Queue | a statement acts later than the time it read; expired leases; crashed consumers; racing producers | exclusive leases; only the latest delivery settles; one row per key; nothing is stranded |
| Worker | concurrent flushes, a full queue, failing sends, fork, close beside capture | flush tells the truth; nothing is sent twice; every queued event is settled; every call comes back, but a close that another overtook |
| Memberships, invitations | check and write are separate statements; links checked in one tab, redeemed or withdrawn in another | the last owner is lost only by a race; nobody becomes an owner but by a request of an owner or a link that offers it; accepted implies joined; one live link per seat |
| Organizations | a row is looked for in one statement and used in another; rows of all organizations in one table | a request is answered as if its organization were the only one, and leaves the others as they were |
| Alerts | replays, overlapping evaluations, rules changed meanwhile, a cooldown read earlier | one firing per event and rule; one per new fingerprint; what is missed is missed only by overlap |
| Channels | a request that times out may have been taken; a restart | a channel takes a firing once at most |
| Summary, stored reports | statements on different snapshots; a column of another version | a total counts its window; list, detail and group agree |
| Rules | a form, a contract, a row, a line on a screen and a filter, written in five places | drawn as filled in, applied as drawn |
| Sign-in | overlapping tabs, two first owners, a crash between account and invitation | one claim; no account for a stranger; nobody stranded |
| Ingestion | revocation beside a request; repeats; retention | after a revocation only requests that were let in before it write; a receipt names the row |
| Traces | two statements; cycles and missing parents | the waterfall is the tree |
| JS reporter | flushes that share a failure, spans that end after close, callbacks that throw | flush tells the truth; nothing is under way after close; every record ends, or the process does |
| Blocks | left in any order, by another chain; copied contexts | what is active is innermost; parents and tags stay in their line |
| Hooks | init that fails, re-init, close that waits, other libraries | no hook of another library is lost; a crash is sent once |
| Conversions | limits counted in different units | what is refused is refused for a known reason |
| Screens | late answers, polls that overtake their answers, hidden tabs, writes beside loads, typing during navigation | at rest the screen shows its URL and its own writes; a first report appears |
| Controls | several requests of one page, dialogs, secrets shown once | only what was confirmed is revoked; a secret stays; a failure is told |

The hazards in `PROJECT.json` say at which line each of these bites and which
property would catch it going wrong.

## 2. The modules

```
MessageQueue <--refined by-- PostgresMessageQueue <---- MCPostgresMessageQueue
                                     ^----------------- PostgresMessageQueueProofs
DeliveryWorker <--------------- MCDeliveryWorker, DeliveryWorkerProofs
Memberships <--extends, refined by-- Invitations
     this alone <-------------------------------------- MCInvitations
     this and Tenancy: Tenants <----------------------- MCTenants, InvitationProofs
AlertEvaluation, Notifications, AlertRules, Dashboard,
     StoredReports: Reports <-------------------------- MCReports
     ^------------------------------------------------- AlertEvaluationProofs
SignIn, Controls <--- WebApplication <----------------- MCSignIn, WebApplicationProofs
WireContract <----------------------------------------- MCWireContract
Ingestion, SpanOrder <--- Traces
     this and WireContract: Telemetry <---------------- MCTelemetry, IngestionProofs
Reporter, Contexts, Hooks <--- Runtimes <-------------- MCRuntimes, RuntimesProofs
Screens <---------------------------------------------- MCScreens, ScreensProofs
```

`MCx` adds symmetry sets, functions for constants and, for the queue, the
specification used for liveness. `xProofs` adds theorems. `Tenants`,
`Reports`, `Runtimes`, `WebApplication`, `Telemetry` and `Traces` compose parts
that meet only in the database, or in a call nobody waits for: since they share
no state, a behaviour runs one of them, chosen at its start by `part` (`signal`
in `Ingestion` and `Traces`).
Trees and loops are written as what they are made of, so that they can be
reasoned about: a loop as steps, a walk as a function from its positions, a
tree as a function from paths. The one RECURSIVE operator is in `MCReports`,
where it enumerates exceptions.

An operator whose comment describes what the code does *not* do
(`NoLockedRows`, `Upsert`, `FoldKeepsOne`, `EntriesWithoutService`, ...) is a
plausible mistake: `PROJECT.json` lists, for every property, one with which TLC
finds that property violated. Several invariants that a reader would state
apart are conjuncts of one (`SignInInv`, `ControlsInv`, ...); the parts keep
their names.

### 2.1 `MessageQueue` and `PostgresMessageQueue`

`MessageQueue` is the contract (`message-queue.contract.ts`) without clock or
database: the messages that wait, those whose latest delivery holds a lease in
force, and what became of every delivery. `PostgresMessageQueue` is the table.

| Variable | Code |
|---|---|
| `now` | the database clock, in ticks of 1/`TicksPerMs` millisecond |
| `stored`, `key`, `availableAt`, `attempt`, `lease` | the rows and columns of `QueueMessage`; tokens are numbered by delivery |
| `statement`, `request` | the statement a consumer, or a producer, has in flight, with the CURRENT_TIMESTAMP of its transaction |
| `held` | the leases a consumer was handed and remembers, current or stale |
| `dueAt`, `deliveries` | history: when a message was asked for; every delivery with its expiry and outcome |

| Action | Code (`postgres-message-queue.ts`) |
|---|---|
| `BeginEnqueue`, `LookupKey`, `InsertMessage`, `InsertConflict` | `enqueue`: with a key, the existing row is looked for, then inserted under the unique index, where a conflict starts over |
| `BeginClaim`, `LockCandidates`, `CommitClaim` | `claim`: the transaction begins (and fixes its time), the subselect locks claimable rows that are not locked, the update grants the leases |
| `BeginSettle`, `Acknowledge`, `Retry`, `SettleNothing` | `acknowledge`, `retry`: a statement guarded by id, token and expiry, and the error when it touched no row |
| `LoseStatement`, `CrashConsumer`, `LoseEnqueue` | a connection or a process goes, before or after the commit |

Two facts about PostgreSQL are kept because they decide whether the code is
right: CURRENT_TIMESTAMP is the time a transaction *began*, so a slow claim
compares leases with, and computes them from, a time that is past; and a
`TIMESTAMPTZ(3)` column *rounds* to the millisecond (`RoundMs`). The clock begins
anywhere within a millisecond. Abstracted: payload, queue name (one queue),
consumer name and `lastError`; the range checks on arguments are the assumption
`QueueAssumption`.

### 2.2 `DeliveryWorker`

Each application thread is in one place of `submit_*`, `flush` or `close`; each
delivery thread is in `_run`'s outer `get`, in its drain, or past its loop, with
an agenda of what it has still to do (send the two batches, answer a marker).
Which of the threads may close or fork, what is captured, which flushes there
are and how long the queue may be is one record, `application`, chosen
initially from the constant `Applications`.

| Action | Code |
|---|---|
| `Capture`, `CaptureRefused` | the check of `_closed` in `client.py` |
| `PutIgnored`, `PutAccepted`, `ThreadRuns`, `CreateThread`, `StartThread`, `Enqueue`, `Drop` (in `Submit`) | `_put` and `_ensure_started` |
| `GetNext`, `DrainEmpty`, `TakeBatch`, `SendReturns`, `SendRaises`, `Answer` (in `Deliver`) | `_run`, `_handle`, `_flush_batches`, `_send_safely` |
| `Flush`, `PutMarker`, `MarkerFull`, `WaitEnds`, `WaitTimesOut`, `Acknowledge` (in `FinishFlush`) | `flush` |
| `Close`, `StopAccepting`, `PutSentinel`, `Join`, `ForgetThread` (in `FinishClose`) | `DolshoeClient.close` and `DeliveryWorker.close` |
| `Fork` | `os.fork` and `_after_fork_in_child` |

Steps are as fine as CPython makes them: threads switch between calls, while
`self._failures += 1` and a swap of a batch for an empty list are one step
(the package requires CPython 3.11 or later, whose interpreter switches at
calls and backward jumps). `fork` is followed into the child: only the forking
thread lives on and what the parent had in hand is marked `"parent"`; that the
parent sends its own events is the model without the fork. `_dropped` is
written and never read, so it is not a variable. `_at_exit` is a flush by one
of the threads. `Overtaken` names the one call that may never come back: a
`close` that found the delivery thread alive (`worker.py:240`) and waits to put its
`None` (`:241`) after the thread ended for the `None` of another `close`. The outcome of a request is a choice; whether a kind of batch
has anywhere to go is the constant `Senders`.

### 2.3 `Memberships`, `Invitations`, `Tenancy` and `Tenants`

A request on the members of one organization is the chain `Admit` (the guard
reads the caller's role), `ReadTarget` (the service reads the target and
refuses what the caller may not do), `CountOwners` (`refuseIfLastOwner`, only
when an owner is about to go) and `Write`; `Abandon` ends it anywhere. `Join` is
the upsert of `redeem` for an account that is invited, with the role its link
offers. `raced` is history: it
becomes true when a withdrawal of ownership passes its check while another is
past its own, or when a write takes ownership from somebody who was no owner
when the request read them.

`Invitations` adds the links and their calls. `create` runs in a transaction,
but at READ COMMITTED: `WithdrawOutstanding` sees the links that are committed
when the first statement runs, `IssueLink` is the insert with the commit.
`ReadForRevoke` and `Revoke` are the two statements of `revoke`. `CheckLink` is
`findLive`, and `Redeem` the transaction of `redeem`, with a membership that is
granted in any case and a mark that is conditional. A link offers any role,
whoever issues it, and `by` (history) says which role that was: `create` looks at
the login and never at the role. Of the three timestamps
only whether they are set, or past, is kept. The token is one opaque value: its
hash and the constant-time comparison are left out. A login and the account
that has it are the same here. The constant `Quotas` bounds how many requests,
calls and links an instance has at once, who takes part and which roles are
given.

**`Tenancy`** is every route under `orgs/:orgSlug` (`Routes`): the organization
itself, its members and one's own membership, its invitations, its projects with
their tokens and rules, and what is read of a project. `LetIn` is the guard, which
resolves the slug and the role in one query; `Step` runs the next statement of
the handler, `FirstStatement` (which answers, or finds the row),
`SecondStatement` (which goes by the identifier, or counts the owners) or, for a
membership, the write after that; `CutOff` ends a request anywhere. Beside them organizations are created (`CreateOrganization`),
memberships change in any way (`MembershipChanges`: what the requests of the two
other modules do), tokens store items (`Ingest`) and retention removes them
(`Sweep`). A statement is an operator on the database, so that `OthersDoNotShow`
can ask what it would answer if the other organizations were not there. Of an
item (a token, a rule, a report, a record, a span, a link) what it belongs to and
whether it is live, revoked or gone are kept. What overlapping requests make of
members and links is left to `Memberships` and `Invitations`; here it matters whose
members and links a route reaches, and the transaction of `create` is one step.
`Tenants` puts the two side by side.

### 2.4 `AlertEvaluation`, `Notifications`, `AlertRules`, `Dashboard`, `StoredReports`

**`AlertEvaluation`.** A call of `receive` goes through `Create` (the insert with
its unique index on project and event), `ReadRules`, `ReadClock` (after the
project's name was read, once for all rules) and then per rule `PassOver`
(filters, cooldown) or `Judge` (the statement behind the condition) and `Fire`
(the update of `lastFiredAt`, with the notifications it starts); `FireDeleted`
is that update when the rule is gone, `Receipt` the answer and `LoseCall` the
loss of the call anywhere. Rules are created, switched and deleted beside. The
filters of a rule are the set of events it lets through, and the fingerprint is
a function of the event. The order in which the query returns the rules is left
open. Time is in minutes, the unit of window and cooldown. `verdict` and
`fired` are history: what each rule made of each event, and the firings as they
were written.

**`Notifications`.** `Notify` hands a firing to one adapter per channel, with a
request under way for each; `Answer` is what comes of it (taken, refused, asked
to wait, or nothing within the time of a request, taken or not), `Repost`
Discord's one further attempt after a 429, `Warn` the end of a failure and
`Restart` the loss of the process with all that is under way. The waiting time
a 429 names is any of `Delays`; the code's clamp is modelled.

**`AlertRules`.** The fields of the form (`Patch`), its request (`Submit`), the
contract and the row (`Serve`), the answer (`Told`), the list and the form that
is mounted with it (`Load`, `Retry`, `Compose`), and what other clients of the
API may send (`CreateRuleByApi`, `UpdateRule`, `RemoveRule`). Of a text it
matters whether it is empty, blank, padded, a word, a URL or too long; of a
number what `parseInt` reads and whether more follows.

**`Dashboard`.** `Summarize` begins the statements of a request, which share the
time they were computed for and nothing else: `Read` takes one of them, on a
snapshot of its own, in any order, with `Write`, `Retain` and `NextDay` between;
`ReadFails` fails the request with it. `throughout` and `sometime` are history:
the rows that were there during the whole request, and at some time of it. The
unit of time is a day, the width of a bucket. `DescribeTrend` and
`TrendDirection` are the two places of the overview that compare the totals.

**`StoredReports`.** The column holds an exception of any version (`Exceptions`):
any field may be missing, of the wrong type, or longer than today's contract has
it. An exception is a function from the paths of its nodes (a path is the
numbers of the causes and children that lead to the node) to what they hold; a
cause and a context are read alike and are one. The frames that are shown keep
the numbers they had, for only their order is told apart. `Store` lets the
contract decide and computes the fingerprint, `Inherit` is a row of another
version, `List` and `Get` are the summary and the detail.

### 2.5 `SignIn`, `Controls` and `WebApplication`

**`SignIn`.** A flow is the two requests of a sign-in, or an acceptance by
somebody who is signed in: `Start` (the redirect, with the state cookie),
`Callback`, then one step per statement: `Identify`, `CheckLink`, `LookUp`,
`FindAdoptable` and `Adopt`, `TakeLock`, `CountAccounts` and `Claim` under the
advisory lock, `CreateInvited` under its two unique indexes, `Redeem`,
`StartSession`; `Stop` ends it anywhere. GitHub is one external answer, and
which identity has verified an address may change (`MoveAddress`). `Issue` and
`LinkDies` stand for the administration of links, module `Invitations`. An
account is named by its address, a GitHub account by its id, which stands for
its login; PostgreSQL reports the index on addresses first; a mock persona is
an identity of its own; an address does not move while a sign-in that was told
of it is under way. `origin` is history: what let each account in.

**`Controls`.** A screen is a set of controls, each with the flag that disables
it, the place its failure is told in, and whether it has a form, a row, a
dialog or a secret that is shown once. `Submit`, `Press`, `Choose` and `Confirm`
begin a request; `Granted` and `Denied` are the server; `Succeed`, `Fail` and
`Expire` (a 401) are the handlers; `Draw` and `Again` the reading of the list.
How a list is loaded is left to `Screens`: here it is read in one step.

### 2.6 `Ingestion`, `Traces` and `SpanOrder`

A request to the ingestion is two steps: `Admit` (it arrives, and the guard's
one look at its credential) and `StoreLogs` or `StoreSpans` (one statement, which
inserts what is not there yet); `StoreFails` loses it before or after its
commit and `AdmitAgain` is the client that repeats it. `IssueToken`,
`RevokeReads` and `RevokeWrites`, and retention (`DeleteExpired`) run beside. An
id may come in small or capital letters: the column keeps one row for both, the
receipts are looked up by the spelling that was sent. Requests that are refused
leave nothing behind.

`Traces` reads: `ListRoots` and `ListCounts` are the two statements of the list,
between which spans arrive and expire, here of the project that requests without a
token write to. `Detail` reads one trace of any shape, with clocks that disagree,
in any order the database may return it, and cuts it; `Draw` is a round of the
loop that orders it, or its end. `SpanOrder` is that loop (`order-spans.ts`):
`Round` takes a span from the stack, draws it unless it was drawn, and puts its
children there; `Finish` adds the spans no root leads to. `IsWaterfall` says what
the result should be without a stack: the tree can be read off the depths,
siblings are in order, and what hangs in the air comes last.

### 2.7 `Reporter`, `Contexts`, `Hooks` and `Runtimes`

**`Reporter`.** A record is captured, goes through the hook of the application,
which is awaited, and is sent by itself (a report) or waits in its queue for
the next microtask, a full batch or a flush. `pending` is the set of promises
the client keeps; a call of `flush` or `close` is in its loop (`LoopEnds`,
`LoopWaits`), in its wait (`WaitEnds`, `TimesOut`), or returns
(`FlushReturns`). A hook may return nothing or throw, a send may fail, and the
callback for failures may throw: then the record is off the list all the same,
but the promise of `#track` rejects (`client.ts:533`). Where no flush has waited for
that promise (`Unheard`) nothing handles the rejection, and the process may end
with whatever else was under way (`up`). It may also go on, when the application
listens for rejections. The crash hooks of these reporters see the rejection too and
capture one more report, which to the model is a capture like any other. `told` is history: the failures a flush has
answered false for.

**`Contexts`.** A chain is a thread, a task or a chain of awaits; it is inside the
blocks it entered and has not left. `store` says which of three keeps what is
active: a ContextVar, an AsyncLocalStorage, or one variable in a client built by
hand. `Spawn` begins a chain with a copy of its parent's context, or, a
thread, with none; `WithSpan` and `WithScope` enter; `Leave` leaves a block, in
Python any of the chain's and by anyone it was handed to; `Await` is the first
await of callbacks under the one variable, which is put back and free for
another chain; `Touch` sets a tag, or captures, which reads the scope. `astray` is
history: chains in or of which a block was left out of order.

**`Hooks`.** `hooks` is what a crash calls, in order. `InitCall` and `InitFails`
install, `CloseCall` and `CloseReturns` take back, `LibraryInstalls` and
`LibraryRemoves` are others, `SetsFrames` is an application that sets
`Error.stackTraceLimit`, and `Crash` ends the process or is survived.

### 2.8 `WireContract`

Both reporters, one of which is chosen by `sdk`, and what the server's schemas
take: reports with tags, a user, breadcrumbs, attributes, exceptions in any graph of
references, values that are thrown and are no exceptions, log batches, and spans. Sizes are scaled: a text is short, at the limit, long,
or *wide* (within the limit in one way of counting and beyond it in the
other). A breadcrumb or a record has a bag of one value, of which its key, how
many containers are around its leaf, its weight and whether it can be encoded
are told apart. The tree made of an exception is the set of walks that make it
(`Walks`), of which the schema asks how deep they go and whether a node stands for
an ancestor: that one keeps the name as it is (`normalize.ts:195`). All exceptions
of a graph have one name and one kind of frame; a frame of native code counts as
one that was placed. Half of a surrogate pair is looked for in the message and in
attributes: in another text of a Python report it costs the same. The mechanism,
the trace, the runtime, identifiers and codes are taken to be valid. `outcome` is
history: the last request, what went into it and what became of it. `uses` says
what the application uses its reporter for, so that the parts are not multiplied
with each other. "Taken" means taken by the schemas. `Telemetry` puts this beside
`Traces`: the schemas are looked at before anything is stored.

### 2.9 `Screens`

A screen is a record: what its resource lists, whether it polls, and which
writes it has. `Effect` is the effect of a render that made a load due, and
aborts the one before; `Serve`, `Arrive`, `ArriveLate` and `ArriveExpired` are
the server and the answer, fresh, after its abort, or 401. `Type`, `Commit`,
`GoTo` and `Land` are the filter, its timer and the navigation; `Start`, `Apply`,
`Refuse`, `Done` and `NotDone` a write from its press to its answer; `Happens`
is what other people do, `TurnTab` a tab that is hidden or seen again, which the
poll asks for (`reports.index.tsx:113`), `EndSession` the end of the session and
`Leave` a reader who goes. Fourteen screens are instances (`AllScreens`).

## 3. The runs

| Run | Instance | Checks |
|---|---|---|
| `queue_leases` | 1 message, 2 consumers, 1 producer, 2 ticks per ms, 2 deliveries, `LiveSpec` | `TableInv` (the inductive invariant, with `OneRowPerKey` and `EnqueuedIsDue`), `LeaseExclusive`, `AcknowledgedOnce`, `StaleLeaseIsInert`; `ImplementsContract`: the table implements `MessageQueue`; `NoMessageStranded`: a message is delivered again until it is acknowledged |
| `queue_keys` | 2 messages, 2 consumers, 2 producers, 1 key, batches of 1 and 2 | `OneRowPerKey` |
| `delivery` | 2 threads, 2 delivery threads, an error, 2 log records, a span nobody sends, 2 flushes; one application flushes twice over a queue of 1, one forks, one closes, one closes from both threads | `TypeOK`, `FlushTruth`, `SentOnce`, `QueuedIsDelivered`, `CallsReturn` |
| `organizations` | 3 accounts; 2 requests and a call about 1 link, a request and 2 calls about 1 link, 2 calls about 2 links, or a call at a time about 2 links with any role; every route over 2 organizations, 2 projects, 1 item of any kind (2 links) and 1 viewer (2 for members), alone, and two at a time those that create, rename or end a row | `MemberInv` (with `OwnerlessOnlyByRace`, `GrantsComeFromOwners`), `LinkInv` (with `OneLiveLinkPerSeat`, `IssuedByManagers`), `LinksKeepTheirWord`, `OwnershipIsGranted`; `TenancyInv` (`OthersDoNotShow`, `GuardTellsOfOwn`, `FoundStaysWithin`, `PathStillNamesIt`, `SlugsNameOne`) |
| `reports` | 2 events of one fingerprint, 2 calls, a rule for new fingerprints and one for a threshold of 2; 1 firing, 2 channels of any type; 3 rows, 2 days; exceptions one level deep; a form with 3 fields filled in | `NotifiedOnce`, `FirstSeenOnce`, `MissedOnlyByOverlap`; `NotificationsInv` (`NeverToldTwice`, `AskedAgainSoon`); `DashboardInv` (`CountsItsWindow`, `AddsUpAtRest`, `TrendSpeaksOnce`); `StoredInv` (`DetailKeepsItsContract`, `TakenComesBack`, `ListAgreesWithDetail`, `GroupedByPlace`); `AlertRulesInv` (`FilledFormIsTaken`, `RuleSaysWhatWasDrafted`, `FiltersDrawnAreApplied`) |
| `signin` | 4 identities (one a mock, one not allowed in), 1 address with an account of an older version, 3 flows, 1 browser, 1 link; 2 rows and 2 calls on each panel | `SignInInv` (`StrandedCanReturn`, `SignedInAsOneself`, `LockIsHeldByTheLiving`), `AccountsAreFounded` (`ClaimedOnce`, `StrangersStayOut`), `LinksAreOnesOwn` (`LinkedForGood`, `SpendsItsOwnLink`); `ControlsInv` (`OnlyConfirmedRevoked`, `FailureIsTold`, `NothingStaysOff`, `OneAtATime`), `SecretStays` |
| `runtimes` | 1 report, 2 log records, batches of 2, a flush and a close; 2 chains in up to 2 blocks, 2 spans, 3 bags; 3 inits, 2 libraries, 3 hooks | `ReporterInv` (`QueuedHasADrain`, `ClosedIsQuiet`), `CapturedIsAccountedFor` (`FlushTruth`, `EveryRecordEnds`); `ContextsInv` (`ActiveIsInnermost`, `ParentIsOfItsLine`, `TagsStayInLine`, `TagsStayInside`); `HooksInv` (`WatchedIsCurrent`, `WatchedCrashIsFlushed`, `StacksAmongOthersOnly`, `FramesPutBack`) |
| `telemetry` | 2 projects, 1 token, 2 senders, 2 people at the token list, 2 ids, 3 requests, a time of 1; every trace of 4 or 5 spans that ran at two sets of times, of which 4 are drawn; both reporters, 3 exceptions in every graph of references, every limit small | `RevokedOnlyDrains`, `InTheRightProject`, `ReceiptNamesTheRow`; `TracesInv` (`WaterfallIsTheTree`, `WindowCoversTheSpans`, `EachOnce`, `RootCountsItself`); `WireInv` (`ReportRefusedForAReason`, `LogsRefusedForAReason`, `SpanLostForAReason`, `TrailIsNewest`, `OwnTagWins`, `FailureComesFirst`, `WrittenIsRead`) |
| `screens` | every screen, 2 keys, 1 item, 2 writes, 1 change by others | `ScreensInv` (`RestShowsTheUrl`, `RestShowsOwnWrites`, `SpinnerHasARequest`), `FirstReportAppears` |
| `members_ownerless`, `members_ownership`, `wire_nesting` | 2 accounts and 2 requests after 1 link; 3 accounts and 2 links in turn; 3 exceptions | what does *not* hold, [section 4](#4-what-does-not-hold) |

The passing runs have between 220,000 and 1.6 million distinct states and take
less than four minutes each. Deadlock is not checked: every instance may come to rest,
when its clock, its events or its callers are used up, and so may the system.

### Bounds, and why they are enough

Every bound is a constant or a commented guard. What the theorems of section 5
state holds without any of them; for the rest:

- *Queue.* The properties relate two deliveries of one message, so two consumers
  and two deliveries make every pair. A lease of one millisecond begins, is
  overtaken and expires within five ticks, and two ticks to the millisecond are
  the coarsest clock on which rounding up differs from truncation. `MaxNow` is
  never reached in `queue_leases`: the clock ticks while a row waits for it, and
  the deliveries are bounded.
- *Worker.* A queue of one is full after one event, so overflow, a full marker
  and a sentinel without room happen at once; two flushes are what it takes to
  acknowledge in the wrong order; two delivery threads are what a racing
  capture can start. Two items of one kind fill a batch. Two threads that close,
  and flush as they do, over a queue of one are what it takes for a `close` to wait
  for room that nobody makes.
- *Organizations.* A race is between two requests, a seat with two links needs
  two calls. Which roles a link offers and a request asks for is part of a quota
  (`SmallQuotas`): `MEMBER` and `OWNER`, or `ADMIN` and `OWNER`, beside requests, for
  what a request may do depends on them; all three for two links in turn, so that
  who was made an admin by a link issues another; one where two calls overlap, for
  what a second call does to a link does not depend on its role. Two organizations
  are one and the others. Every route runs alone (`Alone`) beside what members,
  tokens and retention do. Two at a time (`AtOnce`) run those that create, rename or
  end a row another may be at: projects, tokens, rules, links, and the ends of a
  membership. A change of role is left out there, since memberships change in any
  way beside a request anyhow, and so is the new name of an organization, which is
  not part of the model.
- *Alerts.* Each property relates two reports and one rule. Two rules are there
  because a call judges several in turn and may fail between them. Window and
  cooldown are one minute of three. The channels' waits are below zero, at once,
  within the time of a request, and beyond it.
- *Dashboard.* Three rows fall into two days of a window, before and after it;
  100 per cent is scaled to 1, so that a change may round to nothing. One row is
  written in the course of a request.
- *Stored reports.* One level of nesting is a cause with a cause that is cut;
  fields and places are varied for a lone exception, nestings for plain nodes;
  `GroupedByPlace` relates two reports by construction. The character that joins
  the fields of a fingerprint, and collisions of the hash, are abstracted.
- *Sign-in.* Two flows race for the claim or for an account, a third stops or
  spends the link meanwhile. *Controls*: two requests of one control, or of two.
- *Reporter, contexts, hooks.* Two records fill a batch and a third is by itself;
  two blocks are what can be left out of order; three inits are one that fails
  between two that do not.
- *Ingestion.* One token is enough to be revoked between a request and its store;
  three requests are one, its repeat, and another.
- *Wire.* A text is short, full, longer than its limit, or wide: as many code
  points as the limit and more UTF-16 units. One report per scope. With a limit of
  one nesting, two references in a row are too deep; at the real limit of 16 it takes
  a chain of 18 exceptions.
- *Traces.* Four spans are the smallest tree in which siblings have children and
  a cycle stands beside a root; a fifth is cut; the list is shorter than what it
  lists. The two timings have spans that start together, children that start
  before their parents, and an early span that outlasts later ones.
- *Screens.* One other key is what an answer may be late for; two writes overlap.

Symmetry is used over interchangeable sets only, and never where liveness is
checked.

### Fairness

- *Queue* (`LiveSpec`): a statement ends, by its commit or with its connection
  (`StatementEnds`, weak); one consumer polls again and again (`Polls`, strong,
  because SKIP LOCKED and crashes disable a claim again and again); of the claims
  that lock a message not all are lost (`NotAllLost`, strong). The other consumers
  may stop, and nobody need acknowledge or retry. The contract offers polling and
  no notification: without a consumer that polls nothing is delivered.
- *Worker* (`FairSpec`): weak fairness per thread: a delivery thread runs, a
  request ends (the transport has a timeout), a call that began goes on. No
  application has to call anything; `QueuedIsDelivered` holds without any flush.
- *Reporter* (`ReporterFairness`): as long as the process is up, microtasks run, and
  the promises of hooks and requests settle. No timer has to fire.
- *Screens* (`Fairness`): an effect that stays due runs, the timer of a poll fires
  while the tab can be seen, a request that is not aborted is served, and an answer
  that is not aborted arrives (all weak). The code guarantees no more: it does not
  make a poll wait for the one before it, and a poll does nothing in a hidden tab.
  `FirstReportAppears` therefore names both as what may stand in its way, a tab that
  is hidden again and again and an effect that aborts loads again and again, and says
  that nothing else does.

Memberships, invitations, alerts, sign-in and ingestion promise nothing
eventually: a handler whose process stops is not resumed by anyone, and the code
contains no job that would.

## 4. What does not hold

Three statements of the repository are refuted by a run each:

- **An organization always has an owner** (`members_ownerless`,
  `NeverOwnerless`; `organization.service.ts:238`). Two owners who leave at once
  each count the other. What the check does achieve is `OwnerlessOnlyByRace`.
- **Only an owner grants ownership** (`members_ownership`, `OnlyOwnersMakeOwners`;
  `README.md:176`, `organization.service.ts:146`). `create` of an invitation lets an
  admin in and stores whatever role the request asks for
  (`invitation.service.ts:149`; the contract allows `OWNER`), so that an admin's link
  makes an owner. What does hold is `OwnershipIsGranted`.
- **Nested exceptions are cut so that the server takes them** (`wire_nesting`,
  `DeepExceptionTaken`; `packages/python/tests/test_normalize.py:201`). The
  exception that stands for what was cut is itself one level too deep, and the
  whole report is refused. Both reporters do this; at the real limit it takes a chain
  of 18 exceptions.

The models have further behaviours that a reader may not expect. They are
excluded by a premise of a property, or allowed by it.

*Queue and worker*
- `retry` stores CURRENT_TIMESTAMP in a column that rounds
  (`postgres-message-queue.ts:177`): half of the time the message is not due yet
  for a claim that begins right away. The migration
  `truncate_queue_timestamp_defaults` repaired this for `enqueue`, for which
  `EnqueuedIsDue` holds; `message-queue.e2e-spec.ts:103` depends on it for `retry`.
  No property speaks of this rounding: it delays a delivery by less than a
  millisecond and changes nothing else.
- Two overlapping `close` over a full queue: the second finds the delivery thread
  alive, the thread takes the `None` of the first and ends, and the marker of the
  second's own flush still fills the queue, so its `queue.put(None)`, which has no
  timeout, never returns (`worker.py:240`). `CallsReturn` excepts this call
  (`Overtaken`) and no other.
- After a `close` whose flush and join timed out, `_thread` is `None` and a
  further flush answers True while the thread still sends (`worker.py:243`, `:207`,
  `:216`). `FlushTruth` is about the time before the worker is stopped.
- A capture that passed the check of `_stopped` can put its event behind the
  sentinel of a `close` (`client.py:463`). No thread takes it up, unless the
  capture itself started a second one.

*Organizations and sign-in*
- An admin's update of a member who was promoted to owner after it read them
  demotes that owner (`organization.service.ts:146`, `:168`). A link that offers
  ownership stays good after whoever issued it is removed.
- Two creates for one login leave two live links (`invitation.service.ts:132`);
  `OneLiveLinkPerSeat` says that only they do. `redeem` grants the membership even
  when the link was withdrawn, or its holder removed, after it was checked
  (`:239`). A second `revoke` overwrites the time of the first.
- The second of two tabs of one invited sign-in is refused as `account_conflict`
  (`auth.service.ts:306`, although the comment at `:295` means to let it in).

*Reports and alerts*
- Overlapping evaluations may each notify within one cooldown, although
  `schema.prisma:228` has one burst send one notification, and two simultaneous
  first reports of a fingerprint may each count the other, so that nobody is told
  of either. `MissedOnlyByOverlap` says that nothing less does it.
- A crash between storing a report and judging it loses its alerts: the
  reporter's retry is a replay. Nothing retries a channel but Discord's single
  429, and a restart loses what is under way. `lastFiredAt` can go backwards.
- A frame with a line and a column but no file hides the location of all frames
  from the fingerprint (`compute-fingerprint.ts:13`). The type of a thrown value
  of 257 to 512 characters reads back longer than the contract of the answer.
- Of a summary `lastReceivedAt` may be null beside a total above zero, when the
  first row commits between two statements; a trend may say "No change" beside an
  arrow; an environment named "unspecified" is counted with those that have none.
  The groups are folded into a plain object, which the model has as a function: a
  name that every object inherits, such as "constructor", would be added to what it
  inherits (`dashboard-summary.math.ts:51`).
- A tag key without a value passes the contract of a rule, is not drawn and
  matches nothing; a tag named like another filter hides it in the line drawn.
  `parseInt` cuts "2.5" and "1e3" short. The draft stays after its rule is
  created, so a second click duplicates it.

*Ingestion*
- A request that was let in with a token stores what it sent after the token is
  revoked, for nothing looks at the token again (`ingestion-auth.guard.ts:81`).
  `RevokedOnlyDrains` says that only those do, and that they come to an end.
- Two revocations that both read the token live are told different times
  (`project.service.ts:186`). `RevocationsTellOneTime` is the theorem about the
  rest.
- A log record whose id came in capital letters is stored, and answered 500 each
  time it is sent (`log-record.controller.ts:39`).

*Reporters*
- An `onError` that throws makes the promise of its record reject. Unless a flush has
  waited for it nothing handles that, and Node and Deno end the process, unless the
  application prevents it, with other records unsent. The crash hook of the reporter
  sees it first and captures one more report, whose failure calls the same callback.
  `EveryRecordEnds` excepts the process that ended so.
- The `void flush` of a crash hook also takes the flag `failedSinceFlush`: the flush
  the application makes next may answer true for a failure only that one was told
  of, and nobody looked at its answer (`packages/node/src/index.ts:29`).
- Node, Bun and Deno only start a flush when a crash is caught. A second init
  does not close the client of the first; one that fails leaves the previous
  client current without its hooks. A hook under that of a library stays in the
  chain after close, and reports a crash twice with the next init
  (`__init__.py:78` says otherwise). `Error.stackTraceLimit` is put back over what
  the application has set since.
- A client built by hand loses the active span and scope after the first await
  (`scope.ts:7`, `span-scope.ts:7` of core). Blocks left out of order can make a
  span active that has ended (`scope.py:45`). Tasks that share a copied bag see
  each other's user. Nested `with_span` reports one exception once for each
  enclosing span.
- The server refuses reports for blank tags and breadcrumb messages, for a function
  or a file of a located frame longer than the limit (`normalize.ts:156`) and for the
  long name of an exception that is its own ancestor (`:195`) (JavaScript); for keys of
  tags, breadcrumbs and attributes that are wide, categories that are, for the class
  name of a thrown value longer than 256, for a time of the
  application's that is none, and for a lone surrogate in any text (Python); both for a service name that is too long. It refuses a whole batch
  for one log record nested eight deep, heavy, or with a lone surrogate
  (Python), or for its weight; a whole export for one span with more than 256
  merged attributes, or a start before the epoch.

*Web application*
- Rows of another project or filter stay under the new heading while it loads,
  and the setup screen flashes when a filter without results is cleared.
- A filter cleared while its timer is pending comes back; a key typed while one's
  own commit is navigating is taken back (`use-url-text-filter.ts:16`).
- Removing a member, leaving an organization and deleting a rule do not lead to
  the login page on a 401. A late success of a form navigates a reader who has
  left.
- A secret is lost when its reader leaves, or his session ends, before the
  answer. The name of the next token, typed while one is issued, is wiped. The
  dialog reopened on another token is closed by the success of the first. Role
  changes of one member may apply in the other order. The failure of a deletion
  is an unhandled rejection, and "Saved." stays beside a new draft.


## 5. The proofs

TLAPS checks 57 theorems, all but one of which `PROJECT.json` lists, and the lemmas under them, in eight modules. They hold for
every value of the constants: any number of threads, requests, messages, tokens,
flows, blocks, rows or spans, any size of a queue, a batch or a limit, exceptions of
any shape, any length of a behaviour. Every safety property of a passing run is the
subject of one.

What they assume is the `ASSUME` of the module the theorem is about, and no
more. Those say that bounds are numbers, at least one where the code checks it
or a limit of zero makes no sense; that a configuration has the type the code
gives it; and that a value which means "none" is none of the things it stands
in for (`ApartAssumption` says this of a missing field and of one of another type:
neither is a string, a number, a record or a list). TLC evaluates each of them in
the runs. In particular a bound that is there for TLC (`MaxNow`, `MaxDeliveries`,
`Quotas`, `Scopes`, `MaxRequests`, ...) may have any value in a proof.

Each proof has one lemma per action, and in it one step per part of the
invariant which that action can disturb; a last lemma splits `Next`. A property
of a state follows from the inductive invariant; an action property is proved
under the invariant of the state before the step.

### 5.1 The arguments

**Queue** (`PostgresMessageQueueProofs`). `LeaseExclusive` and
`StaleLeaseIsInert` are not inductive: that an old lease is over depends on the
row lock that made its successor wait, and on `now` having passed its expiry
before the statement which read it. `QueueInv` says that the row's lease is that
of the latest delivery (`LeaseIsLatest`), that a row which is gone was
acknowledged by it (`GoneIsAcknowledged`), that every earlier delivery was
retried or its time is up (`OldIsOver`), that a statement which has locked a row
still finds it claimable (`LocksHold`), and that `attempt` counts the
deliveries. `TableInv` adds the keys and the due times; the second needs that
rounding moves a time by half a millisecond at most, and that the clock's
default is truncated. `QueueImplementsContract` maps each step of the table to a
step of `MessageQueue` or to none.

**Worker** (`DeliveryWorkerProofs`). An answer of True is about events that are in a
queue, a batch, an agenda of a thread, or nowhere. `ItemsHeld` says that each
event which is on its way is in exactly one of those places and in which state,
`LossesTold` accounts for the failure counter by the losses that no flush has told
of, `CallersHold` says what a thread between two statements of `_put`, `flush` or
`close` knows, `FlushesBegin` what a flush waits for. Until `close` stops the worker
there is one delivery thread (`OneThread`) and whatever a flush waits for is ahead
of its marker or in the thread's hands (`FlushesWait`). Both fail afterwards,
which is why `FlushTruth` has that premise.

**Memberships and invitations** (`InvitationProofs`). That there is an owner is
not inductive, and not true. `CheckStillHolds` is: unless withdrawals have
raced, the one request past `refuseIfLastOwner` leaves another owner behind.
`GrantsComeFromOwners` says that a grant of ownership that is under way was let
in as an owner's: with it `OwnersAreGranted` goes through the two steps that make
owners, the write of such a request and the redemption of a link, whose issuer
`IssuedByManagers` (of `LinkInv`) knows to have been an owner or an admin. With links, `WithdrawalsHold` says that a `create` which has
yet to issue its link will have withdrawn every good link to its login that it
could see; `CallsKnowTheirLink` that a call which revokes or redeems has read a
link that was issued; `BlankUntilIssued` that the others have no fate.
`LinkInvariant` is about all of these; `MembershipsUnderLinks` is the refinement: a
step of the links is, on the memberships, a `Join` or nothing. So the invariant of `Memberships` is not
proved again: `Next` of `Memberships` and `Join` keep it, and `Invitations`
takes no other step on that table.

**Organizations** (`InvitationProofs`). Of `TenancyInv` the conjuncts about rows,
paths and what was found (`TenancyCore`) are inductive: an organization keeps its
slug, a project its organization, and an item its project or its organization, so
that what a first
statement found is where it was when the second runs (`FoundStaysWithin`). From
them the other two follow in every state: `OthersDoNotShow` statement by
statement, by comparing what it answers over the whole database with what it
answers over the part of one organization. `TenantsKeepBoth` carries both
invariants over to the composition.

**Alerts** (`AlertEvaluationProofs`). An event is stored once, so one call
evaluates it (`OneEvaluation`), and a rule that call has still to judge has no
verdict (`PendingUnjudged`); hence one firing. `OneClaim` is the unique index on
the fingerprint. For `MissedOnlyByOverlapping`, `MissInv` says of a first report
whose count was too high that another evaluation ran beside it
(`FirstSeenMissedOnlyBeside`), that the reports in a rule's window which it judged
unmet are fewer than its threshold (`UnmetAreFew`, on the finite set of what is
stored: the last of them was counted with all others in sight), that what fired is
in the row (`FiringsRecorded`, `CallsRead`), and that a rule is quiet for its
cooldown after a firing it saw. Of the *channels* (`ChannelsInv`), one that is
still to be asked, or asked again, has taken nothing (`UntakenUntilAnswered`), and
a delay that Discord names is cut to the time of a request. Of *rules*
(`RulesIInv`), the request under way is the one of a draft that passed the form
(`PostTells`) and the row is what that request said until it is renamed
(`KeptTells`). `ReportsKeepAll` is about all five modules in the composition that
the run checks.

**Dashboard** (`AlertEvaluationProofs`). `DashboardIInv` says of every statement that
its result is what it finds in the table of one moment of the request
(`EachIsOfAMoment`), and of the rows that this table lies between those that were
there throughout and those that were there at some time. A count of a window, a
sum of the buckets and a sum of the groups are each the size of a set of rows, or
of pairs of a row and where it falls; that they agree, or that one is no more
than the other, is an injection between two such sets. `TrendSpeaksOnce` is
arithmetic (`TrendNeverContradicts`, for all numbers).

**Stored reports** (`AlertEvaluationProofs`). `SInv` says that a view is what the
functions make of the column, and that what has a fingerprint was taken. The rest
is about those functions, for any exception: reading goes node by node and field
by field (`PlaceRead`, `FramesRead`, `ThrownRead`), so that what is read fits
(`NodeFits`), what was taken comes back (`NodeSame`, `TakenIsShown`), the list reads
the root as the detail does (`ListAndDetail`), and a fingerprint depends on the
message only where there is no place (`GroupedAlike`).

**Sign-in and controls** (`WebApplicationProofs`). `FlowsKnow` says for each
statement of a sign-in what the flow has learned and what still holds of it
although other flows ran; `LockIsIts` that one flow at most is between
`TakeLock` and its commit; `CookiesMatch` that a flow which is called back began
in that browser; `Rows` that every account has an origin that let it in, one
founder at most, and no twin. For the controls, `Sent` and `Raised` relate a
request to the row and the dialog it was begun with, `OneSecret` says that a
secret is shown when the request of its form is over, `Quiet` that nothing is
said of the project's form while it is under way. `WebInvariant` says that the
composition keeps both.

**Reporters** (`RuntimesProofs`). `HooksIInv` adds to the property that the chain of
hooks has the reporter's own at most once unless a library came between
(`OneOwnHook`). `ReporterIInv` says of every record in which task or queue it is
(`RecordsHeld`), of the failure flag that it stands for a failure nobody was told
of (`FlagTells`), of a flush at the end of its loop that what it covers has ended
(`CoversEnd`), and of a close that answered true that there is no task left and no
way to begin one (`CloseShuts`). `FlushIsTrue` follows. For the blocks,
`ContextsIInv` has the lines of descent (`LinesInv`), and under a store that copies
contexts that the spans and bags a chain can see are of its line (`SpansOfLine`,
`BagsOfLine`) and that the values to be restored, read from the innermost block
outwards, are the nesting of the blocks (`ActiveInv`). The last two are false in a
client built by hand, which shares one variable; there the property says less.

**Ingestion** (`IngestionProofs`). What a request presents when it is let in was
live then, and a revocation is final, so the project a request knows is the one
of its credential (`RequestsKnowTheirOwner`, `RowsHaveAWriter`). `RevocationDrains`
rests on `RevocationsAgree`, by which a token somebody was told is revoked is
revoked: no request is let in with it, and a row is written by a request that was. A receipt was
read after the row was written (`ReceiptsArePast`, `RowsArePast`), and rows do
not change (`RowsNeverChange`). `RevocationsAgree` relates every answer to a
revocation to the column.

**Traces** (`IngestionProofs`). `Drawing` is the invariant of the loop that orders
spans. Each span is put on the stack once (`EachOnce`); roots, orphans and the
children of what is drawn were put there (`NoneForgotten`), and what was put hangs
from a root or an orphan (`AllHang`). The stack is no deeper below than on top
(`DeepestOnTop`), what is drawn, or would be drawn next, has its parent as the
last line less deep (`ParentsAbove`), and whatever waits comes after what is drawn
in the order there is to be (`InTheirOrder`). When the stack is empty these are
`IsWaterfall`. That they say all there is to say is `SameWaterfallTwice`: two
waterfalls of the same spans, in whatever order the database returned them, are
equal where no parents form a cycle, by taking the first line on which they
differ. `CutLate` and `Window` hold from the read on; `RootsAreThere` is why a
root counts itself when nothing was swept between the two statements of the list.

**Wire** (`IngestionProofs`). `WIInv` adds what is known of a tag, a breadcrumb, a
record or a span that is kept (`ScopeShape`, `BatchShape`, `SpanShape`), above all
that the ring is the end of everything that was recorded. Each reason for which a
request is refused is then a comparison of a bound of the reporter with one of the
server, made once for each kind of text, key or bag; that a report carries no more
tags than the server takes is a count (the places of those that are kept are
ordered, and each has fewer than the limit before it), and that an exception is
nested too deep exactly when the walk is refused relates a walk that does not meet
itself to one that is cut. The same comparison says when a node stands for an
ancestor (`CircularIs`). `TelemetryKeepsAll` carries this invariant and those of the store over to the
composition that the run checks.

**Screens** (`ScreensProofs`). `LoadIsCurrent` says that, unless an effect is
due, the request under way is for the URL of the screen and its rows are at
least as new as the last write that was told of; `RowsAreCurrent` says this of
the rows that nothing is to replace; `WritesKnow` says that a write under way
knows its change.

### 5.2 What is only model-checked

- *Liveness*, and whatever needs fairness or ENABLED: `NoMessageStranded`,
  `QueuedIsDelivered`, `CallsReturn`, `FirstReportAppears`, and of
  `CapturedIsAccountedFor` the half `EveryRecordEnds` (the other half is
  `FlushIsTrue`). TLAPS has no rule for fairness on the backends at hand.

Nothing else is. Trees, sums and the loop over spans were within reach once they
were written without recursion: a tree as a function from paths or as the walks
through it, a sum as the size of a set, a loop as steps. What is proved about them
is no weaker for that: TLC evaluates the same definitions.

## 6. What is not modelled

| Part | Why |
|---|---|
| LogTape sink, Python logging bridge | conversions that end in a capture of `Reporter` or `DeliveryWorker`, with no state but a flag that keeps a thread from reporting what it logs while it reports |
| Python test double | a list |
| Database schema and migrations | what the properties need of it (unique indexes, rounding columns, cascades) is in the actions that meet it |
| API process | configuration, wiring, logging and health: read once, or stateless; GitHub is a choice of its answers |
| UI components, application shell, generated routes | rendering |
| Examples and deployment | no logic |

Left out of the parts that are modelled:

- *Conversions*: redaction, origins and source context of frames, the wording of
  anything, hashes and the encryption of cookies. A hash is its argument.
- *Counters nobody reads back*: `lastUsedAt` of tokens, dropped items of the
  worker, item counts of lists.
- *Single statements* that meet no other: the names of projects and
  organizations, setting the current client by hand.
- *Concurrent `init`*: the JavaScript one is synchronous, and the Python hooks are
  for one thread that sets up.
- *Parts that share no state* run one at a time (section 2): what is left out is
  their overlap only.
- *Code outside this repository* (PostgreSQL, the queue and thread primitives of
  CPython, promises, React, the router) is modelled from how the code here
  uses it.

## 7. Plan

1. A contract of `flush` that both the Python worker and the JavaScript reporter
   implement, as refinements.
2. More of the web application: the view of an invitation, the mock sign-in
   page, the forms of a rule on a narrow screen.
3. The Python logging bridge and the LogTape sink, as callers of the worker and of
   the reporter that may themselves log while they are called.
