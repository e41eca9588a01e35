# A TLA+ verification of HiAi Observe

HiAi Observe is a monitoring server (TypeScript on Bun, Postgres through
Drizzle, Redis) with an SDK and a web console. It ingests error events, traces
and logs, probes monitors, evaluates alert rules and notifies. The server is one
process: HTTP handlers and timer-driven workers interleave at every `await`,
share rows in Postgres, keys in Redis and maps in memory, and nothing but those
rows and keys survives a restart. This directory holds TLA+ models of the parts
whose correctness depends on such interleavings, on failures or on long
sequences of calls, the TLC runs that check them, and proofs checked by TLAPS.
Paths such as `alerts/worker.ts` are relative to the server's `src/`.

- [1 Inventory](#1-inventory)
- [2 What is modelled](#2-what-is-modelled)
- [3 Runs](#3-runs)
- [4 Where the code and its documentation disagree](#4-where-the-code-and-its-documentation-disagree)
- [5 Proofs](#5-proofs)
- [6 Not modelled](#6-not-modelled)
- [7 Plan](#7-plan)

## 1 Inventory

| Component | State | Operations | What makes it correct | Module |
|---|---|---|---|---|
| Uptime worker (`monitoring/uptime-worker.ts`) | maps `nextCheckAt`, `monitorState`; `uptime_monitors`, `uptime_checks`; Redis keys `alert:cooldown:<rule>:recovery` | tick every 10 s, one check per due monitor (probe, insert, recovery block), start, stop | no false outage, every active monitor is probed for ever, a recovery is announced | `UptimeWorker` |
| Uptime checks (`monitoring/checks/`) | sockets and timers of one check | connect, fetch, redirect, certificate, body | a check ends, and leaves no connection open | `Probes` |
| Alert worker, deduplication (`alerts/worker.ts`, `dedup.ts`) | `running` flag, timer; Redis keys `alert:cooldown:<rule>` | cycle every 60 s, start, stop | one cycle at a time, one notification per cooldown window, failures never end alerting | `AlertWorker`, `AlertCooldown` |
| Rules engine (`alerts/rules-engine.ts`) | none; reads windows, rules and data | `evaluateRules`, evaluators, `isInMaintenanceWindow` | rules fire on what was true, windows silence | `AlertWorker`, `RulesEngine` |
| Dispatcher and notifiers (`alerts/dispatcher.ts`, `alerts/notifiers/`) | `alert_history`; channel rows | load the configuration, deliver to each channel, insert the history row | every delivery ends, goes where the project said, and is reported truly | `AlertWorker`, `Channels`, `MailNotifier` |
| Error ingestion (`api/sentry-ingest.ts`, `ingestion/grouper.ts`), issues API (`api/issues.ts`) | `issues`, `events` | group and insert an event; merge, delete, update | one issue per fingerprint, counts, no accepted event lost | `IssueGrouping` |
| OTLP endpoints (`api/otlp.ts`, `ingestion/otlp-*.ts`) | `traces`, `logs` | decode, map, insert by chunks | what was sent is what is stored, a retry does no harm it could avoid | `OtlpIntake` |
| Trace analysis (`mastra/`) | none; reads `traces` | span tree, percentiles, slow steps | no span is missing or misplaced whatever the order of arrival | `TraceViews` |
| Log streamer and worker (`monitoring/log-streamer.ts`, `log-worker.ts`) | frame buffer, token bucket, batch, insert semaphore, `cleanup` | attach, cut frames, batch, insert with a retry, publish | limits hold, no line is lost on the way, waiting ends | `LogIntake`, `LogWorker` |
| Live logs (`store/log-pubsub.ts`, `api/logs-ws.ts`, `api/logs.ts`) | one Redis subscriber, `clients` map, handlers | connect, authenticate, subscribe, unsubscribe, close | a client hears its channel until it unsubscribes, a closed one leaves nothing behind | `LiveLogs` |
| Retention (`workers/retention.ts`) | timer; seven tables | batches of deletions once a day | rows grown old are deleted, one failing table does not stop the others | `Retention` |
| Infrastructure worker (`monitoring/infra-worker.ts`, `docker-collector.ts`) | previous counters; samples | collect, rate, insert | cycles may overlap and rates still add up | `InfraWorker` |
| Rate limits (`middleware/rate-limiter.ts`, `api/agent-ingest.ts`) | Redis windows, fallback in memory | count, refuse | never too many, never refused without a cause | `RateLimits` |
| Key, tenant and limit lookups (`lib/auth.ts`, `middleware/rate-limiter.ts`) | three caches of 60 s | look up, fill, invalidate | what is stale dies with its entry | `ProjectCaches` |
| Projects and the rows of a project (`api/projects.ts`, `store/schema.ts`, 18 files of `api/`) | 17 tables and their foreign keys | insert, delete in one or several statements | a deletion is complete, fails only for a cause | `Tenancy` |
| Incidents, subscribers, team, channels, fingerprint rules | rows | read, decide, write | only a race spoils what one request would not | `ReadThenWrite` |
| HTTP API and its callers (`api/`, `middleware/`, SDK, CLI, MCP, agent, console, `lib/openapi.ts`) | none | 125 routes, their guards, 297 calls of clients and document | every call reaches the route it means and is answered as its key is entitled to | `ApiRoutes`, `ApiCallers`, `ApiDocument`, `ApiAccess` |
| Mastra exporter (SDK, `packages/hiai-observe/src/mastra/`) | buffer, `flushing` flag, timer | export, flush, retry, shutdown | no span lost, order, duplicates only after a lost answer | `MastraExporter`, `OrderedDelivery` |
| Log page (console, `routes/logs/+page.svelte`) | list, offset, socket | load, load older, refresh, jump, live line | the list is what the server holds, once each | `LogsPage` |
| Worker health, ANALYZE worker, Sentry parser, other pages, reports | | | | section 6 |

How they interact. The uptime worker writes `uptime_checks`, which the
`uptime_down` evaluator of the alert worker reads; both call `dispatchAlert` and
`shouldFireAlert`, with different keys. The alert API and the maintenance API edit
rows which both workers read without locks. Ingestion fills `events` and `issues`,
which the `error_rate` evaluator reads, the issues API rewrites and retention
deletes. The log worker inserts and publishes to Redis; sockets subscribe, and the
log page joins what they bring with what it fetches. Exporters post to the OTLP
endpoints and see only their HTTP status. Every request passes the router, the
tenant scope, validation, the key guard and the scope of its handler, which share
the caches of lookups.

What is hard. `setInterval` does not wait for the callback, so invocations of a
worker overlap unless a flag prevents it. State read before an `await` is used after
it. An operation made of several statements (count then insert, take the cooldown
then deliver, look then insert) can be cut by another request, a failure or a
restart. In-memory state is lost while Redis keys live on. A timer races the
answer it waits for. `PROJECT.json` lists each such place at its line ("hazards"),
with the properties that cover it.

## 2 What is modelled

Each action is one stretch of code between two awaits whose order against others
matters, or one statement of a transaction where another transaction can come in
between. `PROJECT.json` maps every definition to its lines. Definitions commented
`Defect:` are not part of a specification: each is a plausible wrong version of
the definition that follows it, and shows that a property would notice.

### Workers and alerts

**`UptimeWorker`** - `tick` and the bodies of its `Promise.allSettled`. Time is
counted in ticks, relative to now. `nextAt` and `monitorState` are the two maps
(functions whose domain changes); `check[s]` is one pending check with the phase
it awaits in (`probe`, `saveUp`, `saveDown`, `lookup`, `claim`, `dispatch`), the
age of its tick's `now` and the rules left in the recovery loop. `Tick`, `TickFails`,
`Start`, `Stop`, `Crash` and the environment's `EditMonitor`, `EditRule` surround
the steps of a check. Two history variables: `streak` (recorded failures in a
row) and `recoveries` (notifications of this outage).
Abstractions: reading the monitors and processing them is one step, so that a stop
while `getMonitors` is pending is left out; ticks are exact; intervals do not
change; one project; `consecutiveFailures` saturates at three, as only the
comparison with three is used; Redis keeps its keys.

**`Probes`** - one check on the wire: TCP and ping connect in a race with a timer,
HTTP and gRPC fetch under an abort signal, after a lookup of the host name that has
no timer; then redirects, certificate and body. The operating system may open a
connection at any moment. What `UptimeWorker` takes for one step `probe` is here.

**`AlertWorker`** - `runEvaluationCycle` and what it awaits: `Collected` (host
statistics and projects), `WindowRead`, `RulesRead`, `Evaluate` (one rule at a
time, on data read then or on the statistics read at the start), `Claim` (the
cooldown key), `Deliver` (one channel), `LogRow` (the history row, which fails for
a deleted rule and with it the cycle), `ProjectDone`, `CycleDone`, `Abort` (any
rejection, caught at the end of the cycle), and `Timer`, `StartWorker`,
`StopWorker`, `Crash`. Several invocations may be in flight, so that the flag has
something to guard. The environment edits rules, data and windows, and keys expire
at any time after they were set, which allows every cooldown. `since` remembers
what was true at some time since the cycle in flight began. Escalation is not
modelled: `evaluateRules` never copies `escalationMinutes`, so that
`checkEscalation` returns false.

**`AlertCooldown`** - what deduplication promises: a key is granted only when its
window is closed and nothing is pending for it. `AlertWorker` instantiates it with
the Redis keys as open windows and the rules being delivered as pending.

**`RulesEngine`** - the `uptime_down` evaluator over the checks it reads, newest
first and of all monitors of a project together, against the definition of an
outage per monitor. Each monitor has its own interval (`schema.ts:180`) and may be
paused, so that checks of the monitors arrive in any order and number, while windows
open and close.

**`Channels`** - a channel's configuration from the console's form through
encryption, masking and saving again to the test and to the alert, under changes
of the encryption key and of the environment. A field is told by where its value
comes from. **`MailNotifier`** - the SMTP exchange step by step with replies that
come whole, late or in two parts. The second part may contain "250" whatever the
reply is; that one cut within a line does not happen to start with a reply code is
assumed.

**`Retention`** - cycles of the timer and of the administrator over the tables;
`batchDelete` ends after its first batch, as the driver reports no rows for it. Rows
grow old without end and at any pace; `aged` remembers how many did since the last
batch of their table, up to a batch.

**`InfraWorker`** - collections that overlap, the reading before that they share
(`prevNetStats`), restarts of the container and the inserts of a cycle.

### Ingestion and what is made of it

**`IssueGrouping`** - `groupEvent` statement by statement (select for update, then
update or insert) and the insert of the event after it; merge (checks, move, count,
commit) with one source, deletion and retention. Postgres runs at read committed;
row locks are modelled where they order the steps: FOR UPDATE, and the share locks
that foreign keys take on the issue. A transaction that would fail on a foreign key
fails. Abstractions: one merge at a time; the deletion transaction and the last
statements of the merge are one step each, as row locks make others wait for them.
Two history variables: `removed` (events that a deletion took) and `targets` (issues
whose count a merge overwrote).

**`OtlpIntake`** - the three endpoints in both encodings: decoding, the mapping of a
span's and a log record's fields, the inserts by chunks and the sender's retry. A
batch is a number of items that all state one fact in one form; a row is what its
column says in the end.

**`TraceViews`** - `buildSpanTree` over spans in every order of arrival with missing
and repeated ones, and the percentiles and verdict of the latency analyzer over
up to 126 runs. No route calls `buildSpanTree`; the percentiles are
part of what `GET /api/traces/stats` computes. A tree is its roots and the children of each node, each a level that
the sort has ordered; that it is one tree is a property (`TreeTrue`), not its shape.

**`LogIntake`** - the streamer's cutting of a multiplexed byte stream into frames,
read by read, and its token bucket in exact fractions of a second. **`LogWorker`** -
start, stop, attaching, batches by size and timer, back-pressure, the insert
semaphore with its polling, the retry and the publication. It is started once
(`index.ts:252`) and stopped only at shutdown; a stop while the list of containers
is pending does nothing, as `cleanup` is set later.

**`LiveLogs`** - sockets and event streams from opening to closing, with key lookups
and SUBSCRIBE commands pending, over the one Redis connection all of them share.
The entries carry no project, so that only an administrator's handler passes them on.

### The API and its state

**`Tenancy`** - one row per table and project in 17 tables with their foreign keys,
the requests and workers that insert and delete them, and the deletions of several
statements: project, alert rule and issue in a transaction, a monitor without one.
**`ProjectCaches`** - lookups that fill a cache after an await, against rotation of a
key, provisioning of a tenant and an update of a limit, with the order of use and
the capacity of the cache. **`RateLimits`** - the sliding window in a sorted set
(rejected requests count, too; a failing Redis lets everything pass) and the host's
counter whose INCR and PEXPIRE may fail apart, with the fallback in memory.
**`ReadThenWrite`** - the handlers that read a row, decide, and write in another
statement: the status of an incident and six kinds of row that are to be the only
one of their name.

**`ApiRoutes`** lists the server's routes: method and path, guard, the query
parameters a handler gets to read, the body fields it requires and knows, the keys
of its answer. **`ApiCallers`** lists the calls the SDK, the CLI, the MCP server, the
agent and the console make, **`ApiDocument`** those the OpenAPI document promises.
**`ApiAccess`** takes each call with each kind of key and each spelling of its project
through router, tenant scope, validation, key guard, scope, role and instance key,
one stage at a time. A project is named by its UUID, by one that no project has, or by
a name that is no UUID, such as a tenant's that is bound to nothing: the tenant scope
passes that on as it is, a route whose schema wants a UUID (`uuids`) answers 400, and
elsewhere the query for it fails in Postgres, which the handler turns into 500. The calls that are wrong are listed by name as what `ApiKept`
excepts, each of them a disagreement of section 4. `TablesFit` says what of the tables
makes the other calls come out right: that each has a route, which requires no more
than the call sends, knows all of it, gives what it wants and has the guard that its
path needs. TLC evaluates it over the tables as an assumption on them.

### Clients

**`MastraExporter`** - `_exportTracingEvent`, `flush`, `sendWithRetry`,
`shutdown` and the timer. The environment decides whether the server is reachable
and whether a request that the client saw fail was stored. Spans are numbers in the
order of export, so that order and loss can be stated.

**`OrderedDelivery`** - what the exporter and a server promise of each other: items
are accepted; what arrives is everything not yet confirmed up to some item, which lies
no earlier than what arrived before; the sender learns of it or not. `MastraExporter`
instantiates it with the spans exported, the rows stored and the spans acknowledged.

**`LogsPage`** - the console's list of log lines: requests that overlap and whose
answers come in any order, the offset by which older rows are asked for, live lines,
the change of a filter or search and the jump to a time, against a store into which
lines are inserted after they were published. Rows are ordered by their time alone:
each query puts those of one time in an order of its own. Two history variables say
when an answer or a line was taken that does not fit the list and what was stored when
the list was asked for.

### Compositions

`MCConsole`, `MCLogs` and `MCClients` each hold parts that share no state; a
behaviour runs one of them, so that a run checks each part's properties over that
part's states. The initial state chooses it. Parts that do share state are one
module: the uptime worker with the edits of its monitors, the alert worker with the
edits of rules and windows, ingestion with merges and retention, the tables of a
project with all that write them.

## 3 Runs

| Run | Instance | What it shows |
|---|---|---|
| `uptime` | 1 monitor, 2 checks in flight, interval 2 ticks, failures, fairness | a monitor is down only after three recorded failures in a row; an active one is probed again and again; one that answers from some time on does not stay down |
| `alert_safety` | 1 project, 2 rules, 2 invocations, failures | one cycle at a time, the cooldown promise, a cause for every notification |
| `alert_live` | 2 projects with a rule each, failures, fairness | cycles begin again and again; once they no longer throw, a rule that stays triggered is delivered again and again |
| `grouping` | 4 events of two errors, 3 issue ids, merges, failures, deletions, retention | no accepted event is lost; counts are exact except where a merge overwrote one |
| `logs` | 2 containers, 3 lines, 1 insert slot; 4 frames at 2 lines a second; 2 sockets and a stream; 2 tables whose rows grow old without end; every probe with 2 redirects; fairness | slots, lines and frames are kept; a subscription hears its channel; nothing is left of what was closed; no stray connection; batches, back-pressure, streams and checks get done; old rows are followed by a batch |
| `console` | `console.cfg` lists it, a part a line | deletions are complete and fail for a cause; caches settle; limits hold; an outage is seen; only races spoil rows; a test uses what was saved; mail is reported truly; OTLP keeps its promises; rates add up; every call is answered as it should be; traces are shown as they are |
| `mastra` | 5 spans, batches of 2, 1 retry, fairness; 4 log lines at 2 times, pages of 1, 3 requests | no span is lost or overtaken, ordered delivery (`OrderedDelivery`), duplicates only after a lost answer, delivery once the server is reachable; the log page's list is one list |
| `uptime_announced`, `mastra_shutdown`, `grouping_duplicates`, `project_deletion`, `alert_delivery` | | violations, section 4 |

The properties with an exception name it: `CountIsExact` leaves merge targets out,
`HearsItsChannel` those whom another's unsubscribe cut off, `OnlyLateLeftovers` what
was pending, `NoStraySocket` a connection that opens after its timer won, `ChecksEnd`
a body that never ends, `AbortHasCause` a row that appeared meanwhile, `CachesSettle`
a lookup in flight, `ExpiredRowsGo` tables of which a batch or more grows old between
two batches, `DownIsSeen` monitors that the others outpace and failures by a keyword
alone, `MailReported` an answer to DATA or to the body with "250" in its text, parted
replies and late last ones, `RatesAddUp` answers taken up out of order, `LogsInTurn`
overtaken answers, lines stored otherwise than they came live, lists cut at their limit
and pages that end between rows of one time, `ApiKept` the listed calls and, refused or
failing, names that are no UUID. Each exception is a way in which the code does go
wrong; the property says that there is no other.

Bounds. `Slots`, `Cycles`, `Collectors`, `Callers` bound what is in flight: two are
enough for any race of a pair, and a third only repeats it; `Clients` has three, as
two inserts and a reader make a duplicate that a third request meets. `DownAfter` is
the code's three. `Cooldown` is two ticks, so that a key can both outlive and expire
before the next success; the code's five minutes are 30 ticks, which changes how many
checks fit in a window but not their order. With interval 2, a check can end before,
at and after its monitor's next due time. `MaxSpans` = 5 with batches of two lets a
full batch fail while a second full one accumulates; `MaxRetries` = 1 exercises both
arms of the loop. Four events, three of one error, are a merge source and target, a
duplicate issue and a late one; with three `Ids`, two issues of one error and one of
another exist together. One row per table and project with `MaxRows` = 3 lets every
foreign key be held and broken: no constraint joins more than three tables. Three
cache versions are old, current and next; `LastTime` = 4 outlives an entry (`Ttl` = 2)
and its refill. Chunks of two with three items make a last chunk that is short and
one that fails after another succeeded; two posts are a retry. The frames' sizes
(`Chunks`) cut a header, a payload and several frames at once. `MaxQuick` = 120 lets
one run be more and less than one in a hundred. Three spans make a chain, a fork and
a missing parent, the fourth row repeats one. Four log lines, the
first and the second of one time and the third and the fourth of another, on pages of
one and with three requests, let an answer, an older page and a refresh overlap, an
offset reach the third row, and part two rows of one time. With at most three old rows
waiting and batches of two, a table is rid of them by one batch or needs a second.

Fairness. `FairSpec` of `UptimeWorker`, `AlertWorker` and `MastraExporter` (in
`ClientSpec`) assumes that the event loop runs the timer (`setInterval` is never
starved for ever) and that every await settles: `fetch` of the exporter and the
notifiers end, and the clients of Postgres and Redis answer or reject; that a probe
ends is what `ChecksEnd` shows but for a body. It assumes that Redis keys expire.
`LogFairness`: the flush timer fires, a line that was read is taken, some insert goes
on (which one is the semaphore's choice). `LiveFairness`: Redis answers its commands
and a stream's ping timer fires. `RetentionFairness`: the daily cycle begins and goes
on, and a table is not passed over for ever by cycles that could delete from it
(strong, as the timer of the worker begins a cycle again and again).
`ProbesFairness`: timers fire, a lookup and an abort come through; that a peer answers
is never assumed. It is never assumed that an operator acts, that a request succeeds,
that a failure stops or that the process does not crash. Liveness properties state
what they need as premises instead: the worker stays on; for `PersistentAlertRepeats`
cycles stop throwing at some time, as a database that fails at the same step for ever
prevents every delivery; for `HealthyMonitorIsCleared` successful checks keep being
recorded.

Deadlock is checked where a system that goes on for ever is modelled (`uptime`,
the alert runs). Elsewhere requests, lines or time run out.

Symmetry is used only in runs that check safety. The evaluator reads four checks for two failures
(`PerFailure` = 2, where the code has 10) and `MaxChecks` = 5 keeps one more, so that of
two monitors either outpaces the other or does not, and a check may fall out of the
window; any numbers are proved (section 5).

## 4 Where the code and its documentation disagree

Each of these is a run that expects a violation.

- `uptime_announced`: a recovery is dispatched when a monitor comes back
  (`docs/architecture.md:574`). The cooldown key names the rule, not the monitor: the
  recovery of one monitor silences that of another for five minutes, and
  `wasDown` is reset all the same.
- `mastra_shutdown`: "Flush remaining spans" (`mastra/index.ts:142`). `flush`
  returns at once while another flush is in flight, so `shutdown` resolves with
  spans in the buffer and the timer gone.
- `grouping_duplicates`: FOR UPDATE "to prevent race conditions on concurrent
  inserts" (`grouper.ts:42`). There is no row to lock before the first insert and no
  unique index on project and fingerprint.
- `project_deletion`: a project is deleted with "all of its associated data"
  (`docs/api.md:1952`). One that has an incident naming a monitor is not: the
  monitors are deleted first and the incident's key has no action.
- `alert_delivery`: the dispatcher "loads channel config from DB first"
  (`dispatcher.ts:5`), encrypted as it is stored, and never decrypts it.

Seen while modelling; the models say the same, and `PROJECT.json` ("findings") has
the lines.

Monitoring and alerts:

- two overlapping checks of a monitor that is down may both announce its recovery,
  through different rules ("Only one recovery alert per monitor");
- a check in flight puts the state of a removed monitor back into `monitorState`,
  which the cleanup (`uptime-worker.ts:42`) never sees again, as it walks the keys of
  `nextCheckAt`; a check that never ends sets no due time, so that its monitor stays
  due and every tick begins another check of it;
- an HTTP keyword check passes when the body cannot be read, the gRPC check's body has
  no framing, a connection that opens after its timer is never closed;
- a failing keyword check is no failure to the `uptime_down` rule; failing checks
  of a monitor that was paused keep firing; intervals are per monitor
  (`schema.ts:180`) but one LIMIT covers the checks of all (`rules-engine.ts:143-150`):
  a monitor that is down is missed beside one that is checked more than nine times as
  often, or beside many;
- a window limited to some monitors silences all alerts; a change of a window checks
  its ends only when both are given (`maintenance.ts:217`);
- `escalationMinutes` has no effect; fingerprint rules are never read by `grouper.ts`;
- a rule's own target loses to the project's, a rule without channels does not fall
  back to the environment, an e-mail channel saved by the console is never used,
  PagerDuty's deduplication key is the rule's name;
- SMTP replies are searched for "250" and taken by chunks: a later chunk of the answer
  to DATA that contains it is read as the answer to the body, and a mail that is then
  refused is reported as sent (`email.ts:266-283`); a timeout at QUIT reports failure
  for a mail that was taken.

Ingestion and logs:

- a merge recomputes the `count` that an event was already added to but whose row is
  inserted after the merge's query: the count is one short for good;
- OTLP: a later chunk that fails leaves the earlier ones, and the retry repeats them; a
  batch that can never be stored is retried for ever; JSON and protobuf give different
  kinds, levels and statuses;
- of two clients of a channel, one that unsubscribes stops the other
  (`log-pubsub.ts:70`); a socket closed while SUBSCRIBE is pending leaves its handler;
- back-pressure looks at the current batch, which never grows to its limit; streams
  that break and containers that start later are not attached;
- retention removes one batch of 5000 per table and day (`retention.ts:37-42`): where
  more rows grow old each day they stay and pile up, although `RETENTION_DAYS` is "Days
  to keep old data" (`docs/configuration.md:81`); a quiet log worker is "stale";
- log rows are ordered by timestamp alone (`store/logs.ts:83`, `:157`) and asked for by
  offset: rows of one timestamp may be on two pages or on none;
- the latest container statistics are looked for with a date cut to milliseconds;
- the detail of a trace reads rows of all projects by trace id and checks the first;
  the token sums fail in Postgres.

API and clients:

- an update of a rate limit may be overtaken by a lookup; the rotation of a key does
  not invalidate its entry; the host's counter may lose its expiry;
- an incident that is created as resolved has no `resolvedAt`, and a late update
  reopens one;
- a monitor that an incident names, or that is checked meanwhile, cannot be deleted,
  but loses its checks;
- calls of the SDK, CLI, MCP server and console that name a path, parameter or field
  the server has not, and routes only the OpenAPI document has;
- the tenant parameter is removed before `/embed` reads it; a tenant that is bound to no
  project goes on as if it were a project's id: a project key gets 403, the instance key
  400 from routes that want a UUID (`issues.ts:48`) and 500 from the others
  (`traces.ts:46`), where `tenant-scope.ts:33-37` promises an empty list and
  `traces.ts:113-116` a 400;
- the trace page reads fields its rows have not; on the log page live rows lack id,
  container and level, and the list is in no order of time.

## 5 Proofs

Eight modules hold theorems for all values of the constants, each from the named
assumption on the constants of the module it is about (`AlertAssumption`,
`UptimeAssumption`, `LogAssumption`, `RulesAssumption` and so on), which TLC evaluates in
every run that holds the module. Every inductive invariant of a specification was first
checked by TLC on the run's instance. `PROJECT.json` lists the theorems; the arguments
are these.

Four theorems are about promises that the code breaks (section 4): they say under which
condition the promise holds, as a conjunct beside the specification (`[][A]_vars`,
`[]P`) or a premise on the state. Each condition excludes what the counterexample of the
run needs, is met by ordinary behaviours - one request or check after the other, a row
without secrets - and is one the code does not establish. What they show is that the
promise fails for no other reason.

- Alert worker (`AlertWorkerProofs`). `TypeCorrect`: the type invariant is inductive.
  `GuardWorks`: `OneCycle` is inductive given the types, because the flag is raised and
  lowered exactly where a cycle begins and ends (`CycleStepShape`, `OtherSteps`).
  `NotificationsHaveCause`: `NotifiedForCause` speaks of cycles in phase `send` only and
  is not inductive; `CauseInv` strengthens it to all phases: what a cycle has read
  (`stats`, `rules`, `triggered`, the rule in hand) and the project it works on are
  covered by what `since` has seen, and `since` has seen at least what is true now.
  `CooldownHonoured`: every step of the worker is a step of `AlertCooldown` or leaves
  its variables alone, using `OneCycle` for the claim (no other cycle is delivering the
  same rule). The module `AlertCooldown` is thus implemented for any number of rules,
  projects and channels.
- Uptime worker (`UptimeWorkerProofs`). `TypeCorrect`; `OutagesEarned`: `DownIsEarned`
  says nothing of a monitor that is not down or is announcing a recovery, so it does not
  carry over a step that makes a monitor down or one that ends an announcement. `Earned`
  does: unless a recovery of the monitor is being announced, its counter is at most the
  number of failures recorded in a row, and it is down only if that number has reached
  `DownAfter`. Checks that overlap keep it because each reads the state and stores it in
  the one step after its insert (`SavedDown`), except for a recovery, which holds the
  monitor in `Announcing` until it stores a fresh state (`FinishEarned`,
  `OthersCovered`); a tick, a stop or a crash only forgets states (`KeptOrForgotten`).
  `RecoveriesAnnounced`: `RecoveryAnnounced`, which the code breaks, holds if nothing
  throws (`~Faulty`), a check of a monitor ends before its next one starts (`OneAtATime`),
  and a recovery finds an active rule whose cooldown is free (`FreeToAnnounce`; the
  key names the rule only, so that another monitor's recovery takes it). A check that
  dispatches has then claimed a cooldown for this outage (`Told`).
- Error ingestion (`IssueGroupingProofs`). `TypeCorrect`, `AcceptedEventsKept` and
  `CountsExact` from `Inv`: the row lock that keeps the row of a request between its
  select and its update (`Locked`), a merge whose target stays as long as rows were
  moved to it (`MergeHolds`), rows only of accepted requests (`RowsOfDone`), every
  pointer to an inserted issue (`Pointed`), and `CountsBounded`, which keeps counts in
  the range that `TypeOK` gives them although a merge overwrites them. A count is the
  cardinality of a set of requests, which a commit makes larger by one (`OneMore`).
  `OneIssueUnlessTwoAreFirst`: `OneIssuePerFingerprint`, which the code breaks, holds if
  no lookup comes back empty while another request of the fingerprint is between such a
  lookup and its insert (`OneFirstAtATime`): who is about to insert is then alone and the
  fingerprint has no issue (`FirstAlone`), and no merge, deletion or expiry makes one
  (`NothingNew`).
- What else `console` runs (`EndpointsProofs`).
  - `OnlyRacesSpoil`, from `WriteInv`: a reading that no other request has overtaken is
    still true (`FreshReading`), and an object is an incident or the rows of a name
    (`OneObject`).
  - `ApiHolds`. Of every call, the gaps too, from nothing but the checks: a request has
    no scope before its handler answers (`Unscoped`), and the handlers' check gives a
    project's key its own project only (`ScopeIs`). That the others are answered in full
    exactly if their key is entitled to it rests on `TablesFit` and on what a request has
    with it at each stage (`OnItsWay`): however the project was spelled, both spellings
    stand in the query behind the tenant scope, and no alias (`FilledIs`); no such call is
    refused by router or validation unless it names a project by no UUID (`NoneRefused`); whom the guard or the handler turns
    away is not entitled (`GuardRefuses`, `ScopedAnswer`), and who passes hears back on all
    it sent (`AllServed`). For the types every route of the tables is shown to be one
    (`RoutesAreReal`). A table entry that is wrong fails the assumption under TLC; a
    wrong check fails the proof.
  - `ViewsHold`. The percentiles (`PercentilesHold`): the runs up to a duration are the
    first of the sorted list (`RunsAre`), and rounding up gives the least place with so
    many percent below it (`CeilIs`), for any number of runs. The tree (`TreeHolds`), for
    any number of spans and rows: a level is its rows in the only order that goes by start
    and then by arrival (`LevelIs`, ranks being cardinalities), and the same for another
    order of arrival if starts differ (`LevelSame`); every span is reached from the roots
    (`AllReached`), because one that is not, of those the earliest opened, would have a
    parent that is not reached either.
  - `RunsEachPart`, `PartsTypeCorrect`: `MCConsole`'s specification implies that of each of
    its eleven parts, so that what is proved of a part, here or in the two modules it
    extends, holds in the run.
- Clients (`ClientsProofs`). Of the exporter: `TypeCorrect`; `NoSpanForgotten`: what is
  acknowledged, the batch and the buffer are three consecutive stretches of the spans
  exported (`Split`), which every step moves, extends or cuts at an end (`SplitStep`);
  `OnceUnlessAnswerLost`: a batch in flight holds no acknowledged span, so storing it
  again has a lost answer as its cause (`AnswersTell`, `StoreStep`); `DeliveryInOrder`:
  every step is one of `OrderedDelivery` or leaves its variables alone, as what is stored
  was part of a batch and the batch in flight ends where the last one ended or later
  (`Sent`). `ShutdownAtRestFlushes`: `ShutdownFlushes`, which the code breaks, holds of a
  shutdown that is called while no flush is in flight (`CalledAtRest`), since its own flush
  takes all there is (`FlushTakesAll`). Of the log page, `PageTypeCorrect` (a list grows
  by a page only as a request ends, `LengthBounded`) and `OneListInTurn`, from
  `PageInv`:
  - a list on its way is what the search finds under the present setting, or a load was
    asked for since and will replace it (`LatestFits`); an answer holds the members of a
    set with so many before them in the order of its query, each once (`RanksAre`,
    `PageIs`);
  - while the list is the one last asked for and nothing spoilt it (`Settled`), its rows
    are a newest part of what was stored then and its live lines came later (`ListSound`):
    the socket brings lines in their order (`FeedInOrder`);
  - of older rows one request at a time is on its way (`OneOlder`), and what it brings goes
    on where the rows end (`OlderFits`): its offset counts the rows and the live lines
    shown, and those are what the query skips (`SkippedIs`, `OlderGoOn`), unless a line was
    stored meanwhile that the list has not or the offset parts rows of one time, either of
    which marks the request. No order of rows of one time is assumed: each query may put
    them in another.

  `RunsEachClient`, `ClientsTypeCorrect`: `MCClients` runs either client as it is.
- Logs, probes and retention (`LogsProofs`).
  - `SlotsAreCounted`, `LinesAreKept`: `LogInv` says of a buffer (`Sound`) that the
    counter of inserts is the number of those that hold a slot (`Counted`), that a line
    is in exactly one place - not read, in the batch, in one insert, published (`Placed`)
    - and what the table holds of it there (`Told`): nothing while its insert waits, one
    row at most while a retry is pending, and then only if the answer was lost. A stretch
    of code that reads several lines, flushes and wakes a waiting insert takes a buffer
    from sound to sound (`PushedKeeps`, `FlushKeeps`, `ReadKeeps`, `TakeOrAgain`).
  - `StreamKept`: `IntakeInv` has three parts. The bytes held are those after the last
    frame cut (`Framed`), so that headers are read where frames begin; no whole frame is
    left after a read (`NothingWhole`); and a potential (`Metered`): for each line passed,
    the lines passed from it on and the tokens left are within the bucket's size and what
    was refilled since. `StreamIntact` bounds the lines of every stretch of time, and
    follows from the potential at its end.
  - `SubscribersHear`, `ClosingCleansUp`: commands reach Redis in the order in which
    handlers came and went, and the last of a channel says what Redis will think of it
    (`InOrderOfIssue`); who is gone keeps only what was under way when it closed
    (`LeftBehind`).
  - `SocketsClosed`: which sockets a race may still hold at each stage (`InItsRace`).
  - `RetentionTypeCorrect`; `RunsEachPart`: the specification that TLC runs implies each
    part's own, so that what is proved of a part holds in the run; `PartsTypeCorrect`.
- What the console and the endpoints rely on (`ConsoleProofs`), a section a module.
  - `OutagesAreSeen`: nothing is assumed of the order in which the checks of the monitors
    come. A monitor's newest `Failures` checks are among the `Failures` times `PerFailure`
    that the evaluator reads exactly if no more checks of others than the rest lie between
    them (`NthIs`, `PlaceIs`), which is what `Outpaced` denies; then, and only then, an
    outage by the definition per monitor is one by the evaluator (`SeesDown`, `WorstIs`).
    `RulesInv` adds to the types that a page's error status is no success.
  - `LimitsHold`: of the sliding window, the invariant is that there is a time up to
    which hits may have been forgotten, after which all admitted requests are still
    counted, and which lies a whole window before any request to come (`Forgets`); of the
    host's counter, that it counts requests since a time less than a window ago
    (`CounterSound`) and that the memory holds no more than came (`MemorySound`).
  - `CachesSettled`: an entry that is out of date expires within `Ttl` and one query of
    the change (`Timely`), because a lookup in flight read what was current when it began
    or later (`Prompt`); the cache is a Map in order of use, without two entries of a name.
  - `OtlpKeepsItsPromise`: rows of a batch are in the order of its items, posts reach them
    in turn (`RowsInOrder`), and what was answered with 200 is stored (`AnsweredInFull`).
  - `RatesAccount`: there is a record of what had been received at every moment
    (`Recalls`); answers on their way and the shared reading are what the counter read at
    theirs, and until a later one overtakes an earlier, the rates account for no more than
    had been received by the newest (`Accounts`).
  - `MailReports`: what follows the answer "354" to DATA, be it a part of it or an answer to
    what was sent since, has "250" in it only if the server took the message or its text
    says so (`BodyAfterData`), however replies were cut before; while none was, client and
    server take turns (`InTurns`).
  - `TestsRead`: the last delivery used what the stored row and the key make of each field
    now (`ReadAsItIs`), as whatever changes either forgets the delivery; with the key the
    row was written under that is what was saved (`SavedIsRead`). `AlertsUsePlainRows`:
    `AlertUsesSaved`, which the code breaks, holds in every state whose row holds no
    ciphertext in a field the notifier reads besides the target (`HoldsNoCipher`), since an
    alert sends the row as it lies there (`AlertsSendTheRow`).
- Tenant rows (`TenancyProofs`). `ProjectLeavesNothing`, `DeletionOrderIsSound`: rows find
  the rows they belong to (`Closed`), links name rows that are there (`Linked`), and a
  deletion has emptied the tables of the statements behind it unless a row was put in
  meanwhile (`Prepared`). What falls with a statement is closed under the foreign keys
  (`FallsClosed`); that a statement is refused therefore has one of the causes
  `AbortHasCause` names (`HeldHasCause`, over the order of each plan, `PlansAreOrdered`).

Where an argument is by induction on a number - the lines of a read, the frames of a
buffer, the checks of a list - it is made by a least counterexample: a set of numbers
that is not empty has a smallest one (`Smallest`, `SmallestOf`), from the finiteness of
initial segments. So are the values of the recursive functions of the modules
(`PushedIs`, `EndsAre`, `RoundsAre`).

What only TLC checks: liveness under fairness and its premises, which are out of the
prover's reach (`KeepsBeingProbed`, `HealthyMonitorIsCleared`, `CyclesGoOn`,
`PersistentAlertRepeats`, `DeliveredWhenReachable` and the liveness of `logs`); that the
tables of 125 routes and 297 calls fit (`TablesFit`), which is evaluated and has nothing
to generalise; the five violations, each a behaviour. Every safety property and action
property of a passing run is stated by a theorem.

## 6 Not modelled

- Sentry payload parser, formatting, badges, HTML and SVG pages: text to text.
- ANALYZE worker: one statement on a timer, without a result. Worker health and the
  health pinger: a map of times and one comparison; what is wrong with it (a quiet log
  worker) needs no interleaving.
- The reports (dashboard, search, export, uptime charts, token sums): one query each,
  whose SQL a model would only repeat. Their routes are in `ApiRoutes`.
- The other evaluators of the rules engine: one query and a comparison each; in
  `AlertWorker` their outcome is a choice.
- CPU, memory, disk and GPU readings: sampled values, nothing kept between cycles.
- The agent's four inserts: rows of a host without references; its ticks overlap as
  those of `InfraWorker` do, and each sends what it sampled.
- Sign-in of the console (better-auth, external), the guard of outgoing addresses, the
  order of the process's shutdown (one step after another, each modelled in its
  worker), sourcemaps, configuration, logging.
- Console pages other than the log page: each shows the answer of one call.
- Statements within one row's update: Postgres makes them atomic.

## 7 Plan

1. Abstract specifications worth stating: a read-through cache that never serves a
   value older than its entry's age; a log subscription; an incident's lifecycle.
2. With a change of the code that keeps one of the four promises, its theorem is to be
   proved without the condition: `OneFirstAtATime` if issues get a unique index and an
   upsert, `CalledAtRest` if shutdown awaits the flush in flight, `FreeToAnnounce` and
   `OneAtATime` if recoveries are announced per monitor, `HoldsNoCipher` if the dispatcher
   decrypts.

Bounds stay at two or three of each kind and each run at about two minutes or less, so that all
of it can be checked at every change.
