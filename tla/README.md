# gg-relay in TLA+

gg-relay runs Claude agent sessions for many clients: an HTTP API submits a
session, a manager gives it one of a limited number of slots and an executor
(in-process, Docker, Kubernetes job), operators pause, resume, cancel and
approve tool calls, and everything is recorded in a database. This directory
holds TLA+ models of its parts, the TLC runs that check them on small instances
and TLAPS proofs of what matters most for every instance.

Paths below are relative to `src/src/gg_relay/`.

## 1. Inventory

| Part | State | Operations | What is hard | Correct when | Module |
|---|---|---|---|---|---|
| Session manager `session/manager.py` | `_sem`, `_running_tasks`, `_paused_set`, `_paused_holds_slot`, `_paused_by_key`, `_paused_timers`, `_bridges`, `_accepting_new` | `submit`, `_run`, `cancel`, `pause`, `resume`, watchdog, `shutdown`, `retry` | every await is a preemption point; a cancellation may land at any of them; slots are lent out during a pause | slots and per-key counts balance, paused sessions are live, rows follow the lifecycle, sessions end, shutdown returns | SessionManager, SessionLifecycle |
| Startup recovery `session/recovery.py` | none of its own | interrupt running and queued rows, re-arm paused rows | crashes, also during start-up | no row of a dead process looks active | Recovery |
| HITL `session/hitl/coordinator.py`, `api/routers/hitl.py`, `im/router.py` | pending requests, rows | request, resolve, cancel_all | several resolvers, cancellation, tear-down of the bridge | one decision wins, and it is the one delivered and recorded | HITL |
| Runner `session/client.py`, `session/runner/wire_runner.py` | tool-pairing queues, frame counters, pre-run process | conversation loop, permission requests, pre-run commands, guards | callbacks interleave with the stream, equal tool uses, timeouts, signals, lost connections, refused events | results name their request, no frame lost, the outcome told is the outcome | Runner |
| Transports and bridge `session/transport/`, `session/runner/bridge.py` | connections, accept queue, heartbeat counter | handshake, ping, pong, close | strangers, late pongs | the runner serves its host, only silent runners are given up | WireLink |
| Executors `session/executor/` | sockets, containers, Secrets, Jobs, tables | start, stop | a failure or a cancellation at any step | what is left behind is known, and tables name live sessions | Executors |
| Lifespan `api/main.py`, `cluster/factory.py`, `cluster/boot_check.py`, `config.py` | the parts of the process | start up, serve, stop | order of opening and closing, fall-backs, combinations of settings | nobody outlives what it uses, everything is closed | Lifespan |
| Event bus `core/event_bus.py`, `store/durable_event.py`, `api/sse.py` | subscriber queues, events table, streams | publish, subscribe, replay, close | full queues, blocked publishers, replay against live events | stored before seen, no gap, publishers return | EventBus |
| Cluster bus `cluster/redis_bus.py`, `cluster/wire.py` | a Redis stream, a pump per worker | publish, subscribe, pump | crashes of the pump, trimming | once and in order, no gap | RedisBus |
| Tracing and metrics `tracing/` | span tree, clocks, gauges | on_event | classes of events arrive in any relative order, transitions are told late | they end with their session | Observers |
| Alerts and IM `subscribers/`, `im/subscriber.py` | cooldown table, per-class queues | handle, route, send | eviction, hanging calls | one alert per cooldown, cards go out | Alerts |
| Authentication `auth/`, `api/middleware/api_key_auth.py`, `api/routers/admin_keys.py` | key table, a cache and in-flight look-ups per worker | import, resolve, create, revoke | stale caches, cancelled look-ups, racing workers, racing revocations | answers are recent, look-ups are shared, an admin remains | Access |
| Rate limit `api/middleware/rate_limit.py`, `cluster/redis_rate_limit.py` | token buckets, locks | acquire, sweep | eviction, clocks of several workers, Redis not answering | never more tokens than burst plus rate, honest hints | RateLimit |
| Lists and pages `store/repository.py`, `api/routers/sessions.py`, `audit.py`, dashboard | cursors | first page, next page | rows appear, change and vanish between pages | no row twice, none skipped | Listing |
| Favourites, comments, templates `api/routers/` | rows, audit rows | create, update, delete | chains of statements, failing audit | audit and tables agree, deleted is frozen | Collab |
| Credentials `store/user_credentials.py`, submit, retry, batch, reveal | encrypted rows, sessions' environments | put, delete, submit, retry, batch, reveal, key change | unreadable rows, partial failures | a session runs with its caller's credentials | Credentials |
| Retention `maintenance/retention.py` | none | batched deletes | concurrent runs and inserts | only old rows go, all of them | Retention |
| Cost `api/routers/cost.py` | summary cache | summary, per owner, export | role changes, two statements | the answer fits the role | Cost |
| HTTP proxy, migrations, health and drain endpoints, page rendering | request-local | | little | | not modelled |

How they interact. The API and the dashboard call the manager and the store.
The manager drives a session through an executor and a bridge; the runner behind
the bridge asks the HITL coordinator. Frames become rows and events; the bus
carries the events to SSE streams, alerts, cards, spans and gauges, on one worker
(EventBus) or on all of them (RedisBus). Every request passes authentication and
the rate limiter first. The lifespan builds all of this and takes it down; what a
crash leaves is for recovery.

The hazards of this code, each at its line and with the properties that would
catch it, are in `PROJECT.json`.

## 2. Plan

Done: SessionManager over SessionLifecycle, Recovery and HITL with their proofs;
then the event side (EventBus, RedisBus, Observers, Alerts), access (Access,
RateLimit), the tables behind the API (Listing, Collab, Credentials, Retention,
Cost) and the runtime (Runner, WireLink, Executors, Lifespan).

Proved (section 6): every invariant and every action property that a passing run
checks, with the refinement of SessionLifecycle. Eight modules hold the proofs:
SessionManagerProofs, HITLProofs, RunnerProofs, RuntimeProofs (Recovery, WireLink,
Executors, Lifespan), EventsProofs (the event side), AccessProofs (Access, RateLimit),
RecordsProofs (the tables behind the API), and DataLemmas, the facts about
sequences, sets and sums that several of them use.

Left: the properties under fairness, which stay with TLC, and the two hazards
without a property in `PROJECT.json`.

## 3. The modules

Common to all of them: what a coroutine does between two awaits is one step, a
database statement or transaction is one step, and everything outside the
repository (the SDK and its CLI, Redis, Docker, Kubernetes, Feishu, the clients)
may do whatever its interface allows. `Ranking` holds what a database does for
several modules: `Ranked`, the rows of a set by a strict order (`ORDER BY`), and
`Ascending`, the same for numbers; its `Without` is the rate limiter's removal of keys
from an ordered table. They are given by what they return, so that proofs can use them.

### SessionManager

The manager runs on one asyncio event loop, so what a coroutine does between
two awaits is atomic. Every action is one such stretch. `task[s]` is the await
at which the background task of session `s` is suspended:

    none → persisted → created → slot → mkRead → mkWrite (→ mkRetry) → prepare
         → start → rtRead → rtWrite (→ rtRetry) → drive → stop
         → finRead → finWrite (→ finRetry) → flush → done

`persisted` belongs to `submit()`: the row exists, the task does not yet. The
`…Read/…Write/…Retry` triples are `_update_status_locked`: read the version,
write if it is unchanged, otherwise write once more with the version reported.
`finRead` is the first await of `_run`'s `finally` block; `Finally` is the
stretch before it. `Calls` are pause and resume requests, each with its own
suspension point and version anchor. `inbox[s]` holds the directives that the
runner's `ControlLoop` has not handled; `RunnerServes` handles one, and the
acknowledgement and the request's stretch after it are one step, since the
request is woken before anything else the runner does can reach the manager.

`task.cancel()` only puts the session in `cancelReq`; `TaskCancelled` raises
the `CancelledError` where the task is suspended by then, with a different
effect before the first step (the body never runs), while starting, driving,
stopping and finishing. `cancel()`, the watchdog and `shutdown()` share
`CancelBody`.

Abstractions. Statuses are the strings of the code, versions are numbers,
prompts, frames, credentials, audit rows, events and metrics are left out. Every
session has an API key and belongs to the in-process executors or to `Wire`;
the latter get their bridge only when driving starts. A request is issued at
most once per member of `Calls`, which bounds the model; nothing else in it
does. `cancel()` is modelled from its first audit write on, because it reads
nothing before it. `retry()` is a `submit()` with a copied spec and has no
action of its own. The bridge's own shutdown is part of `stop`.

### SessionLifecycle

The promise: a row is created once, its own task takes it out of `queued`, it
alternates between `running` and `paused`, its task writes at most one terminal
status, and one terminal status never replaces another. It is deliberately weak
where the code is: a pause or resume may write to a row whose task is over, and
a task may exit without a terminal row (section 5).

### Recovery

SessionLifecycle plus the life of the process: `Crash` (at any moment, start-up
included) keeps the rows and loses tasks, watchdogs and paused set; the start-up
of `api/main.py` runs `RecoverRunning`, `RecoverQueued`, `ListPaused`, one
`RecoverPaused` per paused row and `BootDone`, in that order and before requests
are served. `CliRecover` is the `recover` command, run while no relay is up, as
its help text asks. Whether `paused_timeout_s` of a row is over is a set
(`expired`) that time adds to.

### HITL

One request from `can_use_tool` to its decision. `asked[r]` is what the runner
knows of it, `fut[r]` the coordinator's `_pending` entry, `row[r]` its
`hitl_requests` row. In-process runners register with the coordinator
themselves; over the wire a `tool.request` frame (`sent`) makes the bridge
register it, and the answer goes back as a frame in `toRunner[s]`, which the
proxy's `consume_loop` reads in order until it reads `shutdown` (`deaf`).

`Resolvers` are calls that answer: the API's single and batch endpoints go
through `ReadVersion`, `CheckRow`, `Resolve` and `WriteRow`, with an await before
each; the IM webhook and the dashboard (`"chat"`) do not read or write the row.
Which id a resolver uses matters: `Hits` is false where the code puts the session
id in front of an id that the wire runner made without it.

A session goes from `live` to `ending` (cancelled, timed out, or at its end),
over the wire to `stopping` (`WireBridge.shutdown`, which a second cancellation
may cut short: `cut`) and to `over` (`executor.stop`). `WireBridge.shutdown` is
one action although it awaits: what a handler does meanwhile is a frame behind
`shutdown`, which the proxy never reads. `_run`'s `cancel_all` after a timeout
comes after `executor.stop`, when no entry of that session is left that it could
match. What the tool is, its arguments, the policy and the reason of a decision
are left out. A row's version is the column's value plus one, zero if there is
no row. The relay is one process, as `api/main.py` builds it.

### Runner

One conversation. `rpc` is where the runner is; `chan` the frames on their way
to the host, each with its number; `perms` and `blocks` are the two queues with
which `_make_runner_core` pairs permission requests and tool blocks, `FirstMatch`
its search. Tool uses of the same `KindOf` cannot be told apart by the code, so
the instance has two equal ones. `misc` counts the other messages of the stream,
among them the synthetic ones that guard B looks for. `PreRun` is
`_execute_pre_run_cmds` with the process, its output and the cap of `OutputLimit`
chunks; a timeout may strike at each of its awaits. `pr` says what became of the
process: a timeout (`expiring`) or a signal (`stopping`) starts the grace period of
`_terminate_proc`, and a second one in that period ends it without the kill
(`left`). `Unwind` is how the exception or the cancellation leaves; it lets go of
the container and of every process in it.

`transport` is `gone` once the connection is lost (`LinkBreaks`) or closed by the
host; from then on a send raises (`SendFails`), and frames on their way may be lost.
`HostStep` is what the host stores (`lost` collects the frames whose number was
taken) and `StatusAtClose` the status `_run` records. `bus` is about the publish that
`_persist_frame` ends with: it raises when a durable event cannot be stored. In
process that ends the drain, and the session is recorded as failed (`Refused`). Over
the wire the frames wait in the bridge's buffer (`due`) until it is stored, in a
`finally`, so a refusal there replaces whatever the end of the session was
(`Ends`). A runner's task that is not done when `_drive_session` asks for it (manager.py:1389)
exists only after `session.end`, since the in-process transport is closed in the
task's last stretch. Hooks number their frames from `HookBase`, a base of their own
as in `hooks.py`. A callback that cannot send has the SDK told of an error and is
not followed further.

### WireLink

`Handshake` is `TcpServer` with its token line and the queue that `accept` reads;
`Strangers` connect beside the host, with a wrong token or none. `Heartbeat` is
`WireBridge._heartbeat_loop` with the pings and pongs under way. A runner that
hangs becomes `silent`. An interval is the time in which a healthy runner answers,
so at most `MissLimit` pings to one that is not silent are unanswered (`InTime`);
that is the assumption under which the property about slow runners holds.

### Executors

`xpc[s]` is the await at which the start or the stop of session `s` is; the
other variables are what exists in the cluster (`secrets`, `jobs`), on the host
(`boxes`) and in the executor's tables (`inflight`, `servers`, `containers`). Every call
may fail, a creation may also succeed without its reply arriving (`unsure`), and
members of `MayCancel` may be cancelled while starting, with their call already at
the server or not (`Reaches`). `containers.run` creates a container and then starts
it: when the start fails, a container that never ran is left, because `AutoRemove`
waits for an exit; `runner` tells it from one that runs. A start that raises between
the bind of the socket and the `try` (its configuration, the Docker client) ends at
`noclient`.
`CollectJob` is the cluster's garbage collector, which goes by owner references
and `ttlSecondsAfterFinished`.

### Lifespan

`open` is the set of parts the process has, `stage` the next thing `lifespan()`
does. `Configs` are the combinations of settings; `down` is what cannot be
reached. `BuildExecutor` is the factory that sessions call, until the manager has
shut down, and that registers a clean-up with each executor. Metrics, logging
and the routes are left out.

### EventBus, RedisBus

In EventBus a publisher suspends only while a row is written and while it waits
for a full durable subscriber; `pub[p]` keeps the list it iterates over and its
position, because the list is live: a subscriber that leaves makes the iteration
jump over its neighbour (`missed`). A client of an SSE stream has the cursor it
resumed from, what it fetched, what it has seen, and in `cut` the rows that a fetch
left out at its limit. In RedisBus the entries of
the stream are numbers in a sequence, a batch of the pump is offered as one step
because `offer()` never waits; the pump's cursor is `"$"` until its first
read. `MaxPumps` bounds its crashes.

### Observers, Alerts

Each class of events a subscriber follows is a log with the positions up to which
its tasks have read it. Queues are taken to be long enough: a subscriber whose queue
overflows (EventBus has that) misses transitions. What the manager publishes comes from
a sketch of SessionManager: `life` is where `_run` is, `ask` where each pause and
resume is between its directive and its publish, `known` the
`_session_states` that the terminal event's `from_state` is read from. A pause or a
resume that was acknowledged publishes whatever happened to the session in the
meantime, and a terminal event may be missing when the `finally` block is cut
short. Recovery writes `interrupted` before anybody subscribes. In Alerts the router's rule, the key of its cooldown
table and the order in which it records and sends are the code's; the table is
an LRU of `LruCap` entries. A call to Feishu succeeds, fails or hangs.

### Access, RateLimit

A key is a label with a row; `own` is false for a row that has the hash of
another raw key. Each worker boots through the import of the environment's keys
and of the dashboard's users, statement by statement, may crash, and keeps a cache
and its look-ups. Time passes in ticks of the cache's lifetime; a look-up takes at
most `MaxLookup`. A request may be cancelled at each await: `CancelLeader` leaves
those who wait for it `stranded`, `CancelWaiter` cancels the future they share (`cut`).
An admin may ask for any label that is free, one of the environment too; `raced`
remembers the labels that were created by hand while an import was about to.
RateLimit counts tokens in sixtieths, so that `RatePerMin` of
them accrue in a second, and both stores are in it; `skew` is what a worker's
clock is ahead. `AcquireUnanswered` is Redis not answering: the request is let
through without a token, so what the limiter limits is tokens, and requests only as
long as Redis answers.

### Listing, Collab, Credentials, Retention, Cost

Listing: one client walks through one of six views, each with its own filter and
authorisation; a row gets its timestamp before it is committed. Collab: every
endpoint is look-up, write, audit and read-back; `trail` counts audit rows and
`lost` the ones that failed. Credentials: a plaintext is a label and a number, a
stored one carries the Fernet key it was made with; a submit merges body, vault and
host, and `Redact` is what the table gets; batches go id by id through every way
an id can fail. `AuditBalances` is about
the endpoints: retention, which deletes old audit rows, is not part of Collab. Retention: a batch is a `SELECT` and a `DELETE`; keys are not
recycled on PostgreSQL (`KeysRecycled`). Cost: `SummariesAge` is the TTL.

## 4. Runs

Every run ends with deadlock checking off: a relay whose sessions are all over
and whose requests are used up really stops.

| Run | Instance | Shows |
|---|---|---|
| SessionManagerSafety | 2 in-process sessions that complete or are cancelled, 2 requests, 1 slot, cap 2 | `TypeOK`, `PausedIsLive`, `KeyLedger`, `SlotsConserved`, `TerminalRewrittenOnlyByRetry`; 1.0 million states up to symmetry |
| SessionManagerShutdown | 2 wire sessions, 1 request, 1 slot, shutdown | `ImplementsLifecycle`, on the shutdown paths too; 0.4 million states up to symmetry |
| SessionManagerLive | 2 sessions, 1 request, 1 slot | `EverySessionEnds` |
| SessionManagerShutdownLive | 1 session, 1 request, shutdown | `ShutdownReturns`, without assuming that any session ends |
| HITL | an in-process and a wire session with a request each, 2 resolvers | `OneDecision`, `RecordedIsDelivered`, `NoGhostEntry`, `RequestsSettle`; 0.4 million states |
| Events | 2 publishers, 2 events, 1 stream, 1 consumer, queues and fetches of one; 2 Redis subscribers, 2 entries, 2 pumps; a session with a tool, a pause and a resume; 3 alerts over 3 ticks, cooldown 2, table of one | `BusInv`, `ResumeHasNoGap`, `PublishReturns`; `RedisInv`; `ObserversInv`; `AlertInv`, `HitlCardsGoOut`; 0.4 million states |
| Access | 2 workers, 4 keys, 2 requests, 3 boots, 2 ticks; a key made by hand during an import; 2 buckets with a cap of one, 5 seconds, 2 clocks | `KeyTableInv`, `ResolverInv`; `LimiterInv`; 0.6 million states up to symmetry |
| Records | 3 rows with pages of one; 2 requests on each table; 3 sessions, 2 Fernet keys, one fault; 2 retention runs with batches of one; 2 payers | `PagesInv`; `CollabInv`, `DeletedIsFrozen`; `CredInv`, `BatchAnswersEveryId`; `RetentionInv`, `YoungRowsSurvive`; `CostInv`; 0.9 million states up to symmetry |
| Runtime | 3 tool uses, two of them alike; a stranger beside the host; 1 container and 2 Jobs with a limit of one; every configuration of secrets and of backends; 2 sessions and 2 crashes | `RunnerInv`, `ConversationInv`; `LinkInv`, `HungRunnerIsNoticed`; `ExecInv`, `JobsAreCollected`; `LifespanInv`; `ActiveRowsAreOurs`, `OrphansAreInterrupted`; 0.4 million states |

Each `…Inv` of a module is the conjunction of its type invariant and of the named
safety properties below, which a comment in the module states one by one:

| Invariant | Parts besides the types |
|---|---|
| `BusInv` | `StoredBeforeSeen`: a durable event is in its table before anybody sees it |
| `RedisInv` | `OncePerEntryInOrder`, `PumpHasNoGap`: over crashes of the pump |
| `ObserversInv` | `SpansCloseWithSession`, `ClocksFollowSessions`: nothing is kept of a session whose end was told, unless it was said to run again afterwards |
| `AlertInv` | `CooldownHolds`, `SuppressedAfterOwnAlert`: the cooldown suppresses what it should and nothing else |
| `KeyTableInv` | `AdminRemains`; `EnvKeysImported`, but for keys behind one that was made by hand under an import's eyes |
| `ResolverInv` | `SingleFlight`, `AnswersAreRecent`: a cached answer was true less than a cache lifetime and a look-up ago |
| `LimiterInv` | `LimitHolds`, `RetryHintSuffices`, `LocksMatchBuckets` |
| `PagesInv` | `NoRowTwice`, `NothingSkipped`, `OneFilterPerWalk` |
| `CollabInv` | `AuditBalances`, `EditorMayEdit`, `UpdatedCommentIsThere` |
| `CredInv` | `CredsAreTheActors`, `StrictNeedsBundle`, `NoRevealUnlogged`, `NoSecretStored` |
| `RetentionInv` | `SweptClean`, `TotalsAreExact` |
| `CostInv` | `AnswerFitsRole`, `TeamCoversOwn` |
| `RunnerInv` | `VerdictMatchesOutcome`; `InProcessFailureIsRecorded`: failed means that the runner failed or the bus refused an event; `PreRunBounded` |
| `ConversationInv` | `ResultsNameTheirRequest`, `FramesKept` |
| `LinkInv` | `RunnerServesItsHost`, `OnlyTheSilentAreGivenUp` |
| `ExecInv` | `NothingLeftBehind`: but for the socket of a start without a client and the container that could not be started; `TablesMatchSessions` |
| `LifespanInv` | `NobodyOutlivesItsSupport`, `StopLeavesNothingOpen`, `StrictBusIsShared`, `CardsCanBeAnswered` |

`ResumeHasNoGap` stands by itself: a stream that resumed from a cursor and follows its
subscription has sent every row behind the cursor, or the row is on its way to it, or
it is one of those the code gives up: dropped by a full queue, jumped over when
another subscriber left, or beyond the limit of the replay or the back-fill. The last
of these was hidden as long as the instance had no more rows than the limit; the
proof for every limit failed on it, the property now names it, and the instance
fetches one row at a time.

Modules that share no state are checked in one run: `part` says which of them a
behaviour is about, so their state spaces add up instead of multiplying. In
MCEvents a session has one pause and one resume, in MCAccess the key that is made by
hand has a part of its own, without crashes. In MCRuntime three scripts bound what a conversation contains: all tool uses, the
sources of frame numbers, and the pre-run commands with the guards. Connections are
lost, and runners go on after the host has left, in the third. In MCRecords a
request of a behaviour belongs to one table.

Why the bounds are enough. Two sessions on one slot are what contention needs: one
waits while the other is paused. Two requests are a pause and a resume, two racing
pauses or two racing resumes. Versions stay small because each request writes at
most once. `Outcomes` bounds how a session ends by itself; the runs other than
SessionManagerSafety allow all three. Two crashes include a crash during the
start-up that follows a crash. Queues and tables of one element make full queues,
evictions and last pages the normal case. Two ticks with a cache lifetime and a
look-up time of one hold a stale answer and its end. Two equal tool uses
are the smallest instance in which pairing can go wrong, a third of another kind
stands between them. A limit of one Job with two Kubernetes sessions makes the
limit matter. Sessions, requests and jobs are interchangeable where symmetry
is used, and no run with a liveness property uses it.

Fairness. `LoopFairness`: the event loop runs every ready coroutine, so each
step of a task, a request and shutdown is weakly fair; `asyncio.Semaphore`
serves its waiters in order, so a task that can get a slot again and again gets
one (strong fairness on `AcquireSlot`); a request's wait ends by its
acknowledgement or by its timeout, so `CallStep` includes the timeouts.
`TimeoutFairness`: `asyncio.timeout(timeout_s)` ends every drive. No fairness is
assumed of clients, of runners or of cancellations. In Recovery the operator
restarts a dead relay, start-up proceeds, and time passes. In HITL the awaiter of
a future that is set runs, frames reach the runner, and the tear-down of a
session that ends goes on; nobody has to answer, to finish answering or to end a
session. `BusFairness`: a publisher goes on, by its timeout if nothing else wakes
it; consumers owe nothing. `AlertFairness`: the consumer of approval cards and its
own calls go on, other calls may hang. `LinkFairness`: the heartbeat loop runs and
pongs that were sent arrive; a hung runner owes nothing. `ExecFairness`: a stop or
a roll-back that has begun goes on, and the cluster collects what it may.

## 5. Where the code and its documentation disagree

Three have a run in which TLC finds the counterexample, and a finding with the
quoted line in `PROJECT.json`.

| Run | Counterexample |
|---|---|
| OverRelease | pause, cancel: `_paused_holds_slot` forgets that the slot was lent, and `_run` gives it back a second time |
| FailedRun | the runner of a wire session fails, its transport closes, nobody reads the error frame or the exit code: the row says `completed` |
| ValidBoot | `rate_limit_backend=redis` and a reachable Redis: `start_sweep` does not exist on `RedisRateLimitStore`, and start-up fails |

The modules state more such promises, each refuted by TLC on an instance of its
module:

| Property (module) | The code says | Counterexample |
|---|---|---|
| `PausedWithinCap` (SessionManager) | manager.py:1398 "Enforce max_paused" | two pauses pass the cap check before either enters the paused set |
| `QueuedCancelSettles` (SessionManager) | manager.py:734 cancelling "transitions the row to cancelled" | cancel before the task's first step: the body never runs and the row stays `queued` |
| `TerminalIsFinal` (SessionManager) | docs/architecture.md:57 "invalid transitions raise" | a pause whose write lost the race to the terminal write repeats it and turns the row back to `paused` |
| `OrphanedPauseSettles` (Recovery) | recovery.py:146 "so the row settles deterministically" | a relay crashes while a session is paused: neither start-up nor the re-armed watchdog ever writes the row again |
| `ConflictMeansAnswered` (HITL) | hitl.py:106 409 means "another caller won the race" | the API looks for another id than a wire session's request has, and answers 409 while the request waits |
| `EverySubscriberIsServed` (EventBus) | publish: "to every current subscriber" | a subscriber leaves while a publisher is blocked in the list, and its neighbour is jumped over |
| `ReconnectReplaysMissed` (EventBus) | "the SSE Last-Event-ID cursor replays from the store" | an event sent live carries an id without its row's number, so a client that reconnects with it is replayed nothing |
| `ClosedStreamIsUnsubscribed` (EventBus) | sse.py's finally: "Drop the subscription" | a stream that closes before its iterator ran stays registered |
| `BackpressureNotDrop` (RedisBus) | "blocks the fan-out pump instead of silently dropping events" | the oldest entry of a full queue is dropped |
| `ClocksAreCleared` (Observers) | metrics_subscriber.py:64 start times are "Cleared at the terminal transition", what is left "is bounded by the SessionManager's own state-machine guarantees" | a resume is acknowledged, the session is cancelled and its terminal event published, then `resume()` (manager.py:925) publishes RUNNING: a start time and a span of an ended session that nothing ends |
| `ToolSpansCloseWithSession`, `GaugeCountsRunning` (Observers) | _terminate's comment; the gauge's help text | a call that is read after the terminal transition opens a span nobody closes; a paused session stays in the gauge |
| `FailuresReachTheRouter` (Alerts, Redis backend) | cluster/wire.py: "the same as durable replays" | a decoded event has another class than the failure subscriber filters for |
| `WaitersAreServed` (Access) | db_resolver.py:109 the clean-up is such that "a thrown exception doesn't strand future waiters" | two requests share a look-up and the client of the first disconnects: `except Exception` (line 135) does not see the `CancelledError`, and the second waits for ever |
| `LastAdminStays`, `DashboardKeysPass` (Access) | revoke_api_key; start-up's upsert | two revocations count before either writes; a dashboard user whose label has an old row gets it revoked, and creating the new one conflicts with it |
| `UpdatedTemplateIsThere` (Collab) | templates.py: "guaranteed non-null" | a template is deleted between update and read-back, and the assertion fails |
| `RetryReusesSpec` (Credentials) | retry: "reusing the original's spec" | the table has the redacted spec |
| `JobsWithinLimit`, `CancelledStartLeavesNothing` (Executors) | k8s_job.py's docstrings | two starts pass the check together; a start that is cancelled has no handle to stop |
| `AuditLogComplete` (Runner) | "keeps the wire-frame audit log complete" | the number of a pause.ack collides with one of the runner's |

Met while modelling, without a property of their own:

- A resume that is acknowledged after another one has already taken the session
  out of the paused set (which takes a pause whose acknowledgement timed out in
  between) leaves a slot without an owner; this is why `EverySessionEnds` excepts
  behaviours in which slots were lost and `SlotsConserved` names that step. In the
  same way a pause that is acknowledged for a session which is paused already counts
  a second time for its key (manager.py:821; only the slot is guarded, in line 822),
  and the key keeps less room than it has paused sessions for. It takes three
  requests, two pauses and a resume between them whose acknowledgement timed out; the
  proof of the per-key count failed on it, and `KeyLedger` now names that step. A pause
  whose write loses the version race twice leaves the session paused without
  watchdog. A submit that passed the `_accepting_new` check before `shutdown()` may
  create its task after `shutdown()` returned. A second cancel during the `finally`
  block skips the terminal write and the row of the ended session stays `running`.
- `cancel_all(session_id)` never finds a request of a wire session, since the bridge
  registers it without one; and a bridge whose shutdown is cut short leaves entries
  behind that only `shutdown()` of the relay removes (`NoGhostEntry` excepts it).
- Runner: the `shutdown` frame sets a flag nobody reads, so containers are always
  killed after their grace period; `wire_runner`'s docstring promises a
  `session.end` on SIGTERM that the cancellation branch does not send; a stream that ends without
  a result is recorded as completed; the error frame after a pre-run timeout reuses
  the number of the chunk before it; wire frames are stored only when the bridge
  ends; nothing in the manager listens to the heartbeat's verdict. Nobody catches
  `DurableEventDropError` while frames are stored: a session in process is recorded as
  failed whose runner completed, and over the wire the rest of the buffer is not
  stored (`InProcessFailureIsRecorded` and `FramesKept` name these cases). A second
  timeout or signal while `_terminate_proc` waits skips the kill, and a lost
  connection leaves the process of a pre-run command too (`PreRunBounded`).
- Executors: a creation whose reply is lost leaves its Secret or its container. A Docker
  client that cannot be built leaves the socket bound and in `_servers`; a container
  that was created and cannot be started is left on the host (`NothingLeftBehind`
  names both).
- Events: replay and back-fill stop at 1000 rows; a restarted pump begins at `"$"`; a
  failed alert starts its cooldown all the same.
- Access: a waiter that is cancelled cancels the others, and their requests end
  without an answer; a key made by hand under a label of the environment makes the
  import of a worker that is about to insert it give up on the labels that follow
  (`EnvKeysImported` names it); while Redis does not answer, nothing is limited (by
  design: redis_rate_limit.py:139); `KeyInvalidated`
  is never published, so a revoked key lives on until the caches of the other workers expire; a revoked
  label can never be created again (409), contrary to `create_api_key`'s docstring.
- Lifespan: strict mode does not apply to the limiter; a failed start-up closes nothing;
  `multi_worker` without strict mode serves with a private bus when Redis is
  unreachable, contrary to the boot check's promise.
- Tables: the audit row of a change is another transaction; the per-owner limit of
  the cost report applies before the owner filter, and the team's total ignores the period;
  batch cancel answers ok for a session of another worker; `delete_session` answers 404
  to some callers although it "always returns 202"; SQLite uses ids again.

## 6. Proofs

Every theorem holds for all values of the constants that satisfy the assumptions of
its module. Each rests on an inductive invariant, whose parts are defined beside the
properties (or, where they only repeat types, in the proof module) and were checked
by TLC before they were proved.

### SessionManagerProofs

- `TypeCorrect`: `Spec => []TypeOK`. Besides the types it says that neither the
  semaphore nor a per-key count becomes negative.
- `ManagerInvariant`: `Spec => [](TypeOK /\ ManagerInv)`, the inductive
  invariant. `PausedIsLive` alone is not inductive: that an acknowledged pause
  finds a live task needs to know that a directive in an inbox belongs to a
  request of that session which is under way (`DirectivesOwned`), that such a
  request once found a bridge (`CallsOwned`), and that what a task owns is a
  function of where it is suspended (`TaskOwns`). `holdsSlot = pausedSet` ties
  the slot ledger to the pause ledger.
- `PausedSessionsAreLive`: `Spec => []PausedIsLive`, from it.
- `SlotAccounting`: `Spec => SlotsConserved`. Each action changes the two sets
  of owners by at most one element; lemmas give the effect on their
  cardinalities.
- `KeysNeverUndercount`: `Spec => []NeverUndercounts`, a count is at least the number
  of the key's paused sessions; without it a decrement that stops at zero could not
  be told from one that is lost. `KeyAccounting`: `Spec => KeyLedger` from it.
- `TerminalRowsAreGuarded`: `Spec => TerminalRewrittenOnlyByRetry`. `RowsInv` says
  which status a row may have at each point of its task, `AnchorsInv` that the version a
  request has read is out of date once the task has written the end.
- `ManagerImplementsLifecycle`: `Spec => ImplementsLifecycle`, the refinement, one
  step of SessionLifecycle or a stutter for each action, from the same invariants.

### HITLProofs

- `HITLTypeCorrect`, `OneDecisionHolds`, `NoGhosts`: `Spec => []TypeOK`,
  `[]OneDecision`, `[]NoGhostEntry`, from `HITLInv`. `OneDecision` is not
  inductive: that a second resolver cannot win needs to know that an open future
  has no winner yet and that a request is opened only once (`EntriesInv`); that an
  approval is a winner's must hold on every leg of its way, the future, each frame
  and the row (`ApprovalsInv`); and a winner must be known to keep what it won
  with (`CallsInv`, `WinnersStay`). `TornDownInv` is what `NoGhosts` needs.
- `DecisionsAreDelivered`: `Spec => []RecordedIsDelivered`. The property speaks of
  the ends of the way; `DenialsInv` says of each leg that a denial on it has a
  reason, a winner who denied or a session that is being torn down.

### RuntimeProofs: Recovery, WireLink, Executors, Lifespan

- `RecoveryInvariant` and `NoOrphanLooksActive`: `Spec => [](TypeOK /\ BootInv)`
  and `[]ActiveRowsAreOurs` from it, `Spec` being that of Recovery. `BootInv`: until start-up is through there is
  no task, and each of its steps leaves one active status behind.
- `LinkIsExclusive`: `LinkSpec => []LinkInv`. `HandshakeInv` relates the accept queue
  to the connections, `HeartbeatInv` says that while the runner answers a miss is a ping or
  a pong on its way. `NoConnAssumption` only keeps the mark for "no connection" apart.
- `NothingIsLeaked`: `ExecSpec => []ExecInv`. What a start or a stop holds is a
  function of the point it has reached (`PointsInv`, `HoldingsInv`): a container whose
  runner never ran belongs to a start that failed or was cancelled. `StartedInv`: a
  start on its way has its socket, and no container before it asked for one.
- `LifespanIsNested`: `LifespanSpec => []LifespanInv`. `StageInv` gives the parts that
  are open at each stage of start-up and of the finally blocks.

### RunnerProofs

- `RunnerEndsAreTold`: `RunnerSpec => []RunnerInv`. `EndInv` says which of the frames
  that end a session may have been sent at each point, and that in process the host
  ends with a refusal, after `session.end`, or when the runner is done.
- `ResultsAreNamed`: `RunnerSpec => []ResultsNameTheirRequest`. Pairing works because
  one queue lists exactly the uses that were asked for and not yet shown, the other
  the ones shown and not asked for, both in the order of the uses (`PairInv`). Equal
  uses are told apart by order alone, so the invariant speaks of the sequences, not
  of sets.
- `FramesAreKept`: `RunnerSpec /\ []CountersApart => []ConversationInv`. Hook frames
  are numbered from `HookBase` on and the runner's from zero; `CountersApart` says
  that the runner has not come that far. `HookBase` is 900 000 (hooks.py:66), so it
  holds in sessions with fewer frames than that, and it cannot be dropped: beyond it
  the numbers do collide. `NumberInv`: every number in use was given out by one of
  the two counters, and none twice.

### EventsProofs: EventBus, RedisBus, Observers, Alerts

- `BusInvariant` and `ResumeInvariant`: `BusSpec => []BusInv` and `BusSpec =>
  []ResumeHasNoGap`, from one inductive invariant. A row a stream has not sent may be
  in its queue, in what it fetched, or in the hands of a publisher that has not reached
  the stream in its list yet; the list changes under the publisher, so the
  invariant says where in the list the stream is (`Waits`), and that a stream is
  registered before it fetches (`Follow`). That a replayed row is not another
  publisher's needs ids to be unique (`IdsInv`). `SubsAssumption`: the subscription of a
  connection is no other consumer's.
- `RedisInvariant`: `RedisSpec => []RedisInv`. `CursorInv`: whatever a subscription
  was ever offered comes no later in the stream than the entry the pump reads after,
  also after a restart at `"$"`; hence nothing comes twice.
- `ObserversInvariant`: `ObsSpec => []ObserversInv`. `LogInv`: a session's end is told
  once at most, after it ended, and a session that runs was said to. `ReadInv`: open
  roots and clocks are a function of the part of that log that was read: a RUNNING
  which no end follows (`OpenAt`).
- `AlertsInvariant`: `AlertSpec => []AlertInv`. `TableInv`: an attempt is remembered by
  an entry behind which only later kinds stand, or `LruCap` other kinds came
  after it. What is evicted is the oldest entry, so an attempt is forgotten only
  then.

### AccessProofs: Access, RateLimit

- `AnswersAreBoundedlyStale`: `AccessSpec => []ResolverInv`. An answer is as old as
  the row a look-up read, the look-up's duration and the time in the cache; the
  invariant carries "this was true at some time since t" through all three
  (`LookupInv`, `CacheInv`, `AnswersInv`), bounds the age of the last (`CacheFresh`),
  and knows that one look-up leads per key and worker (`LeadersInv`) and that whoever
  waits has a leader whose future is not done (`FlightInv`).
- `KeyTableIsKept`: `AccessSpec => []KeyTableInv`. `AdminsInv`: while a
  revocation is between its count and its write, an admin other than its target
  remains. `ImportInv`: a key of the environment without a row is still ahead of
  some worker that will not lose a race before it, or behind one that was made by hand
  under the eyes of an import (`raced`). `DashInv` and `AsksInv` are what the
  dashboard's upsert and an admin's request know of their targets.
- What the assumptions leave out. `KeysAssumption`: the environment and the
  dashboard's configuration do not share a label; where they do, start-up revokes the
  row its import made and cannot create another under that label
  (`api/main.py:601-632`). Keys made by hand may have any label. `TableAssumption`:
  the table a relay starts on is one that a relay left, without an admin's row
  under a dashboard user's label, which start-up would revoke without asking
  whether it is the last.

- `LimiterInvariant`: `RateSpec => []LimiterInv`, both stores and any clock skew.
  `Covered`: the grants since any one of them and what the bucket still holds are paid
  for by the burst and by what accrued until the last refill; `Floored`: a clock that is
  behind takes back no more than `MaxSkew` seconds' worth; `Rested`: a bucket that
  was dropped had been idle for so long that a full one owes nothing, which is where
  `RateAssumption` (the idle lifetime is enough to fill a bucket) is used. What was
  granted to a key before its bucket was evicted for space is not counted, nor are
  requests that Redis did not answer, which take no token.

### RecordsProofs: Credentials, Retention, Collab, Listing, Cost

- `CredentialsStayTheirOwners` and `BatchesAnswerEveryId`: `CredSpec => []CredInv` and
  `CredSpec => []BatchAnswersEveryId`. `TablesInv` says whose values each stored
  environment holds, `RequestsInv` the same of what a request has in its hands
  between two statements, and how far its list of answers is. `CredentialsAssumption`
  numbers the sessions, `CallsAssumption` is the shape of requests.
- `OnlyTheDueIsDeleted`: `RetentionSpec => YoungRowsSurvive`, and `SweepsAreComplete`:
  `RetentionSpec => []SweptClean`, both assuming `KeysRecycled = {}`. `SelectionInv`:
  the keys a batch selected name rows that were due, or nothing any more, which
  holds because a key is never given to another row (`KeysAreFresh`). Without the
  assumption both are false: SQLite gives the highest key of `audit_log` out again,
  and the batch deletes a row that was inserted after its SELECT. `SweepInv`: the
  tables a run has left behind hold nothing that was due.
- `RetentionInvariant`: `RetentionSpec => []RetentionInv`, under the same assumption.
  `Tallied`: the totals of the real runs, at every point, add up to the rows deleted so
  far. It needs `SumAdds` of DataLemmas and that only a real run reaches a DELETE.
- `PagesInvariant`: `ListingSpec => []PagesInv`. `WalkOk`: the cursor names the last row
  returned, what was returned is in order, and every row that matched all
  along was returned or is behind the cursor (`Owed`). A row's timestamp may be
  older than its commit, so rows that appear after a walk began are not owed.
- `CostInvariant`: `CostSpec => []CostInv`. `AskFits`: the own total a request read in
  its first statement is not more than its caller has spent by the second, because
  costs are only added; the team's total is then no less (`SumCoversTerm`).
  `SummaryFits`: what is cached under a role was made for that role.
- `EditsAreAccountedFor`: `CollabSpec => []CollabInv`, assuming `Dialect =
  "postgresql"`; on SQLite a template's id may be used again between the check
  of its creator and the write. `Balances`: rows, audit rows, lost audit
  rows and the requests between the two statements add up for each table
  (`Unaudited`), by cardinalities of finite sets; `WriterMayEdit` and `CommentIsThere`
  carry what was checked to the statement that relies on it.
- `DeletedCommentsAreFrozen`: `CollabSpec => DeletedIsFrozen`, on both databases.

### DataLemmas

Facts that several proofs use: the least element of a set of numbers, removing from
and appending to sequences without repetition, the order `Ranked` returns, and sums.
The prover cannot instantiate the library's induction theorems, but it can use that
a set of natural numbers which is not empty has a least one (`LeastNumber`, from
`WFMin`): a claim about every n holds if its counterexamples have no least. `SumIs`
shows in this way that the fold by which a sum is defined counts the cells of a bar
chart (`Cells`), from which `SumAdds`, `SumCoversTerm` and the others follow by
cardinalities.

### Only model-checked

Liveness (`EverySessionEnds`, `ShutdownReturns`, `OrphansAreInterrupted`,
`RequestsSettle`, `PublishReturns`, `HitlCardsGoOut`, `HungRunnerIsNoticed`,
`JobsAreCollected`) needs fairness and `ENABLED`, which the prover does not support.
`RetentionInv` where keys are given out again and `CollabInv` on SQLite are
not theorems: some of their parts are false there, as said above.

## 7. Not modelled

`PROJECT.json` has every part with its reason. The HTTP proxy, the health and
drain endpoints, page rendering, the forms of the dashboard that repeat an API
route, the text of cards and log lines, the task-trace files, metrics that only
count, the ranking of search results, redaction patterns, byte-stream framing and schema migrations
have no state of their own or no steps that could interleave. `Persist` of EventBus takes
a row's sequence number and commits it in one step. SQLite does so under a lock; on
PostgreSQL (durable_event.py:136-150) two inserts may commit in the other order, and a
stream whose replay ran between the two passes over the later one, which
`ResumeHasNoGap` does not show. Behaviours of two
relay processes on one database are modelled where the code supports several
workers (Access, RedisBus, RateLimit); the manager, HITL and recovery are models of one
process, and `gg-relay recover` is only run while none serves.
