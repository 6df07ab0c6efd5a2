# TLA+ verification of snmp-olt-zte

`snmp-olt-zte` is a Go service in front of ZTE OLTs. It reads ONU data over
SNMP, caches lists in Redis, listens to SNMP traps, and turns them into webhook
notifications. The set of OLTs and the webhook can come from a *device-registry*
and change while the process runs.

This directory models the parts of it where goroutines, failures and ordering
matter, and the arithmetic that the rest relies on. Paths below are relative to
`src/`.

## 1. Inventory

| Component | State it keeps | Operations | What is hard | What makes it correct | Model |
|---|---|---|---|---|---|
| SNMP connection pool (`internal/repository/snmp.go`) | channel of connections, semaphore channel, atomic `closed`, `sync.Once` | Get, Walk, BulkWalk, Ping, Close | no mutex: a release races with `close(pool)` and may panic | every socket has one owner and is closed once, never under an exchange; nobody blocks forever | `SnmpPool` |
| OLT registry and poller (`app/registry.go`, `config/registry.go`, `config/olts.go`) | map id → stack, and per stack a context, a worker count and a WaitGroup | Reconcile, GoForEach, GetDefault, Close, the poller | a pool must outlive the workers on it; polls fail, come back empty, or are late | workers never see a closed pool; no pool is forgotten; the map follows the list | `OltRegistry` |
| Event classification (`internal/trap/handler.go`, `formatter.go`, `internal/utils/extractor.go`) | none | SNMP integers → names → event type → severity | three tables that must agree; a search by substring | every alert has a queue; specific reasons are not shadowed | `TrapEvents` |
| Trap handler, batcher, power monitor (`internal/trap/handler.go`, `batcher.go`, `power_monitor.go`) | a queue per severity, the monitor's `alerted` map | HandleEvent, Add, Remove, flush, scan, Close | a flush verifies without the lock, through a lookup shared with others | an abnormal ONU is queued or notified, once, in the right severity | `TrapPipeline` |
| ONU cache (`internal/usecase/onu.go`, `internal/repository/redis.go`) | three Redis lists per PON, singleflight calls | list, serial list, unused ids, forced update, delete, invalidate | walks finish in any order and are saved late; joins by key | a `nocache` read is live; a key is saved in order; every caller gets its result | `OnuCache` |
| Webhook settings (`app/webhook.go`, `internal/trap/webhook.go`, `webhook_active.go`) | the active client; the refresher's last settings | startup, refresh, send with retries | fetches fail; the client is replaced while it sends | what the registry keeps is installed in the end | `WebhookConfig` |
| Trap listener (`internal/trap/listener.go`) | the event under construction | handleTrap | variables in any order, several indexes in a packet | an event is about one ONU that its packet names | `TrapListener` |
| OID generator and board layout (`config/oid_generator.go`, `config/config.go`, `internal/middleware/validation.go`) | the board/PON map | parse `OLT_BOARDS`, generate, validate | arithmetic in two index spaces, edge values, three copies of the port count | encode and decode are inverse; validation and map agree | `OidCodec`, `BoardLayout` |
| Health checker (`internal/health/health.go`) | a cached result and a mutex per dependency | Check | requests wait for each other's probes with an old clock | answers are recent and have a cause; no probe storm | `HealthChecker` |
| Requests on the registry (`app/routes.go`, `app/default_fetcher.go`, `app/registry.go:364-378`) | the read-write lock, the entry each request holds, the flight of each stack, Redis | resolve, list, HealthCheck | a request works on its entry without the lock; HealthCheck keeps the lock during pings | only what cannot be helped disturbs a request; it is answered | `OltRequests` |
| Startup of the device-registry (`config/registry.go`) | deadline, backoff | fetch, sleep | pause and timeout at the end of the window | a registry that is up in time is found | `RegistryStartup` |
| List of OLTs (`config/olts.go`, `config/config.go`) | the configurations | parse, fill in, compare | the startup has an environment and a poll has none | the same list means the same stacks | `Inventory` |
| Process lifecycle (`app/app.go`, `pkg/graceful/graceful.go`, `cmd/api/main.go`) | what was started, deferred calls, the HTTP server | start, SIGTERM, drain, close, exit | 256 configurations, waits without a limit, a drain with one | users are closed first; handlers get their time; SIGTERM ends it | `AppLifecycle` |
| Uplink topology (`internal/usecase/uplink.go`) | columns of six walks | GetUplinkTopology | the walks are joined by index while the hardware changes | on quiet hardware, exact | `Uplink` |
| Pagination (`pkg/pagination`, `internal/usecase/onu.go:727-750`, `internal/handler/onu.go:296-361`) | none | page, meta data | slice from raw numbers, meta data from clamped ones | the pages partition the list | `Pagination` |
| Client address (`internal/middleware/client_ip.go`) | the hop of the walk | ResolveClientIP | what a client may have written | the address is vouched for | `ClientAddress` |

Not modelled, and why:

- *Formatters and infrastructure packages* (Redis and SNMP clients, logging, metrics,
  tracing, Sentry): wording, layout, construction of clients; no control of their own.
- *HTTP handlers*, in part: decoding and encoding, the static routes, the handlers that
  send a test message. What handlers do to shared state are actions of the models
  (`Call`, `ClearBegin`, `ClientGet`, `Check`, `Arrive`, `GetPage`).
- *Middleware*, in part: API keys, CORS, headers, request ids and logging keep no state,
  and the rate limiter is the token bucket of a library.
- *Configuration loading*, in part: variables that are read once and passed on.

How the components interact: a trap goes from `TrapListener` to the handler of
`TrapPipeline`, which reads the ONU live through the default OLT of
`OltRegistry`, whose exchanges take a connection from `SnmpPool`. A flush does
the same and then sends with the client that `WebhookConfig` has installed.
Requests read through `OnuCache`. `/readyz` goes through `HealthChecker`.
`TrapListener` and `TrapPipeline` share `TrapEvents`; `TrapListener` and
`BoardLayout` share `OidCodec`. `OltRequests` extends
`OltRegistry`, `AppLifecycle` extends `RegistryStartup`, and `SnmpPool` implements `ConnLease`. The other interfaces are abstracted on both
sides: a lookup in `TrapPipeline` may fail, as it does when the pool is closed.

## 2. Modules

| Module | Contents |
|---|---|
| `ConnLease` | what the pool promises: connections are leased (abstract) |
| `SnmpPool`, `MCSnmpPool`, `SnmpPoolProofs` | the pool, its refinement of `ConnLease`, its instance, its theorems |
| `OltRegistry`, `MCOltRegistry`, `OltRegistryProofs` | the registry, its instances, its theorems and those of `OltRequests` |
| `OltRequests`, `MCOltRequests` | requests, HealthCheck and the lock; EXTENDS `OltRegistry` |
| `RegistryStartup` | the retry loop of the startup |
| `AppLifecycle`, `MCAppLifecycle`, `AppLifecycleProofs` | main, Start and graceful.Shutdown; EXTENDS `RegistryStartup`; the theorems of both |
| `Inventory` | from the entries of the list to what Reconcile compares |
| `Uplink` | the six walks and their join |
| `Pagination`, `ClientAddress` | a page; the walk over X-Forwarded-For |
| `MCDataPaths` | one instance of `BoardLayout`, `TrapListener`, `Inventory`, `Uplink`, `Pagination` and `ClientAddress` |
| `DataPathsProofs` | the theorems of these six and of `OidCodec` |
| `TrapEvents` | operators of the classification; `TrapPipeline` and `TrapListener` extend it |
| `TrapPipeline`, `MCTrapPipeline`, `TrapPipelineProofs` | handler, batcher and power monitor; EXTENDS `TrapEvents`; its theorems |
| `OnuCache`, `MCOnuCache`, `OnuCacheProofs` | the caches of one PON; its theorems |
| `WebhookConfig`, `MCWebhookConfig`, `WebhookConfigProofs` | the active webhook and a payload; its theorems |
| `OidCodec` | `GenerateBoardPonOID` and `parseOnuIndex` |
| `BoardLayout`, `MCBoardLayout` | `OLT_BOARDS` to the map |
| `TrapListener` | `handleTrap`; EXTENDS `OidCodec` and `TrapEvents` |
| `HealthChecker`, `MCHealthChecker`, `HealthCheckerProofs` | the readiness probe; its theorems |

A definition whose name begins with `Mut` is a plausible bug in the definition
that follows it. It is used nowhere; replacing the definition by it must violate
the property that is paired with it in `PROJECT.json`, where `map` also gives
the lines of code that each definition stands for.

### How state and actions correspond to the code

**SnmpPool.** `pool` is `r.pool`, `chanClosed` says that it is closed, `sem` the
tokens in `r.sem`, `closed` the flag. An operation goes through `EnterSem` (send on
`r.sem`), `AcquireCheck` (load of the flag), `AcquireRecv` (receive, which also
wakes on the closed channel), `Exchange`, `ReleaseCheck`, `ReleaseSend` (the send, or
the recovered panic that closes the socket) and `LeaveSem`. Close is `CloseFlag`,
`CloseChan` and one `CloseDrain` per connection. `made` is the subset of
connections that the constructor could open.

**OltRegistry.** What `reg.mu` makes atomic is one action: `Reconcile` (used by
`Boot` and `PollApply`), `GoForEach`, `CloseRegistry`, `GetDefault`. What happens
outside the lock is separate: a worker that returns decrements `active`
(`WorkerReturn`) and later calls `Done` (`WorkerDone`), and the goroutine that
`retireEntry` leaves behind closes the pool (`Reap`). A poll is a request
(`PollTick`) and what is done with its answer (`PollKeep`, `PollApply`), so that
the answer may be old. A stack is the n-th one built for an OLT, and a lifecycle (the
context, the worker count and the WaitGroup) is named like the stack it was made for; an entry
refers to both, and the copy that a metadata change makes has to keep both.

**ConnLease.** An operation has a lease while its `conn` is set; a connection is open
from the constructor until its socket is closed; the pool is shut when Close returns.
`GiveBack` is a release that reached the channel, `CloseOwn` one that did not,
`CloseIdle` a turn of Close's drain. The semaphore and the flags are gone.

**OltRequests.** The steps of `OltRegistry` are divided into those that take the
lock (`Locked`) and those that do not (`Unlocked`). `probe` is a HealthCheck between its
`RLock` and its return; `writer` is a `Lock` that has been called and waits, which keeps new
readers out, as Go's RWMutex does. A request is sent, has found its entry (`Resolve`, with
the owner's check), waits on the flight of its stack, and is done. The flight is
GetByBoardIDAndPonID: `FlightRead`, `FlightWalk`, `FlightRows`, `FlightSave`. A list is the
device and the stack it was read with and whether its rows were cut short by a closed pool,
in a flight, in Redis and in an answer alike.
`disturbed` and `listed` are no state of the program: they say what has happened to the
request's OLT since the request began.

**RegistryStartup, AppLifecycle.** `pc` is where Start is; `stack` holds the deferred calls,
`closed` those that have returned. A part that the configuration does not ask for is
skipped as in the code, and Start returns early when there is no list, when no OLT
could be connected, and when the server fails. `Sigterm` kills a process that has not
called `signal.Notify`. The startup's clock counts seconds; that of requests and of the
drain counts tens of seconds, so that the limits 10 s, 30 s and 90 s are 1, 3 and more than 3.

**Inventory.** An entry is a record with the fields whose absence or range matters.
`Startup` builds with the environment and the legacy OLT, `Poll` without either, and
`Apply` is Reconcile as far as it decides which stacks to keep.

**Uplink, Pagination, ClientAddress.** One step per walk, per request, and per hop.
Integers of `Pagination` end at `MaxInt`, 2^63 - 1 in the code, and wrap.

**TrapPipeline.** Each section of the batcher that holds the mutex is one action
(`HandleEvent` with Add and Remove, `FlushBegin`, `FlushRead`, `FlushCleanup`,
`FlushMark`), and the SNMP reads between them are the steps of a singleflight call
per ONU (`StartFetch`, `SnmpRead`, `FlightReturn`). A condition of an ONU carries a
number, `ver`, which is no state of the program: properties use it to say that an
observation is older than something else. Time is whether an interval has elapsed
(`RepeatElapses`, `AlertElapses`). `Shutdown` follows the deferred calls of `Start`.

**OnuCache.** A job is a singleflight call or a background refresh: look at the
cache (`CacheCheck`), look at the remaining TTL (`CheckTTL`), walk (`Walk`), save
(`Save`), return to everyone who shares it (`Return`). An empty list is a nil
slice, saved as `null`, and `null` is no hit; that is `IsHit`. A clear deletes two
keys in two steps (`ClearKey`).

**WebhookConfig.** `initWebhook` and the start of the refresher each fetch the
settings (`Fetch`), and each poll compares with the last ones (`Reload`). A failed
fetch yields the settings of the environment. A payload begins with the active client (`Send`);
each POST (`Attempt`) goes to `Receiver` and is counted in `tried`, client by client, and how many
there are is a matter of that client's own settings (`Retries`).

**TrapListener, BoardLayout, OidCodec.** One step per variable of a packet, and one
per part of `OLT_BOARDS`. Text is left out; the arithmetic on indexes is exact.

**HealthChecker.** Check takes the time once (`Check`), then for each dependency gets
the mutex and uses the cached result or starts a probe (`Lock`), and ends the probe
(`ProbeEnd`). Requests can be cancelled, which makes a probe they started fail.

## 3. Runs

| Run | Instance | Checks | Size |
|---|---|---|---|
| `pool` | 3 operations, 2 tokens, 2 connections of which one may fail to open | the pool implements `ConnLease`; nothing leaks; every operation returns | 4 thousand |
| `registry` | 2 OLTs, 3 stacks each, 1 edit, 1 GoForEach | workers and retirement; pools get closed; the map converges to the list | 109 thousand |
| `requests` | 2 OLTs, 3 stacks each, 1 edit, 1 goroutine with requests for an OLT or the default | what a Reconcile or a HealthCheck does to requests and to the lists they get; lists of replaced devices | 162 thousand |
| `trap` | 1 ONU, severities Critical and High, 3 changes, 1 API read, 1 failed read | a verification is not older than its entry; every entry is dealt with | 254 thousand |
| `trap_power` | Critical and Medium, 2 changes, a repeated trap, 2 overlapping scans, shutdown | an ONU is in one queue, that of its severity; what can take an outage out of it | 3.3 million |
| `cache` | 1 ONU id, 2 callers, 1 refresher, 1 change, 1 clear, 1 failure | what callers get against what the OLT held; every call returns | 345 thousand |
| `webhook` | 3 settings with their own retries, 3 edits, 2 failed fetches, 2 payloads | the refresher and retries; convergence | 13 thousand |
| `lifecycle` | all 256 configurations, 2 requests, SIGTERM at any time | the startup window, deferred calls, the drain, the end | 290 thousand |
| `data` | one of six computations per behaviour, over edge values | board layout, trap packets, list of OLTs, uplinks, pages, client addresses | 127 thousand |
| `health` | 2 requests, 2 dependencies, 4 seconds, 1 change | age and cause of answers | 1.6 million |
| `trap_lost` | 1 ONU, 1 severity, 3 changes | violated: see below | |
| `trap_close` | 1 ONU, 1 severity, 1 change, shutdown | violated: see below | |

A type invariant and other properties that hold stand in the modules and are not in the
configurations of the runs, to leave room for what is less obvious: the type invariants,
`ExclusiveConn`, `NoUseAfterClose` and `ConcurrencyLimit` of `SnmpPool` (which `ImplementsLease`
implies), `ClearedStaysClear`, `DecidedInTime`, `PortsApart` and
`StatusAgrees`; `OneQueue` and `LostOnlyByRace` hold with the constants of `trap` as well. So do the
inductive invariants of the proofs, whose names end in `Inv`.
Each holds with the constants of its run. `MCOltRegistrySafety.cfg` checks
the invariants that the proof of the registry uses with changing owners, `MCOnuCacheLive.cfg` that calls for the unused ids and forced
updates return as well, and `MCHealthCheckerLive.cfg` that every request gets its answer.

### Bounds, and why they are enough

- *pool*: three operations with two tokens queue for the semaphore. With one
  connection, an operation inside the semaphore waits for it, the shape of the
  defaults, where tokens outnumber connections. Everything an operation can meet on
  its way (another one, Close) is there. The theorems cover all sizes.
- *registry*: `MaxGen` is at least `MaxEdits + 2` (an assumption of `MCOltRegistry`),
  so that the bound never blocks a Reconcile: the first stack, one per edit, and one
  that a late poll builds. Two OLTs let one change while the other must be left alone.
- *requests*: one edit replaces an OLT's connection settings, its owner, removes it or
  brings it back, while another OLT stays; a goroutine sends one request after the
  other. That several goroutines share a flight is covered by the theorems, for any number.
- *lifecycle*: the device-registry may be up at once, early, at the two seconds
  around the latest one that `ReadyBoots` speaks of, and never in time. Two requests are
  one that returns and one that is left. Time goes on until a request is older than the
  write timeout.
- *trap*: three changes are offline, back, and offline again in another severity,
  the shortest history in which a flush acts on the outage before the last. The
  keys of a flush are independent of each other except for the time they take,
  which is arbitrary anyway, so that one ONU is enough.
- *cache*: two callers share a call, or one fills a list that the other finds, refreshes
  in the background and races with a clear. The theorems cover any number. One id
  makes the list empty or full, which are the two cases the code treats apart.
- *webhook*: three edits are a change, a change back, and one more; two failures fit
  between them. The two clients differ in their number of retries.
- *data*, board layout: slots 0, 1, 30, 31 and port counts 0, 1, 16, 17 are the values
  next to each comparison, and the indexes tried are those one port, slot and shelf away from
  the outermost ports. The theorems cover all values and lengths.
- *data*, packets: pass 2 looks at one variable at a time, and what it carries over is
  one event; three variables give a name, a status and one that interferes.
- *data*, list of OLTs: entries with every field missing, out of range, or wrapped by
  its width; lists of up to two, so that a bad entry can stand beside a good one; two
  edits lead away from a list and back. The theorem covers all lists.
- *data*, uplinks: three states of the hardware, with a card pulled, a port down, and two
  indexes exchanged; two changes, so that a call can meet a third state.
- *data*, pages: lists of up to seven rows, pages of two by default and of four at most,
  parameters from -2 to 6 and at both ends of integers that end at 31.
- *data*, client addresses: chains of up to three hops of two proxies, two hosts and
  a malformed one: a hop that ends the walk with hops on both sides.
- *health*: the time-to-live of one dependency is below that of failures, and of the
  other above; four seconds let both run out.

Deadlock is checked in `pool`, where every operation can be called again. The other
models stop when their bounds are used up, or when the process has exited, and their
configurations say `CHECK_DEADLOCK FALSE`.

### Fairness, and why the code justifies it

- *pool*: a goroutine that can run does (weak fairness of its own steps). Go wakes
  goroutines that wait for a channel in FIFO order, so that none is overtaken forever
  (strong fairness of the two blocking operations, `EnterSem` and `AcquireRecv`).
  Nothing is assumed of Close being called. An exchange ends: gosnmp has a timeout.
- *registry*: workers return, because their context is cancelled when the stack
  is retired; the ticker fires; the request has a timeout. That polls succeed and
  OLTs connect *again and again* is strong fairness of `PollApply({})`: an assumption
  about the environment, without which nothing converges.
- *requests*: goroutines run and SNMP exchanges end, with a timeout at the latest. An
  RWMutex lets the readers in that waited for a writer before it admits the next writer:
  strong fairness of `Resolve`. Polls as in *registry*; Redis keys expire.
- *lifecycle*: goroutines run, and time passes while a request is under way. Nothing is
  assumed of handlers, which may never return, of SIGTERM, of the device-registry or of
  the trap port.
- *trap*: SNMP reads end, tickers fire, webhook attempts are bounded.
- *cache*: a job goes on until its callers have their answer: SNMP exchanges and Redis commands
  end, with an error at the latest. Nothing is assumed of changes, clears and expiry.
- *webhook*: the ticker fires and a fetch, which has a timeout, returns. No fetch is
  assumed to succeed beyond the bound on failures.

### What the runs show

The invariants of the passing runs hold as stated above each property in the
modules. Some of them are weaker than what one would wish for, and say exactly how:

- `LostOnlyByRace` (*trap_power*): an ONU that stays in an abnormal
  condition is queued or has been notified, unless somebody who acted on an older
  observation, or on a failed lookup, took its entry away.
- `ClearedStaysClear` (in no run, but proved): a cleared list is not filled with an older
  one, unless a finished walk was still to be saved.
- `LedNoCacheIsLive` (*cache*): a `nocache` read that leads its singleflight call is live.
- `DownHasCause` (*health*): "down" means down, or probed for a cancelled request.
- `ReloadConverges` (*webhook*): from the first reload on.
- `OnlyRebuildsDisturb` (*requests*): a request does meet a closed pool, or a list that its own
  stack cut short, when its OLT was removed or got other connection settings after the
  lookup. Another request may get a cut list too: it is saved under the OLT's key
  (`internal/usecase/onu.go:257`), nothing clears Redis after a rebuild, and requests on the new stack
  find it. The property says that every cut list that reaches an undisturbed request is of
  that kind, left by an earlier stack of the same OLT.
- `StaleExpires` (*requests*): the lists of a replaced device, and those that a rebuild cut short,
  are served until they expire, since the Redis key names the OLT only.
- `GivenUpLast` (*webhook*): a payload makes all its attempts with one client and is then given up;
  it is not sent again when other settings are installed.
- `TrapsFindTheirPort`, `NoMixture` (*data*): the ONU of an event is the one that an index of its own packet
  names; its status is the last one of the packet, whatever index that has (`internal/trap/listener.go:141`). The
  handler reads the status from the OLT and does not rely on it.
- `RequestsReturn` (*requests*): after every ping of a HealthCheck that was there first.
- `GraceServes` (*lifecycle*): handlers have the ten seconds of the drain, no more.
- `UplinkExact` (*data*): when the hardware keeps still during the six walks.
- `PagesPartition` (*data*): for a page and a limit in the documented range.

The stronger statements are made by comments and documents of the repository, and
the models contradict them. Two are runs of the project, with findings in `PROJECT.json`:

- `NothingLost` (`trap_lost`): "Still offline → send to webhook"
  (`docs/SNMP_TRAP_WEBHOOK.md:79`). A flush verifies ONU A and finds it recovered;
  before it has the lock again (it may have other ONUs to verify), A goes offline and its trap is added; the
  flush then deletes A's key (`batcher.go:247`), with the new entry.
- `CloseFlushes` (`trap_close`): "Close stops the batcher and flushes remaining events"
  (`batcher.go:131`). Close only closes a channel; the final flush runs in goroutines
  that nobody waits for, and the process exits.

The others can be reproduced: put the property alone in the place of the invariants and
properties of the configuration named beside it, and TLC prints the trace.

| Property | Configuration | Statement | What happens |
|---|---|---|---|
| `FallbackIsFirst` | `MCOltRegistryFallback` | "deterministic: sorted by ID" (`app/registry.go:106`) | the fallback is what Go's map iteration yields first |
| `CloseIsFinal` | `MCOltRegistry` | "Close tears down all OLT stacks" (`app/registry.go:347`) | a poll in flight reconciles after Close and builds stacks again |
| `NoFalseAlarm` | `MCTrapPipelineFalseAlarm` | "Zero false alarms for ONUs that recover before flush" (`docs/SNMP_TRAP_WEBHOOK.md:132`) | the flush joins a lookup that read the OLT before the recovery |
| `HandlerSeesActual` | `MCTrapPipelineFalseAlarm` | "Query actual ONU status from SNMP" (`internal/trap/handler.go:65`) | the handler joins a lookup from before the trap |
| `OncePerInterval` | `MCTrapPipelineLost` | re-sent after the repeat period (`.env.example:220`) | an entry removed and added during a flush is sent twice within it |
| `NotifiedOnce` | `MCTrapPipelineOnce` | "Set 0 to disable repeat (notify once only)" (`.env.example:221`) | the entry is deleted when sent, and a repeated trap queues it again |
| `UnbatchedNotQueued` | `MCTrapPipelineUnbatched` | "Set 0 to disable batching for that severity" (`.env.example:211`) | its events are queued and no loop flushes them |
| `NoCacheIsLive` | `MCOnuCache` | "`?nocache=true` to skip the cache, read live" (`README.md:298`) | the read shares a call that began earlier |
| `NoCacheIsComplete` | `MCOnuCache` | "must see the OLT's real state" (`internal/usecase/onu.go:579`) | an ONU whose Get failed is left out of a successful answer |
| `InvalidateIsSeen` | `MCOnuCache` | "so the next fetch goes directly to SNMP" (`internal/usecase/onu.go:1013`) | a walk finished before is saved after the invalidation |
| `UpdateIsSeen` | `MCOnuCacheUpdate` | "Force refresh empty ONU ID cache" (`api/openapi.yaml:387`) | a read and an update have different keys, and the older walk is saved last |
| `OneWalkPerList` | `MCOnuCache`, with three `Callers` | "prevent duplicate SNMP requests" (`internal/usecase/onu.go:169`) | refreshes run outside singleflight, without a limit |
| `EditsApply` | `MCWebhookConfig` | edits "apply live" (`app/webhook.go:59`) | an edit between the two fetches of the startup is never applied |
| `ZeroMeansOnce` | `MCWebhookConfigRetry` | "0 = no retry" (`.env.example:194`) | 0 becomes 3 |
| `ScanCoversLayout` | `MCBoardLayoutScan` | "scans all ONUs across all Board/PON" (`docs/SNMP_TRAP_WEBHOOK.md:95`) | one port count is used for every card |
| `OnlyDownIsNotReady` | `MCHealthChecker` | 503 "if any dependency is down" (`app/routes.go:370`) | a cancelled request's probe is cached as a failure for others |
| `SlowIsAnswered` | `MCAppLifecycle` | `RequestTimeout(90 * time.Second)` "allows cold-cache SNMP queries" (`app/routes.go:71`) | the server's write timeout is 30 s (`app/app.go:250`): an answer after that is not sent |
| `ServesInTheEnd` | `MCAppLifecycle` | "Wait for listener to be ready" (`app/app.go:171`) | a trap port that is taken keeps Start waiting for good, without an HTTP server |
| `LimitIsEnforced` | `MCDataPaths` | `limit` is at most 100 (`README.md:413`) | only the number in the answer is; the rows are as many as asked for |
| `NeverPanics` | `MCDataPaths` | "ensures page/pageSize are within valid bounds" (`pkg/pagination/pagination.go:26`) | the slice is cut with the raw numbers: page 0, a negative limit or an overflow makes it panic, answered 500 |
| `UplinkLive` | `MCDataPaths` | "must reflect the live hardware" (`internal/usecase/uplink.go:119`) | a change between two walks gives a table that no hardware had |
| `LimitIsConfigured` | `MCDataPaths` | `SNMP_MAX_CONCURRENT` (`.env.example:34`) | an OLT that a poll rebuilds has 5; one whose limit alone is edited keeps its pool |
| `OthersFollow` | `MCDataPaths` | every poll reconciles (`app/registry.go:138-140`) | one entry without a host stops the changes of all OLTs |

Besides, `resolveEventType` falls through to "Online" for a status that is unknown
or could not be read, although `internal/trap/handler.go:131` says it does so only
for confirmed online ONUs (visible in the definition of `resolveEventType`).
`registryStartupTimeout` returns a negative duration as it is, where its comment
(`config/registry.go:29`) says that a non-positive one falls back to the default: `Window` is
any integer. `config/config.go:349` says that pools have "no live refresher", which they now
have (`StartPoller`). A paginated list that could not be read is answered 404, like an
empty page (`Answer`).

## 4. Proofs

Every invariant and every action property that a passing run checks, and the refinement of `ConnLease`,
is also a theorem, for all values of the constants; the sections below say along which argument.
The theorems rest on the assumptions named in the modules that declare the constants
(`PoolAssumption`, `RegistryAssumption`, `RequestAssumption`, `PipelineAssumption`, `CacheAssumption`,
`WebhookAssumption`, `HealthAssumption`, `StartupAssumption`, `LifecycleAssumption`, `LayoutAssumption`,
`ListenerAssumption`, `InventoryAssumption`, `HardwareAssumption`, `PaginationAssumption`,
`AddressAssumption`). These say that sets are what the code's types make of them (finite, or of
records of numbers), that distinguished elements belong to them or do not, that bounds are numbers,
and besides only what a constant of the code says: the channel has room for every connection, the
first backoff is no longer than the largest, the drain ends within the time the model counts.
The bounds on edits, traps, failures and the like (`MaxEdits`, `MaxChanges`, ...) are any numbers.

Where an invariant is not inductive, one that is stands beside it or in the module of the proofs, as a
conjunction of named parts, and TLC finds it true on the instance of the run as well (`AppliedInv`
with a finite range in the place of all integers).

**SnmpPoolProofs.** `PoolInv` is inductive. Exclusive ownership alone is not: a step
of Close could put anything in or out of the channel. `ConnAccounting` adds where
every connection is (buffered, in hand, or closed) and how far Close has come in
terms of the flags; `SemCount` adds that the tokens are the operations inside. `SemStep`
and `ConnStep` prove their preservation, action by action; `RecvElems` and `SendElems`
say what taking from and adding to a sequence without repetitions does to its
elements. From `PoolInvariant` follow `ExclusiveConn`, `NoUseAfterClose`,
`ClosedAtMostOnce`, `NoLeak`, `ConcurrencyLimit`, and `ReleaseNeverBlocks`, the last by
counting: buffered connections and one in hand are distinct members of a set that
is no larger than the channel. `PoolImplementsLease` is the refinement: under `PoolInv`, every
step of the pool is a step of `ConnLease` or leaves it alone (`LeaseStep`). `ExclusiveConn` is what
makes the connection that `AcquireRecv` takes one that nobody has, and `ConnAccounting` what
makes the one that `CloseDrain` closes idle and the last turn of Close a `Shut`.

**OltRegistryProofs.** `RegistryInv` adds `StackInv` to the properties: stacks beyond the
generation counter do not exist, an entry has the newest stack of its OLT and the lifecycle
made for it, workers are only on stacks that were built, and
whoever waits to close a pool waits for a retired, open one. `RetireFacts` says what this makes of
`retireEntry`: the pool that is closed and the workers that are counted belong together. Without it, a Reconcile
could build over a stack that something still refers to. `ReconcileStep` treats the one
large action, for `Boot` and `PollApply`; `CloseStep`, `WorkersStep` and `QuietStep` the others.
The theorems are `RegistryWorkerPoolOpen`, `RegistryMappedUsable`, `RegistryNoPoolLost` and types;
`RegistryFollowsList` (the map holds what the last applied list names, except what could not connect)
and the action property `RegistryUnchangedKeepsStack`.

For `OltRequests`, `RequestsKeepRegistry` shows that requests, flights, HealthCheck and the lock add
nothing to the registry: every step is one of `OltRegistry` or leaves it alone, so that `RegistryInv`
holds there too. On top of it `RequestInv` is inductive: what a HealthCheck has left and has seen is
together what is registered (`ProbeInv`, which holds because no writer gets in), a request that nothing
disturbed holds a stack that is still served (`HeldInv`), a list, in a flight or in Redis, was read with a stack of
its OLT, and if it was cut short that stack's pool is closed and stays so (`FlightInv`, `CacheInv`), and a request for an OLT that all lists name finds it (`ListedInv`).
An undisturbed request holds a stack that is still served, the newest of its OLT, so that a cut list in
Redis can only be of an earlier one (`ListStacks`). From these follow `RequestsOnlyRebuildsDisturb`, `RequestsRebuildIsInvisible` and `RequestsHealthySawAll`.

**TrapPipelineProofs.** `RightQueueAlways` and `OneQueueAlways` come from `QueueInv`: an ONU in a queue is in
no other, and in that of its event's severity; the lists of the flushes must be included, since a flush
writes its event back without having held the lock. `VerifiedNotOlderAlways` and `LostOnlyByRaceAlways` come
from `SeenInv`, in layers. `ReadingsInv`: a reading, wherever it is on its way, is of a condition the ONU has
had, and if that is the present one, it is what the ONU shows. `SeenVer(o)` is what the next lookup of o returns at
the oldest (the call in flight may have read already), and it never decreases (`SeenStep`). `AgesInv`: entries,
events and notifications are no newer than that, so that what a flush learns is not older than the
entry it verifies. `ToldInv` keeps notifications in order, `DropInv` gives a reason for each entry
that is to be dropped, and `KnownInv` says where an outage is while it is seen and nobody undid it. The power monitor reads
without the shared lookups; that is why `Medium` is left out of `AgesInv` and of `VerifiedNotOlder`. `LookupChange`
reduces every step to what it does to one lookup: nothing, forget, start, return.

**OnuCacheProofs.** `CacheInv` adds to the properties what is between a walk and its save: what is about to be
saved is live, no older than the last clear of its key, and for the serial list no older than what was
saved last (`SaveInv`); an empty list on its way to a caller was walked (`EmptyInv`); the call that a
nocache request leads walks after the request (`LeadInv`).
There is a lemma for each step of a call (`CheckKeeps`, `TTLKeeps`, `WalkKeeps`, `SaveKeeps`, `ReturnKeeps`).

**HealthCheckerProofs.** `PastInv` says what cached results and calls under way tell about the past: a result without an
error is not newer than the last time the dependency was up, one with an error not newer than the last
time it was down or a probe of it was cancelled. `OneProbe` is needed for the mutex: the result that is
written is that of the only probe. `HealthUpWasUp` and `HealthDownHasCause` follow; the action property
`HealthNoProbeStorm` needs that a probe begins only when the cached result was looked at under the mutex.

**WebhookConfigProofs.** `HookInv` adds that only the refresher's ticks reload, after its own first fetch (`TickInv`),
and that a payload that is being sent has a client, which has been tried once per attempt so far
(`SentInv`); with that, `GivenUpLast` is inductive (`SendKeeps`, `AttemptKeeps`), since an attempt counts for
the client the payload began with and the last one is the client's `maxRetries`. The number of retries of
any settings, zero and negative included, is handled by `RetryFacts`.

**DataPathsProofs.** The computations that `MCDataPaths` checks over edge values, for inputs of any size.

- *`OidCodec`, `BoardLayout`.* `RoundTrip`: decoding the index that the generator makes for a
  port gives that port and the ONU. `OnlyOwnIndex`: nothing else decodes to it. `Injective`:
  no two ports share an index, in either space. With `LayoutInv` (the map contains
  what the generator makes for exactly the ports of the layout) they give
  `LayoutValidIsServed`, `LayoutTraps` (an index decodes to a configured port if and only if it is the one
  generated for it) and `LayoutPortsApart`, for every `OLT_BOARDS` of any length.
- *`Inventory`.* `InventoryPollKeepsStacks`: the configurations in the registry agree, in the
  fields that `oltChangeKey` compares, with what a poll builds from the list they came from
  (`AppliedInv` and `SameConnection`); limits may differ, which is why the key must leave them out.
- *`TrapListener`.* `CollectInv`: until a variable of this packet has named an ONU, the event is
  nowhere, and then it is of an ONU that has been named. It gives `ListenerNoMixture` and
  `ListenerOneOnuIsHandled` for packets of any length. `ListenerOutageIsAlerted` and `ListenerStatusAgrees` compare the tables.
- *`Uplink`.* `ColumnsInv`: while the hardware keeps still, every column walked so far is that of the hardware;
  the join of six such columns is `Snapshot` (`UplinkIsExact`).
- *`Pagination`.* `PagesArePartition`: with parameters in the documented range nothing wraps (`WrapKeeps`),
  and the rest is the arithmetic of quotients (`QuotientIs`).
- *`ClientAddress`.* `WalkInv`: the walk goes on over trusted hops only, so where it stops is the
  furthest hop that is vouched for (`AddressClientIsVouched`).

**AppLifecycleProofs.** `StartupInv` bounds the clock by the window: a fetch begins before it,
and a pause ends before it, as long as the process has not given up. With the timeout of
the last fetch this is `StartupDecidedInTime`; that the pause is never longer than `MaxBackoff`
gives `StartupReadyBoots`. `StartupInProcess` carries both over to the process, whose steps are those of the
startup or leave it alone: `LifecycleReadyBoots`. `LifecycleUsersCloseFirst`: `OrderInv` says which parts can be on the stack of
deferred calls at each `pc`, and that a part stands above (is closed before) all it uses.
`LifecycleGraceServes`: `GraceInv` says that a request is still under way when Start returns only
if the drain has lasted `DrainLimit`, which needs that a server that never listened has no requests;
`OrderInv` says that the registry is not closed before Start returns, so no handler fails earlier.

`ClosedAtMostOnce`, `ReleaseNeverBlocks`, `PortsApart` and `StatusAgrees` are stated for the proofs alone: in the
runs, what they say shows in `NoLeak`, `OpReturns`, `TrapsFindTheirPort` and `OutageIsAlerted`. The other
properties proved are also checked by a run or are among those that section 3 names.

Only model-checked is liveness, since neither fairness nor ENABLED is within the
prover's reach: `OpReturns`, `RetiredIsClosed`, `Converges`, `RequestsReturn`, `StaleExpires`, `EntriesResolved`,
`CallReturns`, `ReloadConverges`, `SigtermEnds`, and `CheckReturns` in the configuration that section 3 names. The properties
of `trap_lost`, `trap_close` and the table do not hold and have nothing to prove.

## 5. What the models leave out

- Contents of lists, messages and names beyond what the properties tell apart.
- `OltRequests` leaves out `nocache` and the background refresh, which are in `OnuCache`, and the
  workers of GoForEach, which are in `OltRegistry`. A trap's lookup is a request for the default OLT.
- `AppLifecycle` leaves out what main flushes last (Sentry, tracing, the log), TLS, and the cancelling of its
  context, which main does only after Start has returned.
- `Uplink` leaves out the order of the rows and the shelf, and `Inventory` the parsing of JSON.
- The branch of the trap handler without a batcher, which keeps no state.
- The health probe of `snmp_olts` looks at its context only between OLTs, and can outlast the
  timeout by one exchange; the model's probe fails as soon as the context ends. The theorems hold for every timeout.
- `Inventory` leaves out the community and the kind of walk, which `oltChangeKey` compares too: both come
  from the list as they are.
- `AppLifecycle` has one way for the configuration to fail, the fetch of the list; a setting that is not
  valid (`config/config.go:353-388`, `app/app.go:41-52`) ends in the same return.

## 6. Plan

The order so far was: the pool, the registry that owns pools, the trap pipeline that
is the main function of the service, the cache, and then the smaller components.
Next:

1. *Abstract specifications and refinement*: a set of pending alerts per ONU that `TrapPipeline`
   implements but for the races it names; a probe result of bounded age that
   `HealthChecker` implements; the registry as one map that follows the list, implemented by `OltRegistry`.
2. *Proofs of these refinements*, on the inductive invariants that section 4 has: `KnownInv` already says
   which pending alerts the queues hold, `PastInv` how old a probe result is, `RegistryFollowsList` what the map is.
3. *Compositions*: `TrapPipeline` on the registry of `OltRequests`, whose lookups fail exactly when
   it says so.
