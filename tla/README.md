# Formal models of Faultless

Faultless (`packages/*`) is a TypeScript framework for services on Node.js: 29
packages, from concurrency primitives and resilience patterns up to service
discovery, configuration, RPC and HTTP. This directory holds TLA+ models of the
parts in which behaviour over time matters, the TLC configurations that check
them, and theorems about them with proofs for TLAPS.

Contents: 1 [Inventory](#1-inventory), 2 [Modules](#2-modules),
3 [Runs](#3-runs), 4 [Bounds, deadlock, fairness](#4-bounds-deadlock-fairness),
5 [Proofs](#5-proofs), 6 [Known behaviour](#6-known-behaviour),
7 [What is not modelled](#7-what-is-not-modelled).

**How the code executes, and what that means for the models.** Everything but the
worker threads runs on one event loop. Code up to an `await` (or to the return of a
callback) is one atomic step; between two steps anything else may run. A model
therefore has one action per stretch of code between two awaits, never a finer one,
and all interleavings come from the awaits, the promises, the timers and the events.
An `async` method whose promise was resolved is "inside" from that moment: the model
moves the client at the step that resolves its promise. Where the order of microtasks
decides (rotating log files, two-level caches, Redis commands), the model keeps the
queue of microtasks as a sequence of jobs.

## 1. Inventory

What each part keeps, which of its behaviours are hard, and what makes it correct. The
names in the last column are properties of section 3.

| part | state | what is hard | what makes it correct |
|---|---|---|---|
| `concurrency` Semaphore, `runAll` | `_current`, `_queue`, the batch's shared index | hand-over to waiters; workers that fail one by one | capacity, no idle slot, arrival order, no function lost or run twice |
| `concurrency` Mutex | `_locked`, `_queue` | the lock changes hands while staying locked | exclusion, arrival order |
| `concurrency` ReadWriteLock | `_readers`, `_writer`, two queues | writer preference, wake-up of whole groups | exclusion, nobody stranded, no reader overtakes |
| `concurrency` Once, ConcurrentMap | promise, loading markers | failure, `reset()` or `delete()` during an execution | one execution is shared, nobody returns before one |
| `resilience` Bulkhead | `running`, `queued`, `waitQueue` | queue timer against release against `close()` | counts agree with the calls, no idle place |
| `breaker`, `circuit-breaker` | state, counts, a timer | results and timers of earlier periods | opens and recovers for its own period's reasons |
| `rpc` ConnectionPool, its manager | connections, pools by name | creation across awaits, polling clients | one holder each, closed for good, bounded overshoot |
| `worker` TaskQueue, WorkerPool | limit, queue, threads | limit changed under way; threads that fail or exit | starts within the limit, replies match, nobody waits beside an idle thread |
| `queue` MessageQueue | messages, consumers | passes that overlap and share a retry count | at rest only when all were given the message |
| `cache` CacheManager, levels, Redis, decorators | entries by use | values computed across deletes | old entries have a known reason, and end |
| `limit` algorithms, stores | windows, buckets | boundaries, failing store, resets and new limits half-way | bound per window |
| `discovery` backends, registry | lists, watchers, heartbeats | overlapping refreshes; watchers that leave a notification | what is published was true meanwhile; watchers agree |
| `discovery` balancers | list, counters, ring | members change under counters and ring | shares according to weight |
| `config` versions, watchers, loader | history, last value, shared objects | read-modify-write across awaits, torn files, writes that fail after memory has changed | stored is what was told; events add up |
| `core` container, lifecycle, shutdown | resolving set, modules, plan | concurrent resolution, failing hooks, timeout | refusals are justified; completion means all stopped |
| `log` writers, transports, loggers | buffers, files, batches | failing writes, close during a flush, rotation by microtasks | nothing accepted is lost or reordered |
| `http` health, client, middlewares, application | last result, hooks, modules | overlapping runs; hooks that answer, throw or go on; signals | results are regular; no handler behind an answer |
| `resilience` budget, faults; `gateway` | deadlines, rules, routes | deadlines in headers on their way | no deadline outlives the first |
| `store` SQL, Mongo | transaction, client | failure of each step | client goes back once; told is what is stored |
| `event`, `governance`, `mr`, `fx` | handlers, index, timers | re-entrancy | each handler once, in order |
| `collection`, `bloom` | derived state | wrap-around, number width | equal to what they stand for |
| `metrics`, `tracing`, `rpc` server | what was opened | overlapping start and stop | what was opened is closed, or known to be lost |

**Interactions.** `http`'s client asks the resolver of `discovery` for an endpoint, then
runs its request inside the breaker of `breaker`, inside which it asks the rate limiter of
`limit`, inside its own retry loop (`Retrying`). `gateway` and the resilience middleware
put plugins, faults, deadlines and a bulkhead before a handler (`RequestPipeline`,
`Middleware`). The resolver feeds a balancer from a discovery (`LoadBalancer`), the memory
discovery listens to the registry (`ServiceDiscovery`), a logger hands entries to writers
and transports (`Logger`), the metrics collector listens to breakers (`Lifetimes`), the
application starts modules and stops them (`Application`). The primitives of
`concurrency`, `resilience` and `worker` stand alone and are used by applications, which
call them from any number of activities at once; that is why each model has a set of
clients that call every operation at any time.

The hazards of the code are listed, at their lines and with the properties that would
catch them, in `PROJECT.json` under `hazards`; every component, with what is left out of
it, under `components`; the source lines of every definition under `map`.

## 2. Modules

Variables carry the names of the fields. A *history variable* (marked so in each module)
records something the code does not keep, such as who is inside; no action's guard reads
one except to name the client that acts. Some modules contain "faulty" variants of a
definition, marked so: plausible bugs, by which it is confirmed that a run notices them.

| module | models |
|---|---|
| `FairLimiter` | abstract: at most `K` inside, first come first served, whoever waits gets in |
| `Semaphore`, `SemaphoreRunAll` | the semaphore as a record, so that `AcquireIn` and `ReleaseIn` can be chained into one step; the batch's workers next to other callers |
| `Mutex`, `ReadWriteLock`, `Once`, `ConcurrentMap` | the classes of these names; an execution is a numbered promise, its value its number |
| `Bulkhead` | `execute()` with its queue, timers and `close()` |
| `CircuitBreaker`, `EnhancedBreaker` | `breaker` (time asked for lazily) and `circuit-breaker` (timers, also those that can no longer be cleared) |
| `ConnectionPool` | creation, polling, scaling, cleanup; the clock is a choice of which connections are too old |
| `TaskQueue`, `WorkerPool` | tasks on the main thread; tasks on threads, which are external: they work, reply, fail or exit |
| `MessageQueue` | one topic; a pass is one run of `notifyConsumers`, numbered by the retry that began it |
| `LogWriter`, `LogTransports`, `Logger` | buffering writers; rotating and batching transports with their microtasks; loggers with children, writers and the aggregator |
| `GracefulShutdown`, `ServiceContainer`, `Application` | handlers and timeout; factories as the stack of their caller; modules and hooks in the order of imports, hooks that throw, signals, injection |
| `ServiceDiscovery` | five backends with overlapping refreshes; and the in-memory registry |
| `LoadBalancer` | seven strategies, fed by hand or by a resolver's discovery |
| `ConfigWatcher`, `ConfigVersions`, `ConfigLoader` | overlapping comparisons; the version history with writes that fail and a crash that tears a file; two sources, a file and etcd or consul, merged into shared objects |
| `CacheManager`, `SharedCache` | a cache before a store that changes; two levels, Redis and decorated methods |
| `HealthCheck` | the manager, the service and the production server over five kinds of indicators |
| `RateLimit`, `Retrying`, `TimeoutBudget` | five limiting algorithms, three stores and two libraries for Redis; four retry loops around a breaker; deadlines in place and in headers |
| `RequestPipeline`, `Middleware` | gateway, faults and resilience middleware with its bulkhead and queue; the HTTP middlewares and interceptors as hooks in a row |
| `EventBus`, `AsyncHelpers`, `SqlStore` | loops over live handlers; debounce, throttle, mapReduce and companions; transactions over a pool |
| `Collections` | LRU cache, ring, heap, Bloom filters, each against what it stands for |
| `Lifetimes` | what is opened and closed: exporters, providers, clients, servers, pools by name, mesh services, breaker metrics |
| `Primitives`, `Patterns`, `Infrastructure`, `Cluster` | compositions for checking, see section 3 |
| `Toolkit` | composes `ConfigVersions`, `Retrying`, `TimeoutBudget`, `EventBus`, `AsyncHelpers`, `SqlStore`, `SharedCache`, `ConfigLoader`, `Lifetimes`, `RequestPipeline`, `Middleware` |
| `Services` | composes `LoadBalancer`, `RateLimit`, `Collections`, `Application`, which TLC alone checks |
| `FifoLemmas`, `RequestHandling` | lemmas, and the invariants of `RequestPipeline` and `Middleware` with their proofs, section 5; `Primitives`, `Bulkhead`, `Patterns`, `Infrastructure`, `Cluster` and `Toolkit` hold their own |

Abstractions that apply throughout: values are model values or numbers of what made them;
logging, statistics that feed no decision, callbacks and wording are left out; clocks are
ticks or nondeterministic choices; functions passed in by the caller may succeed or fail
at any time, in any order. A loader of `ConcurrentMap` that throws before it returns a
promise changes nothing and is left out. `ConnectionPool` has one upward `scale()` under
way at a time. `WorkerPool` leaves out functions that end their own thread with
`process.exit()`. The users of `ServiceDiscovery` listen for `error`. Fastify, in the
range `^4.28.0` of `packages/http/package.json`, is external and known by its contract: it
runs hooks in the order in which they were added, stops once the reply was sent or a hook
failed, and ignores what a hook returns. A hook that is async and calls `done` as well goes
on once in the model. Requests share nothing but the cache, so `Middleware` has them come
one by one in chains without it; what limiters and breakers say in it is left open, for
they have modules of their own.

Operators that proofs need facts about are written so that there are some: a filtered list
is a recursive function (`Kept`), an element is removed by its place (`RemoveAt`), the
watchers that a live loop reaches are the one set that satisfies its own description
(`Called`), the next check of a walk is described rather than computed (`ComesTo`), the
calls above a call are those in every set of calls that holds it and is closed under the
step to a parent (`Above`), subscriptions are counted by their names (`EntryNames`).

## 3. Runs

All runs are exhaustive for their bounds, and each property has at least one faulty variant
of the code that violates it.

The objects of different classes share nothing and never call each other, so a product of
their state spaces would only multiply states. The compositions therefore instantiate
several modules and choose in the initial state which class is under test (`subject`);
every behaviour is a full behaviour of that class, with the other objects as they were
constructed, and the reachable states are the sum of those of the classes.

| run | asks | bounds | states |
|---|---|---|---|
| `primitives` | locks, semaphore, `runAll`, `Once`, `ConcurrentMap`: do exclusion, capacity and order hold, are computations shared, is everybody answered | 4 lock clients (two readers and two writers at once), 4 semaphore clients on 2 slots, 4 functions in a batch, 3 callers of `Once` with 3 executions and 2 resets, 2 keys with 2 loaders, 3 loads and 2 deletions | 55 286 |
| `patterns` | bulkhead, breakers, pools, task queue: do the counters fit, does everything end | bulkhead: 5 calls, 2 places, queue of 2, 3 forfeits; breaker: 4 calls, threshold 2, timeout 2, 1 forced; timer breaker: 3 calls, threshold 2, 2 attempts, 3 timers; pool: 3 clients, 2 connections, 4 created; queue: 5 tasks, limits 1 to 3; threads: 4 tasks, one unclonable, pool of 2, 3 threads | 49 111 |
| `infrastructure` | message queue, log writers, loggers, transports, shutdown, container: is anything lost, are reports true, does work complete | 1 message, 3 subscribers, 2 retries (three passes overlap); 4 entries, buffer 2, one unserializable; 2 transports, 3 entries, the last 2 kept, 1 change; 5 lines, two of them big, size 3, 1 to 4 files, batches of 2; 3 services; 2 callers, 2 keys, 2 instances, 1 `clear()` | 160 396 |
| `cluster` | discovery, registry, watcher, cache, health: which copies may be old and why, do they catch up | 2 instances, 3 watchers, one leaves when called, 2 refreshes, 2 changes; 2 ids, 2 services; 2 checks; 2 cache keys, 2 fills, size 1, ttl 1; 2 indicators, 2 runs, 3 changes | 216 508 |
| `toolkit` | versions, retry loops, deadlines, event bus, helpers, SQL, shared caches, loader, lifetimes, requests in gateways, fault rules and middlewares: does each keep what it promises under every order of calls, timers, callbacks and failures | 2 version calls, 2 configurations, 3 numbers of which 1 is kept, 1 crash or failing write; 2 retriers, 2 retries, deadline 2, threshold 2; 3 deadlines of 3 or 6, buffers 2 and 1, 2 ticks of transit; 2 handlers, 3 subscriptions, nested emits; 4 jobs, 4 calls, pause 2; 2 SQL calls on 2 clients; 2 getters, 2 values, 2 queued commands, two ttls and none; 2 loads, 1 event of a remote source, 2 values of which 1 is invalid, 2 edits; 3 starts, 2 metrics, 1 mesh service, 1 heartbeat missed; 3 requests, 2 plugins, 2 rules that apply once, 3 kinds of faults, 1 place and a queue of 1, 4 changes of routes, plugins or rules; 2 requests of 2 methods and 2 urls in 4 rows of hooks, which have each middleware and four kinds of interceptors, ttl 1, time to 2 | 2 267 411 |
| `services` | balancers, limiters, containers, application: are shares and limits kept, do containers equal what they stand for, do modules go up and down in order | 3 instances of weights 1, 2, 1; limits 2 and 3, windows 1 and 2, time to 5, 3 calls, 2 resets in Redis; 3 keys, capacity 3, heap of 6, Bloom filter of 5 bits; 3 import graphs, 5 wirings | 543 004 |

What the properties of these runs say:

| property | of | says |
|---|---|---|
| `CapacityRespected`, `NoIdleSlot` | semaphore, batch | never more inside than slots; nobody waits while a slot is free |
| `Exclusion`, `NobodyStranded`, `NoReaderOvertakesWriter` | read-write lock | who is inside together, who waits for whom, who enters first |
| `ComputationsShared` | Once, ConcurrentMap, batch | an execution is shared; two loads of a key overlap only across a deletion; no function twice or never |
| `LimitersAreFair` | semaphore, mutex | they implement `FairLimiter`, its fairness included |
| `EverybodyAnswered` | all primitives | whoever calls gets in or an answer |
| `PlacesAccounted` | bulkhead, pool | counters, queue and state agree with the calls; the overshoot is bounded |
| `BreakersFit`, `ClosedAsLongAsDue` | breakers, pool | failures counted are of this period; open has a timer; open lasts as long as it should; closed stays closed |
| `TasksAccounted`, `StartsAsItShould` | task queue, worker pool | nothing idle beside something that waits; starts in order and within the limit |
| `EverythingEnds` | all patterns | waits, refusals and tasks end, breakers recover |
| `NothingLost` | message queue, log writer | who is due a message is ahead of a pass or has a timer; entries are written once, in order |
| `ReportsAreTrue`, `ReplacedByTheOldOnly` | shutdown, container | completion means that all were stopped; refusals belong to running factories; what is overwritten, and by whom |
| `WorkCompletes` | infrastructure | granted retries are made, shutdown and `get()` end |
| `CopiesAgree` | discovery, registry, watcher | watchers have the published list but for the calls lost to one that leaves; heartbeats have instances; events add up |
| `CacheIsTruthful` | cache | within its maximum; old for a known reason only |
| `PublishedIsRegular` | discovery, health | what is published was true at some time since the refresh or run began |
| `CatchesUp` | all of cluster | the last change arrives, old entries end, a failing check shows |
| `StorageTold` | versions, SQL, lifetimes | calls that do not overlap leave memory, file and manager in agreement, but for the last write if it failed, and `transaction()` says what happened; what is replaced is closed before, unless calls overlapped |
| `ContainersHold` | collections, bloom | containers equal what they stand for |
| `NobodyIsSkipped`, `CallsInOrder` | event bus, helpers | no handler, timer or item is left out, also under re-entrant calls; once is once, listeners have the last value, calls are apart |
| `DeadlinesHold` | retry loops, budgets | no attempt too many and none fewer without a reason, waits that end before the deadline, nothing started in an open breaker or below a call whose time is up; deadlines shrink from service to service |
| `BalancersFair`, `LimitsHold` | balancers, limiters | shares by weight and few keys that move; bounds in every window, whatever is reset and reconfigured; whoever has rested is served |
| `UpAndDown` | application | modules come up after what they import, all go down before the process ends with code 0, and in their order as far as it gets when a hook throws |
| `LogsKept` | transports, loggers | each transport is handed an entry once, aggregators keep the last ones, files keep lines in order for as many rotations as they should |
| `CachesAgree` | shared caches, mesh, metrics | what is in two places or was computed elsewhere is not old when the calls have ended, unless a change overtook one of them; the mesh has what it was told, the metrics served are those counted |
| `ConfigurationFollowed` | loader | who listens knows the configuration, watchers of files and of etcd can be stopped, a load that nothing disturbs has both sources in it |
| `RequestsSettled` | gateway, faults, middlewares | each request passes plugins, faults and places as they are set, and is answered once or handed on; no handler behind an answer, no response to another url |

Each composition has one type invariant besides (`SuiteTypeOK`, `TypeOK`).

Runs in which the code does not do what its documentation or comment says; TLC's
counterexample is the shortest one.

| run | the documentation says | what the code does |
|---|---|---|
| `bulkhead_limit` | `maxConcurrent` is the maximum of concurrent executions | a queue timeout gives back a place that was never taken; from then on one call too many runs |
| `enhanced_breaker_timeout` | `resetTimeout` passes between opening and half-opening | open, late failure (second timer), reset, open: the surviving timer fires early |
| `connection_pool_handout` | acquire finds an idle connection | a connection under creation is idle, and two clients get it |
| `worker_pool_terminate` | terminates all workers | a thread that fails meanwhile is replaced by one that nobody stops |
| `container_circular` | the error reads "Circular dependency detected" | two callers get two services, one of which needs the other: the second caller is refused, without any circle |
| `immutable_history` | immutable version history | two overlapping calls save different configurations under one number |

## 4. Bounds, deadlock, fairness

**Bounds.** Counters that the code lets grow without limit are capped by constants whose
names begin with `Max` and are documented where they are declared; the guards that
mention them have no counterpart in the code. They are chosen so that what is hard
happens: two of everything that can overlap, one more than a limit, one more round than a
wrap-around. `EnhancedBreaker` caps `failureCount` at the threshold, which is all that it
is compared with. The theorems of section 5 hold for every value.

**Deadlock** is checked in `bulkhead_limit`, `enhanced_breaker_timeout` and
`immutable_history`. It is off where a bound or the end of the object's life makes the
system stop: in the compositions (a terminated pool, an exited process, used-up
executions) and the violation runs on such modules. That nobody is stranded is said by
`NobodyStranded` and by the liveness properties.

**Fairness.** Weak fairness is put on what the runtime guarantees or the caller owes, and
on nothing else: a function passed in settles in the end (its `finally` block then
releases), a timer that is due fires, a thread that was posted a task works, time passes.
The fairness of a class says nothing about a behaviour in which another one is under test,
because none of its fair actions is enabled in a fresh object.

- Locks, semaphore: whoever is inside releases. `Once`, `ConcurrentMap`, batch: executions settle.
- Bulkhead: calls finish; its queue timers are not fair, so waits end by releases alone.
- `CircuitBreaker` has no timer: somebody comes back to an open breaker. `EnhancedBreaker`: timers fire.
- Worker pool: threads work, their messages, errors and exits arrive. Connection pool: none, and no liveness is claimed.
- Message queue: retries are made, handlers settle. Log writer: it may fail any number of times but, tried again and again, succeeds (strong fairness).
- Shutdown: the timeout alone, since a handler may hang. Container: factories settle.
- Discovery: events of an open watch arrive, calls to the source are answered. Configuration watcher: checks begin, and those that end do so again and again (strong fairness, as a load may fail). Cache: time, cleanup, announced deletes, factories. Health: the interval fires and checks answer or time out.
- `toolkit` and `services` check safety only.

## 5. Proofs

`tlapm` checks the following for all values of the constants; the assumptions are those
that the modules name (`OptionsOK` and the like: sizes and thresholds are positive, sets of
retries finite), which TLC evaluates in the runs. All invariants of the runs `primitives`,
`patterns`, `infrastructure`, `cluster` and `toolkit`, and all their action properties that
are safety, are theorems of the composition's `Spec`. For each class there is an inductive
invariant that is proved of the class's own `Next`; that a step of the composition is a
step of the class or leaves it alone (lemmas `...Steps`) then carries it over.

*`FifoLemmas`*: what appending, shifting, joining, removing and filtering do to a line in
which nobody stands twice, and how long such a line is. The filter is a recursive
function, whose equation is proved to have a solution by the smallest counterexample
(`Smallest`, from the well-foundedness of `<`).

*`Primitives`*
- Semaphore. Capacity is a fact about holders, the code only looks at `_current`: the invariant says that the counter is the number of holders, that nobody waits twice or holds while waiting, and that nobody waits while a slot is free. `Refinement` shows each step to be one of `FairLimiter`; a release with waiters happens at full capacity, by `NoIdleSlot`. The mutex is the same with one slot.
- `runAll`. How many workers hold, wait or have finished accounts for the index and for every function. The fold by which the batch starts all workers has no usable facts, so `AcquireAll` is stated in closed form.
- Read-write lock. Flag and count agree with those inside, everybody is in one place, and whoever waits has somebody inside or ahead.
- `Once`, `ConcurrentMap`. A marker stands for a pending execution; in one epoch (between resets or deletions) there is at most one, and whoever awaits, awaits one that can still answer.

*`Bulkhead`, `Patterns`*
- Task queue. `_running` counts the running tasks and there is no room beside a waiting one; the key lemma describes `_process()` as a whole (`LineProcessed`).
- Bulkhead. The counters equal the calls in each phase less the forfeited ones, the queue has nobody twice. `Overshoot`: the limit is exceeded by no more than the forfeits, hence kept while there is none.
- `CircuitBreaker`. While open, the cool-down and the time it was open add up to the timeout; failures counted are those of this period. `EnhancedBreaker`: while open a timer is pending.
- Connection pool. What is still to be created bounds the overshoot; a busy connection has a holder. Worker pool. Threads are numbered without gaps, the pool has none twice, each task is in one place.

*`Infrastructure`*
- Message queue. Whoever has not been given the message, or failed with a retry granted, is ahead of some pass or of a timer.
- Log writer. What was written, is in flight and is buffered is what was accepted, in order; an interval is stopped only by `close()`.
- Loggers (`LogsAreKept`). An entry that is on its way through the array of transports has reached those before its index and no other, unless the array changed meanwhile; the aggregator holds the last entries in order until a query sorts them.
- Transports. The first file with the lines that are to come into it, the older files, what a rotation has in hand and what was deleted or posted share no line and are together all that was accepted (`Archived` for the older ones, whose number goes with the time of their birth). While nothing was written during a rotation, at most one line waits, the latest, and the size that the code counts is that of the first file with its buffer; this is why a file outlives the rotations that it should. What the loop of renames does to a numbered list of files is described once, for all lists.
- Shutdown. Those called and those to be called are the plan. Container. A factory began before every value and instance of its key; a key in `resolving` has a factory running; until `clear()` each runs once.

*`Cluster`*
- Discovery. A watcher lacks the published list only if it stood right behind one that left during the notification; mapping it to that one is an injection, so that there are no more such watchers than departures. A refresh knows what was registered all the time since it began (`stable`) and at some time (`ever`), and what it has got lies between.
- Registry. A memory backend that was never started has nothing; after an event its list is that of its service.
- Configuration watcher. The changes detected between two configurations, applied to the first, give the second.
- Cache. Someone is evicted whenever the cache is full, for the order of use has a smallest element; a call that is about to store a value read before a change is known as such.
- Health. The history of each run knows every registered check as up or down; what a run counted is what it was told. A warning is needed for "degraded", since the threshold is positive.

*`Toolkit`*
- Configuration versions (`StorageIsTold`). Calls overlap across their awaits, so what holds of the history cannot be said of one call at a time. The invariant says what each call under way is about to do and that it fits what is stored (`Fits`); a number that is missing, or that a call has set out to delete, has `maxVersions` newer ones (`Replaced`), because a cleanup deletes the newest number of its list first. `Alone` and `InCall` say, while no two calls have overlapped, what memory, file and manager have in common at each stage of the one call, and what a failed write (`failed`) has left between them.
- SQL. While no function ends a transaction itself, a client that is out is lost or belongs to one call (`SqlOwned`), and what the call wrote is in its session, committed, or given up (`SqlTold`).
- Event bus (`NobodyLeftOut`, `OrderIsKept`). A call that a loop owes is to a live entry ahead of it; a wrapper that ran is dead in the Set that the map holds; the listeners that the only loop of a quiet centre has passed have its value. Adding and deleting are described once for all Sets (`Adding`, `Deleting`), and a loop whose handler adds, deletes or clears is carried over by them.
- Helpers. While the function does not call its own debounced self, the timer that is set is the one the closure knows and ends a pause after the call that it waits from; the workers take items in the order of their numbers, so the index says what was taken.
- Retry loops (`DeadlinesAreKept`). The attempt number and the stage tell how often the operation was tried; nothing the HTTP client can meet is repeatable (`ClientErrors`); an engine that waits has a deadline beyond its delay, and both come nearer together. The breaker that loops share is driven only as its callers may (`BreakerSteps`), so that its bound on failures carries over.
- Deadlines. Headers under way name what was left of their deadline when they were written, so that their age says by how much they are late; no deadline is further away than the time that somebody allowed at first. For `FailsFast`, the calls that end the buffer after a call, and itself, are a set that no step to a parent leaves (`TimeAbove`), hence hold all calls above it, however deep.
- Shared caches (`CachesStayTrue`). A queue of jobs may hold old values, so the invariant is about the last job that writes: it writes what is up to date (`Fitting`), and what was written is up to date once no queued job writes (`FarFits`). Between the steps of a `get()` that no change raced, no job that writes stands behind one that does not (`WritesFirst`), so that whoever looks into the second level finds what it will keep. What these say of a queue that grows or shrinks are two lemmas for all queues (`JobJoins`, `JobLeaves`).
- Configuration loader (`ConfigurationIsFollowed`). A load begins to watch once, when it has succeeded, so that the generations of watchers are counted by the loads that did (`LoadsWatch`). A key of etcd is on after `stopWatching()` only if it was stopped before its watch came; consul's keys are not spoken of. A listener that was not passed over has the configuration, and shares its inner object if there is one (`ViewFollows`): this is why it sees the nested changes that no event announces. What an undisturbed load has read so far is what its sources still say (`LoadsAgree`), hence it ends with both.
- Lifetimes (`StorageIsTold`, `CachesStayTrue`). What a pending call waits for tells its kind, and while no calls have overlapped one at most is pending, and none beside a stop (`InTurn`); so what lives is what is remembered (`Remembered`). A pool that is remembered and closed is being removed (`PoolIsOpen`); the gauge of a breaker follows it from the first event that is heard (`GaugeFollows`).
- Requests (`RequestsAreSettled`, invariants in `RequestHandling`). Answers and attempts follow from where a request is (`RequestSettled`). The bulkhead's count is that of the handlers less the forfeited places, its queue has each waiting request once, and nobody waits beside a free place (`PlacesTaken`). A rule has counted all the injections that the history has of it since it was registered, and counts no further than its times; the plugins behind a request that were enabled since it came are those that it has met, once for each hook.
- Middlewares. A request that is at a hook or in its handler has no answer, one that is over has (`PlaceFits`); a response at hand, and what is stored for a url, is to the request itself or to a GET of that url (`ServesUrl`), which a step of another request leaves so since neither its method nor its url changes. Number, kind and order of the hooks are free.
- Types (`ToolkitTypes`). Among them, `getRemainingBudget()` is never more than some timeout that was given, and the subscriptions made are as many as their names.

Only model-checked:
- all liveness (`LimitersAreFair`'s fairness, `EverybodyAnswered`, `EverythingEnds`, `WorkCompletes`, `CatchesUp`), which is outside what the provers handle;
- the properties of `services` (its `TypeOK`, `ContainersHold`, `UpAndDown`, `BalancersFair`, `LimitsHold`). They are about algorithms over data (the heap, the filters, the rings of hashes, the order of modules, sums over windows), whose correctness for every input would need induction over data, and the search for the order of modules is a recursive operator.

## 6. Known behaviour

What the models have, because the code does it. Some of it contradicts what the
repository says elsewhere, whose place is then named. Apart from the six runs at the end of
section 3 no run is spent on it; the properties say what remains true.

- **Limits.** Both breakers let any number of calls through while half-open, where `circuit-breaker/src/index.ts:12` and `:138` and `docs/api/resilience.md:36` speak of a limit: only successes are counted. The connection pool exceeds its maximum; a client that polls an emptied pool is never served. Fixed and sliding windows count refused requests; a cluster of stores multiplies the limit; `get()` of the rate limiter answers with constants, or from the first store of a cluster. `createRateLimiter` and `createCircuitBreaker` return the object that has the name and ignore the new options.
- **Limits in Redis.** `reset()` counts the key down by the maximum (`store.ts:142`), with no floor, and with no time to live if the key was not there, so that later windows grant more by as much; after the script has run the key is a hash, which cannot be counted down, and the call rejects. A `Redis` of ioredis (`rate-limiter.ts:203`) takes the options of `eval` for a number of keys and fails; the fallback reads `results[0]` as a number, which is a pair there (`store.ts:122-126`), and every request is refused.
- **Retries.** The retry options of `HttpClient` never take effect, though `docs/api/http.md:373` and `client.ts:63-70` offer them and `:157-182` has the loop: no error that the client meets carries what `isRetryableError` looks for, so it tries once. It runs its limiter inside the breaker, so that refusals count as failures while 5xx answers count as successes. Smart retry calls the getter `Deadline.isExpired` like a function. Jitter is added after the cap. `Deadline.race` leaves a rejection unhandled.
- **Messages and logs.** A message that one consumer failed for good may end as `completed`; one published before anybody subscribed is never delivered. `close()` during a flush gives up what is buffered (`late`), and an entry that cannot be serialized stops `BatchedHttpWriter` for good (`stuck`). Rotation keeps one file fewer than it says, with `maxFiles` 2 it deletes the current log; a rotation behind `close()` reopens the file. `HttpTransport` takes any status for success, and ends with one batch. A rejection in `Logger.log` ends its loop; `removeTransport()` meanwhile makes it skip one. The aggregator's `query()` sorts what is stored, so that trimming drops the newest.
- **Starting and stopping.** Without a listener for `error` a failing handler ends the shutdown before the remaining services are stopped. Modules are destroyed in the order of their start, those of a failed start not at all; a second signal runs the hooks again. A hook that throws rejects the handler of the signal, which nobody awaits (`application.ts:365-369`): Node, from version 20 as `package.json` asks, ends the process with an error and the modules after it are not shut down. Overlapping starts of exporter, metrics, tracing, Redis, Mongo, or `remove()` with `getOrCreate()` of pools leak what is overwritten. A heartbeat never brings a service of the mesh up again. `Once.reset()` during an execution: when that one ends, `run()` returns at once although the new one is still under way.
- **Container.** A forgotten factory stores its instance. Every provider is cached as a singleton and its scope is ignored, which `docs/architecture/v1.0.0.md:116` offers; a class that the application provides is made by `new provider()` without what `@Inject` names (`application.ts:161-169`, against `docs/api/core.md:244-253`). Two controllers that share a dependency may fail as circular.
- **Caches.** `delete()` during a computation lets `ConcurrentMap.load()` start a second one. `refreshAhead` returns expired entries. `@CacheInvalidate` passes keys with the prefix to `delete()`, which adds it again; `@Cached` without a cache in the object makes a new one per call. The Redis level of `MultiLevelCache` is in memory, and fills the first with the default ttl. `RedisCache.clear()` deletes nothing; a ttl below a second becomes 0.
- **Discovery.** Consul's first poll returns at once, so that only a second start begins to poll. A watch that opens during `stop()` stays open. Of overlapping refreshes an older list may replace a newer one, until the next event. Balancers: the ring is built by the constructor and by `updateInstances()` only, not by single additions and removals, weighted round robin may pick nobody after a removal, connection counts never go down, a resolver created again gets the balancer of the old one.
- **Configuration.** In `load()` the source of lowest priority wins, against `docs/api/config.md:85` and `:98-100`; after it, a change from any source overrides. Nested changes emit no event, removed keys stay, `reload()` registers the watchers again, an invalid configuration stays current; overlapping loads end with the last one. The polling of consul goes on after `stopWatching()` and `destroy()`, whose `unwatch` does nothing (`remote.ts:153`). An exception in `ConfigWatcher.start()` leaves it running without an interval. When `fs.writeFile` fails (`versioning.ts:82`), `createVersion()`, `rollback()` and cleanup reject with memory changed already: the manager keeps its version, memory has the new one, and the file neither, or nothing, until a later write succeeds.
- **Requests.** A middleware is an `onRequest` hook, whose `next()` returns at once: `timeoutMiddleware` never times out, the retry middleware never retries, the breaker's middlewares count a success before the handler runs; `http/test/server.test.ts:34-63` and `docs/getting-started.md:538-542` write `await next()`. Each interceptor is called once for every interceptor that was added, before the handler, and sees no response of it. Filters that are added are never asked. A handler that returns nothing and sends nothing leaves the request without an answer. A breaker that is open refuses with a plain error, so that the middleware's 503 is not reached. In the resilience middleware the bulkhead's queue timeout gives back an untaken place, as in the run `bulkhead_limit`; an injected latency drops the request; an expired deadline is answered with 504 and handled all the same. Rules without a method never apply.
- **Events.** `clear()` during a nested `emit` leaves the wrapper of a `once`. A debounced function that calls itself is lost; throttle's late call has the arguments of the first. The workers of `mapReduce` go on after a rejection.
- **Health.** Of the two limits of the memory and disk indicators only one can be set; above it, 95 per cent is an error whatever was set. The checks of the production server have no timeout.

## 7. What is not modelled

See `components` in `PROJECT.json` for each part and the reason. In short:

- no behaviour over time: decorators, errors and types of `core`, `validation`, the schema and encryption of `config`, `AtomicCounter`, formatters, `pipe`, `curry` and the like;
- layers over a library whose state is the library's: `auth`, `stream`, the gRPC client, its authentication and protobuf loading, the Kubernetes API client, queries of `store`;
- code generation: `cli`;
- parts of modelled components: the registry by name of bulkheads, the policies by endpoint of smart retry, response transformations of the gateway (whose result is discarded), the client stack of the resilience middleware (which uses a variable that does not exist).
