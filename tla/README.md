# SmartOLT Gateway: formal models

TLA+ models of the gateway in `src/`, a Fastify service that gives Internet
providers (tenants) access to their SmartOLT accounts. The models are checked
with TLC on small instances; theorems about them are proved with TLAPS. This
file says what the system consists of, what is modelled and how, what the runs
and the proofs show, and what is left.

Paths below are relative to `src/src/` unless they start otherwise.

## 1. The system

```
 HTTP request --> authenticate hook ----> rate limiter ---> route handler
                  (tenant row, Postgres)  (Redis)          |
            reads: CacheService.getOrSet ---+--- writes: BullMQ queue
                  |  (Redis)                         |  (Redis)
                  |                             onu.worker processor
                  +------- SmartOLTClient -----------+--> audit_logs (Postgres)
                              |  circuit breaker, one circuit per subdomain
                              |  withRetry
                              +--> axios --> https://<subdomain>.smartolt.com
```

One Node process runs everything. Code between two `await`s is atomic; at every
`await` other requests and jobs run. Redis and Postgres survive the process, the
circuits do not.

| Component | State | Operations | What is hard about it | What makes it correct |
|---|---|---|---|---|
| Circuit breaker `services/circuit-breaker` | a `CircuitStats` per key, in memory | `execute`, outcome, `reset`, time | outcomes arrive in any order, long after the circuit has changed state; half-open slots are counted, never given back | half-open slots cannot leak, a tripped circuit stays tripped until a probe succeeds, nobody is refused for good |
| SmartOLT client `services/smartolt`, `shared/utils/retry.ts` | the progress of each request | `request` = breaker around retry around axios | retries run behind an open circuit; errors change their class on the way | settles every admitted call once, in bounded time; bounded leak |
| Cache `services/cache`, read methods of `modules/onus`, `modules/olts` | entries and tag indexes in Redis | `getOrSet`, `deleteByTag`, `deleteByPattern`, delete of keys | two-step writes and two-step sweeps interleave; commands fail half-way; expiry of the index is independent of expiry of what it lists | live entries can be found by their tags; data is never served past its TTL, whatever fails |
| Job queue and worker `services/queue` | jobs in Redis, processors in memory, audit rows in Postgres | enqueue, pick, processor steps, retry, stall, crash | lost locks leave two processors on one job; the process dies between POST and audit row | accepted jobs end unless Redis loses them; completed means done and logged; the number of POSTs is bounded |
| Tenants, authentication, login `modules/tenants`, `middleware`, `plugins/auth.plugin.ts`, `modules/auth` | rows in Postgres | create, update, toggle, delete, login | read-then-write without a transaction | the table stays consistent; suspension takes effect; what is lost or fails does so only by overlap |
| Sync worker `workers/sync.worker.ts`, `jobs/cache-warmer.job.ts` | none of its own | fills the cache | never scheduled | - |
| Rate limit, hooks, error handler `plugins`, `middleware/errorHandler.ts` | counters in Redis | the hooks of a request, `globalErrorHandler` | the limiter needs the tenant that another hook finds; services fail in any hook | a tenant is stopped on account of its own requests only; what an error is told as has one cause |
| Health and metrics `modules/health`, `getJobStatus` | none | `/live`, `/ready`, `/health`, `/metrics`, job status | answers are joined from several reads of what moves meanwhile | an answer is wrong by a bounded amount, or only once |
| Start, shutdown `app.ts`, `infrastructure` | connections, the server, workers | `start`, `shutdown`, signals | signals at any time, several at once; requests and jobs are under way | work has its connections; a process told to stop ends |
| Swagger, CORS, helmet, logging, configuration | none, or inside libraries | - | - | - |

`PROJECT.json` lists every component with its sources and what is left out of it,
and under `hazards` what can go wrong in this code that a test would hardly reach,
with the properties that watch it.

## 2. Modules

| Module | Models | Correspondence |
|---|---|---|
| `CircuitBreaker` | `CircuitBreaker.ts` | `circuits[k]` is the Map's object; `Execute`/`Reject` are `execute()` up to `await fn()`, `Succeed`/`Fail` what follows the await, `Reset` is `reset()`, `Tick` is `Date.now()`. `status` says which object a call holds: after `reset()` its own is out of sight ("detached"). |
| `BreakerHistory` | the same with a count of failures in a row, which the code does not keep | history variable for what the README says of the breaker |
| `SmartOLTClient` | `SmartOLTClient.request()`, `withRetry()` | extends `CircuitBreaker`: `Request` = `Execute` and the first axios call, `HttpOk`/`HttpError` = axios settles and `withRetry()` decides, `Resend` = end of `sleep()` |
| `CacheService` | `CacheService.ts`, the reads and invalidations that use it, Redis | a reader moves fetch -> store -> index; a sweep reads (`SMEMBERS`, `KEYS`) and then deletes; `Evict` and `Tick` are Redis's own |
| `MCCacheService` | instance of `CacheService` | keys, TTLs and tags of the real reads, minutes as ticks |
| `AtLeastOnceJobs` | abstract: what a client may rely on when it is given a `jobId` | - |
| `OnuJobs` | the life of one job: `QueueService.ts`, `onu.worker.ts`, `enqueueOperation()`, shutdown | `job` is BullMQ's record, `run` a processor's progress; a step is what happens between two awaits; `Forget` is the loss of a job in Redis |
| `OnuOrder`, `MCOnuOrder` | several jobs on one ONU: BullMQ's list, the `QUEUE_CONCURRENCY` slots, requests that outlive their caller | `wait` is the list; a job's steps are those of `OnuJobs` without their counting; `excused` says whom a job may be overtaken by |
| `JobStatus` | `getJobStatus()`, `getQueueMetrics()` | a poll is the read of the record and then of the state; a tally is five counts; jobs move, are removed and are evicted in between, one by one (`Evict`) or a list at a time (`EvictList`); `result` and `error` are `returnvalue` and `failedReason` |
| `OnuView` | the reads of one ONU next to the worker's changes and `invalidateONUCache(tenantId, sn)` | `version` counts SmartOLT's changes; an entry is the version it shows |
| `RequestGate` | `authenticate`, `rateLimit.plugin.ts`, the handlers' outcomes, `globalErrorHandler()`, `health.controller.ts` | a request moves auth -> limit -> handle; `user` is `request.user`, which `keyGenerator()` looks at, `caller` whose token it is; `counter` is the limiter's Redis keys, `sent` counts by `caller` what one caller sent for one route; `Switch` takes a service away or brings it back |
| `Lifecycle` | `start()`, `shutdown()`, `connect*`, `disconnect*` | `node` is the await `start()` is at, `call[c]` that of a `shutdown()`; requests, handlers whose client has hung up (`orphans`) and jobs are counted |
| `Tenants`, `MCTenants` | `tenant.service.ts`, `resolveTenant()`, `authenticate`, `login()` | a request moves auth -> read -> write -> reread, one database statement each; a statement fails (`DatabaseFails`), or is carried out and its answer lost (`AnswerLost`) |
| `SmartOLTClientProofs` | theorems about `CircuitBreaker` and `SmartOLTClient` | section 6 |
| `TenantsProofs` | theorems about `Tenants` | section 6 |
| `OnuJobsProofs` | theorems about `OnuJobs`, with its refinement of `AtLeastOnceJobs` | section 6 |
| `OnuProofs` | theorems about `OnuOrder` and `OnuView` | section 6 |
| `CacheServiceProofs`, `JobStatusProofs`, `RequestGateProofs`, `LifecycleProofs` | theorems about `CacheService`, `JobStatus`, `RequestGate` and `Lifecycle` | section 6 |

Composition: `SmartOLTClient` EXTENDS `CircuitBreaker` and joins its actions with its
own, and is shown to implement the breaker's specification *with fairness*, which
the breaker alone has to assume. `OnuJobs` is shown to implement `AtLeastOnceJobs`
by the refinement mapping `Abstract`. `OnuJobs` and `CacheService` use of the client
what they depend on: that a request may be refused at its start, may be sent
several times, and settles. The life of a job is cut along what its questions need:
`OnuJobs` has attempts, locks and audit rows of a job by itself, `OnuOrder` the order of
several, `JobStatus` what readers see of them, `OnuView` what their effects are to the
cached reads. `Tenants` has the hook's tenant check and `RequestGate` its place among the
hooks; each takes the other's part as a choice of outcomes.

Definitions whose comment starts with "Mutant:" are not part of the models. They are
altered forms of the definition that follows, each with one plausible mistake;
exchanging them shows that the property named in `PROJECT.json` is able to fail.

### Abstractions

- Breaker: `successes` is dropped (reported only), `failures` saturates at the
  threshold (only compared with it), timestamps are ages that saturate at the
  timeout. `openedAt` is set by `Date.now()` and never 0, so `!!openedAt` is
  "is set".
- Client: of an error, its code, status and whether it has a `response`. Pauses have
  no length: nothing waits for one.
- Cache: data is its age. Readers of one key, a key's TTL and its two tags (tenant and
  class) are as in the services. ioredis sends a pipeline in one go, so it is one
  step, unless it fails: then any prefix of it may have run. `invalidateTenant()` has
  no caller in the repository and neither has `CircuitBreaker.reset()`; as public
  methods of modelled classes they are actions all the same.
- Jobs: BullMQ is external and modelled from how it is used: attempts with backoff,
  locks that expire (`Recover` for a dead processor, `LoseLock` for a live one),
  `maxStalledCount` at its default. SmartOLT may carry out a request whose answer is
  lost. Operations differ in their endpoint only. A job that is lost (`Forget`: its record or
  its list is evicted) is gone for good; that a write under an evicted id leaves a stub
  of a hash, and that ids are given out again when the counter is evicted, is left out.
- Tenants: of a row, existence, subdomain, `isActive`, `status`.
- Order: whether an attempt is left is a choice (`OnuJobs` counts), so every schedule of
  `OnuJobs` is among those of `OnuOrder`.
- Gate: routes of a kind give the same answers; of an answer, status and code. The
  limiter's counters are compared with the limit only and stop one above it. The order of
  the hooks is that of Fastify: a plugin's `onRoute` hook appends the limiter to the
  `onRequest` hooks which the route has itself. The history follows one caller and one
  route (`WatchedCaller`, `WatchedRoute`), any of them. An evicted counter is a window
  that ends early. Keys have no method; requests for `/login` share the key of
  "anonymous".
- Lifecycle: requests and jobs are alike and counted.

## 3. Runs

| Run | Question | Bounds and why they are enough |
|---|---|---|
| `client` | does the client drive the breaker as assumed; accounting, late outcomes, recovery; how much is sent behind an open circuit | 1 key (keys share nothing), 3 calls, 3 attempts, threshold 2: two calls trip the circuit while a third retries; 2 half-open requests, so that one settles under the other; timeout 2 so that ages 0, 1 and "over" differ |
| `cache` | do tag indexes list what lives; freshness, while commands of Redis fail | keys sharing both tags with TTLs 1 and 2 and slack 1, one whose TTL `SETEX` refuses, one whose TTL makes no date; 2 readers, 1 sweeper: a write, a rewrite and a sweep overlap. `MaxLag` is 0 here: data is stored in the minute it was fetched. With 1 TLC takes too long; `ServedFreshHolds` is for every lag |
| `jobs` | at-least-once unless Redis loses the job, bounded posts, audit rows | 1 job (jobs share only the slots and the tenant), 2 slots for the second run of a job whose lock was lost, 2 attempts of 2 requests, 1 stall, 1 crash |
| `job_status` | what do job status and queue counts show | 2 jobs, 1 poll at a time (what earlier polls told is kept), 2 attempts |
| `onu_order` | do operations on one ONU keep their order | 3 operations, 2 slots: one runs, one is in its backoff, one waits; 2 mishaps |
| `onu_view` | what is served after an invalidation | 2 keys that are invalidated, 1 list that is not; 2 reads of one key, 2 changes |
| `tenants` | overlapping table requests, statements that fail, answers that are lost | 3 ids, 2 subdomains, 2 requests: every check against one other writer |
| `gate` | who is stopped, and what callers are told, while services come and go | 2 tenants, a limit of 1, every kind of route, the history on one tenant's writes; 1 request at a time, as requests meet in the counters only (the theorems have any number) |
| `lifecycle` | start and shutdown under signals, with clients that hang up | 2 requests, 2 jobs, 2 signals |
| `breaker_consecutive` (violated) | does a run of failures open the circuit, as `src/README.md:248` says? | threshold 3 |
| `cache_sweep_finds` (violated) | does DELETE /onus/cache find the entries, with the default TTLs | TTLs 1 and 5 minutes |
| `jobs_audit` (violated) | are all operations logged | 1 attempt of 1 request |

Bounds in guards: `MaxLag` (how old data may get before it is stored; axios and ioredis
bound the wait), `MaxCrashes`, `MaxMishaps`, `MaxJobs`, `MaxRequests`, `MaxChanges`,
`MaxMoves` (as many moves as the run's jobs make while one tally counts; further ones are
not counted), and saturation as described above. `MaxStalls` is BullMQ's, not a bound.
Symmetry is used for readers, slots, requests and unused tenant ids, in runs without
liveness only. Deadlock is checked everywhere but in `jobs`, `jobs_audit` and
`onu_order`, where the system stops when all jobs have ended.

What the passing runs show:

- **Breaker.** A half-open attempt that is counted is always a call in flight which this
  very window admitted (`HalfOpenAccounted`); because every outcome applied in a window
  ends it, the counter cannot leak and the circuit cannot get stuck
  (`AlwaysAdmitsAgain`). Late failures extend the blocking window
  (`OpenWindowFromLastFailure`), late successes change nothing while it is open.
- **Client.** `ImplementsBreaker` discharges the breaker's fairness assumption: each
  attempt has a timeout and attempts are bounded. `BoundedLeak` bounds what reaches the
  upstream while the circuit is open: the remaining attempts of the other calls.
  `GivesUpOnlyWhenSpent`: no upstream answer, not even a 404, ends the retries early.
- **Cache.** `EntriesListed` holds only under `TtlsWithinSlack`, a condition on the
  configuration that the defaults do not meet (see the next section). `stray` collects
  the entries that a failure, an eviction or an overlapping sweep may have made
  unfindable: the code heals these only by their TTL (`ServedFresh`). So these hazards are
  bounded by the model and not excluded. A read fails for its cache rule's own
  sake when the TTL makes no date (`toISOString()` in `set()` throws outside its `try`).
- **Jobs.** `CompletedMeansDone` holds although two processors may work on one job,
  because a completion counts only with the lock. An accepted job is tried, and ends or is
  lost with Redis's memory (`ImplementsAtLeastOnce`); nothing tells its client of a loss.
- **Order.** `InOrderUnlessExcused`: operations on one ONU are carried out in the order in
  which they were accepted, unless they ran side by side, or a request or attempt of the
  earlier one failed or stalled. A client that waits for `completed` before it sends the
  next operation is safe only if the first one went undisturbed: a request that was given
  up may be carried out after the job's end.
- **Job status.** The first answer that says `completed` may lack its result, and the first
  that says `failed` its error, as the record was read before the job ended; a later call
  has it (`SecondAnswerIsWhole`). `failedReason` is never cleared: a job that
  completed at a later attempt shows the error of an earlier one beside its result, in every
  answer. The counts of `/metrics` add up to the number of jobs but for the moves
  meanwhile; an evicted list is as many moves as it had jobs.
- **View.** A read after an invalidation shows older data for two reasons only: a `DEL`
  failed, which nobody is told, or a read was under way (`StaleOnlyByRace`).
- **Gate.** A tenant is stopped only after it has itself sent more than the limit in a window
  (`StoppedByOwnRequests`). The property counts requests by whose they are, the limiter by
  `request.user`; the two agree only as long as `authenticate()` has run before the limiter's
  hook, and with the hooks the other way round tenants stop each other
  (`AuthenticateTooLate`). The one excuse is an `INCR` that ioredis sends again after
  it lost the connection (`LimitRepeats`), which counts one request twice. A 401 with the code UNAUTHORIZED for a good token
  means that Postgres was away (`TokenRefusedByOutage`). Without Redis nobody gets past the
  limiter, not even `/live` (`RedisGatesAll`): the checks of `/health` never see an outage
  of Redis that began before the request.
- **Lifecycle.** Requests always have their connections, jobs have them until a shutdown
  (`WorkIsConnected`): `app.close()` is awaited by every `shutdown()`, also by a second one.
  It waits for connections, not for handlers: a handler whose client has hung up outlives it
  and may meet a closed connection, as active jobs do.
- **Tenants.** A request that has passed its checks fails only through an overlap with another
  one or for the database, and a toggle is lost only through an overlap. A 500 does not say
  that nothing was written: the answer to the statement may have been lost (`AnswerLost`). When
  the last active tenant is switched off and no request that could change that is past its
  check, nobody gets in again (`LockoutIsFinal`).

## 4. Where code and documentation disagree

Three are runs that TLC shows violated, with a `findings` entry: consecutive failures
(`src/README.md:248`), invalidation of the ONU cache (`src/README.md:143`) and completeness
of the audit log (`src/README.md:268`).

Others were met while modelling; the models have what the code does, and no run is spent
on what the text says:

- `services/circuit-breaker/CircuitBreaker.ts:77` logs a "successful half-open attempt"
  also for the late success of a call that was admitted before the circuit opened.
- `src/README.md:14` lists "Request Deduplication"; `getOrSet()` keeps no record of fetches
  in progress, and two misses of one key both go to SmartOLT.
- `src/README.md:144`: invalidating one ONU leaves its entries when a `DEL` fails, or
  when a read under way stores what it fetched before (`StaleOnlyByRace` has both cases).
- `plugins/swagger.plugin.ts:20` promises isolated tenants; the tags `onus` and `olts` are
  shared, so one tenant's DELETE sweeps the entries of all (`onu.service.ts:177`).
- `plugins/swagger.plugin.ts:23` promises limits per tenant; `rateLimitPerMinute` is stored
  and put into the request (`tenant.middleware.ts:31-34`), and nothing reads it. As it has no
  effect on any state, no property of the models can notice it.
- `plugins/rateLimit.plugin.ts:17-26` composes the body of a 429; it has no `statusCode`,
  so `globalErrorHandler()` answers 500 (`RequestGate!RateLimitExceeded`).
- `plugins/swagger.plugin.ts:22` calls the queue reliable; `src/docker-compose.yml:111` lets
  Redis evict jobs that have not run (`JobStatus!Evict`, `JobStatus!EvictList`,
  `OnuJobs!Forget`).
- `app.ts:115` logs a graceful shutdown; `closeAll()` is never called, and active jobs are
  cut off (`Lifecycle!Exit`).

## 5. Fairness

Fairness is assumed of the program's and its libraries' own steps, never of what
clients or operators choose to do.

- Breaker: time passes; `fn()` settles. Justified by the client model, where it is
  derived: `axios` is always given a timeout, `sleep()` is a timer, attempts are bounded.
- Lifecycle: requests are answered (all they wait for has a timeout), `app.close()` resolves
  when they are, and the disconnects settle one way or the other. No crash and no kill by
  Docker is assumed, and no failure of `app.close()`.
- Jobs: BullMQ's worker takes waiting jobs, ends backoffs and looks for expired locks;
  the processor's awaits settle. Weak fairness is enough everywhere: no step that has
  to happen is ever taken away by another actor for good. That Redis keeps a job until it
  ends is not assumed: under `allkeys-lru` (`src/docker-compose.yml:111`) it need not, so what
  `AtLeastOnceJobs` promises is that a job ends or is lost.

## 6. Proofs

Every safety invariant and every action property that the passing runs check is also a
theorem: it holds for every value of the constants, not only for the instance of the run.
TLC checked each inductive invariant before it was proved. Each theorem `XHolds` states `Spec => []X` (`Spec => X` for an action
property) of the definition `X` that the run names.

**The breaker**, in `SmartOLTClientProofs`, for any set of keys, any finite set of call
slots, and any positive threshold, timeout and number of half-open attempts
(`BreakerAssumption`). The inductive invariant `IInv` is `TypeOK` with `HalfOpenAccounted`,
`TrippedKeepsCount` and `OpenWindowFromLastFailure`. No part is inductive alone: the open
window follows the last failure only because a tripped circuit keeps its count at the
threshold, so that every further failure trips it again; and a half-open circuit keeps
that count only because the one outcome that ends its window resets or re-trips it.
`InvByKey` reduces the invariant to one circuit (`CircuitOK`), `AdmissionKeeps`,
`RejectionKeeps`, `SettlingKeeps` and `ResetAndTickKeep` treat what can happen to it; an
admission into the window adds one call to a finite set. `OpenWindowHolds` is the theorem of
`OpenWindowFromLastFailure`, and `ClosesOnlyFromHalfOpenHolds` follows from the same
invariant.

**The client**, in `SmartOLTClientProofs`, for any positive number of attempts and at least one call slot
(`RetryAssumption`), besides the breaker's constants. `ClientImplementsBreaker` shows that
every step of the client is a step of the breaker or leaves it alone, so that what is
proved of the breaker holds inside the client (`ClientHalfOpenAccounted` is an example). For
`BoundedLeakHolds`, the attempts that are still to come are counted as the cardinality of a
set of pairs <<call, attempt number>> (`Remaining`): a request sent behind an open circuit takes
one pair out of it (`OneLessLeft`), and when a failure opens the circuit, the call that failed
has no pairs left (`OneAtRest`). `GivesUpOnlyWhenSpentHolds` rests on `EveryErrorRetried`.

**`TenantsProofs`**, for any ids, subdomains and request slots (`TenantsAssumption`: there
is a seeded tenant and a subdomain). `IInv` is `TypeOK`, `StatusMatchesActive`,
`SubdomainsUnique` and `BarredInactive`. The last strengthens `BarredGetNothingDone`,
which is not inductive: that a barred request is refused when it comes to
authenticate depends on its tenant being out of service still. All actions are of two
kinds, those that write nothing (`QuietStep`) and those that write one row
(`WritingStep`); a lemma per action shows that it is of its kind. `AnswerLostOK` treats a write
whose answer is lost, which is the write itself with another answer.

A second part of the module proves what overlaps cost. Its invariant `CheckedInv` says that
what a request has checked is still so when it writes, unless the history variable
`disturbed` has it. From it follow `FailsOnlyIfDisturbedHolds` and
`LostTogglesOverlapHolds`.

`LockoutIsFinalHolds` shows that every step keeps the lockout: a create or a
toggle that would lift it has to pass the hook first, which takes an active tenant.

**`OnuJobsProofs`**, for any jobs, any finite number of slots, and any number of attempts,
retries, stalls and crashes (`JobsAssumption`). Two processors may be on one job, so nothing can
be read off the job's record alone. `IInv` says what each processor has done by its phase
(`RunsOK`), from which `CompletedMeansDone` follows when the one with the lock returns. For
`PostsBounded` it counts what is still to come: the requests that processors under way have left
(`PostsLeft`, a set of pairs <<slot, request number>>) and `RetryAttempts` for each run that
BullMQ may still start (`Future`); together with what was posted they never exceed the bound
(`PostsCounted`). A pick turns one future run into requests left (`NewRunLeft`), a request
takes one pair (`OneLeftLess`), a lost lock gives a future run up although its processor
goes on, a crash only takes away. `AuditsCounted` does the same for the rows that processors
still owe. `JobStep` and `RunStep` treat the two kinds of steps.

`QueueImplementsAtLeastOnce` shows with that invariant that each step of the queue is a step of
`AtLeastOnceJobs` or changes nothing that a client sees: an enqueue submits, a request tries,
the end of the processor with the lock completes or fails, a stall too many fails, a loss in Redis
loses (`LostOK` has what it means to the counts: runs are given up, none is added).

**`CacheServiceProofs`**, for any keys, tenants, class tags, TTLs, key bundles, readers and
sweepers, and every lag (`CacheAssumption`). `ServedFresh` is strengthened to: the age of an
entry and what is left of its TTL together are at most the TTL and the lag (`EntryOK`). `EntriesListed`
is inductive with it: the condition on the TTLs bounds what is left of one entry by the
`EXPIRE` that another one brings (`ListedKept`), and time takes from both alike (`TickStep`).

**The view**, in `OnuProofs`, for any keys and bundle of them, readers and changes
(`ViewAssumption`). The invariant adds to `StaleOnlyByRace` that a read which no invalidation
has met shows nothing from before the latest one (`ReadersShow`).

**The order**, in `OnuProofs` too (the two specifications share nothing but the ONU), for any
number of operations, slots and mishaps (`OrderAssumption`). `InOrderUnlessExcused` speaks of
the moment when SmartOLT carries out an operation; what makes it true is decided long before, when the
later operation is picked. `OrderInv` therefore looks at the operations that are *fresh*: not
begun, and nothing has gone wrong with them.

- `ListOK`: the list has every fresh operation that was accepted, in the order of acceptance;
  between them stand only operations that excuse everything, because something went wrong with
  them. That they may stand anywhere matters: a backoff puts them at the end, a stall at the
  head. `ListTakesFresh`, `ListTakesSpoiled`, `ListHead` and `ListTail` say what an `Append`, a
  concatenation and a `Tail` do to such a list.
- `LaterFresh`: whatever an operation does not excuse is fresh as long as that operation is
  fresh or runs. A pick keeps it, because the head of the list is the least of the fresh ones,
  and is excused by all that run (`PickOK`).
- `OperationOK`: a fresh operation does not run and has had no effect; one in its backoff, or
  with a request that was given up and may yet arrive, excuses everything.

All other steps begin nothing. `CalmStep` shows that such a step keeps the invariant, whatever
goes wrong with the one operation it touches (`Disturbed`, `Undisturbed`).

`EndIsQuietHolds` is what a client may build on that sends an operation when it has seen the end
of the one before: a job that has completed, and that nothing went wrong with, has no
effect any more. It needs to know who runs a job (`LockOK`): until something goes wrong, the slot
with its lock and no other, so that with this slot's return nobody is left. No run has this
property (on the instance of `onu_order` TLC finds it true).

**`JobStatusProofs`**, for any finite set of jobs, any calls in progress and any number of
attempts (`StatusAssumption`). `SecondAnswerIsWhole` relates three moments: somebody was told of
an end, a later call read the record, and then the state. `AnswersOK` carries it from one to
the next: a job has one end and keeps its outcome until it is removed (`JobOK`, for which
every move is shown to be one of `Follows`), and a call that began after somebody was told
holds, between its reads, the outcome of that end or a record that is gone since (`PollOK`).
`RecordOK` says what a job's end means to its record: completed has a result, failed an error
and no result, and neither field is ever cleared.
`TallyOffByMoves` speaks of the fifth count only; `TallyOK` of each: what was counted, with the
jobs in the lists still to be counted (`Left`), differs from the number of jobs at the
beginning by no more than the moves since. A move shifts one job between two
lists (`MoveShifts`), the eviction of a list takes a set of jobs out (`Apart`), a count takes
one list out of what is left (`LeftSplits`).

**`RequestGateProofs`**, for any tenants, request slots and limit and any non-empty selection
of the routes (`GateAssumption`). The run has one request at a time; the theorems have any number side by side.
`RequestsOK` says what a request has met and missed so far: a service that is up counts as met,
one that is down as missed, a check that said "ok" has met its service, and whoever is in a
handler has met Redis, as the limiter let it pass. The properties about answers
(`TokenRefusedByOutage`, `RedisGatesAll`, `HealthyMeansReached`) follow for the step that answers
(`EndedOutcome`); all other requests stay where they were (`OthersGoOn`). For `StoppedByOwnRequests`,
`RequestsOK` also says that the limiter's hook finds `request.user` set to the caller, which
`AuthenticateOK` derives from what `authenticate()` does. `WatchedCovered` relates what the code
counts to what was sent: the counter of the watched key is at most `sent` less the watched
requests that are still to be counted (`Waiting`), unless one was counted twice. An arrival adds
to both sides of the difference, a count moves one request from one to the other
(`CountedOK`), a request that fails before it is counted only widens it, and at the end of a window
the waiting ones are what is left (`WindowEndsOK`).

**`LifecycleProofs`**, for any number of signals, requests and jobs (`LifecycleAssumption`).
`WorkIsConnected` follows from what `start()` has connected by the await it is at
(`StartConnects`), where the server stands between `start()` and the calls of `shutdown()`
(`ServerFollows`: nothing is disconnected before the server is closed, which it is only without
requests; handlers without a client may remain), and that only a process has handlers and only
workers have active jobs (`WorkFollows`).

Only model-checked: what needs fairness, which the provers do not handle. These are the
liveness properties `AlwaysAdmitsAgain` and `SignalEnds`, and the fairness half of the
refinements `ImplementsBreaker` and `ImplementsAtLeastOnce`, whose steps are proved.

## 7. Not modelled

- Sync worker and cache warming: `scheduleCacheWarming()` has no caller and nothing
  else adds jobs to `background-sync`, so no state is reached through it.
- API keys: `validateApiKey()` has no caller.
- Swagger, CORS, helmet, logging, helpers, configuration: no state, or formatting.
- `SMARTOLT_RETRY_ATTEMPTS` of 0 or less, which `config/env.ts:30` admits: `withRetry()` then
  throws `undefined`. The models take the number to be positive.
- The pages of `/docs` and paths without a route: no limiter hook, no state. The routes of job
  status and cache deletion have their modules and are not routes of the gate.
- In the modelled parts: length of pauses, contents of data, `pause`/`resume`/`closeAll`
  (no callers), memory, uptime and circuit statistics of the health routes.

## 8. Plan

1. Done: the components of section 1 with their runs and mutants, and the proofs of section 6.
2. Nothing that a passing run checks is left to prove but liveness. Worth stating next as
   theorems are facts about the interplay that no single run has: that the moves of
   `JobStatus` are those of `OnuJobs`, and what `OnuView` needs of `CacheService`.
3. Worth modelling if the code grows callers for it: the sync worker and cache warming, API keys,
   `closeAll()` in `shutdown()`. The last would change `Lifecycle!Exit` and
   `OnuJobs!Crash`.
