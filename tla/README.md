# TLA+ models of the AI gateway

The gateway in `src/` is an HTTP proxy in front of LLM providers (Groq, Gemini, a
mock). One POST passes through authentication, a budget check and a rate limit, is
looked up in a semantic cache (Postgres) and an exact cache (Redis), and, if neither
knows an answer, is sent to a provider behind a circuit breaker, with one fallback to
the other provider. This directory holds TLA+ models of that program, TLC
configurations for small instances and TLAPS proofs for all instances.

## 1. Inventory

| Component | Code | State | Operations | Modelled |
|---|---|---|---|---|
| Stampede protection | `internal/cache/redis.go`, `internal/proxy/handler.go` | Redis keys `cache:*` (answer, TTL), `lock:cache:*` (SETNX, 30 s), channels `notify:cache:*` | `Get`, `GetOrLock`, `PublishResult` | `Stampede` |
| Request path, non-streaming | `internal/proxy/handler.go` | the mutable `GatewayRequest`, the request context, the background goroutines | `ServeHTTP`, `executeWithBreaker`, `logAsync` | `Stampede` (caches, goroutine), `ProxyHandler` (providers), `Budget` (log rows) |
| Request path, streaming | `internal/proxy/handler.go` | a response already under way | `executeStreamWithBreaker`, `CompleteStream` | `ProxyHandler` |
| Circuit breaker | `internal/proxy/breaker.go` | atomic `state`, atomic `failures`, `lastFailure` under `mu` | `Allow`, `RecordSuccess`, `RecordFailure` | `CircuitBreaker` |
| Rate limiter | `internal/middleware/ratelimit.go` | one Redis sorted set per API key | `Allow`, `RateLimit` | `RateLimiter` |
| Semantic cache | `internal/cache/semantic.go` | rows of `semantic_cache` | `FindSimilar`, `Store`, `Embed` | `Translation` (what matches), `Stampede` (when), `Server` (connections) |
| Budget | `internal/middleware/budget.go`, `internal/store/postgres.go` | Redis spend cache (60 s), `request_logs`, `daily_spend_mv` | `CheckBudget`, `GetDailySpend`, `InsertLog`, `logAsync` | `Budget` |
| Authentication and administration | `internal/middleware/auth.go`, `admin.go`, `internal/admin/handler.go` | rows of `api_keys` | `Auth`, `AdminAccess`, `CreateKey`, `ListKeys`, `Stats` | `Server` |
| Providers | `internal/proxy/groq.go`, `gemini.go`, `mock.go` | none | `Complete`, `CompleteStream` | `Translation` (what is sent), `ProxyHandler` (what comes of it) |
| Lifecycle and pool | `cmd/server/main.go`, `internal/store/postgres.go` | listener, signal context, pool of 20 connections | start, `Shutdown`, `Close`, every query | `Server`; `Crash` in `Stampede` |
| Configuration, validation | `internal/config/config.go`, `internal/models/models.go` | none | `Load`, `Validate` | validation, in `Translation` |
| Statistics, migrations | `internal/store/postgres.go`, `migrations/` | none of its own | read-only SQL | no |

**How they interact.** The middleware and the handler run in one goroutine per request.
All requests of a process share one breaker per provider, the Redis client and the
Postgres pool; all processes share Redis and Postgres. After the answer has been written
a goroutine that nobody awaits publishes it (`SET`, `PUBLISH`, `DEL`) and stores it in the
semantic cache; another writes the log row the budget is computed from. The goroutine
holds the same `*GatewayRequest` the handler rewrites when it falls back.

**What is hard, and what must hold.**

* Stampede protection. The `GET` and the `SETNX` are separate commands; the subscription is
  sent, not confirmed, before the wait; the `DEL` carries no token; every error makes a
  request an owner; owners disconnect, fail or die with the lock set. It must be that
  what is served belongs to the request; that waiting outlasts the lock; that a lock covers
  one owner when nothing goes wrong; that nobody hangs and no lock stays for ever; and that
  trouble in a cache never refuses a request.
* Circuit breaker. `RecordSuccess` decides on one load and then stores twice;
  `Allow` changes the state on the word of an earlier load. To the requests that share
  it the breaker must be atomic but where a trip and a `RecordSuccess` overlap, that must not
  outlast the next undisturbed trip, the open window must hold, and the breaker must end up
  where the provider is however the races went.
* Providers and streams. All requests share the breakers; a disconnecting client, a stream
  that Gemini cannot serve and a fallback with a model the other provider does not know all
  count as failures. A stream breaks off after its first chunks and the fallback
  gets the same response. Nobody may be turned away without a recent failure, no response
  may contain the output of two calls, and a provider that stops failing must be found again.
* Rate limiter. The clock is read by the process, the pipeline runs later, and the member
  of a rejected request is removed by a further command. The limit must hold in real time,
  nobody may be rejected while places are free, and rejected requests must not lock a key out.
* Budget. The spend is cached for 60 s by whoever comes last, computed from a view nobody
  refreshes or from the logs, which are written after the answer and may be lost; days change meanwhile.
  A spent key must be stopped within a known time, and nobody may be refused for a day
  that is not spent.
* Keys. A key is revoked while its requests wait for a connection, and its insertion may
  take effect although the administrator gets a 500. A dead key must leave no trace, a live one must be honoured.
* Lifecycle. Twenty connections serve handlers, one query at a time, and unbounded goroutines,
  some with a timeout and some without; shutdown has a deadline and closes the pool under the goroutines.
  Nobody may starve or deadlock on the pool, a shutdown must end, and it must not cut off
  an accepted request unless its time is over, also one that is read only after the signal.
* Translation. One request becomes an exact key, a vector, a Groq request and a Gemini
  request, and no code checks the roles of the messages. What reaches a provider must be in the
  key, a semantic hit must be close, and the fallback must hear the same conversation.

`PROJECT.json` lists these hazards at their lines, with the properties that cover them.

## 2. Modules

| Module | Content |
|---|---|
| `Stampede` | caches and stampede protection on the request path: state, actions, fairness |
| `StampedeProps` | its properties, and `INSTANCE AnswerService` |
| `AnswerService` | the abstract specification: what a client of the gateway is promised |
| `BreakerSteps` | what one undisturbed call of a breaker's method does to the breaker |
| `AtomicBreaker` | the abstract specification made of these steps: what the breaker promises its callers |
| `CircuitBreaker` | one breaker shared by the goroutines of a process, instruction by instruction |
| `ProxyHandler` | the provider calls, streams included, of all requests behind all breakers |
| `RateLimiter` | `Allow` for one API key |
| `Budget` | the budget of one API key, from the log row to the refusal |
| `Server` | one process from start to exit, its requests, keys and pool |
| `Translation` | the forms of a request and what the caches take for the same question |
| `StampedeProofs`, `AnswerServiceProofs`, `CircuitBreakerProofs`, `ProxyHandlerProofs`, `RateLimiterProofs`, `BudgetProofs`, `ServerProofs`, `TranslationProofs` | theorems about them |
| `MCStampede`, `MCCircuitBreaker`, `MCProxyHandler`, `MCRateLimiter`, `MCBudget`, `MCServer`, `MCTranslation` | the instances for TLC |

The modules cut one request into the parts that interfere with different things.
`Server` has the whole of it with the caches and providers as one step, `Stampede` what happens around the
caches with the providers as one outcome, `ProxyHandler` the providers with the breakers as
atomic objects (`BreakerSteps`), `CircuitBreaker` the instructions of one of those. `RateLimiter` and `Budget`
are the two middlewares with state in Redis; `Translation` has the data the others abstract from.

Operators named `X_Variant` that stand before an `X` with a comment "Mutant" are plausible
bugs in `X`. No specification uses them; `PROJECT.json` pairs each with the property it breaks.

### 2.1 Stampede

`pc[r]` is the place of a request's handler:

| `pc` | Code |
|---|---|
| `new` | before `FindSimilar` (handler.go) |
| `get`, `setnx`, `subscribe`, `waiting` | the steps of `GetOrLock` (redis.go) |
| `execute`, `calling` | `executeWithBreaker` with the primary provider |
| `fallback`, `fbcalling` | the same with the fallback provider, after the rewrite of the request |
| `respond` | the answer is about to be written, the goroutine about to start |
| `done`, `crashed` | answered; lost with its process |

`bg[r]` is the place of its background goroutine (`set`, `publish`, `del` of `PublishResult`,
then `store`).

* *Data.* The keys `cache:h`, `lock:cache:h` and `notify:cache:h` of a hash are one element of
  `Keys`. A response is the key of the request it was computed for; an entry under another
  key than its own is therefore a state TLC can see. `reqKey[r]` is the hash of the mutable
  request: the fallback rewrite changes it, and the goroutine uses the rewritten one as the
  code does. Similarity of texts is the constant relation `Similar`.
* *Redis.* Each command is one action. `GetFails`, `SetNXFails`, `BgSetFails` and so on are the
  error paths; a write whose reply is lost may have been applied, and the Redis client repeats a
  command whose reply it did not get, which is why a `SETNX` can be blocked by itself
  (`BlockedBySelf`) and a `DEL` run twice (`BgDelRetried`). A `PUBLISH` reaches those whose
  `SUBSCRIBE` has taken effect (`Listening`); the code does not wait for the confirmation, so
  `SubscribeTakesEffect` is a step of its own that may come late or never.
* *Time.* `Tick` lowers lock TTLs and the waiters' timers together. Only the order of the two
  durations matters to the properties, and `TimerAssumption` states it (30 s < 35 s). A lock that
  reaches 0 is gone. Request handling is not tied to ticks: a provider call may last any number of them.
* *Disturbances.* `Faults` says which the environment may cause: `redis` (errors and lost
  replies), `provider` (failing call, missing provider, refusing breaker), `store` (Postgres
  errors), `cancel` (the client disconnects), `crash`, `evict` (cache TTL and Redis
  eviction). Under a cancelled context any command of the handler may fail and no provider
  call goes out; the goroutine has a context of its own. `Crash(h)` also stands for a shutdown, which waits
  for handlers but not for goroutines. A request that was on its way when a process died is
  handled after the restart.
* *Grain.* Two neighbouring steps are one action where nothing shared lies between them: the start of the
  goroutine and the writing of the answer (`Respond`), a failing call and the rewrite for the
  fallback (`PrimaryFails`; the goroutine does not exist yet, so nobody else sees the request).
* *One-shot requests.* A request is handled once, as in the code; when all are done and all
  timers are zero the model stops, hence `CHECK_DEADLOCK FALSE`.
* *History variables.* `produced` collects the responses a provider has computed, for
  the refinement. `calm` is true until a wait times out, a call fails for a reason other than the client's
  disconnect, a `SETNX` fails, a `DEL` is repeated, or a lock expires under its owner (`Overrun`).
  No action reads either.

Left out: `Cache.Delete`, which nobody calls; the semantic cache's hit counter, which
nobody reads; a cache entry that cannot be decoded, which `GetFails` covers.

### 2.2 AnswerService

Two variables: the responses that exist, and each client's answer. An answer is given once
and was computed by a provider: for the client's request or its fallback rewrite (`MISS`), for exactly
the request (`HIT`), or for a similar text (`SEMANTIC-HIT`). `StampedeProps!Service` maps `produced`
and `reply` to them; a crashed request is answered by the lost connection.

### 2.3 CircuitBreaker

A thread repeats `executeWithBreaker`: `Allow`, the call, `RecordSuccess` or `RecordFailure`.
One action is one atomic instruction or one critical section. A section counts as one action
although it contains an atomic store that others read without the mutex: `lastFailure`, the other thing
it touches, is read and written under the mutex only, and the test of the elapsed time cannot turn false
while the mutex is held. `failures` stops at `Threshold` (the code compares and resets it; the
wrap of the 32-bit counter after 2^31 failures is ignored), `elapsed` at `Timeout`.
The history variable `probes` holds the threads let through by a breaker that was not CLOSED. Two more stand for the two
windows the code leaves open:

* `raced`: the last trip overlapped a `RecordSuccess`, that is, one was past its load (and may yet close the OPEN breaker), or one had
  reset the counter since the failure that filled it. While `raced` holds the properties promise nothing. The next trip that
  overlaps none sets it to FALSE, and everything is promised again.
* `reopened`: an `Allow` that had loaded OPEN found the breaker closed by somebody else and made it HALF-OPEN, with
  a counter that was reset; no trip is involved. Nothing is suspended then: `FailuresMatchState` names this case, and the refinement covers it.
  A HALF-OPEN breaker lets everyone through, like a CLOSED one, and this one needs `Threshold` failures to open, like a
  CLOSED one, so that its callers cannot tell the difference. Only `State()`, in `/v1/providers/health`, shows it.

`AtomicBreaker` is the same breaker with each method in one step, the steps `ProxyHandler` uses. `CircuitBreaker` implements it
(`ImplementsAtomicBreaker`) under a mapping that says when a method takes effect: `Allow` at its load, or, if that showed OPEN, when
it has the mutex; `RecordSuccess` at its load if that shows OPEN, else at the store of the counter, so that a breaker with a
store of state still to come is seen CLOSED (`SeenState`), as is a `reopened` one; `RecordFailure` at its addition, or, if that reaches the threshold,
when it trips, so that a full counter of a CLOSED breaker is seen one below (`SeenBreaker`). While `raced` holds the abstract
breaker may do anything (`Overlap`), and a trip that overlaps no `RecordSuccess` ends that with an OPEN breaker (`Settle`). Such a trip may
never come; `Recovers` and `Trips` say what holds all the same.

### 2.4 RateLimiter

Keys are independent, so the model has one. `zset` counts the members by the age of their score; two members
of equal score differ only in the random part of their name and are interchangeable. `Total` counts them as a set of pairs of an age and a number. `ReadClock` is the call
of `time.Now`; the pipeline (prune, count, add, expire) is one Redis transaction and one
action; `RemoveRejected` is the separate `ZREM`. A stamp may be up to `MaxDelay` ticks old
when its pipeline runs: that is the bound in the guard of `Tick`. `Gone` marks a rejected request
whose member has been pruned or has expired with the key. After a Redis error (500) the pipeline may
have run, and a failed `ZREM` leaves its member; `MaxFaults` bounds those errors. Clocks of processes that run ahead of each
other are not modelled.

### 2.5 Budget

Spend is counted in units and stops at `Limit`, the only value it is compared with. `pc[c]` follows
`CheckBudget`: `lookup` (the Redis `GET`), `view` and `sum` (the two queries of
`GetDailySpend`), `store` (the `SET`), then `serving` or `refused`.

* `today[c]` is the date the check put into its cache key; the queries use the database's date, `day`. The
  two differ for a check that spans midnight.
* `cached[d]` is the Redis entry of a date. `StoreSpend` overwrites it whatever it holds, with a
  value read up to `MaxDelay` ticks earlier (the guard of `Tick` is that bound).
* `view` is today's row of `daily_spend_mv`. No code refreshes it; `RefreshView` is the operator's, and
  `ViewPeriod` is how often he does it once the row exists. Without that no bound on the overspending
  exists: the row stands still for the rest of the day.
* A charged answer is a row in `pending` until `InsertLog`, which dates it, or `LogLost` (five seconds,
  or the schema's constraint, which refuses rows of the mock provider). Hits are charged like calls; a
  stream's usage is never filled in, so that it is `ServeFree`.
* `past[a]` is the history of `total[day]`, which `LimitBites` looks back to.

`Fault` bounds the errors of Redis and Postgres. A cached value that does not parse cannot occur:
the code writes a formatted float under that key and nothing else does.

### 2.6 ProxyHandler

`pc[c]` is `try` (at `Allow`), `calling` (in `Complete` or `CompleteStream`), `streaming` (after
the first chunk), `done`. `req[c]` is the mutable request: `Rewritten` changes the provider, and the model of an
ordinary request only, which is why a stream that fell back asks a provider for a model it does not know
(`Accepts`). `voices[c]` counts the calls that have written to the response. `CallFails` is any error, at
any time: the provider's, the timeout of 60 s (it includes the body of a stream) and the client's
disconnect, which the code counts alike. A breaker operation is one action, on a record
`[state, failures, elapsed]`; that `Passes` and `Tried` are one step and `RecordSuccess` another keeps the
interleaving of different requests. The races inside an operation are the matter of `CircuitBreaker`, and
`ImplementsAtomicBreaker` there says that they make no difference to the requests but from a trip that overlaps a
`RecordSuccess` to the next one that overlaps none. What they make of requests in between is not in `ProxyHandler`.

`quiet[p]` (ticks since a call to `p` failed) and `excuse[c]` (providers that failed during the request or less than
`Timeout` before it) are history variables; no guard reads them, except that `Tick` stops when they have
nothing left to count.

### 2.7 Server

`phase` is the process: `starting`, `serving`, `draining` (in `Shutdown`), `closing` (in the deferred `Close`),
`exited` or `killed`. `at[r]` is `connected` while the listener has accepted a connection and the server has not read the request. `Shutdown`
closes the listener and waits for such connections too; the request may still come and is served (`Accept`), or nothing comes
for five seconds and the connection is closed (`HangUp`). After that `at[r]` is a handler's stage: a name in `Queries` means it waits for
a connection or for the answer on it, which `holds` tells apart. The code never holds a connection while it asks for
another, hence one query per stage. `log[r]` and `store[r]` are the goroutines; a log goroutine has a timeout of
5 s (`LogLost`), a storing one none (`StoreRow` is fair instead). `keys[k]` are rows of `api_keys`; `CreateKey` inserts
one, `QueryFails` may insert it although it reports 500, `Revoke` is the operator's (the code has no
such operation). A key that a request makes can be used only after the 201.
`Signal` is SIGINT or SIGTERM: the second one during `draining` is swallowed by the context that is already
done, the one after `stop` has run kills. `ListenFails` and a failing `Start` are `log.Fatalf`, which runs no deferred call.

`Complete` stands for the exact cache and the providers, which use no connection, in one step that may answer,
answer 503, or never happen (a slow provider, a client that does not read).

### 2.8 Translation

Operators translate the pure functions: `Validate`, `RequestHash`, `GroqRequest`, `GeminiRequest`, `Embed`, and
the query of `FindSimilar` (`Candidates`, ordered by `AtLeastAsSimilar`). A vector is the number of words per bucket; the
cosine is compared by squares, so that integers suffice, and a zero vector matches and comes first, as
Postgres orders NaN. `Said` is the loop over the messages that the translations share. A response is identified by the request it answers. The state machine asks one question after another and
keeps what the exact cache, the semantic cache and the last reply hold.

`Roles` and `Models` are parameters, of which `NameAssumption` says only that they contain the names the code spells out. `Validate` looks
at no role and both providers forward whatever they are given; Gemini's client renames "assistant" to "model" and nothing else
(`Renamed`). Hence `FallbackKeepsConversation` does not say that both hear the same roles. It says that
they hear the same turns and the same system texts in the same order, and that two turns have one speaker for the one provider
exactly if they have for the other, unless a client calls somebody "model": Gemini takes him for the assistant, Groq does not.
Groq's client leaves out a temperature of 0 (`omitempty`).

## 3. Runs

| Run | Instance | Shows |
|---|---|---|
| `stampede_safety` | two requests for `k1`, which falls back to `k2`, and one for `k2`; providers and Redis fail | `KeyIntegrity`, `WaitOutlastsLock`, `SingleOwner`, `FillBeforeRelease`, refinement of `AnswerService` |
| `stampede_live` | two identical requests on two processes; everything but providers fails | `SingleOwner`, `CacheTroubleNeverRefuses`, `EveryRequestAnswered`, `LockEventuallyFree` |
| `stampede_failed_owner` | two identical requests, no fallback, providers fail | `FailedOwnerReleasesLock` is violated |
| `stampede_once` | two identical requests, nothing fails | `ProviderCalledOnce` is violated |
| `breaker` | three goroutines, threshold 2, timeout 2 | `FailuresMatchState`, `OpenWindowHolds`, refinement of `AtomicBreaker`, `Recovers`, `Trips` |
| `breaker_probe` | the same | `HalfOpenSingleProbe` is violated |
| `proxy` | two clients, three providers, threshold 2, timeout 1 | `RefusedOnlyOnFailure`, `OneVoice`, `ServesAgain` |
| `ratelimit` | two clients, limit 2, window 3, one fault | `RateBound`, `RejectedOnlyWhenFull`, `NeverLockedOut` |
| `ratelimit_lockout` | two clients, limit 1, no fault | `NeverLockedOut` is violated |
| `budget` | two clients of one key, limit 2, two days, one fault | `LimitBites`, `RefusedOnlySpent` |
| `server` | four requests (one makes a key, one uses it), one connection, one tick of grace | `OnlyLiveKeysAct`, `KeysHonoured`, `DrainedAnswered`, `PoolServes`, `LogGoroutinesEnd`, `ShutdownCompletes` |
| `translation` | seventeen requests that differ in one respect each (model, temperature and roles among them), over five texts | `HitAnswersTheQuestion`, `SemanticHitIsSimilar`, `FallbackKeepsConversation` |

**Why the bounds are enough.**

* Stampede: the interference is between an owner, a
  second request for the same hash and an owner of the hash the first one falls back to; three requests over
  two keys give all of them, and `LockTTL` 2 with `WaitTimeout` 3 gives waits that start before,
  between and after the ticks of a lock. Two requests are the least that wait for each other across a crash. All
  disturbances with three requests give more than nine million states, which is why they are divided
  between the two runs.
* Breaker: three threads are one more than a race needs, so that a
  third observes its outcome, and threshold 2 tells "counted" from "tripped".
* Proxy: one client is refused for what the other did; with three the states are beyond reach
  and the theorems of section 5 cover them. Threshold 2 lets one request trip a breaker only together with
  another or with an earlier one; timeout 1 tells "open" from "open long enough".
* Limiter: a window of three with a delay of one tells the real-time window from the stamped one.
* Budget: two clients, so that an old reader overwrites a new one's entry; a limit of two, so that a
  spend below it is cached and outdated; one pending row that the spend lacks; every delay at least 1. The span
  `CacheTTL + MaxDelay + ViewPeriod - 1` is tight: one tick less is violated in the same instance.
* Server: with one connection all users of the pool compete for it, and a user that needed two would
  block for ever; a larger pool only removes waiting. The key that is made may be an administrator's or not. One tick of grace lets the deadline pass before or after the last
  answer. `CHECK_DEADLOCK FALSE` because a process that has exited does nothing more.
* Translation: one entry of the exact cache and two rows are enough for a wrong match and for a wrong choice
  between two; the texts include one without a word, and two long ones whose cosine is above the threshold;
  the conversations have up to four turns, by the roles the code knows and two more.

**What fails.** The four violated properties are statements of the repository:

* `FailedOwnerReleasesLock` (README.md:39): an owner whose providers fail answers 503 and
  leaves; the lock stays for its TTL and nobody is notified.
* `ProviderCalledOnce` (README.md:33 and the stampede test): r2's `GET` misses before r1
  has filled the cache, r2's `SETNX` runs after r1's `DEL`; nothing looks at the cache again under
  the lock. `SingleOwner` still holds: the calls do not overlap.
* `HalfOpenSingleProbe` (breaker.go:48): HALF-OPEN lets everyone through.
* `NeverLockedOut` with more clients than the limit (ratelimit.go:54-56): the member of a rejected
  request counts until its `ZREM`, so that two clients can reject each other for ever. With
  no more clients than the limit it holds, one lost `ZREM` included.

**What was seen on the way.** The models include these facts about the code; no run is about them alone.

* `pool_max_conns` in `DATABASE_URL` (README.md:71) has no effect: postgres.go:36 sets 20.
* "press Ctrl+C again to force" (main.go:182): the second signal goes to the context that is already done, until `stop` runs.
* `DEFAULT_RPS` is read and used nowhere; a key created without `rate_limit_rps` gets 0, not the schema's
  default of 10, and admits nothing.
* Rows with provider `mock` are refused by the constraint in `001_schema.sql` (README section 4 says so), streams are
  logged at no cost, and hits are billed like calls.
* A text without a letter or digit has a zero vector and matches every row (semantic.go:98).
* Nobody checks the roles of messages. A client that uses Gemini's own "model" for the assistant is understood by Gemini, but after a
  fallback Groq is sent "model" (gemini.go:78-82, groq.go).
* `/v1/providers/health` can show HALF-OPEN for a breaker that was closed, until `Threshold` calls fail or one succeeds (breaker.go:39-44).
* Gemini is not sent `max_tokens` and `temperature`; a conversation of system messages only leaves it without contents.

## 4. Fairness

* `Stampede!Fairness`: weak fairness for each part of a handler and of its goroutine, and for `Tick`. The Go
  scheduler runs every runnable goroutine; provider calls and Redis commands end because
  their clients have timeouts; time passes. Arrival of a request, the effect of a
  `SUBSCRIBE`, disconnects, crashes, eviction and the repetition of a `DEL` are not fair. The lookup
  in the semantic cache is not either: it is the request's arrival.
* `CircuitBreaker!FairSpec`: weak fairness for each thread and for `Tick`. Clients keep sending, which is
  what `Recovers` is conditional on in practice: without traffic an OPEN breaker stays OPEN. The
  provider's health is unconstrained.
* `ProxyHandler!FairSpec`: weak fairness for `Tick`, for the handler of each client (a call ends, by its
  timeout if by nothing else) and for the return of its answer. Nobody has to send a request.
* `RateLimiter!FairSpec`: the same for each client and `Tick`.
* `Server!Fairness`: time passes, `Shutdown` returns at its deadline at the latest, `Close` returns when it can; Postgres
  answers the queries of handlers and of storing goroutines; the five seconds of a log goroutine run out; the pool hands
  connections on (pgxpool queues its waiters). Nothing is assumed of the insertion of a log row, of the caches and
  providers, or of clients, which may never read their answers.
* `Budget` and `Translation` have safety properties only and no fairness.

No fairness is assumed about a choice between two enabled outcomes of one call.

## 5. Proofs

All theorems are of the form `Spec => []P`, `Spec => [][A]_vars` or `Spec => Abstract`, for all values of the
constants under the named assumptions of the modules. Every invariant, every action property and both refinements that
the passing runs check are theorems.

`StampedeProofs`:

* `TypeCorrect` from `RequestAssumption`, `KeyAssumption`, `NullAssumption`, `TimerAssumption`.
* `WaitOutlastsLockHolds` needs that a waiter's timer is longer than what is left of the lock that
  blocked it (`LockFacts`, `WaitFacts`); it is where `LockTTL < WaitTimeout` is used.
* `SingleOwnerHolds`. Owning is not visible in the lock alone: the lock of an owner may have expired,
  or belong to the hash it was rewritten to. `OwnerFacts` says that, while calm, an owning request
  still holds the lock of the hash it arrived with and has not been rewritten unless its client has
  left; `BackgroundFacts` ties the goroutine to the answered request. One lock has one holder.
* `KeyIntegrityHolds` from `ValueFacts`: a response is for the hash its request has now, and a
  request that has not called a provider has the hash it arrived with, so that a subscriber
  listens on that one.

Their conjunction with `TypeOK` is the inductive invariant `IInv`, proved action by action.

`FillBeforeReleaseHolds`, under the further assumption `"evict" \notin Faults` (an evicted entry is gone however it
was ordered), rests on `FilledFacts`: a goroutine that is past its `SET` has its entry in the cache.

`AnswerServiceProofs`: the refinement `Spec => ImplementsAnswerService`. `SourceFacts` says that whatever
lies in the exact cache, in a row, in a subscriber's inbox or in a handler's hands was
computed by a provider; each action then maps to `Compute`, `Serve`, `Refuse`, `Lose` or a stutter of the abstract specification.
`CacheTroubleNeverRefusesHolds`: a 503 is given only after a failing call or to a client that has left.

`CircuitBreakerProofs`: `TypeCorrect`, `FailuresMatchStateHolds` and `OpenWindowHoldsAlways`. The properties are not
inductive; `CounterFacts` adds that a `reopened` breaker is HALF-OPEN and, unless `raced`, that nobody is past the load of `RecordSuccess`
while the breaker is OPEN, and that a counter which is full again after a reset, or in a `reopened` breaker, means
somebody is about to trip it. A trip that overlaps no `RecordSuccess` finds a full counter and nobody recording a success: it
establishes these facts whatever it found of the others.

`ImplementsAtomic`: `Spec => ImplementsAtomicBreaker`, one lemma per instruction. The mapping needs `OpenFacts`, that a goroutine which
saw the breaker OPEN and whose time is not up finds it OPEN still, so that `Refuse` refuses what the atomic breaker would refuse;
`FailuresMatchState`, so that the addition which fills the counter is not seen; and `NoSuccessWhileOpen`, so that what trips is not
seen closed. The trip that ends a race maps to `Settle`. Together with `TypeOK` and `CounterFacts` that is `AtomicInv`.

`ProxyHandlerProofs`, for any clients, any `Threshold` and `Timeout`, and any configured set with the mock:

* `TypeCorrect` and `OneVoiceHolds` from `VoiceFacts`: after a voice broke off, the request has fallen back
  and names a provider that is not the one its model belongs to, so that no second call can begin to stream; and a
  handler that is in a call called a configured provider.
* `RefusedOnlyOnFailureHolds`. `QuietFacts`: an OPEN breaker has counted at least the ticks for which its provider has been
  quiet, so that the provider of one that refuses has failed less than `Timeout` ago. `ExcuseFacts`: such a provider is in the excuse
  of every request that could go there, and so is the one a request has fallen back from, however long ago.

`RateLimiterProofs`, for any finite set of clients (`ClientAssumption`):

* `TypeCorrect`, which here says that a count never falls below zero. `MemberFacts`: at every age there are at least as many
  members as rejected requests that are going to remove one.
* `LimitHolds`: `RateBound`. A pipeline counts members by stamp, the bound is about admissions by time. `BoundFacts` relates
  the two for every age `m` within the window: the members up to `m` are at least the requests admitted up to `m - MaxDelay` and, beside them,
  the rejected ones whose `ZREM` is still to come, so that a removal never takes what stands for an admission.
  `KeyFacts`: the key outlives what it counts, which is where `Window <= KeyTTL` is used. The lemmas on `Total` (`TotalAdd`,
  `TotalMonotone`, `TotalOlder`) say what one more member, a larger range and a tick do to it.
* `RejectionsHaveReasons`: `RejectedOnlyWhenFull`. `CoverFacts` is the converse of `BoundFacts` for every age that no pipeline has
  pruned: each member is that of a request admitted no longer ago, or of a rejected one that is to take it away, or was left by
  an error. It bounds how far concurrent rejections and lost `ZREM`s can push a key below its limit, also with more
  clients than the limit, where `NeverLockedOut` fails: each costs one place, until it is removed or for its window.

`TranslationProofs`, for any texts, roles, models and set of requests:

* `TypeCorrect`, `HitsAnswerTheQuestion` and `SemanticHitsAreSimilar` from `TranslationInv`: what either cache holds is a validated request
  that was no stream, and a hit lay under the key of the request; requests with the same key are the same question to every
  provider (`SameKeySameQuestion`).
* `FallbacksKeepConversation`, for conversations of any length. The loop `Said` is a recursive function; `LoopExists` shows that it is defined,
  `SaidFirst` that a system prompt put before the messages comes out first and changes nothing else. These two
  are inductions; they are carried out on sets, as the absence of a smallest round at which they fail
  (`SmallestNumber`, from the well-foundedness of `<` on the naturals).

`BudgetProofs`: `TypeCorrect`; `RefusedOnlySpentHolds` from `SpentFacts` (a spend that refuses, in a cache entry or in a handler, was
reached on a day not before the one it is filed under; the view never shows more than the logs); `LimitBitesAlways` from `AgeFacts`, which
bounds by the remaining TTL, the delay and the age of the view how far back in `past` the value lies that a decision is made on.

`ServerProofs`: `TypeCorrect` (with the size of the pool), `KeysHonouredHolds`, `OnlyLiveKeysActHolds`,
`DrainedAnsweredHolds`. `KeyFacts`: a key is absent only while nobody was told it; `DeadKeyFacts`: a request that arrived with a revoked
key never gets past its authentication; `PoolFacts`: the users that hold connections are finitely many, so that
the pool can be counted. `DrainedAnswered` is inductive by itself: it rests on the test of `Shutdown` and on
a listener that accepts nothing after the signal.

**Only model-checked**: the liveness properties (`EveryRequestAnswered`, `LockEventuallyFree`, `Recovers`, `Trips`, `NeverLockedOut`,
`ServesAgain`, `PoolServes`, `LogGoroutinesEnd`, `ShutdownCompletes`), because the provers have no rule for fairness that applies
here. Of `Translation`, nothing is proved about the numbers a vector consists of: `Embed` and `Dot` are folds, and the theorems take
`Similar` and `Wordless` as they are.

## 6. Not modelled, and why

* Statistics queries, migrations, configuration, logging and HTML pages are pure I/O or straight-line code. A second run of the
  migrations stops at the first `CREATE TABLE` of `001_schema.sql`; nothing runs them but an operator.
* Prices and costs: floats that no state depends on apart from the unit of `Budget`; their rounding to
  `NUMERIC(10,6)` is left out.
* Clocks that differ between processes and the database's session time zone: `Budget` has one date, `RateLimiter` one clock.
* A request without a key, which is answered 401 before anything is read; `/v1/providers/health`, which reads the breakers only.
* `Cache.Delete`, which has no caller; the hit counter of the semantic cache, which has no reader.
* The semantic cache in `Stampede` is a given relation (its rows never expire; a failed query counts as a
  miss, `SemanticMiss`); `Translation` says what the relation is.
* Several Redis nodes and their failover are outside the code.

## 7. Plan

Done, in this order: `Stampede` with `AnswerService`, `CircuitBreaker` and `RateLimiter`; `Budget`; `ProxyHandler`; `Server`; `Translation`;
`AtomicBreaker`; the proofs of section 5. What could follow:

1. The races of `CircuitBreaker` inside `ProxyHandler`, to see what an overlap costs a client.
2. Measures that decrease with each step of a handler, the part of the liveness properties that needs no fairness.
3. Migrations and seeding as actions of `Server`, if the code ever runs them itself.
