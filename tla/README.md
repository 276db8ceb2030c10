# A TLA+ model of the Kenbun gateway

Kenbun (`src/`) is an LLM gateway in Go. A request carries a tenant's API key;
the gateway looks the tenant up through a two-tier cache, checks its budget and
its rate limit, picks a provider by health and latency, calls it with retries,
streams or returns the answer, and logs an event whose cost a background
processor adds to the tenant's spending. This directory models the parts of that
pipeline that keep state or run concurrently, checks them with TLC on small
instances, and proves their main properties with TLAPS for all instances.

Paths below are relative to `src/`. `PROJECT.json` maps every definition to the
lines it stands for and lists the hazards the properties are aimed at.

## The system

| Part | Code | State | Operations |
|---|---|---|---|
| Rate limiter | `internal/ratelimit/ratelimit.go` | per instance: mutex, a bucket (tokens, last) per tenant | `Allow`; `backgroundSync` on a ticker |
| Health monitor | `internal/router/router.go` | per provider: lock, error rate and latency averages | `RecordSuccess`, `RecordError`, `ForceFailure`, `GetState`, `GetLatency` |
| Selector | `internal/router/selector.go` | none; reads the monitor | `Select` |
| Request pipeline | `internal/router/handler.go` | the request's context | `ServeHTTP`, `handleSync`, `handleStream` |
| Retries | `internal/provider/resilient.go` | a goroutine, two channels and a context per attempt | `Chat`, `ChatStream` |
| Providers | `internal/provider/{openai,anthropic,gemini,ollama,mock}.go` | a goroutine per stream | `Chat`, `ChatStream` |
| Cost | `internal/provider/provider.go` | none | `EstimateCost` |
| Cache | `internal/cache/{cache,memory}.go` | ristretto per instance, Redis shared; or a plain map | `Get`, `Set` |
| Event log | `internal/logging/logging.go` | asynchronous Kafka writer, Redis channel | `Log`, `Broadcast` |
| Budget processor | `internal/db/processor.go` | pending costs, consumer offset, ticker | `Start`, `flush` |
| Tenants | `internal/db/db.go` | PostgreSQL rows | lookup by key hash, `UpdateTenantSpend`, create, list |
| Admin API | `internal/router/admin.go` | none | tenants, statistics, `failProvider`, live log |
| Analytics | `internal/logging/clickhouse.go` | ClickHouse, read only | statistics queries |
| Bootstrap | `cmd/gateway/main.go`, `internal/config` | none | wiring |
| Dashboard | `ui/` | the log page's last 50 entries, its feed and its pause button | live log, rendering |

How the parts meet, and what is hard there:

* *Requests and the monitor.* Every request goroutine reads and writes the
  monitor one call, and one lock, at a time. `Select` compares latencies that
  other requests change during its sort, and health it read earlier still.
* *Handler, relay and producers.* A streaming request is three kinds of
  goroutine, connected by unbuffered channels and cancelled by two layers of
  contexts. A timeout races a first chunk, a closed channel races a buffered
  error, and a sender without receiver blocks for ever.
* *Instances and Redis.* Instances share only Redis. What one pushes or caches
  may be old when another reads it, and a refill of one tier from the other adds
  the lifetimes up.
* *Log and spending.* An event goes from the request to Kafka, to a map in
  memory and to PostgreSQL; commits, writes and the process may fail between any
  two of these. The budget check reads a cached record at the end of that chain.
* *Log and dashboard.* `Broadcast` publishes on a Redis channel while the request
  is still running; a log page subscribes through `streamLogs`, may be paused,
  closed or cut off, and gets only what is published while it is subscribed.
* *Failure of one step of several.* Monitor, log, broadcast, cache and response
  are separate steps of `handleSync`, each of which can fail.

What makes each part correct, and where it is stated:

| Part | Property |
|---|---|
| Limiter | never more than quota plus refill (`AdmissionBound`); a burst is bounded however long the tenant was idle (`WindowBound`); a fleet respects the limit after synchronising (`GlobalConsistency`, refuted) |
| Monitor | one outlier, or six, do not take a provider out (`TripNeedsSevenErrors`); one that is out comes back (`ReturnsToService`, refuted) |
| Selector | an undisturbed selection finds the best provider, and none only if there is none (`SelectsBest`); a disturbed one still takes in usable and allowed providers only (`OnlyUsableIsHeld`) and ends (`SelectionProgress`) |
| Streaming | no duplicated content (`SingleAttemptPrefix`), no relay left blocked by anything but a departing client (`RelayStuckOnlyIfClientGone`), a served stream's producer has returned (`ServedProducerEnds`; those of attempts given up may block for ever), no leaked timer (`ContextsReleased`), no handler that waits for a goroutine nothing will move (`HandlerIsServed`), an end (`StreamEnds`); to its client the whole is one attempt's stream with one end (`IsRetriedStream`); complete streams and recorded failures (`PipesRemainingChunks`, `FailureIsRecorded`, both refuted) |
| Non-streaming | effects agree with the outcome (`OutcomeIsConsistent`), at most one wasted call (`AtMostOneLateAttempt`), an end (`RequestEnds`) |
| Processor | an account book that enters an event at most once and settles in whole cents (`IsLedger`): no event twice, no overcharge, bounded truncation, every event read (`TopicIsRead`); pending costs are flushed (`PendingIsFlushed`, refuted) |
| Cache | bounded age of every answer (`AgeIsBounded`); all tiers together are one store that only the database fills (`IsRecordStore`); a failing database denies nobody whose record Redis has to hold (`ServedDuringPartition`) |
| Live log | entries in order and none twice (`PageInOrder`), only the oldest make room (`KeepsLast`), what was handed to the page is shown (`HandedOutIsShown`) |
| Pipeline as a whole | a spent budget stops requests after a bounded time (`BudgetLag`; in a process without Redis never), and refuses nobody whose calls, counted as often as their events arrive, did not cost it (`RefusalIsEarned`); cached responses stay with their tenant and with requests that print alike (`OwnAnswer`), only calls of a provider are charged (`ChargedForCalls`) |

## The modules

Each component has a module with its state, actions and properties, an `MC`
module that gives TLC its constants, and a `Proofs` module. Operators introduced
by a comment that says "mutant" are deliberately wrong variants of the
definition they precede. The specification does not use them; they show that a
property would notice such a bug.

### TokenBucket

`created`, `tokens` and `last` are the `buckets` map of each instance, keyed by
instance and tenant. `Admit` and `Refuse` are the two outcomes of `Allow`, each
the whole critical section: create with a tenth of the limit or one token,
refill, cap, take. A new bucket is capped in the same call, so a tenant with a
limit below one is never admitted. `SyncSnapshot` and `SyncEval` are
`backgroundSync` before and after the unlock; because the script's counters and
its result are read by nobody, Redis is reduced to "this instance has reported".
Tokens are counted in units small enough that quota and refill are whole numbers,
which replaces float64 by exact arithmetic. `since`, `admitted` and `mark` are
history; `OpenWindow` starts an observation window at any moment.

### Routing

`err` and `lat` are `providerMetrics`; the averages are kept in thousandths and
milliseconds, rounded up, which stays within ten units of the float64 and keeps
a known latency apart from 0, the code's mark for "unknown". A request is a
record with the local variables of `Select`: `Scan` is one turn of the filter
loop, `LoadLeft` and `Compare` one call of `less` with its two separately locked
reads inside the insertion sort that `sort.Slice` uses for short slices,
`Dispatch` the choice of `candidates[0]`. `Succeed` and `Fail` are what the
handlers then record: nothing for a successful stream, an error for a failed
call and for a client that left alike. `ForceFailure` is `failProvider` of the
admin API. An allowlist may name providers that do not exist, as a row of the
table may; then nobody is selected. `Past` lets a run begin with a monitor that
has seen errors in a row, which `Streak` turns into the rate that `RecordError`
makes of them. `calm`, `errors` and `forced` are history.

### StreamRelay

One streaming request. `relay` is the program counter of the goroutine of
`ResilientProvider.ChatStream`, `base[a]` the producer of attempt `a`, `handler`
the loop of `handleStream`, `tctx[a]` the attempt's context, a child of `ctx`. A
send on an unbuffered channel and its receive are one step; the error channels
hold one value. Every case of both `select` statements is an action, so a ready
case may lose against another one. `Take` followed by `Deliver` is one chunk's
way to the client; `SelectChunk` cancels the attempt's context, as the code does.
Producers stop silently or with an error once their context is done, or fail at
any time; one that has a chunk blocks on the channel regardless, for ever if its
attempt has been given up. The server's
`WriteTimeout` (main.go:149) cancels `ctx` and is, for these goroutines, a client
that leaves.

`RetriedStream` is what the client may rely on, in two variables: the chunks
written so far and how the response ended. `StreamRelay` implements it with
`delivered` as it is and `handler` as the outcome; attempts, timeouts, channels
and contexts disappear.

### SyncChat

One non-streaming request: `Attempt` to `BackoffCancelled` are
`ResilientProvider.Chat`, `RecordError` to `Write` are `handleSync`, one action per
call with an effect. `UpstreamPanics` is a response without choices (openai.go:46)
or a request without messages: the panic leaves the handler and is answered by
the `Recoverer`. The client may leave between any two of them. The memory
tier of the cache may drop the response, and log, broadcast and Redis may fail;
all these errors are ignored by the code.

### LiveLog and Observed

`LiveLog` is the way of events from Redis to one log page. Events are numbered in
the order in which they are published. `Publish` hands one to the page's `inbox`,
or loses it, as Redis does without a subscriber and the client library with a
full channel. `Mount` is the page's `new EventSource`, `Refuse` the 401 of
`AuthMiddleware` or the 500 of a server that cannot stream, `Subscribe` the start
of `streamLogs`, `Show` one turn of its loop together with the page's
`onmessage`, `Break` a lost connection, after which `onerror` closes the source
for good. `TogglePause` and `Unmount` are the user.

`Observed` composes it with `SyncChat`: the `Broadcast` of the request is a
`Publish` whose number is kept in `mine`, other requests publish at any time, and
the dashboard moves on its own. Its properties are those of both parts, which
the composition must not break.

### BudgetProcessor

`topic`, `committed` and `position` are Kafka's side, `pc` the goroutine of
`Start`, `pending` with its keys `dirty` the map, `todo` and `updates` the map
that a running `flush` writes. kafka-go's `ReadMessage` commits before it
returns, so reading is fetch, commit, add; a failed commit loses the message to
the caller whether or not the broker has it. Each write of a flush may fail.
`SelectDone` starts the final flush with a context of its own. `Crash` restarts
the process: the maps are gone and the reader resumes at the committed offset. A
cost is a number of units, `Unit` of them a cent, and `int(cost)` is `\div`. A
write that reports an error may have been executed.

`Ledger` is what remains without batches, offsets and restarts: events are
entered in order, each at most once, and what a tenant owes is settled as a whole
or forfeited as a whole. `BudgetProcessor` implements it with the consumer's last
counted offset as `entered` and the sum of both maps, `Owed`, as `due`.

### TwoTierCache

The tenant lookup of `ServeHTTP` through `TwoTierCache.Get` and `Set` on several
instances. A value is represented by the time it was read from the database.
Each tier is read and written in a step of its own. A set of the in-memory tier
is applied at once, dropped, or kept in ristretto's buffer (`buf`), from where
`ApplySet` brings it in later, possibly over a newer value, or rejects it; its
lifetime runs from the call. Entries may be evicted, Redis may fail, a failing database denies the
request. Keys are independent except for eviction, so one is modelled. `cover`
is history: from when until when Redis has to hold the record.

`RecordStore` is what `Gateway` takes the cache for: one set of records. Only a
read of the database adds to it, an answer is taken out of it, records leave it
at any time and at the latest before they are `MaxAge` old. `TwoTierCache`
implements it with the live entries of all tiers and buffers and what lookups carry between
them as the set, so a refill is a stutter and a restart of a lifetime is visible.

### Gateway

`ServeHTTP` as a whole, composed of what the other modules establish. A request
is a record whose `pc` is the stage it is in: `lookup`, `query` and `store` are
the tenant lookup, then come the budget check, the limiter, the parser, the
response cache, the selector and one of the two handlers. Every refusal is
`Reply`. `seen` and `at` are the spending that the request's tenant record shows
and when it was read; they are reset when the check is over. `kind` is the cache
that main.go chose: with `"twoTier"` a record lives at most `MaxAge` (which
`TwoTierCache` bounds by `Ttl + Backfill + 2 MaxOp`) and may be gone any time,
with `"memory"` it stays for ever and is found whenever it is there (that cache
belongs to a single process, so there only one instance is modelled).
`CallSucceeds` is a call with its price by `EstimateCost`, in ten-thousandths of
a cent, and its event. kafka-go's writer tries a failed batch again, though the
first try may have reached the topic: `Bill` puts the event's cost `Attempts`
times into `inFlight`, and `Deliver` brings any part of that to the budget
processor, late or never, so an event arrives up to `Attempts` times. `Flush` is
the processor seen from outside: it adds whole cents of what is pending or loses
it. A text stands for model and messages, and `Printed` for what handler.go:100
makes of them in the cache key: a printing with `%v`, which different messages
may share (`[{user a} {user b}]` is two messages, or one whose content is
`a} {user b`). `Printed` is any function. `cost` and `over` are history.

## The runs

| Run | Instance | Shows |
|---|---|---|
| `bucket_node` | 1 instance, limits 3 and 0, 2 ticks a minute, 4 ticks | `AdmissionBound`, `WindowBound`. Limit 3 lets the bucket fill, empty and refill past its cap within two minutes; limit 0 is what an unvalidated `createTenant` allows. |
| `bucket_fleet` | 2 instances, limit 2 | **violated** `GlobalConsistency`: after both have synchronised, the second still admits on its own full bucket. |
| `routing` | 3 providers, 2 requests, latencies 0, 1, 3, 3 arrivals, 3 allowlists (none, one provider, an unknown one), 5 errors of the first provider in the past | `SelectsBest`, `OnlyUsableIsHeld`, `SelectionProgress`, `TripNeedsSevenErrors`. Three providers make the insertion sort move an element twice; the third arrival selects while the second records. With five errors behind it the provider is at its limit after one more and out after two, so both sides of the bound occur. |
| `routing_recovery` | 1 provider, 1 request at a time, no end of arrivals (Traffic 0) | **violated** `ReturnsToService`: after seven failed calls the provider is passed over for ever, although requests keep coming. |
| `stream` | 3 attempts (main.go's `maxRetries` 2), 3 chunks | `SingleAttemptPrefix`, `RelayStuckOnlyIfClientGone`, `ServedProducerEnds`, `ContextsReleased`, `HandlerIsServed`, `IsRetriedStream` and `StreamEnds`. Three chunks are a first, a middle and a last one. |
| `stream_truncated` | 2 attempts, 3 chunks | **violated** `PipesRemainingChunks`: `cancel()` precedes the loop that reads the rest. |
| `stream_failure` | 2 attempts, 2 chunks | **violated** `FailureIsRecorded`: a provider fails after its first chunk, and nobody reads its error. |
| `sync` | module `Observed`: 3 attempts, a page of 2 entries, 2 messages on the way, 4 events | `ObservedTypeOK` (the types of both parts), `AtMostOneLateAttempt`, `OutcomeIsConsistent`, `RequestEnds`; `PageInOrder`, `KeepsLast`, `HandedOutIsShown`. Four events overflow both the inbox and the page, before and after the request's own. |
| `budget` | 2 tenants, costs 1 and 3 at 2 units a cent, batch 2, 3 messages, 1 restart | `NeverOvercharged`, `TruncationBound`, `CountedAtMostOnce`, `IsLedger`, `TopicIsRead`. Odd costs leave a fraction at each flush; both the full batch and the ticker flush. |
| `budget_flush` | 1 tenant, 2 messages | **violated** `PendingIsFlushed`: a quiet topic blocks the loop that also serves the ticker. |
| `cache_age` | 2 instances with a lookup each, Ttl 2, Backfill 2, MaxOp 1, room for one set in the first instance's buffer and none in the second's, 7 ticks | `AgeIsBounded`, `ServedDuringPartition`, `IsRecordStore`. The clock outlasts both lifetimes and two lookups, so a value is refilled from Redis just before it expires; a set that waits in the buffer comes in after newer ones, the lookups overwrite each other's entry in Redis, and each instance finds what the other stored. |
| `gateway` | 2 tenants (budget of 1 cent; none), 3 texts of which 2 print alike, 2 concurrent requests, answers of 1 and of half a cent, events delivered up to 2 times, MaxAge 2, MaxOp 1, 3 ticks, both caches | `OwnAnswer`, `ChargedForCalls`, `BudgetLag`, `RefusalIsEarned`. The first answer, or a repeated event of a cheaper one, can spend the budget while the second request holds a record from before or finds one in the cache; the clock reaches the bound of 3. |

Runs without deadlock check are of systems that may stop: a request ends, a
bound on arrivals or messages is reached.

### Fairness

* `StreamRelay`: the Go scheduler runs every goroutine that can move, timers
  fire, and a producer whose context is done returns (the HTTP clients get the
  context; the mock selects on it). An upstream that hangs is not fair.
* `Observed`: the request's goroutine runs and each attempt has a deadline; the
  goroutine of `streamLogs` and the page's event loop run while there is a
  message. Nobody has to open a page or to publish, and nothing keeps the feed
  from breaking.
* `BudgetProcessor`: the goroutine runs and the ticker ticks. `SelectDefault` is
  strongly fair because a turn that flushes nothing is far shorter than the
  second between two ticks. No message, crash or cancellation is assumed.

* `Routing` (`routing_recovery` only): requests keep arriving and every request's
  goroutine runs. Nothing is assumed about how calls end: a behaviour in which the
  provider would answer well, if only it were called, is among those checked.

`TokenBucket`, `TwoTierCache` and `Gateway` are checked for safety only.

### What the violated runs say

1. `GlobalConsistency` (ratelimit.go:134). README.md:51 promises global
   consistency by synchronisation; the result of the `Eval` is dropped.
2. `PipesRemainingChunks` (resilient.go:88). The attempt's context is cancelled
   with its first chunk, against the comment "Pipe remaining chunks"; a producer
   that watches it ends early and the stream is logged with status 200.
3. `FailureIsRecorded` (handler.go:174). A stream whose provider fails after the
   first chunk, or in every attempt before it, can be logged with status 200, and
   the monitor does not hear of it: the error of the serving attempt is not read
   after its first chunk, and when all attempts failed the closed chunk channel
   may win the handler's `select` against the error. TLC's trace is the first way;
   with `MaxRetries = 0` the second one is the shortest.
4. `PendingIsFlushed` (processor.go:61). The read has no deadline although the
   comment above it says so; DESIGN.md:77 says budgets are updated every second.
5. `ReturnsToService` (selector.go:43). README.md:56 says "Active and passive
   health monitoring keeps the provider registry up-to-date"; nothing is active,
   and the passive half hears nothing of a provider that gets no requests. The
   theorem `UnhealthyNeverProbed` says why, for every instance.

Two more disagreements with the documents have no run of their own. README.md:69
has configuration "reloaded from PostgreSQL without restarting the gateway", and
handler.go:75 gives a tenant record five minutes; the cache of a process without
Redis ignores the lifetime (memory.go:35-41), so there the first record is final,
which the theorem `MemoryNeverForgets` states. DESIGN.md:39 says the event is
pushed "once the response is sent"; handler.go:150 logs it before the response is
written, so a client that has left is billed for an answer it did not get
(`SyncChat` has the steps in the code's order).

Other observations made while reading, which no run is needed for: errors of the
user are retried in spite of the comment at resilient.go:48; fractions of a cent
are dropped at every flush (`TruncationBound` says how much); streams are logged
without a cost; a database failure is answered with 401 (`QueryFails`); the
"degraded" state is not used by `Select`; nothing writes the ClickHouse table the
statistics read; cancellation by the client counts as an error of the provider
(handler.go:130), so leaving clients can take a working provider out of service;
requests of a tenant that print alike share a cached answer (handler.go:100); the
producer of an attempt that timed out with a chunk in hand stays blocked for ever
(openai.go:94); a repeated event is charged again; the comment at provider.go:53 gives the default
price as 0.1c / 0.1c where the code has 0.1 and 0.2; two identical requests that
miss the cache at the same time are both sent and charged; tenants can be marked
inactive, but no code looks at it, and the dashboard's switch for it only waits
half a second; DESIGN.md:70 says that existing tenants continue to function when
the database is partitioned, which `ServedDuringPartition` shows for as long as
Redis keeps a record, at most its lifetime; the server's `WriteTimeout` of 60 s
ends streams that "can last longer" (main.go:136) and three attempts of 30 s
outlast it; it also ends the live log's feed, which the page then never opens
again; a Gemini client that cannot be made is not replaced by the mock, because a
nil `*GeminiProvider` in an interface is not nil (main.go:91).

## The proofs

The theorems hold for every value of the constants that satisfies the modules'
ASSUMEs (sets of any size, any number of retries, chunks, messages and
restarts); TLC evaluates the ASSUMEs of its instances. Each `Proofs` module has
an inductive invariant `IInv`, a lemma that `Init` establishes it, lemmas that
each group of actions keeps it, and theorems that read the properties off it.

* **TokenBucketProofs**: `TypeCorrect`, `AdmissionsAreBounded`,
  `WindowsAreBounded`, `PacedCallsAreServed`, `NoLimitMeansNoService`.
  `WindowBound` speaks of `now` and is not inductive, as a
  refused call may move tokens into the bucket. `WindowInv` measures at the last
  refill and includes what is left in the bucket; `PositiveInv` (no bucket with
  a positive limit is negative) and `ClockInv` bring it back to `now`.
  `PacedCallsAreServed` is the bound from the other side, and rests on
  `PositiveInv` too: a call a token's refill after the previous one is served, as
  is a first call; it is about exact tokens, a float64 refill may fall short of 1
  by its rounding. `NoLimitMeansNoService`: a limit of 0 is not "unlimited", the cap
  takes even the initial token away.
  Assumptions: integer limits, a positive clock resolution.
* **RoutingProofs**: `TypeCorrect`, `TripIsBounded`, `UnhealthyNeverProbed`,
  `OnlyUsableEntersSelection`,
  `SelectionIsBest`, `SelectionEnds`, `CallsOnlyAllowed`, `SevenErrorsSuffice`.
  `RateInv` bounds the error rate by the number of errors (100, 190, 271, 344,
  410, 469 thousandths); successes only lower it, so six errors cannot pass 500.
  `SortInv` keeps the indices of the sort inside the candidates, which
  `UnhealthyNeverProbed` needs: the sort only permutes what the scan let in.
  `OnlyUsableEntersSelection` needs the same of the sort. `StreakIsComputed` checks
  the table of rates against `Worse`.
  `SevenErrorsSuffice` shows the bound to be exact.
  `SelectionIsBest` rests on `SelectionInv`, stated for a request whose view of the
  monitor nobody changed: `Scanned` says that the candidates are exactly the
  usable providers passed so far, in their order, and `Inserting` that the first
  candidate precedes all others met so far but the one being moved, by latency and,
  among equal ones, by place in the list. That the whole prefix is sorted is
  not needed, as only `candidates[0]` is used. A witness `ix` names the place in the
  provider list of every candidate and is exchanged with them; `FirstIsUnique` turns "precedes all others" into
  the `CHOOSE` of the property. `SelectionEnds` needs none of this: it holds for
  latencies that change arbitrarily, since `Remaining`, a tuple ordered
  lexicographically, depends on the indices of the loops alone. `CallsOnlyAllowed`
  says that even then nobody outside the allowlist is called.
* **StreamRelayProofs**: `TypeCorrect`, `OneAttempt`, `NoStuckRelay`,
  `NoServedProducerLeak`, `NoContextLeak`, `NoHandlerDeadlock`, `RelayAdvances`,
  `ImplementsRetriedStream`. `PrefixInv` says that before the first chunk no producer has given one, and afterwards the client has everything the
  one attempt gave but the chunk in flight; `ErrorInv` that errors leave the
  relay only when it is closing and has forwarded nothing, which the refinement
  needs; `NoServedProducerLeak` that the pipe is left only when the producer has
  closed its channel; `RetryInv` and
  `SendInv` bound the attempts and the chunks. `WaitInv` says what the relay waits
  for: in its `select` a context was made, while forwarding and piping it has
  ended, and only the deferred `close` leads to the return. `RelayLeft` counts
  attempts, chunks and the place in the loop; that it falls when an attempt is
  repeated needs `PrefixInv`, no attempt that is repeated has given a chunk.
* **SyncChatProofs**: `TypeCorrect`, `OneLateAttempt`, `ConsistentOutcome`,
  `RequestAdvances` (at most `4 MaxRetries + 11` steps).
  `LateInv` says that after a late attempt the goroutine is past every point
  from which another could start without seeing the cancelled context.
* **ObservedProofs**: `ComposesParts` shows that every step of the composition
  is a step of the request and of the log, or leaves them alone, so the invariants
  of both hold in it. `ObservedTypeCorrect`, `AlwaysInOrder`: `QueueInv` extends the
  order of the page to the inbox behind it, whose messages are all newer, and to
  `published`. `BufferKeepsLast` rests on the lemma `PrependProps` about the new
  list. `InboxDrains`: a message
  moves up by at most one place a step and leaves for the top of the page.
* **BudgetProcessorProofs**: `TypeCorrect`, `NoOvercharge`,
  `TruncationIsBounded`, `AtMostOnce`, `OffsetsAdvance`, `ImplementsLedger`. `OffsetInv`, what is
  counted is committed, makes a restart safe; `BatchInv` says that no amount is
  without its key, so that a flush or a crash cannot lose one unnoticed, and that
  nothing is pending while a flush is running, so that a write settles all that
  is due. The refinement maps a fetch, a failed commit and a tick to a stutter, a
  counted event to `Enter`, a write to `Settle`, a failed one to `Settle` or
  `Forfeit`, and a crash to `Forfeit` of everybody.
* **TwoTierCacheProofs**: `TypeCorrect`, `AnswersAreYoung`, `PartitionIsBridged`,
  `ImplementsRecordStore`. `TierInv` bounds the expiry in each tier, and of every buffered set, by the value's age, `FlightInv` what a running lookup
  carries. The bound rests on Redis being written only with values fresh from
  the database; were it refilled from memory, lifetimes would chain.
  `CoverInv` says that Redis holds the record for as long as `cover` says, and
  that a lookup which came to the query began before that time or outlasted it.
  For the refinement `RecordsAreYoung` extends the bound from answers to every
  copy; then a hit or the end of a lookup is `Give`, the query is `Read`, a tick is
  `Tick`, and sets, refills and evictions only `Forget`.
* **GatewayProofs**: `TypeCorrect`, `OwnAnswers`, `OnlyCallsCharged`,
  `OnlyEarnedRefusals`, `BudgetLagIsBounded`, `MemoryNeverForgets`. The heart is `Witness`: a copy of a row that does not
  show the budget spent was read no later than `over`, the moment from which the
  row shows it. `RowInv` makes a new copy a witness, `CopyInv` and `Sound` carry
  it through the caches and the requests, and a flush that sets `over` keeps it
  because every copy was read before. `Sound` adds that the copy was younger than
  `MaxAge` when the request began and that the lookup takes at most `MaxOp`.
  `KeyInv` (each response lies under the key of its own tenant and printing) gives
  `OwnAnswer`, for any `Printed`. `BookInv` keeps the books of `ChargedForCalls`: what is
  written, pending and in flight is at most `Attempts` times the cost of the
  calls; truncation never rounds up. `OnlyEarnedRefusals` follows from it with `CopyTrails` and
  `HeldTrails`, two invariants inductive only together: a cached copy, and the one
  a request holds, show no more than the row does now. `MemoryNeverForgets` needs only that a request of the tenant
  can reach the query through `TenantMiss` alone, which a stored record excludes.

Only model-checked: the liveness properties `StreamEnds`, `TopicIsRead`,
`RequestEnds` and `HandedOutIsShown`, as fairness is out of the prover's reach.
What they rest on besides fairness is proved: a measure that every step of the
goroutine lowers and no other step raises (`RelayAdvances`, `RequestAdvances`),
offsets and queues that move one way only (`OffsetsAdvance`, `InboxDrains`), and
that a waiting handler is waited for by somebody who can move
(`NoHandlerDeadlock`). The three refinements are proved for the steps, without
fairness: no abstract specification promises progress.

## Not modelled

* Analytics (`internal/logging/clickhouse.go`): read-only queries on a table that
  no code of the repository writes; there is no state to be wrong.
* Bootstrap and configuration: straight-line wiring, whose values are the
  constants of the models.
* The providers' wire formats: conversions between vendors' layouts. What they do
  to the control flow (fail, stop, block on a channel) is in `StreamRelay` and
  `SyncChat`.
* The traffic simulator, a demo client.
* The dashboard's other pages: each fetches the admin API once when it is opened,
  the tenants page again after a tenant was created, and renders the result.
* The listing handlers of the admin API change nothing.
* A panic of a provider's `ChatStream` (mock.go:44, gemini.go:94: a request without
  messages): it happens in the producer's or the relay's goroutine, where nothing
  recovers it, and ends the process with everything modelled here.
* A cached tenant that `json.Unmarshal` cannot read (handler.go:66): only
  `json.Marshal` of a tenant is ever stored under that key, so it would take a
  foreign writer in Redis; `tenant` would be nil and the budget check panic.

Costs are exact numbers instead of float64. Only the tenant record goes through
the model of ristretto's buffer; `Gateway` relies on `RecordStore` instead. Kafka, PostgreSQL, Redis and
ristretto are represented by what the code sees of them.

## Plan

Done in this order, the concurrent core first: TokenBucket, StreamRelay,
Routing, BudgetProcessor, TwoTierCache, SyncChat, and Gateway, which composes
what they promise; then the abstract specifications Ledger, RetriedStream and
RecordStore with their refinements, the live log and its composition with the request, partitions
from the database, and the cache without lifetimes. Left:

1. An atomic `Select`, refined by undisturbed selections of `Routing`.
2. `Gateway` with the limiter's bound inside, for how much a tenant can
   overspend during the lag.
