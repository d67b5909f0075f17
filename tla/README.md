# turnike in TLA+

turnike is a rate-limiting reverse proxy: every routed request is decided by a
limiter (in memory, or in redis shared by several gateway instances) before it
is proxied.  This directory holds TLA+ models of its core, the TLC
configurations that check them on small instances, and TLAPS proofs of the
properties that matter most.

## 1. The system

| Part | State | Operations | Modules |
|---|---|---|---|
| circuit breaker (`limiter/breaker.go`) | state, failures, openedAt, gauge | `do` = `admit`, the call, `record` | `Breaker`, `BreakerCalls` |
| fixed_window (`fixed_window.go`, `.lua`) | window start and count; a hash with an expiry | `step`, the script | `FixedWindow`, `FixedQuota`, `FixedWindowMemory`, `FixedWindowRedis`, `FixedBackends` |
| sliding_window (`sliding_window.go`, `.lua`) | log of accept times; a zset with an expiry | `step`, the script | `SlidingWindow`, `SlidingQuota`, `SlidingWindowMemory`, `SlidingWindowRedis`, `SlidingBackends` |
| token_bucket (`token_bucket.go`, `.lua`) | tokens and last refill; a hash with an expiry | `step`, the script | `TokenBucket`, `TokenQuota`, `TokenBucketMemory`, `TokenBucketRedis`, `TokenBackends` |
| redis limiter (`redis.go`) | breaker, fallback, backend gauge; keys and script cache in redis | `NewRedisLimiter`, `Allow`, `Ping`, `Close` | `RedisLimiter` (`Ping`: `Gateway`, `Close`: `Lifecycle`) |
| memory limiter (`memory.go`) | capped map of buckets | `Allow` | as the fallback in `RedisLimiter`; buckets in the algorithm modules |
| request path (`proxy/handler.go`, `middleware.go`, `gateway.go`) | per request; `requests_total`, duration histogram | dispatch, `ServeHTTP`, error handler, deferred observation | `Gateway` |
| metrics (`metrics/metrics.go`) | counter, histogram, breaker gauge, the pair of backend series and its lock | `InitRoute`, `SetActiveBackend` | `Gateway`, `Breaker`, `RedisLimiter` |
| process (`cmd/gateway/main.go`) | listener, serving goroutine, redis client | boot, serve, signal, drain | `Lifecycle` |
| configuration (`config/config.go`) | the document, then read only | `applyDefaults`, `validate`, `LimitFor` | `Config`, `GatewayProcess` |
| route table, identity (`proxy/table.go`, `identity.go`) | the sorted entries, read only | `NewTable`, `Match`, `IdentityFor` | `RouteTable`, `GatewayProcess` |

How they interact: the handler calls `Limiter.Allow` once per routed request.
The redis limiter runs its script through the breaker, outside any lock, and
falls back to an in-memory limiter under `on_error: degrade`; it sets the
breaker and backend gauges.  Scripts of all instances run one at a time in
redis, on redis' clock.  The middleware observes, in a deferred function, what
`ServeHTTP` counted.  `serve` owns the redis client and closes it last.  The
configuration is validated once and compiled into the route table; every request
then looks up its entry, its identity's limit and its state key without checks.

What is hard: verdicts of calls that outlive the state they were admitted in;
commands that time out and still run; a redis that hangs, crashes and forgets;
clocks that are set back; expiry in milliseconds of state in microseconds;
clients that hang up anywhere; an abort panic between counter and histogram;
shutdown against requests under way; a path in its escaped, decoded and cleaned
forms.  `PROJECT.json` lists these as hazards,
each with the properties that cover it.

## 2. Models and code

**Breaker, BreakerCalls.**  A breaker is a record; `admit` and `record` are
functions on it, one mutex-protected step each.  `openedAt` is kept as the age
`now - openedAt`, up to the cooldown, which is all the code reads of it.
`BreakerCalls` runs callers through `do`: `Admit`/`Reject`, `Return` with nil, a
failure or a cancellation, `Record`.  `CallBudget` is how long a call may take:
dial, write and read are bounded by a second each, so calls may outlive the
one-second cooldown.  `probe`, `sinceProbe` and `hangup` are history.

**Fixed window.**  `FixedQuota` is the promise: the first `Rate` requests of each
grid window are allowed.  The backends count windows from different moments: the
script from the Unix epoch (`now - now % window`), Go's `Truncate` from Go's zero
time.  `Anchor` is how long before the epoch, the model's time 0, a grid is
anchored; it is 0 for the script (`EpochAssumption`) and `ZeroTime` for the Go
bucket in `FixedBackends`.  `FixedWindowMemory` is the Go bucket and
`FixedWindowRedis` the script with its key's expiry; both keep one history, the
ages of the last 2·Rate+1 admissions in real time.  `StepBack` sets the decision
clock back.  Which clock that is differs: `Truncate` strips Go's monotonic
reading, and redis' TIME is `gettimeofday`.  In `FixedWindowRedis` the clock is
set back only while the key is stored: after its expiry nothing is left that
could protect the window, and TwiceRate fails (section 7).  `Expire` may drop a
key as soon as the clock reaches its expiry time, which is earlier than redis
does.

**Sliding window, token bucket.**  Built the same way, around `SlidingQuota` (a
request is allowed iff fewer than `Rate` were allowed less than a window ago)
and `TokenQuota` (a bucket that refills at every tick).  The Go buckets run on
the monotonic clock, the scripts on TIME.  Entries of the zset carry a nonce;
the script's nonce is random and taken to be fresh.  Tokens are counted in
shares, `Window` to a token, so that a tick refills `Rate` shares and all
arithmetic is exact; `Epsilon` is `tokenEpsilon` in shares.  In these two
modules the expiry follows redis exactly: PEXPIRE adds to the clock truncated
to milliseconds, and the key is gone when the truncated clock is past it.

**FixedBackends, SlidingBackends, TokenBackends** put the two backends of an
algorithm side by side: `Ask` is one request decided by both.  What they state
besides the properties of each is `SameAnswers`, the parity that the
repository's integration tests sample.  For fixed_window it is claimed where the
two grids coincide (`GridsCoincide`: the window divides `ZeroTime`), which is
also how those tests choose their windows (`redis_integration_test.go:9-11`);
for other windows, 7 s say, the backends answer differently (section 7).  Refinement (`ImplementsQuota`) is stated
"until the clock is first set back" (`steps' = 0`), since the quotas are about a
clock that only advances; the other promises are stated for all behaviours.

**RedisLimiter.**  Callers in several instances, one redis.  `Start`/`Reject` is
`admit`; `Evalsha`, `NoScript`, `Eval` are `script.Run`; `TimeOut`, `Refused`
and `HangUp` end a call early, and a command already delivered may still run
later (`RunLate`); `Record`; then `Answer`, `Fallback` + `AnswerDegraded`, or
`Fail`.  Setting the gauge is apart from the fallback's decision, as in the code,
and takes two steps: `Answer` or `AnswerDegraded` takes the lock and writes the
first series (`StartFlip`), `FinishFlip` writes the second and returns.  `Crowd` is the other keys filling the fallback up to its cap.  One
window is modelled, so a key's state is a count.  Redis may hang, crash without
persistence, resume, and lose its script cache.  The policy is a variable chosen
in `Init`.

**Gateway.**  The configuration is a variable chosen in `Init`, so one run covers
every combination.  A request's kind of path and method are inputs.  `Decide`
is the return of `Allow` together with the increment of `requests_total`;
`CanReturn` is what the limiter may return; that a redis which always answers
never makes it fail or degrade is an assumption here and `HealthyRedisAnswers` in
`RedisLimiter`.  `Relay`, `UpstreamError` and
`AbortBody` are the proxy's outcomes; the first and the last carry a status of
the upstream's choosing, from the constant `Upstream`, which may be one that the
gateway answers with too.  `Finish` is the middleware's deferred function.

**Lifecycle.**  The main goroutine (`boot`, `bound`, `built`, `selecting`,
`draining`, `returning`, `exited`), the serving goroutine with the one-place
channel `errCh`, the signal, and requests.  The deferred `Close` of the redis
client is a step of its own, so requests may run between it and the exit.
`BuildFails` is there because `serve` has the branch.

**Config, RouteTable, GatewayProcess.**  `Config` and `RouteTable` are operators on
records: defaults, merge and validation; compilation and match of the table;
identity, limit and state key of a client on an entry.  Paths and prefixes are
sequences of segments, so "/api/" is `<<"", "api", "">>` and a trailing slash is an
empty last segment; `Clean` is `path.Clean`, and `Unescape` gives the segments that
an escaped one decodes to.  `Clean`, `Decoded` and `Segments` go through a path as
recursive functions on its positions.  A prefix with a doubled slash is no
candidate of `RoutesLongestPrefix` (`Doubled`): it validates and never matches.
`ResolvedWithinRoute` is about prefixes without escapes (`Literal`): the path that
an upstream decodes cannot lie under one with an escape as it is written.  Entries are ordered by segments rather than bytes,
which is the same for the prefixes of one path.  `GatewayProcess` is `Lifecycle`
with a document: `Load` needs one that validates, `NewLimiter` opens a client only
for the redis backend, `NewHandler` compiles the table.  `BuildFails` is not a step of
it: `NothingLeftToFail` says that no accepted document leads there.  The state key
is a tuple; in the code it is a concatenation, which is as good because a
fingerprint is hexadecimal and an address has no "ip:" or "key:" in it.

## 3. Runs

All passing runs finish in about a minute at most.

| Run | Instance | Shows |
|---|---|---|
| `breaker` | 2 callers, threshold 2, cooldown 2, calls up to 3 ticks | `ClosedBelowThreshold`, `HalfOpenHasProbe`, `ProbesSpaced` and the inductive `BreakerInv`; `HalfOpenEnds`, `Recovers` |
| `fixed_window` | rate 2, window 3, grids 6 apart, 2 ticks to a millisecond, time 0..11, 2 backward steps | `SameAnswers`, refinement of `FixedQuota`; `TwiceRate`, `RetryExact`, `RemainingExact` through backward steps; the inductive `RedisInv` |
| `sliding_window` | rate 2, window 3, time 0..10, 2 backward steps | `SameAnswers`, refinement of `SlidingQuota`; exact RetryAfter and Reset; `RateInAnyWindow` and `InflationBounded` through backward steps; the inductive `LogInv` |
| `token_bucket` | burst 2, 3 tokens per 7 ticks, time 0..11, 1 backward step | `SameAnswers`, refinement of `TokenQuota`, `RetryExact`; `Conforms` through backward steps; the inductive `BucketInv` |
| `redis_safety` | 2 instances, 1 key, a crash, a late command, degrade and fail_closed | `AdmissionBounded`, `ChargedOnce`, `AllowsPaid`, `HealthyRedisAnswers`; the inductive `LimiterInv` |
| `redis_liveness` | 1 instance, 2 callers, degrade | `OneHot`, `BackendHeals` |
| `gateway_safety` | 2 requests, all 24 configurations, upstreams that answer 200 or 503 | `ObservationsMirrorCounts`, `PolicyDecides`; the inductive `GatewayInv` |
| `lifecycle_drain` | 1164 documents, 586 paths, 16 clients, 2 requests | `NothingLeftToFail`, `RoutesLongestPrefix`, `ResolvedWithinRoute`, `QuotasSeparate`; `LifecycleInv`, `DrainKeepsClient`, `SignalEnds` |

The other runs each refute one sentence of a comment; they are the findings of
section 7.

**Bounds.**  Two callers are what a stale call and a probe need; the safety
properties of the breaker, the redis limiter and the gateway are proved for any
number.  `CallBudget > Cooldown` lets a
call span an open period.  The fixed-window times cover four windows and the
sliding ones three; states repeat after that, since only the position in the
window and the ages matter.  `Milli = 2` against odd windows makes every
rounding happen.  `ZeroTime = 6` is two windows, where the grids coincide; the
bucket by itself runs on a shifted grid (`memory_fixed_backward_clock`).  `Rate` is at least 2 where the same-tick case matters.
`MaxCrashes`, `MaxLate` and `MaxSteps` cap faults; one late command and one
crash per run already meet every state of a decision.  The documents of
`MCGatewayProcess` vary one section at a time, since `validate` treats them apart:
limiter and timeouts; a limit against an override, each field zero, valid or out
of range and the algorithms equal, different or unknown; and every list of up to
three of six prefixes, which holds the nested, the duplicate, the reordered and
one with a doubled slash.  Request paths are all those of up to three segments over an alphabet with
doubled slashes, dots, and encoded dots and slashes.  The four properties of the
compiled table are checked at the step that compiles it, against every path and
pair of clients.

## 4. Fairness

`BreakerCalls!Fairness` and `RedisLimiter!Fairness`: time passes; goroutines are
scheduled; a call ends, because the client has dial, write and read timeouts;
traffic keeps coming; and not every client hangs up (strong fairness of the
answer, since a hang-up competes with it).  The last two are about clients, and
without them the circuit has no one to probe with: `Recovers` and `BackendHeals`
are promises under traffic.  `Lifecycle!Fairness`: the main goroutine runs, the
shutdown timeout runs out at last, and the serving goroutine runs; nothing is
assumed of requests or upstreams.

## 5. Proofs

Checked by TLAPS for every value of the constants, under the assumptions named
in the modules (positive rates, windows, thresholds, cooldowns and milliseconds;
the script's grid anchored at the epoch, the bucket's anywhere before it;
an epsilon below a token; documents with a list of routes; paths made of
segments, which decode to one segment at least and, empty or of dots, to
themselves; fingerprints that do not collide).  Each inductive invariant is one of the invariants
that the component's run checks.  Every safety property of the passing runs is a
theorem; liveness is left to TLC.

* `BreakerProofs`: `BreakerInv` is inductive.  `ClosedBelowThreshold` needs that
  both ways out of half-open to closed wipe the streak; `HalfOpenHasProbe` needs
  that only an admitted probe enters half-open and that any record leaves it,
  the probe's included; `ProbesSpaced` needs `AgeSinceProbe`, that an open
  circuit has not waited longer than the time since the last probe.
* `FixedQuotaProofs`: the facts about the window grid, and `QuotaInv`, inductive
  for the abstract quota.  `AgesCounted` is the heart of it: admissions not
  counted in the current window are older than the window's start, those not
  counted in the previous one either are a window old, hence at most 2·Rate in
  any window's length.
* `FixedBackendsProofs`: until the wall clock is set back, the Go bucket refines
  `FixedQuota`, with the stored count as `used` while the clock is in the stored
  window, and keeps its three promises.  The script refines `FixedQuota` until
  TIME steps backward, and keeps `TwiceRate`, `RetryExact` and `RemainingExact`
  (a theorem each) through any number of backward steps while the key is stored.
  For the latter `RedisInv` accounts for admissions relative to the stored window
  instead of the clock's: what the stored count leaves out is older than that
  window's start, and moving the clock back only makes that easier.  It also
  rests on `ExpiryCoversWindow`: the ceiling of the window's end in milliseconds
  is not before the window's end.  `SameAnswers` follows from `BothInv`, which
  joins the two invariants with `Agree`: if the window divides the time between
  the anchors the grids are one (`SameGrid`), and both decide from the same count, since
  expiry takes the script's away only when its window is over, which is when the
  bucket's stops mattering.
* `SlidingBackendsProofs`: `LogInv` bounds the log and the true record of
  admissions by each other.  `AdmissionsLogged` says that the last k admissions
  that count have k entries no older by the script's clock than they are in
  truth; with a log of at most `Rate` entries that is `RateInAnyWindow`.
  `EntriesAdmitted` says that fewer than k entries are later than the k-th
  admission by a clock that was never set back; that bounds the oldest and the
  newest entry, and so RetryAfter and Reset (`InflationBounded`).  Setting TIME
  back only weakens the first and leaves the second alone.  Expiry needs
  `ExpiryCoversLog`, and an admission that a log with room leaves a nonce free.
  Until TIME is set back both bounds are about the same clock, and the log holds
  exactly what counts (`ImplementsQuota`).  For the Go bucket, `Kept`, the slice
  after eviction, is a filter by place; the lemmas about it say that it is a tail
  of the slice.  `Recorded` then says that the slice is the record of admissions
  as long as it reaches, and what it left out is a window old: the bucket
  implements `SlidingQuota` (`MemoryImplementsQuota`).  `MemoryTimesExact` needs
  `Current` besides, that what the last answer said still describes the slice.
  `SameAnswers` is part of the invariant: as long as the true ages of the
  admissions are the same for both, so are the answers.
* `TokenBackendsProofs`: `BucketInv` keeps accounts in shares.  An admission takes
  at least `Window - Epsilon`, a tick of real time brings at most `Rate`
  (`AdmissionsPaid`), a clock set back takes shares away.  `ExpiryPaid` is for the
  full bucket that follows on an expiry: after a backward step the key may go
  before the bucket is full by TIME, but not before the time the refill takes has
  passed.  `Conforms` follows.  Until TIME is set back, `ExpiresFull` makes expiry
  invisible, which gives the refinement of `TokenQuota`, `RetryExact` (with
  `DenialCurrent`: what the denied client was told still describes the bucket)
  and `SameAnswers`.
* `RedisLimiterProofs`: `LimiterInv` is inductive, for any number of instances,
  callers and keys.  `AllowsPaid` is an account of cardinalities, in which each
  step moves one caller into or out of `Undelivered` or one request into
  `Degraded`; `AdmissionBounded` follows from it.  `ChargedOnce` needs
  `SentInCall` (nothing is sent before the call, so a second command can only
  follow NOSCRIPT), `HealthyRedisAnswers` needs `HealthyRedis` (while redis has
  answered all along every circuit is closed: a hang-up is not a failure),
  `OneHot` needs `FlipsExclude` (one flip at a time in an instance, with its first
  half written).
* `GatewayProofs`: `GatewayInv` is inductive, for any set of requests and every
  configuration and any statuses of upstreams.  Each step moves one request between the sets that
  `ObservationsMirrorCounts` and `ObservedOnce` count, the abort panic included;
  `PolicyDecides` needs `Progress`, what is known of a request where it is, and
  above all that one being proxied was not to be refused.
* `GatewayProcessProofs`: `LifecycleInv` tells the exit paths apart (before Serve,
  Serve failed, drained, timed out); `DrainKeepsClient` follows, and holds of the
  configured process because it implements `Lifecycle`.  `ConfigInv`, that the
  configuration validates from `Load` to `NewHandler`, gives `NothingLeftToFail`:
  a limit that validates has a window, so merging defaults at request time is the
  identity on it, and overrides were validated as merged.  For `QuotasSeparate`
  the order of the table must be a permutation of the routes.  The model chooses
  one that is sorted; that there is one is the lemma `Sorted`, from the
  well-foundedness of the naturals.  Then routes that are unique up to trailing
  slashes have entries with different prefixes, and fingerprints that do not
  collide (`ProcessAssumption`) keep clients apart.
  `RoutesLongestPrefix` and `ResolvedWithinRoute` are about all paths.  A theorem
  on induction cannot be cited for a predicate, so induction is stated for sets
  (`Steps`: a set with 0 that is closed under successors up to n has all of
  0 .. n), and `FoldExists` gives the recursive functions `Clean`, `Decoded` and
  `Segments` their values.  Without dot segments `Clean` only drops empty ones
  (`CleanText`), so an entry matches exactly if its prefix has no doubled slash and
  its segments begin the path's (`MatchIff`).  The first match in a sorted table
  then is a longest one, and two of one length are one prefix, hence one route.
  Decoding only splits segments: those without escapes that a path begins with
  stay where they are (`DecodedSegments`), and a dot segment of the escaped path is
  one of the decoded path (`DotFree`), which `ServeHTTP` has refused.

Only model-checked: liveness (`HalfOpenEnds`, `Recovers`, `BackendHeals`,
`SignalEnds`), which is outside this prover's reach.

## 6. What is not modelled

* float64 rounding in the token bucket: the models count exactly.
* The value of header strings and the rounding of `Retry-After` to seconds.
* What a scrape between the two writes of `SetActiveBackend` reads (accepted by
  the code); the interleaving of the writes themselves is modelled.
* Windows below a microsecond, which validation accepts and the redis limiter
  refuses with an error before it calls redis (`redis.go:156-160`).
* Redis state written under one configuration and read under the next.
* Replies of redis that do not have four values (`redis.go:206-207`): the scripts
  return four.  The error would come after the gauge was set to redis.
* What the redis client library does with a cancellation in the middle of a read:
  `HangUp` may end the call there and then, which is more than it allows.
* Keep-alive: in `Lifecycle` a connection carries one request, so none starts on
  an accepted connection during the drain, and hijacked (upgraded) connections,
  which `Shutdown` does not wait for, are absent.
* Upstream URLs with a path of their own; of prefixes with escapes in them, what
  the upstream makes of the paths under them.
* Request IDs, byte counts, YAML decoding, the demo page, the mock upstream, and
  the benchmark, demo and deployment scripts.

## 7. Findings

| Run | What the code does |
|---|---|
| `breaker_probe_decides` | a call admitted before the trip decides half-open in the probe's place (`breaker.go:141-157`) |
| `memory_fixed_backward_clock` | `Truncate` strips the monotonic reading; a wall clock set back resets the count (`fixed_window.go:24-28`) |
| `gateway_hang_up_degrade` | a hang-up during the decision is counted as `degrade` with a healthy redis (`gateway.go:114`) |
| `lifecycle_every_exit` | when Serve fails, the redis client is closed under requests being served (`main.go:119-124`) |

The first is bounded by what is proved: probes stay a cooldown apart but for
hang-ups, and the circuit cannot wedge.  It has a second face: a stale, canceled
call re-opens a half-open circuit whose cooldown is over, and a second probe
starts while the first is in flight (`breaker.go:147-152`).

Met while modelling, without a run of their own: for a window that does not
divide the time from Go's zero time to the Unix epoch the two fixed_window
backends start windows at different moments, so verdicts, Reset and RetryAfter
differ between them, and under `degrade` between redis and the fallback
(`fixed_window.lua:12-15` knows and calls it benign, since a deployment uses one
backend); once the fixed_window key has
expired, a backward step of TIME grants a fresh quota (`fixed_window.lua:43`);
the in-memory token bucket truncates `RetryAfter` to nanoseconds where the
script rounds up (`token_bucket.go:82`, visible as the tick that `SameAnswers`
allows); under fail_closed a hang-up during the decision is answered and logged
as 503 (`gateway.go:126`); a root prefix does not match the paths "*" and "" of
`OPTIONS *` and of a request line without a path, which clean to "*" and "."
(`table.go:46-49` speaks of every cleaned path starting with "/"); a prefix with a
doubled slash or a dot segment validates and can never match; a path with an
encoded slash stays under the route it matched but may, once decoded, fall under
a longer prefix too (`table.go:38-42` chooses this).

## 8. Plan

Done: every component of section 1 is modelled and checked; the safety properties
of the breaker, the three algorithms, the redis limiter, the gateway, the
lifecycle, the configuration and the route table are proved.  Next:

1. `RedisLimiter` with windows that roll over during an outage.
2. Limits that change under stored redis state.
