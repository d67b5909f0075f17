-------------------------------- MODULE Gateway --------------------------------
(***************************************************************************)
(* The life of requests in one gateway process: NewHandler's dispatch      *)
(* (internal/proxy/handler.go), Middleware (middleware.go),                *)
(* Gateway.ServeHTTP and the reverse proxy's error handler (gateway.go),   *)
(* with the requests_total counter and the request_duration histogram      *)
(* (internal/metrics).  Clients may hang up at any moment, redis may come  *)
(* and go, upstreams may fail before or during the response.               *)
(*                                                                         *)
(* The limiter is what its interface promises: a verdict of the configured *)
(* backend, a verdict of the degrade fallback, or an error.                *)
(***************************************************************************)
EXTENDS Integers, FiniteSets

CONSTANTS
  Requests, \* each is served once
  Upstream  \* the statuses that upstreams answer with

ASSUME RequestsAssumption == IsFiniteSet(Requests)
ASSUME UpstreamAssumption == Upstream \subseteq 100 .. 999

\* What the request path reads of config.Config: Limiter.Backend,
\* Limiter.Redis.OnError, Server.DemoPage and Server.MetricsDisabled.
Configs ==
  [backend : {"memory", "redis"}, onError : {"fail_open", "fail_closed", "degrade"},
   demoPage : BOOLEAN, metricsDisabled : BOOLEAN]

VARIABLES
  config,    \* chosen at boot, never changed
  pc,        \* where each request is
  path,      \* what kind of path it asks for
  get,       \* its method is GET or HEAD
  gone,      \* its client has hung up
  routed,    \* Middleware's routePrefix holder is set
  result,    \* what limiter.Allow returned
  status,    \* statusRecorder.status, or the status written directly
  logged,    \* the status in the access log, 0 before the line is written
  counted,   \* requests_total by decision label, summed over routes
  observed,  \* request_duration_seconds_count
  redisUp,   \* whether redis answers
  redisWasUp,\* history: redis has answered all along
  forwarded  \* history: requests that reached the upstream

inputs == <<config, path, get>>
metrics == <<counted, observed>>
redis == <<redisUp, redisWasUp>>
vars == <<inputs, pc, gone, routed, result, status, logged, metrics, redis, forwarded>>

Paths == {"/", "/healthz", "/readyz", "/metrics", "routed", "unrouted", "dots"}

\* A verdict (allowed or not, of the fallback or not), the error of a
\* canceled call, or another error.
Results == {"allow", "deny", "degradedAllow", "degradedDeny", "canceled", "failure"}
Failed == {"canceled", "failure"}

Labels == {"allow", "deny", "degrade_allow", "degrade_deny", "degrade"}

\* The gateway's own answers and the upstreams'.
Statuses == {200, 404, 405, 429, 499, 502, 503} \cup Upstream

TypeOK ==
  /\ config \in Configs
  /\ pc \in [Requests -> {"new", "middleware", "deciding", "decided", "proxying",
                          "finishing", "done"}]
  /\ path \in [Requests -> Paths]
  /\ get \in [Requests -> BOOLEAN]
  /\ gone \in [Requests -> BOOLEAN]
  /\ routed \in [Requests -> BOOLEAN]
  /\ result \in [Requests -> Results \cup {"none"}]
  /\ status \in [Requests -> Statuses]
  /\ logged \in [Requests -> {0} \cup Statuses]
  /\ counted \in [Labels -> 0 .. Cardinality(Requests)]
  /\ observed \in 0 .. Cardinality(Requests)
  /\ redisUp \in BOOLEAN /\ redisWasUp \in BOOLEAN
  /\ forwarded \subseteq Requests

\* InitRoute materialises every label at 0.
Init ==
  /\ config \in Configs
  /\ pc = [r \in Requests |-> "new"]
  /\ path \in [Requests -> Paths]
  /\ get \in [Requests -> BOOLEAN]
  /\ gone = [r \in Requests |-> FALSE]
  /\ routed = [r \in Requests |-> FALSE]
  /\ result = [r \in Requests |-> "none"]
  /\ status = [r \in Requests |-> 200]
  /\ logged = [r \in Requests |-> 0]
  /\ counted = [l \in Labels |-> 0]
  /\ observed = 0
  /\ redisUp = TRUE
  /\ redisWasUp = TRUE
  /\ forwarded = {}

-------------------------------------------------------------------------------
(* NewHandler's dispatch. *)

\* The redis ping gates readiness only under fail_closed (main.go:95).
NotReady == config.backend = "redis" /\ config.onError = "fail_closed" /\ ~redisUp

Reserved(r) ==
  \/ path[r] \in {"/healthz", "/readyz", "/metrics"}
  \/ path[r] = "/" /\ config.demoPage

ReservedStatus(r) ==
  IF path[r] = "/metrics" /\ config.metricsDisabled THEN 404
  ELSE IF ~get[r] THEN 405
  ELSE IF path[r] = "/readyz" /\ NotReady THEN 503
  ELSE 200

\* Answered ahead of the route table, outside the middleware.
ServeReserved(r) ==
  /\ pc[r] = "new"
  /\ Reserved(r)
  /\ status' = [status EXCEPT ![r] = ReservedStatus(r)]
  /\ pc' = [pc EXCEPT ![r] = "done"]
  /\ UNCHANGED <<inputs, gone, routed, result, logged, metrics, redis, forwarded>>

EnterMiddleware(r) ==
  /\ pc[r] = "new"
  /\ ~Reserved(r)
  /\ pc' = [pc EXCEPT ![r] = "middleware"]
  /\ UNCHANGED <<inputs, gone, routed, result, status, logged, metrics, redis, forwarded>>

-------------------------------------------------------------------------------
(* Gateway.ServeHTTP. *)

\* Dot segments, or no route.
NoRoute(r) ==
  /\ pc[r] = "middleware"
  /\ path[r] # "routed"
  /\ status' = [status EXCEPT ![r] = 404]
  /\ pc' = [pc EXCEPT ![r] = "finishing"]
  /\ UNCHANGED <<inputs, gone, routed, result, logged, metrics, redis, forwarded>>

\* The route is matched and written through the middleware's holder; a
\* route may have "/" as its prefix.
Match(r) ==
  /\ pc[r] = "middleware"
  /\ path[r] \in {"routed", "/"}
  /\ routed' = [routed EXCEPT ![r] = TRUE]
  /\ pc' = [pc EXCEPT ![r] = "deciding"]
  /\ UNCHANGED <<inputs, gone, result, status, logged, metrics, redis, forwarded>>

\* What Allow can return now.  The memory backend fails only at capacity; the
\* redis backend fails, or degrades, only when redis has not answered all along
\* (HealthyRedisAnswers of RedisLimiter).
CanReturn(r, res) ==
  IF config.backend = "memory" THEN res \in {"allow", "deny", "failure"}
  ELSE /\ res = "canceled" => gone[r]
       /\ res = "failure" => ~redisWasUp
       /\ res \in {"degradedAllow", "degradedDeny"} => ~redisWasUp /\ config.onError = "degrade"

decisionLabel(res) ==
  CASE res \in Failed -> "degrade"
    [] res = "degradedAllow" -> "degrade_allow"
    [] res = "degradedDeny" -> "degrade_deny"
    [] res = "allow" -> "allow"
    [] res = "deny" -> "deny"

\* limiter.Allow returns and the request is counted.
Decide(r, res) ==
  /\ pc[r] = "deciding"
  /\ CanReturn(r, res)
  /\ result' = [result EXCEPT ![r] = res]
  /\ counted' = [counted EXCEPT ![decisionLabel(res)] = @ + 1]
  /\ pc' = [pc EXCEPT ![r] = "decided"]
  /\ UNCHANGED <<inputs, gone, routed, status, logged, observed, redis, forwarded>>

\* NewHandler: on_error governs redis failures only.
onError == IF config.backend = "redis" THEN config.onError ELSE "fail_open"

mut_Refuses(r) == result[r] \in {"deny", "degradedDeny"}

\* Does ServeHTTP answer without proxying?
Refuses(r) ==
  \/ result[r] \in Failed /\ onError = "fail_closed"
  \/ result[r] \in {"deny", "degradedDeny"}

\* writeLimiterUnavailable or writeTooManyRequests.
Refuse(r) ==
  /\ pc[r] = "decided"
  /\ Refuses(r)
  /\ status' = [status EXCEPT ![r] = IF result[r] \in Failed THEN 503 ELSE 429]
  /\ pc' = [pc EXCEPT ![r] = "finishing"]
  /\ UNCHANGED <<inputs, gone, routed, result, logged, metrics, redis, forwarded>>

\* The reverse proxy sends the request, unless its client is gone already.
Forward(r) ==
  /\ pc[r] = "decided"
  /\ ~Refuses(r)
  /\ pc' = [pc EXCEPT ![r] = "proxying"]
  /\ forwarded' = IF gone[r] THEN forwarded ELSE forwarded \cup {r}
  /\ UNCHANGED <<inputs, gone, routed, result, status, logged, metrics, redis>>

\* The upstream's response is relayed, with the status it has.
Relay(r, code) ==
  /\ pc[r] = "proxying"
  /\ r \in forwarded
  /\ status' = [status EXCEPT ![r] = code]
  /\ pc' = [pc EXCEPT ![r] = "finishing"]
  /\ UNCHANGED <<inputs, gone, routed, result, logged, metrics, redis, forwarded>>

\* errorHandler: the round trip failed, or the client gave up.
UpstreamError(r) ==
  /\ pc[r] = "proxying"
  /\ status' = [status EXCEPT ![r] = IF gone[r] THEN 499 ELSE 502]
  /\ pc' = [pc EXCEPT ![r] = "finishing"]
  /\ UNCHANGED <<inputs, gone, routed, result, logged, metrics, redis, forwarded>>

mut_AbortBody(r, code) ==
  /\ pc[r] = "proxying"
  /\ r \in forwarded
  /\ status' = [status EXCEPT ![r] = code]
  /\ pc' = [pc EXCEPT ![r] = "done"]
  /\ UNCHANGED <<inputs, gone, routed, result, logged, metrics, redis, forwarded>>

\* The response's status and headers are out, copying the body fails, and the
\* proxy panics with ErrAbortHandler; the middleware's deferred function still
\* runs.
AbortBody(r, code) ==
  /\ pc[r] = "proxying"
  /\ r \in forwarded
  /\ status' = [status EXCEPT ![r] = code]
  /\ pc' = [pc EXCEPT ![r] = "finishing"]
  /\ UNCHANGED <<inputs, gone, routed, result, logged, metrics, redis, forwarded>>

mut_Finish(r) ==
  /\ pc[r] \in {"finishing", "done"}
  /\ observed' = IF routed[r] THEN observed + 1 ELSE observed
  /\ logged' = [logged EXCEPT ![r] = status[r]]
  /\ pc' = [pc EXCEPT ![r] = "done"]
  /\ UNCHANGED <<inputs, gone, routed, result, status, counted, redis, forwarded>>

\* Middleware's deferred function.
Finish(r) ==
  /\ pc[r] = "finishing"
  /\ observed' = IF routed[r] THEN observed + 1 ELSE observed
  /\ logged' = [logged EXCEPT ![r] = status[r]]
  /\ pc' = [pc EXCEPT ![r] = "done"]
  /\ UNCHANGED <<inputs, gone, routed, result, status, counted, redis, forwarded>>

-------------------------------------------------------------------------------
(* The environment. *)

HangUp(r) ==
  /\ pc[r] # "done"
  /\ ~gone[r]
  /\ gone' = [gone EXCEPT ![r] = TRUE]
  /\ UNCHANGED <<inputs, pc, routed, result, status, logged, metrics, redis, forwarded>>

RedisChanges ==
  /\ config.backend = "redis"
  /\ redisUp' = ~redisUp
  /\ redisWasUp' = (redisWasUp /\ redisUp')
  /\ UNCHANGED <<inputs, pc, gone, routed, result, status, logged, metrics, forwarded>>

Done == \A r \in Requests : pc[r] = "done"

Next ==
  \/ \E r \in Requests :
       \/ ServeReserved(r) \/ EnterMiddleware(r)
       \/ NoRoute(r) \/ Match(r)
       \/ \E res \in Results : Decide(r, res)
       \/ Refuse(r) \/ Forward(r) \/ UpstreamError(r)
       \/ \E code \in Upstream : Relay(r, code) \/ AbortBody(r, code)
       \/ Finish(r)
       \/ HangUp(r)
  \/ RedisChanges
  \/ Done /\ UNCHANGED vars

Spec == Init /\ [][Next]_vars

-------------------------------------------------------------------------------
\* Requests that are counted and not yet observed.
CountedInFlight == {r \in Requests : pc[r] \in {"decided", "proxying", "finishing"} /\ routed[r]}

\* requests_total, over all decisions.
CountedInAll ==
  counted["allow"] + counted["deny"] + counted["degrade_allow"] + counted["degrade_deny"]
    + counted["degrade"]

\* "observations == increments" (gateway.go:109-113, middleware.go:56-59): the
\* histogram lags the counter by exactly the requests under way, through
\* denials, hang-ups, upstream errors and the proxy's abort panic.
ObservationsMirrorCounts == CountedInAll = observed + Cardinality(CountedInFlight)

\* Whether a request without a verdict reaches the upstream is the policy's to
\* say, and fail_closed is a policy of the redis backend only: the upstream sees
\* a request on an allow or when the policy is another one, the gateway's own
\* answer to a routed request is 503 exactly when it is this one (an upstream
\* may answer 503 too), and "a leftover redis.on_error line in a memory config
\* must not turn [the at-capacity guard] into a 503" (gateway.go:115-136,
\* handler.go:41-44).
PolicyDecides ==
  LET failsClosed == config.backend = "redis" /\ config.onError = "fail_closed"
  IN  \A r \in Requests :
        /\ r \in forwarded
             => \/ result[r] \in {"allow", "degradedAllow"}
                \/ result[r] \in Failed /\ ~failsClosed
        /\ routed[r] /\ r \notin forwarded /\ pc[r] \in {"finishing", "done"}
             => (status[r] = 503 <=> result[r] \in Failed /\ failsClosed)

\* Where a request is tells what is known of it.
Progress ==
  \A r \in Requests :
    /\ pc[r] \in {"new", "middleware"} => ~routed[r]
    /\ pc[r] \in {"deciding", "decided", "proxying"} => routed[r]
    /\ pc[r] \in {"new", "middleware", "deciding"} => status[r] = 200
    /\ pc[r] \in {"decided", "proxying"} => result[r] # "none"
    /\ pc[r] = "proxying" => ~Refuses(r)
    /\ r \in forwarded => pc[r] \in {"proxying", "finishing", "done"}

\* Every routed request is observed once, when it is done.
ObservedOnce == observed = Cardinality({r \in Requests : pc[r] = "done" /\ routed[r]})

\* The inductive invariant.
GatewayInv ==
  TypeOK /\ Progress /\ ObservedOnce /\ ObservationsMirrorCounts /\ PolicyDecides

\* redis.go:176-178, "keeps a healthy dashboard free of hang-up-shaped degrade
\* blips": under degrade, while redis has answered all along, nothing is
\* counted as degrade.
NoHangUpDegrade ==
  config.backend = "redis" /\ config.onError = "degrade" /\ redisWasUp => counted["degrade"] = 0
================================================================================
