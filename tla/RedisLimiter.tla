------------------------------ MODULE RedisLimiter ------------------------------
(***************************************************************************)
(* RedisLimiter.Allow (internal/limiter/redis.go) in several gateway       *)
(* instances that share one redis: each decision goes through the          *)
(* instance's breaker, runs a script by EVALSHA with the EVAL fallback on  *)
(* NOSCRIPT, and on failure follows the on_error policy, which for degrade *)
(* is the instance's own MemoryLimiter (internal/limiter/memory.go).       *)
(*                                                                         *)
(* One window is modelled: a key's state is the number of requests allowed *)
(* in it, in redis and in each fallback.  The algorithms are modelled in   *)
(* modules of their own.                                                   *)
(*                                                                         *)
(* Redis is outside the code: it may hang (commands wait, clients time     *)
(* out, the commands still run when it resumes) or crash (no persistence:  *)
(* keys and script cache are lost, waiting commands too).                  *)
(***************************************************************************)
EXTENDS Breaker, FiniteSets

CONSTANTS
  Instances,   \* gateway processes
  Callers,     \* requests under way, each making one decision after another
  Home,        \* the instance a caller runs in
  Keys,        \* state keys, turnike:{algo}:{route}:{identity}
  NoKey,       \* not a key: no decision is under way
  Rate,        \* the limit of every key
  MaxKeys,     \* maxKeys, the fallback's capacity
  Policies,    \* the on_error policies considered
  MaxCrashes,  \* bound: redis crashes
  MaxLate      \* bound: abandoned commands of a key that redis has yet to run

ASSUME LimiterAssumption ==
  /\ IsFiniteSet(Instances) /\ IsFiniteSet(Callers)
  /\ Home \in [Callers -> Instances]
  /\ NoKey \notin Keys
  /\ Rate \in Nat \ {0}
  /\ MaxKeys \in Nat
  /\ Policies \subseteq {"fail_open", "fail_closed", "degrade"}
  /\ MaxCrashes \in Nat
  /\ MaxLate \in Nat

VARIABLES
  onError,     \* config.RateLimit.OnError, the same in every instance
  brk,         \* the breaker of each instance
  memory,      \* the fallback's buckets: requests allowed, per tracked key
  others,      \* how many more buckets it has, for keys not modelled
  backend,     \* limiter_backend of each instance: its two series
  redis,       \* whether redis answers
  count,       \* redis: requests allowed per key
  cached,      \* redis: the script is in the script cache
  late,        \* redis: abandoned commands still to run, per key
  pc,          \* where each caller is in Allow
  key,         \* the key it asks for
  err,         \* the error of its call
  reply,       \* the verdict it was given
  sent,        \* history: commands of this decision that consume quota
  admitted,    \* history: requests of a key let through by a verdict
  crashes,     \* history: redis crashes
  wasUp        \* history: redis has answered all along

serverVars == <<redis, count, cached, late>>
callVars == <<pc, key, err, reply, sent>>
history == <<admitted, crashes, wasUp>>
vars == <<brk, memory, others, backend, serverVars, callVars, history>>

\* MemoryLimiter.state: the requests counted for each key that has a bucket.
Fallbacks == UNION {[tracked -> 0 .. Rate] : tracked \in SUBSET Keys}

NoBuckets == [k \in {} |-> 0]

TypeOK ==
  /\ onError \in Policies
  /\ brk \in [Instances -> Breakers]
  /\ memory \in [Instances -> Fallbacks]
  /\ others \in [Instances -> 0 .. MaxKeys]
  /\ backend \in [Instances -> [{"redis", "memory"} -> {0, 1}]]
  /\ redis \in {"up", "hung", "down"}
  /\ count \in [Keys -> 0 .. Rate]
  /\ cached \in BOOLEAN
  /\ late \in [Keys -> 0 .. MaxLate]
  /\ pc \in [Callers -> {"idle", "evalsha", "eval", "served", "returned", "recorded", "fellback",
                         "flipping"}]
  /\ key \in [Callers -> Keys \cup {NoKey}]
  /\ err \in [Callers -> Errors \cup {"open"}]
  /\ reply \in [Callers -> BOOLEAN]
  /\ sent \in [Callers -> Nat]
  /\ admitted \in [Keys -> Nat]
  /\ crashes \in 0 .. MaxCrashes
  /\ wasUp \in BOOLEAN

\* The pair of series when the given backend has answered last.
OnlyActive(active) == [series \in {"redis", "memory"} |-> IF series = active THEN 1 ELSE 0]

\* NewRedisLimiter: the configured backend is presumed active; the fallback
\* is empty; loading the scripts is best effort.
Init ==
  /\ onError \in Policies
  /\ brk = [i \in Instances |-> newBreaker]
  /\ memory = [i \in Instances |-> NoBuckets]
  /\ others = [i \in Instances |-> 0]
  /\ backend = [i \in Instances |-> OnlyActive("redis")]
  /\ redis = "up"
  /\ count = [k \in Keys |-> 0]
  /\ cached \in BOOLEAN
  /\ late = [k \in Keys |-> 0]
  /\ pc = [c \in Callers |-> "idle"]
  /\ key = [c \in Callers |-> NoKey]
  /\ err = [c \in Callers |-> "nil"]
  /\ reply = [c \in Callers |-> FALSE]
  /\ sent = [c \in Callers |-> 0]
  /\ admitted = [k \in Keys |-> 0]
  /\ crashes = 0
  /\ wasUp = TRUE

-------------------------------------------------------------------------------
(* The breaker around the call. *)

\* Allow is called for key k and the breaker admits it.
Start(c, k) ==
  /\ pc[c] = "idle"
  /\ Admits(brk[Home[c]])
  /\ brk' = [brk EXCEPT ![Home[c]] = admit(@)]
  /\ pc' = [pc EXCEPT ![c] = "evalsha"]
  /\ key' = [key EXCEPT ![c] = k]
  /\ UNCHANGED <<memory, others, backend, serverVars, err, reply, sent, history>>

\* Allow is called for key k and the breaker rejects it; record is not called.
Reject(c, k) ==
  /\ pc[c] = "idle"
  /\ ~Admits(brk[Home[c]])
  /\ pc' = [pc EXCEPT ![c] = "recorded"]
  /\ key' = [key EXCEPT ![c] = k]
  /\ err' = [err EXCEPT ![c] = "open"]
  /\ UNCHANGED <<brk, memory, others, backend, serverVars, reply, sent, history>>

mut_Record(c) ==
  /\ pc[c] = "returned"
  /\ brk' = [brk EXCEPT ![Home[c]] = record(@, err[c])]
  /\ pc' = [pc EXCEPT ![c] = "recorded"]
  /\ memory' = [memory EXCEPT ![Home[c]] =
                  IF brk'[Home[c]].state = "open" /\ brk[Home[c]].state = "closed" THEN NoBuckets ELSE @]
  /\ UNCHANGED <<others, backend, serverVars, key, err, reply, sent, history>>

Record(c) ==
  /\ pc[c] = "returned"
  /\ brk' = [brk EXCEPT ![Home[c]] = record(@, err[c])]
  /\ pc' = [pc EXCEPT ![c] = "recorded"]
  /\ UNCHANGED <<memory, others, backend, serverVars, key, err, reply, sent, history>>

-------------------------------------------------------------------------------
(* The call: script.Run. *)

mut_Execute(c) ==
  /\ pc' = [pc EXCEPT ![c] = "served"]
  /\ reply' = [reply EXCEPT ![c] = count[key[c]] <= Rate]
  /\ count' = [count EXCEPT ![key[c]] = IF @ < Rate THEN @ + 1 ELSE @]
  /\ sent' = [sent EXCEPT ![c] = @ + 1]

\* The script's atomic check-and-consume for c's key.
Execute(c) ==
  /\ pc' = [pc EXCEPT ![c] = "served"]
  /\ reply' = [reply EXCEPT ![c] = count[key[c]] < Rate]
  /\ count' = [count EXCEPT ![key[c]] = IF @ < Rate THEN @ + 1 ELSE @]
  /\ sent' = [sent EXCEPT ![c] = @ + 1]

Evalsha(c) ==
  /\ pc[c] = "evalsha"
  /\ redis = "up"
  /\ cached
  /\ Execute(c)
  /\ UNCHANGED <<brk, memory, others, backend, redis, cached, late, key, err, history>>

\* EVALSHA answers NOSCRIPT; Run sends EVAL.
NoScript(c) ==
  /\ pc[c] = "evalsha"
  /\ redis = "up"
  /\ ~cached
  /\ pc' = [pc EXCEPT ![c] = "eval"]
  /\ UNCHANGED <<brk, memory, others, backend, serverVars, key, err, reply, sent, history>>

\* EVAL runs the script and caches it.
Eval(c) ==
  /\ pc[c] = "eval"
  /\ redis = "up"
  /\ Execute(c)
  /\ cached' = TRUE
  /\ UNCHANGED <<brk, memory, others, backend, redis, late, key, err, history>>

\* The reply arrives, with the four values that the scripts return.
Receive(c) ==
  /\ pc[c] = "served"
  /\ pc' = [pc EXCEPT ![c] = "returned"]
  /\ err' = [err EXCEPT ![c] = "nil"]
  /\ UNCHANGED <<brk, memory, others, backend, serverVars, key, reply, sent, history>>

mut_Abandon(c, e, pcs, delivered) ==
  /\ pc[c] \in pcs
  /\ pc' = [pc EXCEPT ![c] = IF e = "failure" /\ pc[c] = "served" THEN "evalsha" ELSE "returned"]
  /\ err' = [err EXCEPT ![c] = e]
  /\ UNCHANGED <<late, sent>>

\* The call ends with error e while c waits at one of pcs.  A command that
\* has not run yet may still reach redis (delivered) and run later.
Abandon(c, e, pcs, delivered) ==
  /\ pc[c] \in pcs
  /\ pc' = [pc EXCEPT ![c] = "returned"]
  /\ err' = [err EXCEPT ![c] = e]
  /\ IF delivered
     THEN /\ pc[c] # "served"
          /\ late[key[c]] < MaxLate
          /\ late' = [late EXCEPT ![key[c]] = @ + 1]
          /\ sent' = [sent EXCEPT ![c] = @ + 1]
     ELSE UNCHANGED <<late, sent>>

\* A client timeout while redis hangs.
TimeOut(c) ==
  /\ redis = "hung"
  /\ \E delivered \in BOOLEAN : Abandon(c, "failure", {"evalsha", "eval", "served"}, delivered)
  /\ UNCHANGED <<brk, memory, others, backend, redis, count, cached, key, reply, history>>

\* No connection, or the connection breaks.
Refused(c) ==
  /\ redis = "down"
  /\ Abandon(c, "failure", {"evalsha", "eval", "served"}, FALSE)
  /\ UNCHANGED <<brk, memory, others, backend, redis, count, cached, key, reply, history>>

\* The client of the gateway hangs up and the request's context is canceled.  The
\* call may end at once, also in the middle of a read, where the client library
\* would wait for the read timeout: more behaviours than it has.
HangUp(c) ==
  /\ \E delivered \in BOOLEAN : Abandon(c, "canceled", {"evalsha", "eval", "served"}, delivered)
  /\ UNCHANGED <<brk, memory, others, backend, redis, count, cached, key, reply, history>>

-------------------------------------------------------------------------------
(* The rest of Allow, and what the gateway does with the result. *)

\* Allow returns; its variables are gone.
Leave(c) ==
  /\ pc' = [pc EXCEPT ![c] = "idle"]
  /\ err' = [err EXCEPT ![c] = "nil"]
  /\ reply' = [reply EXCEPT ![c] = FALSE]
  /\ sent' = [sent EXCEPT ![c] = 0]
  /\ key' = [key EXCEPT ![c] = NoKey]

\* Allow returns a verdict, and the gateway proxies if it is an allow.
Verdict(c) ==
  /\ admitted' = [admitted EXCEPT ![key[c]] = IF reply[c] THEN @ + 1 ELSE @]
  /\ Leave(c)

mut_Unlocked(i) == TRUE

\* backendMu of instance i is free.
Unlocked(i) == \A c \in Callers : Home[c] = i => pc[c] # "flipping"

\* Who gave c's verdict: redis, unless its call failed.
ActiveFor(c) == IF err[c] = "nil" THEN "redis" ELSE "memory"

\* SetActiveBackend writes a series of c's instance for c's verdict.
WriteSeries(c, series) ==
  backend' = [backend EXCEPT ![Home[c]][series] = OnlyActive(ActiveFor(c))[series]]

\* SetActiveBackend takes the lock and writes the first series.
StartFlip(c) ==
  /\ Unlocked(Home[c])
  /\ WriteSeries(c, "redis")
  /\ pc' = [pc EXCEPT ![c] = "flipping"]
  /\ UNCHANGED <<brk, memory, others, serverVars, key, err, reply, sent, history>>

mut_Answer(c) ==
  /\ pc[c] = "recorded"
  /\ err[c] = "nil"
  /\ Verdict(c)
  /\ UNCHANGED <<brk, memory, others, backend, serverVars, crashes, wasUp>>

\* redis answered.
Answer(c) ==
  /\ pc[c] = "recorded"
  /\ err[c] = "nil"
  /\ StartFlip(c)

\* It writes the second series, unlocks, and Allow returns.
FinishFlip(c) ==
  /\ pc[c] = "flipping"
  /\ WriteSeries(c, "memory")
  /\ Verdict(c)
  /\ UNCHANGED <<brk, memory, others, serverVars, crashes, wasUp>>

UsesFallback(c) == onError = "degrade" /\ err[c] # "nil" /\ ~neutral(err[c])

\* The state map is below its cap.
HasRoom(i) == Cardinality(DOMAIN memory[i]) + others[i] < MaxKeys

\* MemoryLimiter.Allow has a bucket for the key, or makes one.
HasBucket(i, k) == k \in DOMAIN memory[i] \/ HasRoom(i)

\* What instance i's fallback has counted for key k.
CountedIn(i, k) == IF k \in DOMAIN memory[i] THEN memory[i][k] ELSE 0

\* MemoryLimiter.Allow of the fallback, under its mutex.
Fallback(c) ==
  LET i == Home[c]
      k == key[c]
      used == CountedIn(i, k)
      new == IF used < Rate THEN used + 1 ELSE used
  IN  /\ pc[c] = "recorded"
      /\ UsesFallback(c)
      /\ HasBucket(i, k)
      /\ memory' = [memory EXCEPT ![i] =
                      [x \in DOMAIN @ \cup {k} |-> IF x = k THEN new ELSE @[x]]]
      /\ reply' = [reply EXCEPT ![c] = used < Rate]
      /\ pc' = [pc EXCEPT ![c] = "fellback"]
      /\ UNCHANGED <<brk, others, backend, serverVars, key, err, sent, history>>

\* The fallback's verdict is returned, marked Degraded.
AnswerDegraded(c) ==
  /\ pc[c] = "fellback"
  /\ StartFlip(c)

\* A decision for a key that is not modelled takes a place in the fallback.
Crowd(i) ==
  /\ onError = "degrade"
  /\ redis # "up" \/ ~Admits(brk[i])
  /\ HasRoom(i)
  /\ others' = [others EXCEPT ![i] = @ + 1]
  /\ UNCHANGED <<brk, memory, backend, serverVars, callVars, history>>

\* Allow returns an error: no fallback, a hang-up, or the fallback is full.
\* What the gateway makes of it is modelled in Gateway.
Fail(c) ==
  /\ pc[c] = "recorded"
  /\ err[c] # "nil"
  /\ UsesFallback(c) => ~HasBucket(Home[c], key[c])
  /\ Leave(c)
  /\ UNCHANGED <<brk, memory, others, backend, serverVars, history>>

-------------------------------------------------------------------------------
(* Redis and time. *)

\* An abandoned command runs; whether it consumes depends on what it was.
RunLate(k) ==
  /\ redis = "up"
  /\ late[k] > 0
  /\ late' = [late EXCEPT ![k] = @ - 1]
  /\ count' \in {count, [count EXCEPT ![k] = IF @ < Rate THEN @ + 1 ELSE @]}
  /\ UNCHANGED <<brk, memory, others, backend, redis, cached, callVars, history>>

Hang ==
  /\ redis = "up"
  /\ redis' = "hung"
  /\ wasUp' = FALSE
  /\ UNCHANGED <<brk, memory, others, backend, count, cached, late, callVars, admitted, crashes>>

Crash ==
  /\ redis # "down"
  /\ crashes < MaxCrashes
  /\ redis' = "down"
  /\ count' = [k \in Keys |-> 0]
  /\ cached' = FALSE
  /\ late' = [k \in Keys |-> 0]
  /\ crashes' = crashes + 1
  /\ wasUp' = FALSE
  /\ UNCHANGED <<brk, memory, others, backend, callVars, admitted>>

Resume ==
  /\ redis # "up"
  /\ redis' = "up"
  /\ UNCHANGED <<brk, memory, others, backend, count, cached, late, callVars, history>>

FlushScripts ==
  /\ cached
  /\ redis = "up"
  /\ cached' = FALSE
  /\ UNCHANGED <<brk, memory, others, backend, redis, count, late, callVars, history>>

Tick ==
  /\ brk' = [i \in Instances |-> Elapse(brk[i])]
  /\ UNCHANGED <<memory, others, backend, serverVars, callVars, history>>

Steps ==
  \/ \E c \in Callers, k \in Keys : Start(c, k) \/ Reject(c, k)
  \/ \E c \in Callers :
       \/ Record(c)
       \/ Evalsha(c) \/ NoScript(c) \/ Eval(c) \/ Receive(c)
       \/ TimeOut(c) \/ Refused(c) \/ HangUp(c)
       \/ Answer(c) \/ Fallback(c) \/ AnswerDegraded(c) \/ FinishFlip(c) \/ Fail(c)
  \/ \E i \in Instances : Crowd(i)
  \/ \E k \in Keys : RunLate(k)
  \/ Hang \/ Crash \/ Resume \/ FlushScripts
  \/ Tick

\* The policy is configured once.
Next == Steps /\ UNCHANGED onError

Spec == Init /\ [][Next]_<<onError, vars>>

-------------------------------------------------------------------------------
\* Requests a key can be allowed in the window: the limit, once more for each
\* crash that loses the count, and once more in each instance's fallback.
AdmissionBudget ==
  Rate * (crashes + 1) + (IF onError = "degrade" THEN Rate * Cardinality(Instances) ELSE 0)

\* redis.go:182-183: over-admission under degrade "is bounded by N_instances
\* x limit"; under the other policies verdicts never admit more than redis
\* granted.
AdmissionBounded == \A k \in Keys : admitted[k] <= AdmissionBudget

\* A decision consumes quota in redis at most once: Run's EVAL after NOSCRIPT
\* does not repeat an EVALSHA that ran, and MaxRetries: -1 (redis.go:108-111)
\* means a timed-out command is not sent again.
ChargedOnce == \A c \in Callers : sent[c] <= 1

\* Caller c holds an allow for key k that it has not delivered yet.
HoldsAllow(c, k) ==
  /\ key[c] = k
  /\ reply[c]
  /\ \/ pc[c] \in {"served", "fellback", "flipping"}
     \/ pc[c] \in {"returned", "recorded"} /\ err[c] = "nil"

Undelivered(k) == {c \in Callers : HoldsAllow(c, k)}

\* The requests that the fallbacks have counted for key k, numbered in each.
Degraded(k) == {p \in Instances \X (1 .. Rate) : p[2] <= CountedIn(p[1], k)}

\* Every allow is paid for where it was decided: delivered and undelivered
\* allows together never exceed what redis and the fallbacks have counted,
\* whatever ran late, timed out or was hung up on; a crash forgets at most a
\* limit's worth of them.
AllowsPaid ==
  \A k \in Keys :
    admitted[k] + Cardinality(Undelivered(k))
      <= Rate * crashes + count[k] + Cardinality(Degraded(k))

\* While redis has answered all along, no caller is rejected, fails or is
\* degraded, however many clients hang up in the middle of a decision: a hang-up
\* "proves nothing about redis" (redis.go:173-179, breaker.go:111-117).  Gateway
\* assumes this of the limiter (CanReturn).
HealthyRedisAnswers ==
  wasUp => \A c \in Callers : pc[c] # "fellback" /\ err[c] \in {"nil", "canceled"}

\* metrics.go:83-85: racing flips "cannot interleave into a lasting both-1 or
\* both-0 state"; whenever no flip is under way, one series of the pair is 1.
OneHot ==
  \A i \in Instances :
    \/ \E c \in Callers : Home[c] = i /\ pc[c] = "flipping"
    \/ backend[i] \in {OnlyActive("redis"), OnlyActive("memory")}

\* A caller in the middle of Allow has a key to decide about.
KeyKnown == \A c \in Callers : pc[c] # "idle" => key[c] \in Keys

\* Nothing is sent before the call, and at most one command by it.
SentInCall ==
  /\ \A c \in Callers : pc[c] \in {"idle", "evalsha", "eval"} => sent[c] = 0
  /\ ChargedOnce

\* A closed circuit is a failure away from opening.
ClosedBelowThreshold ==
  \A i \in Instances : brk[i].state = "closed" => brk[i].failures < Threshold

\* The fallbacks are used under degrade only.
FallbackForDegrade == onError # "degrade" => \A i \in Instances : DOMAIN memory[i] = {}

\* "capped at maxKeys entries" (memory.go:31): the fallback's map stays below it.
WithinCap ==
  \A i \in Instances : /\ IsFiniteSet(DOMAIN memory[i])
                       /\ Cardinality(DOMAIN memory[i]) + others[i] <= MaxKeys

\* While redis answers nothing has tripped a breaker.
HealthyRedis ==
  wasUp => redis = "up" /\ \A i \in Instances : brk[i].state = "closed"

\* backendMu keeps flips apart, and the one under way has written its first half.
FlipsExclude ==
  /\ \A c, d \in Callers :
       pc[c] = "flipping" /\ pc[d] = "flipping" /\ Home[c] = Home[d] => c = d
  /\ \A c \in Callers :
       pc[c] = "flipping" => backend[Home[c]]["redis"] = OnlyActive(ActiveFor(c))["redis"]

\* The inductive invariant.
LimiterInv ==
  /\ TypeOK
  /\ KeyKnown
  /\ SentInCall
  /\ ClosedBelowThreshold
  /\ FallbackForDegrade /\ WithinCap
  /\ HealthyRedis /\ HealthyRedisAnswers
  /\ FlipsExclude /\ OneHot
  /\ AllowsPaid

-------------------------------------------------------------------------------
\* Goroutines are scheduled; calls end within the client's timeouts; traffic
\* keeps coming on every instance and not every client hangs up; time passes.
Fairness ==
  /\ WF_vars(Tick)
  /\ \A c \in Callers :
       /\ WF_vars(\E k \in Keys : Start(c, k) \/ Reject(c, k))
       /\ WF_vars(Record(c))
       /\ WF_vars(Refused(c) \/ TimeOut(c))
       /\ SF_vars(Evalsha(c) \/ NoScript(c))
       /\ SF_vars(Eval(c))
       /\ SF_vars(Receive(c))
       /\ WF_vars(Answer(c) \/ Fallback(c) \/ AnswerDegraded(c) \/ FinishFlip(c) \/ Fail(c))

FairSpec == Spec /\ Fairness

\* Once redis stays up, every instance reports it as the active backend for
\* good: no fallback verdict still under way flips the gauge back last
\* (SetActiveBackend runs after the decision, outside its locks).
BackendHeals ==
  <>[](redis = "up") => <>[](\A i \in Instances : backend[i] = OnlyActive("redis"))
================================================================================
