----------------------------- MODULE TokenBackends -----------------------------
(***************************************************************************)
(* The two token_bucket backends side by side: the redis script and the    *)
(* in-memory bucket are asked the same requests.  The bucket's clock is    *)
(* monotonic: it runs with redis TIME and is not set back with it.         *)
(***************************************************************************)
EXTENDS TokenBucketRedis

VARIABLES
  mono,        \* the monotonic clock
  fresh,       \* b.last.IsZero()
  shares,      \* tokenBucket.tokens, in shares
  last,        \* tokenBucket.last
  memDecision, \* the in-memory backend's last Decision
  memAges      \* history: its last admissions

Mem == INSTANCE TokenBucketMemory WITH
  now <- mono, decision <- memDecision, ages <- memAges

memVars == <<mono, fresh, shares, last, memDecision, memAges>>

BothInit == Init /\ Mem!Init /\ mono = now

\* Both are asked, time passes for both, TIME alone is set back, or redis drops
\* its key.
Ask == script /\ Mem!step

BothTick == Tick /\ Mem!Tick

RedisStepsBack == StepBack /\ UNCHANGED memVars

RedisExpires == Expire /\ UNCHANGED memVars

BothNext == Ask \/ BothTick \/ RedisStepsBack \/ RedisExpires

BothSpec == BothInit /\ [][BothNext]_<<vars, memVars>>

-------------------------------------------------------------------------------
\* Until TIME steps backward the backends give the same verdict and the same
\* Remaining, whatever redis has let expire, and times that differ by rounding
\* only: the script rounds RetryAfter and Reset up to its tick, Go down (the
\* contract of TestRedisTokenBucketParity, redis_integration_test.go:213).
SameAnswers ==
  steps = 0 =>
    /\ decision.allowed = memDecision.allowed
    /\ decision.remaining = memDecision.remaining
    /\ decision.retry - memDecision.retry \in 0 .. 1
    /\ decision.reset - memDecision.reset \in 0 .. 1
    /\ ages = memAges
================================================================================
