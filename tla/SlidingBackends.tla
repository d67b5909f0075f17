---------------------------- MODULE SlidingBackends ----------------------------
(***************************************************************************)
(* The two sliding_window backends side by side: the redis script and the  *)
(* in-memory bucket are asked the same requests.  The bucket's clock is    *)
(* monotonic: it runs with redis TIME and is not set back with it.         *)
(***************************************************************************)
EXTENDS SlidingWindowRedis

VARIABLES
  log,         \* slidingWindowBucket.timestamps
  memDecision, \* the in-memory backend's last Decision
  memAges      \* history: its last admissions

Mem == INSTANCE SlidingWindowMemory WITH
  now <- now + back, decision <- memDecision, ages <- memAges

BothInit == Init /\ Mem!Init

\* Both are asked, time passes for both, TIME alone is set back, or redis drops
\* its key.
Ask == script /\ Mem!step

BothTick == Tick /\ Mem!Tick

RedisStepsBack == StepBack /\ UNCHANGED <<log, memDecision, memAges>>

RedisExpires == Expire /\ UNCHANGED <<log, memDecision, memAges>>

BothNext == Ask \/ BothTick \/ RedisStepsBack \/ RedisExpires

BothSpec == BothInit /\ [][BothNext]_<<vars, log, memDecision, memAges>>

-------------------------------------------------------------------------------
\* Until TIME steps backward a client cannot tell the backends apart: same
\* verdict, same Remaining, Reset and RetryAfter, whatever redis has let expire
\* (the contract of TestRedisSlidingWindowParity, redis_integration_test.go:428).
SameAnswers == steps = 0 => decision = memDecision /\ ages = memAges

\* A client the in-memory limiter denied and nobody overtakes is allowed from
\* RetryAfter on and not before, and the log is clear from Reset on and not
\* before (limiter.go:20-32).
MemoryTimesExact == Mem!RetryExact /\ Mem!ResetExact
================================================================================
