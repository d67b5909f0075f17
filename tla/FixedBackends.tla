----------------------------- MODULE FixedBackends -----------------------------
(***************************************************************************)
(* The two fixed_window backends side by side: the redis script and the    *)
(* in-memory bucket are asked the same requests at the same times, each on *)
(* its own window grid.                                                    *)
(***************************************************************************)
EXTENDS FixedWindowRedis

CONSTANT
  ZeroTime     \* how long before the Unix epoch Go's zero time is

ASSUME ZeroTimeAssumption == ZeroTime \in Nat

VARIABLES
  bucket,      \* fixedWindowBucket
  memDecision, \* the in-memory backend's last Decision
  memAges      \* history: its last admissions

Mem == INSTANCE FixedWindowMemory WITH
  Anchor <- ZeroTime, decision <- memDecision, ages <- memAges

BothInit == Init /\ Mem!Init

\* Both are asked, time passes for both, or redis drops its key.
Ask == script /\ Mem!step

BothTick == Tick /\ Mem!Tick

BothStepBack == StepBack /\ Mem!StepBack

RedisExpires == Expire /\ UNCHANGED <<bucket, memDecision, memAges>>

BothNext == Ask \/ BothTick \/ BothStepBack \/ RedisExpires

BothSpec == BothInit /\ [][BothNext]_<<vars, bucket, memDecision, memAges>>

-------------------------------------------------------------------------------
\* The window divides the time between the two anchors, "so the epoch-anchored
\* redis grid and the Truncate-anchored memory grid coincide"
\* (redis_integration_test.go:9-11).
GridsCoincide == ZeroTime % Window = 0

\* Where the grids coincide, and until the clock is set back, a client cannot
\* tell the backends apart: same verdict, same Remaining, Reset and RetryAfter,
\* whatever redis has let expire (the contract of TestRedisFixedWindowParity,
\* redis_integration_test.go:58).
SameAnswers == GridsCoincide /\ steps = 0 => decision = memDecision /\ ages = memAges
================================================================================
