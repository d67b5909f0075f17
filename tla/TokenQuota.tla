------------------------------- MODULE TokenQuota -------------------------------
(***************************************************************************)
(* What the token_bucket algorithm promises for one key, on a clock that   *)
(* never goes backward: a bucket of Burst tokens that really refills, Rate *)
(* tokens per Window, as time passes.  TokenBucketMemory and               *)
(* TokenBucketRedis, which refill when asked and may forget a full bucket, *)
(* implement it.                                                           *)
(***************************************************************************)
EXTENDS TokenBucket

VARIABLES
  now,      \* the clock the decisions are made on
  level,    \* the shares in the bucket
  verdict,  \* the last answer: allowed, and tokens left
  since,    \* how long ago it was given, up to Horizon
  ages      \* when the last requests were allowed

vars == <<now, level, verdict, since, ages>>

Init ==
  /\ now \in 0 .. MaxTime
  /\ level = Capacity
  /\ verdict = <<TRUE, Burst>>
  /\ since = 0
  /\ ages = NoAdmissions

Allow ==
  /\ HasToken(level)
  /\ level' = Spend(level)
  /\ verdict' = <<TRUE, Remaining(level')>>
  /\ since' = 0
  /\ ages' = Remember(ages, TRUE)
  /\ UNCHANGED now

Deny ==
  /\ ~HasToken(level)
  /\ verdict' = <<FALSE, 0>>
  /\ since' = 0
  /\ UNCHANGED <<now, level, ages>>

Tick ==
  /\ now < MaxTime
  /\ now' = now + 1
  /\ level' = Refill(level, 1)
  /\ since' = Older(since)
  /\ ages' = GrowOlder(ages)
  /\ UNCHANGED verdict

Next == Allow \/ Deny \/ Tick

Spec == Init /\ [][Next]_vars

-------------------------------------------------------------------------------
\* The promise of token_bucket.go:10-14, a burst up to the capacity and then
\* the refill rate: the j requests allowed over any stretch of time are no
\* more than the burst and what is refilled in the stretch, but for the
\* epsilon each of them may have been short.
Conforms ==
  \A i, j \in Remembered :
    i <= j /\ ages[j] < Horizon
      => (j - i + 1) * Window <= Capacity + (ages[j] - ages[i]) * Rate + (j - i + 1) * Epsilon
================================================================================
