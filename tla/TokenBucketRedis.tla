---------------------------- MODULE TokenBucketRedis ----------------------------
(***************************************************************************)
(* The redis token_bucket script (internal/limiter/scripts/                *)
(* token_bucket.lua) for one key.  Redis runs a script atomically, and the *)
(* script reads the server's TIME, in microseconds, the model's ticks;     *)
(* StepBack is that clock being set back.                                  *)
(*                                                                         *)
(* Redis keeps expiry times in whole milliseconds: PEXPIRE adds to the     *)
(* truncated clock, and a key is gone once the truncated clock is past its *)
(* expiry time.  Milli is a millisecond in ticks.                          *)
(***************************************************************************)
EXTENDS TokenBucket

CONSTANTS
  Milli,    \* clock ticks in a millisecond
  MaxSteps  \* how often the clock is set back

ASSUME RedisAssumption == Milli \in Nat \ {0} /\ MaxSteps \in Nat

VARIABLES
  now,      \* redis TIME
  key,      \* the hash {tokens, last_us} with its expiry, or absent
  decision, \* the last Decision
  since,    \* history: how long ago it was made in real time, up to Horizon
  ages,     \* history: when the last requests were allowed, in real time
  steps     \* how often the clock has been set back

vars == <<now, key, decision, since, ages, steps>>

Hashes ==
  [exists : BOOLEAN, shares : 0 .. Capacity, last : 0 .. MaxTime, expireAt : Nat]

Absent == [exists |-> FALSE, shares |-> 0, last |-> 0, expireAt |-> 0]

TypeOK ==
  /\ now \in 0 .. MaxTime
  /\ key \in Hashes
  /\ decision \in Decisions
  /\ since \in 0 .. Horizon
  /\ ages \in Ages
  /\ steps \in 0 .. MaxSteps

Init ==
  /\ now \in 0 .. MaxTime
  /\ key = Absent
  /\ decision = NoDecision
  /\ since = 0
  /\ ages = NoAdmissions
  /\ steps = 0

\* The shares at time now: a fresh key starts full.
Refilled ==
  IF ~key.exists THEN Capacity
  ELSE IF now > key.last THEN Refill(key.shares, now - key.last)
  ELSE key.shares

\* last_us never goes back.
Last == IF key.exists /\ now <= key.last THEN key.last ELSE now

mut_TTL(shortage) ==
  LET ttl == CeilDiv(shortage, Rate * Milli) IN IF ttl > 1 THEN 1 ELSE ttl

\* Milliseconds until the bucket is full, at least one.
TTL(shortage) ==
  LET ttl == CeilDiv(shortage, Rate * Milli) IN IF ttl < 1 THEN 1 ELSE ttl

mut_RetryOf(shares) == (Window - shares) \div Rate

\* math.ceil((1 - tokens) / refill)
RetryOf(shares) == CeilDiv(Window - shares, Rate)

script ==
  LET allowed == HasToken(Refilled)
      new == IF allowed THEN Spend(Refilled) ELSE Refilled
  IN  /\ key' = [exists |-> TRUE, shares |-> new, last |-> Last,
                 expireAt |-> (now \div Milli) + TTL(Capacity - new)]
      /\ decision' = [allowed |-> allowed,
                      remaining |-> Remaining(new),
                      reset |-> now + CeilDiv(Capacity - new, Rate),
                      retry |-> IF allowed THEN 0 ELSE RetryOf(new)]
      /\ since' = 0
      /\ ages' = Remember(ages, allowed)
      /\ UNCHANGED <<now, steps>>

\* Redis drops a key past its expiry time.
Expire ==
  /\ key.exists
  /\ now \div Milli > key.expireAt
  /\ key' = Absent
  /\ UNCHANGED <<now, decision, since, ages, steps>>

Tick ==
  /\ now < MaxTime
  /\ now' = now + 1
  /\ since' = Older(since)
  /\ ages' = GrowOlder(ages)
  /\ UNCHANGED <<key, decision, steps>>

\* The server's clock is set back.
StepBack ==
  /\ steps < MaxSteps
  /\ now' \in 0 .. now - 1
  /\ steps' = steps + 1
  /\ UNCHANGED <<key, decision, since, ages>>

Next == script \/ Expire \/ Tick \/ StepBack

Spec == Init /\ [][Next]_vars

-------------------------------------------------------------------------------
Quota == INSTANCE TokenQuota WITH
  level <- Refilled, verdict <- <<decision.allowed, decision.remaining>>

\* Until the clock is set back the script implements the quota: "a key expiring
\* exactly when full is lossless because a fresh key starts full"
\* (token_bucket.lua:49-50).
ImplementsQuota == Quota!Init /\ [][steps' = 0 => Quota!Next]_(Quota!vars)

\* token_bucket.lua:29-32: a backward step grants "no free refill", so no more
\* is allowed over any stretch of real time than the burst and the refill.
Conforms == Quota!Conforms

\* RetryAfter is "how long until the next request would succeed"
\* (limiter.go:29): until the clock is set back, a denied client that nobody
\* overtakes is allowed from then on, and a tick earlier a whole token was not
\* there yet.
RetryExact ==
  steps = 0 /\ ~decision.allowed /\ since < Horizon
    => IF since >= decision.retry THEN HasToken(Refilled) ELSE Refilled < Window

-------------------------------------------------------------------------------
\* The newest admission comes first.
AgesSorted == \A i, j \in Remembered : i <= j => ages[i] <= ages[j]

\* The last j admissions, and what is in the bucket now, come from the burst
\* and the refill since the first of them.
AdmissionsPaid ==
  \A j \in Remembered :
    ages[j] < Horizon => j * (Window - Epsilon) + Refilled <= Capacity + ages[j] * Rate

\* How long redis keeps the key for sure, if the clock is not set back.
UntilExpiry ==
  LET gone == (key.expireAt + 1) * Milli IN IF now < gone THEN gone - now ELSE 0

\* Also the full bucket that follows on the expiry will have been paid for.
ExpiryPaid ==
  key.exists =>
    \A j \in Remembered :
      ages[j] < Horizon => j * (Window - Epsilon) <= (ages[j] + UntilExpiry) * Rate

\* Until the clock is set back, the bucket is full when its key expires.
ExpiresFull ==
  steps = 0 /\ key.exists
    => /\ key.last <= now
       /\ Capacity <= key.shares + ((key.expireAt + 1) * Milli - key.last) * Rate

\* What a denied client knows, until the clock is set back.
DenialCurrent ==
  steps = 0 /\ ~decision.allowed /\ since < Horizon
    => IF key.exists
       THEN /\ key.shares < Window
            /\ now = key.last + since
            /\ decision.retry = RetryOf(key.shares)
       ELSE since >= decision.retry

\* The inductive invariant behind the promises.
BucketInv ==
  /\ TypeOK /\ AgesSorted /\ AdmissionsPaid /\ Conforms
  /\ ExpiryPaid /\ ExpiresFull /\ DenialCurrent
================================================================================
