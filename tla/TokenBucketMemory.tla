--------------------------- MODULE TokenBucketMemory ---------------------------
(***************************************************************************)
(* The in-memory token bucket (internal/limiter/token_bucket.go) for one   *)
(* key.  step runs under MemoryLimiter's mutex.  Its times keep Go's       *)
(* monotonic reading; a tick is a nanosecond, time.Duration's unit.        *)
(***************************************************************************)
EXTENDS TokenBucket

VARIABLES
  now,      \* the monotonic clock
  fresh,    \* b.last.IsZero()
  shares,   \* tokenBucket.tokens, in shares
  last,     \* tokenBucket.last
  decision, \* the last Decision returned
  since,    \* history: how long ago it was returned, up to Horizon
  ages      \* history: when the last requests were allowed

vars == <<now, fresh, shares, last, decision, since, ages>>

TypeOK ==
  /\ now \in 0 .. MaxTime
  /\ fresh \in BOOLEAN
  /\ shares \in 0 .. Capacity
  /\ last \in 0 .. MaxTime
  /\ decision \in Decisions
  /\ since \in 0 .. Horizon
  /\ ages \in Ages

\* newBucket
Init ==
  /\ now \in 0 .. MaxTime
  /\ fresh = TRUE
  /\ shares = 0
  /\ last = 0
  /\ decision = NoDecision
  /\ since = 0
  /\ ages = NoAdmissions

mut_Refilled == IF fresh THEN Capacity ELSE Refill(shares, now - last + 1)

\* The shares at time now: a first request finds a full bucket.
Refilled ==
  IF fresh THEN Capacity ELSE IF now > last THEN Refill(shares, now - last) ELSE shares

\* secondsToDuration truncates to whole nanoseconds.
secondsToDuration(shortage) == IF shortage <= 0 THEN 0 ELSE shortage \div Rate

step ==
  LET allowed == HasToken(Refilled)
      new == IF allowed THEN Spend(Refilled) ELSE Refilled
  IN  /\ fresh' = FALSE
      /\ shares' = new
      /\ last' = IF fresh \/ now > last THEN now ELSE last
      /\ decision' = [allowed |-> allowed,
                      remaining |-> Remaining(new),
                      reset |-> now + secondsToDuration(Capacity - new),
                      retry |-> IF allowed THEN 0 ELSE secondsToDuration(Window - new)]
      /\ since' = 0
      /\ ages' = Remember(ages, allowed)
      /\ UNCHANGED now

Tick ==
  /\ now < MaxTime
  /\ now' = now + 1
  /\ since' = Older(since)
  /\ ages' = GrowOlder(ages)
  /\ UNCHANGED <<fresh, shares, last, decision>>

Spec == Init /\ [][step \/ Tick]_vars
================================================================================
