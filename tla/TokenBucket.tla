------------------------------ MODULE TokenBucket ------------------------------
(***************************************************************************)
(* What the specifications of the token_bucket algorithm share.  One key   *)
(* is modelled: keys do not share state.                                   *)
(*                                                                         *)
(* The code counts tokens in float64.  The model counts shares, Window to  *)
(* a token, so that the refill of Rate tokens per Window is Rate shares a  *)
(* tick and every quantity is an integer; Epsilon is tokenEpsilon in       *)
(* shares.  Rounding of the floats themselves is left out.                 *)
(***************************************************************************)
EXTENDS Integers

CONSTANTS
  Burst,    \* config.Limit.Burst
  Rate,     \* config.Limit.Rate
  Window,   \* config.Limit.Window, in ticks
  Epsilon,  \* tokenEpsilon, in shares
  MaxTime,  \* bound on the clock
  Horizon   \* how far back admissions are remembered, in ticks

ASSUME BucketAssumption ==
  /\ Burst \in Nat \ {0} /\ Rate \in Nat \ {0} /\ Window \in Nat \ {0}
  /\ Epsilon \in 0 .. Window - 1
  /\ MaxTime \in Nat
  /\ Horizon \in Nat \ {0}

Capacity == Burst * Window

\* math.Ceil(a / b)
CeilDiv(a, b) == (a + b - 1) \div b

\* limiter.Decision, without the constant Limit and the Degraded mark.
Decisions == [allowed : BOOLEAN, remaining : 0 .. Burst, reset : Nat, retry : Nat]

\* Before the first request.
NoDecision == [allowed |-> TRUE, remaining |-> Burst, reset |-> 0, retry |-> 0]

mut_Refill(shares, elapsed) == shares + elapsed * Rate

\* The shares after a refill, capped at the burst.
Refill(shares, elapsed) ==
  IF shares + elapsed * Rate < Capacity THEN shares + elapsed * Rate ELSE Capacity

\* tokens >= 1 - tokenEpsilon
HasToken(shares) == shares >= Window - Epsilon

\* The shares after an allow, not below zero.
Spend(shares) == IF shares < Window THEN 0 ELSE shares - Window

\* math.Floor(tokens)
Remaining(shares) == shares \div Window

\* The ages of the last admissions, newest first, in ticks of real time and
\* saturating at Horizon.
Remembered == 1 .. Burst + 2

Ages == [Remembered -> 0 .. Horizon]

NoAdmissions == [i \in Remembered |-> Horizon]

\* A request is decided.
Remember(ages, allowed) ==
  IF allowed THEN [i \in Remembered |-> IF i = 1 THEN 0 ELSE ages[i - 1]]
  ELSE ages

\* An age, or another time span that matters only up to Horizon, a tick later.
Older(age) == IF age < Horizon THEN age + 1 ELSE Horizon

\* A tick of real time.
GrowOlder(ages) == [i \in Remembered |-> Older(ages[i])]
================================================================================
