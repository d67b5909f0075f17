-------------------------------- MODULE Breaker --------------------------------
(***************************************************************************)
(* The circuit breaker of internal/limiter/breaker.go as a value and the   *)
(* functions on it.  admit and record each run under the breaker's mutex,  *)
(* so one application of an operator below is one atomic step of the code. *)
(*                                                                         *)
(* openedAt is only ever read as now - openedAt < BreakerCooldown, on Go's *)
(* monotonic clock, so the model keeps that difference, counted in ticks   *)
(* and saturating at Cooldown: "openedAt = now" is age = 0, and leaving    *)
(* openedAt alone is leaving age alone.                                    *)
(***************************************************************************)
EXTENDS Naturals

CONSTANTS
  Threshold,  \* breakerFailureThreshold (5 in the code)
  Cooldown    \* BreakerCooldown in ticks (1 second in the code)

ASSUME BreakerAssumption ==
  /\ Threshold \in Nat \ {0}
  /\ Cooldown \in Nat \ {0}

States == {"closed", "open", "halfOpen"}

\* What fn can return, as far as the breaker distinguishes errors.
Errors == {"nil", "canceled", "failure"}

Breakers ==
  [state : States, gauge : States, failures : 0 .. Threshold, age : 0 .. Cooldown]

newBreaker ==
  [state |-> "closed", gauge |-> "closed", failures |-> 0, age |-> Cooldown]

\* The only write to the state; the exported gauge moves with it.
setState(b, s) == [b EXCEPT !.state = s, !.gauge = s]

CooledDown(b) == b.age = Cooldown

\* Does admit return nil, so that the caller goes on to call redis?
Admits(b) ==
  \/ b.state = "closed"
  \/ b.state = "open" /\ CooledDown(b)

\* A probe is a caller admitted by an open circuit.
AdmitsAsProbe(b) == b.state = "open" /\ CooledDown(b)

\* The breaker after admit.
admit(b) == IF AdmitsAsProbe(b) THEN setState(b, "halfOpen") ELSE b

mut_neutral(err) == FALSE

neutral(err) == err = "canceled"

\* setState(stateOpen) followed by openedAt = now.
TripNow(b) == [setState(b, "open") EXCEPT !.age = 0]

recordClosed(b, err) ==
  IF err = "nil" THEN [b EXCEPT !.failures = 0]
  ELSE IF neutral(err) THEN b
  ELSE LET counted == [b EXCEPT !.failures = @ + 1]
       IN  IF counted.failures >= Threshold THEN TripNow(counted) ELSE counted

mut_recordHalfOpen_keepsFailures(b, err) ==
  IF err = "nil" THEN setState(b, "closed")
  ELSE IF neutral(err) THEN setState(b, "open")
  ELSE TripNow(b)

mut_recordHalfOpen_keepsOpenedAt(b, err) ==
  IF err = "nil" THEN [setState(b, "closed") EXCEPT !.failures = 0]
  ELSE setState(b, "open")

mut_recordHalfOpen_wedges(b, err) ==
  IF err = "nil" THEN [setState(b, "closed") EXCEPT !.failures = 0]
  ELSE IF neutral(err) THEN b
  ELSE TripNow(b)

recordHalfOpen(b, err) ==
  IF err = "nil" THEN [setState(b, "closed") EXCEPT !.failures = 0]
  ELSE IF neutral(err) THEN setState(b, "open")
  ELSE TripNow(b)

\* The breaker after record.  In the open state the verdict is dropped.
record(b, err) ==
  IF b.state = "closed" THEN recordClosed(b, err)
  ELSE IF b.state = "halfOpen" THEN recordHalfOpen(b, err)
  ELSE b

\* One tick of the clock the breaker reads.
Elapse(b) == [b EXCEPT !.age = IF @ < Cooldown THEN @ + 1 ELSE @]
================================================================================
