----------------------------- MODULE SlidingWindow -----------------------------
(***************************************************************************)
(* What the specifications of the sliding_window algorithm share: its      *)
(* parameters, the Decision it returns and the record of past admissions   *)
(* that its promises are about.  One key is modelled: keys do not share    *)
(* state.                                                                  *)
(***************************************************************************)
EXTENDS Integers

CONSTANTS
  Rate,    \* config.Limit.Rate
  Window,  \* config.Limit.Window, in ticks
  MaxTime  \* bound on the clock

ASSUME WindowAssumption ==
  /\ Rate \in Nat \ {0}
  /\ Window \in Nat \ {0}
  /\ MaxTime \in Nat

\* limiter.Decision, without the constant Limit and the Degraded mark.
Decisions == [allowed : BOOLEAN, remaining : 0 .. Rate, reset : Nat, retry : Nat]

\* Before the first request.
NoDecision == [allowed |-> TRUE, remaining |-> Rate, reset |-> 0, retry |-> 0]

\* Is the request allowed, when count requests are in the log?
HasRoom(count) == count < Rate

\* What is left when count requests are in the log.
RemainingOf(count) == IF Rate - count < 0 THEN 0 ELSE Rate - count

\* The ages of the last Rate+1 admissions, newest first, in ticks of real time
\* and saturating at Window.
Ages == [1 .. Rate + 1 -> 0 .. Window]

NoAdmissions == [i \in 1 .. Rate + 1 |-> Window]

\* A request is decided.
Remember(ages, allowed) ==
  IF allowed THEN [i \in 1 .. Rate + 1 |-> IF i = 1 THEN 0 ELSE ages[i - 1]]
  ELSE ages

\* An age, or another time span that matters only up to Window, a tick later.
Older(age) == IF age < Window THEN age + 1 ELSE Window

\* A tick of real time.
GrowOlder(ages) == [i \in 1 .. Rate + 1 |-> Older(ages[i])]
================================================================================
