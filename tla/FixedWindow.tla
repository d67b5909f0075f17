------------------------------- MODULE FixedWindow -------------------------------
(***************************************************************************)
(* What the specifications of the fixed_window algorithm share: its        *)
(* parameters, the window grid, the Decision it returns and the record of  *)
(* past admissions that its promises are about.  One key is modelled: keys *)
(* do not share state.                                                     *)
(***************************************************************************)
EXTENDS Integers

CONSTANTS
  Rate,    \* config.Limit.Rate
  Window,  \* config.Limit.Window, in ticks
  Anchor,  \* how long before time 0, the Unix epoch, the window grid is anchored
  MaxTime, \* bound on the clock
  MaxSteps \* how often the clock is set back

ASSUME WindowAssumption ==
  /\ Rate \in Nat \ {0}
  /\ Window \in Nat \ {0}
  /\ Anchor \in Nat
  /\ MaxTime \in Nat
  /\ MaxSteps \in Nat

\* The start of the grid window that t falls in.  Go's Truncate counts windows
\* from Go's zero time, the script from the Unix epoch.
Grid(t) == t - ((t + Anchor) % Window)

\* limiter.Decision, without the constant Limit and the Degraded mark.
Decisions == [allowed : BOOLEAN, remaining : 0 .. Rate, reset : Nat, retry : Nat]

\* Before the first request.
NoDecision == [allowed |-> TRUE, remaining |-> Rate, reset |-> 0, retry |-> 0]

\* Is the request allowed, when count requests have been in this window?
HasRoom(count) == count < Rate

mut_MakeDecision(allowed, count, ws, t) ==
  [allowed |-> allowed,
   remaining |-> Rate - (count - 1),
   reset |-> ws + Window,
   retry |-> IF allowed THEN 0 ELSE ws + Window - t]

\* The answer to a request made at time t in the window that starts at ws,
\* count being the requests allowed in it, this one included.
MakeDecision(allowed, count, ws, t) ==
  [allowed |-> allowed,
   remaining |-> IF Rate - count < 0 THEN 0 ELSE Rate - count,
   reset |-> ws + Window,
   retry |-> IF allowed THEN 0 ELSE ws + Window - t]

\* The ages of the last 2*Rate+1 admissions, newest first, in ticks of real
\* time and saturating at Window.
Ages == [1 .. 2 * Rate + 1 -> 0 .. Window]

NoAdmissions == [i \in 1 .. 2 * Rate + 1 |-> Window]

\* A request is decided.
Remember(ages, allowed) ==
  IF allowed THEN [i \in 1 .. 2 * Rate + 1 |-> IF i = 1 THEN 0 ELSE ages[i - 1]]
  ELSE ages

\* A tick of real time.
GrowOlder(ages) ==
  [i \in 1 .. 2 * Rate + 1 |-> IF ages[i] < Window THEN ages[i] + 1 ELSE Window]
================================================================================
