------------------------------- MODULE FixedQuota -------------------------------
(***************************************************************************)
(* What the fixed_window algorithm promises for one key, on a clock that   *)
(* never goes backward: in each window of the grid the first Rate requests *)
(* are allowed and the others denied, and the answer says how many are     *)
(* left, when the window ends and how long to wait (limiter.Decision,      *)
(* internal/limiter/limiter.go).  FixedWindowMemory and FixedWindowRedis   *)
(* implement it.                                                           *)
(***************************************************************************)
EXTENDS FixedWindow

VARIABLES
  now,      \* the clock the decisions are made on
  used,     \* requests allowed so far in the current window
  decision, \* the last answer
  ages      \* when the last requests were allowed

vars == <<now, used, decision, ages>>

TypeOK ==
  /\ now \in 0 .. MaxTime
  /\ used \in 0 .. Rate
  /\ decision \in Decisions
  /\ ages \in Ages

Init ==
  /\ now \in 0 .. MaxTime
  /\ used = 0
  /\ decision = NoDecision
  /\ ages = NoAdmissions

Allow ==
  /\ used < Rate
  /\ used' = used + 1
  /\ decision' = [allowed |-> TRUE, remaining |-> Rate - used - 1,
                  reset |-> Grid(now) + Window, retry |-> 0]
  /\ ages' = Remember(ages, TRUE)
  /\ UNCHANGED now

Deny ==
  /\ used = Rate
  /\ decision' = [allowed |-> FALSE, remaining |-> 0,
                  reset |-> Grid(now) + Window, retry |-> Grid(now) + Window - now]
  /\ UNCHANGED <<now, used, ages>>

Tick ==
  /\ now < MaxTime
  /\ now' = now + 1
  /\ used' = IF Grid(now + 1) = Grid(now) THEN used ELSE 0
  /\ ages' = GrowOlder(ages)
  /\ UNCHANGED decision

Next == Allow \/ Deny \/ Tick

Spec == Init /\ [][Next]_vars

-------------------------------------------------------------------------------
\* The promise of fixed_window.go:10-11: at most 2*Rate requests get through
\* in any stretch as long as a window, wherever it lies on the grid.
TwiceRate == ages[2 * Rate + 1] = Window

\* RetryAfter is "how long until the next request would succeed"
\* (limiter.go:29), exactly: a denied client that nobody overtakes would be
\* denied until Reset and is allowed from then on.
RetryExact == ~decision.allowed => (used < Rate <=> now >= decision.reset)

\* X-RateLimit-Remaining is what is really left, up to X-RateLimit-Reset.
RemainingExact == now < decision.reset => decision.remaining = Rate - used

\* Allowed requests are accounted for by the window they were allowed in:
\* those not counted in the current window are older than it, and those not
\* counted in the previous one either are a window old.
AgesCounted ==
  \A i \in 1 .. 2 * Rate + 1 :
    /\ i > used => ages[i] > now - Grid(now) \/ ages[i] = Window
    /\ i > used + Rate => ages[i] = Window

\* The last answer was given in the current window or in an earlier one.
DecisionCurrent ==
  /\ decision.reset <= now \/ decision.reset = Grid(now) + Window
  /\ now < decision.reset => decision.remaining = Rate - used
  /\ ~decision.allowed => decision.remaining = 0
  /\ now >= decision.reset => used = 0

\* The inductive invariant behind the three promises.
QuotaInv == TypeOK /\ AgesCounted /\ DecisionCurrent
================================================================================
