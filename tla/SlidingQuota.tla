------------------------------ MODULE SlidingQuota ------------------------------
(***************************************************************************)
(* What the sliding_window algorithm promises for one key, on a clock that *)
(* never goes backward: a request is allowed if and only if fewer than     *)
(* Rate requests were allowed less than a Window ago, whatever the store   *)
(* has forgotten meanwhile.  SlidingWindowMemory and SlidingWindowRedis    *)
(* implement it.                                                           *)
(***************************************************************************)
EXTENDS SlidingWindow, FiniteSets

VARIABLES
  now,      \* the clock the decisions are made on
  decision, \* the last answer
  since,    \* how long ago it was given, up to Window
  ages      \* when the last requests were allowed

vars == <<now, decision, since, ages>>

\* Requests allowed less than a window ago.
Counted(a) == Cardinality({i \in DOMAIN a : a[i] < Window})

Init ==
  /\ now \in 0 .. MaxTime
  /\ decision = NoDecision
  /\ since = 0
  /\ ages = NoAdmissions

Allow ==
  /\ Counted(ages) < Rate
  /\ ages' = Remember(ages, TRUE)
  /\ decision' = [allowed |-> TRUE, remaining |-> Rate - Counted(ages'),
                  reset |-> now + Window, retry |-> 0]
  /\ since' = 0
  /\ UNCHANGED now

\* The oldest counted request frees the next place, the newest the last one.
Deny ==
  /\ Counted(ages) >= Rate
  /\ decision' = [allowed |-> FALSE, remaining |-> 0,
                  reset |-> now + Window - ages[1], retry |-> Window - ages[Rate]]
  /\ since' = 0
  /\ UNCHANGED <<now, ages>>

Tick ==
  /\ now < MaxTime
  /\ now' = now + 1
  /\ since' = Older(since)
  /\ ages' = GrowOlder(ages)
  /\ UNCHANGED decision

Next == Allow \/ Deny \/ Tick

Spec == Init /\ [][Next]_vars

-------------------------------------------------------------------------------
\* The promise of sliding_window.go:11-14: never more than Rate requests in
\* any stretch as long as a window, wherever it lies.
RateInAnyWindow == ages[Rate + 1] = Window

\* RetryAfter is "how long until the next request would succeed"
\* (limiter.go:29), exactly: a denied client that nobody overtakes would be
\* denied until then and is allowed from then on.
RetryExact == ~decision.allowed => (Counted(ages) < Rate <=> since >= decision.retry)

\* Reset is "when this key is back to a clean slate" (limiter.go:20-27),
\* exactly, as long as nobody else is allowed.
ResetExact == Counted(ages) = 0 <=> now >= decision.reset
================================================================================
