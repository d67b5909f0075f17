-------------------------- MODULE SlidingWindowMemory --------------------------
(***************************************************************************)
(* The in-memory sliding_window bucket                                     *)
(* (internal/limiter/sliding_window.go) for one key.  step runs under      *)
(* MemoryLimiter's mutex.  All its times keep Go's monotonic reading, so   *)
(* its clock never goes backward.                                          *)
(***************************************************************************)
EXTENDS SlidingWindow, Sequences, FiniteSets

VARIABLES
  now,      \* the monotonic clock
  log,      \* slidingWindowBucket.timestamps
  decision, \* the last Decision returned
  since,    \* history: how long ago it was returned, up to Window
  ages      \* history: when the last requests were allowed

vars == <<now, log, decision, since, ages>>

TypeOK ==
  /\ now \in 0 .. MaxTime
  /\ log \in UNION {[1 .. n -> 0 .. MaxTime] : n \in 0 .. Rate}
  /\ decision \in Decisions
  /\ since \in 0 .. Window
  /\ ages \in Ages

\* newBucket: an empty log.
Init ==
  /\ now \in 0 .. MaxTime
  /\ log = << >>
  /\ decision = NoDecision
  /\ since = 0
  /\ ages = NoAdmissions

\* The eviction in place: a timestamp exactly Window old no longer counts.  One
\* that does moves to the place n that the loop has counted up to.
Kept ==
  LET counted == {i \in DOMAIN log : log[i] > now - Window}
      place(i) == Cardinality({j \in counted : j <= i})
  IN  [n \in 1 .. Cardinality(counted) |-> log[CHOOSE i \in counted : place(i) = n]]

mut_ResetOf(entries) == IF entries # << >> THEN entries[1] + Window ELSE now

\* The newest entry is the last to go.
ResetOf(entries) == IF entries # << >> THEN entries[Len(entries)] + Window ELSE now

mut_RetryOf(entries) == entries[Len(entries)] + Window - now

\* The oldest entry is the next to go.
RetryOf(entries) == entries[1] + Window - now

step ==
  LET allowed == HasRoom(Len(Kept))
      new == IF allowed THEN Append(Kept, now) ELSE Kept
  IN  /\ log' = new
      /\ decision' = [allowed |-> allowed,
                      remaining |-> RemainingOf(Len(new)),
                      reset |-> ResetOf(new),
                      retry |-> IF allowed THEN 0 ELSE RetryOf(new)]
      /\ since' = 0
      /\ ages' = Remember(ages, allowed)
      /\ UNCHANGED now

Tick ==
  /\ now < MaxTime
  /\ now' = now + 1
  /\ since' = Older(since)
  /\ ages' = GrowOlder(ages)
  /\ UNCHANGED <<log, decision>>

Spec == Init /\ [][step \/ Tick]_vars

-------------------------------------------------------------------------------
\* RetryAfter is "how long until the next request would succeed"
\* (limiter.go:29): a denied client that nobody overtakes would be denied until
\* then and is allowed from then on.
RetryExact == ~decision.allowed => (HasRoom(Len(Kept)) <=> since >= decision.retry)

\* Reset is "when this key is back to a clean slate" (limiter.go:20-27): as long
\* as nobody else asks, every entry is evicted from then on and not before.
ResetExact == Kept = << >> <=> now >= decision.reset
================================================================================
