--------------------------- MODULE FixedWindowMemory ---------------------------
(***************************************************************************)
(* The in-memory fixed_window bucket (internal/limiter/fixed_window.go)    *)
(* for one key.  step runs under MemoryLimiter's mutex.                    *)
(*                                                                         *)
(* Truncate strips Go's monotonic reading from now, so windowStart comes   *)
(* from the wall clock: StepBack is that clock being set back.             *)
(***************************************************************************)
EXTENDS FixedWindow

VARIABLES
  now,      \* the wall clock
  bucket,   \* fixedWindowBucket
  decision, \* the last Decision returned
  ages,     \* history: when the last requests were allowed, in real time
  steps     \* how often the clock has been set back

vars == <<now, bucket, decision, ages, steps>>

TypeOK ==
  /\ now \in 0 .. MaxTime
  /\ bucket \in [windowStart : -Anchor .. MaxTime, count : 0 .. Rate]
  /\ decision \in Decisions
  /\ ages \in Ages
  /\ steps \in 0 .. MaxSteps

\* newBucket: the zero time, where the grid is anchored, and no requests.
Init ==
  /\ now \in 0 .. MaxTime
  /\ bucket = [windowStart |-> -Anchor, count |-> 0]
  /\ decision = NoDecision
  /\ ages = NoAdmissions
  /\ steps = 0

mut_Refreshed ==
  [windowStart |-> Grid(now), count |-> bucket.count]

\* The bucket after the reset at a window boundary.
Refreshed ==
  IF Grid(now) # bucket.windowStart
  THEN [windowStart |-> Grid(now), count |-> 0]
  ELSE bucket

step ==
  LET allowed == HasRoom(Refreshed.count)
      count == IF allowed THEN Refreshed.count + 1 ELSE Refreshed.count
  IN  /\ bucket' = [Refreshed EXCEPT !.count = count]
      /\ decision' = MakeDecision(allowed, count, Grid(now), now)
      /\ ages' = Remember(ages, allowed)
      /\ UNCHANGED <<now, steps>>

Tick ==
  /\ now < MaxTime
  /\ now' = now + 1
  /\ ages' = GrowOlder(ages)
  /\ UNCHANGED <<bucket, decision, steps>>

\* The wall clock is set back.
StepBack ==
  /\ steps < MaxSteps
  /\ now' \in 0 .. now - 1
  /\ steps' = steps + 1
  /\ UNCHANGED <<bucket, decision, ages>>

Next == step \/ Tick \/ StepBack

Spec == Init /\ [][Next]_vars

-------------------------------------------------------------------------------
\* Until the clock is set back the stored window is never a future one.
StoredBehind == steps = 0 => bucket.windowStart <= Grid(now)

\* The inductive invariant.
MemoryInv == TypeOK /\ StoredBehind

\* The stored count, while the clock is in its window.
Used == IF bucket.windowStart = Grid(now) THEN bucket.count ELSE 0

Quota == INSTANCE FixedQuota WITH used <- Used

\* The bucket implements the quota until the clock is set back: it makes the
\* decisions FixedQuota makes, when it makes them, with the headers it promises
\* (fixed_window.go:19-50).
ImplementsQuota == Quota!Init /\ [][steps' = 0 => Quota!Next]_(Quota!vars)

\* fixed_window.lua:30-31, "The in-memory backend gets this [no fresh quota
\* after a backward clock step] for free from Go's monotonic clock reading":
\* the 2*Rate bound survives a backward step.
TwiceRate == Quota!TwiceRate

\* Until the clock is set back: at most 2*Rate admissions in any stretch as long
\* as a window, and an exact Reset and Remaining (limiter.go:12-32).
KeepsPromises ==
  steps = 0 => Quota!TwiceRate /\ Quota!RetryExact /\ Quota!RemainingExact
================================================================================
