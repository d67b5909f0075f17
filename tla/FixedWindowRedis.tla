---------------------------- MODULE FixedWindowRedis ----------------------------
(***************************************************************************)
(* The redis fixed_window script (internal/limiter/scripts/                *)
(* fixed_window.lua) for one key.  Redis runs a script atomically, and the *)
(* script reads the server's TIME, so all gateway instances decide on one  *)
(* clock.  TIME is gettimeofday: StepBack is that clock being set back.    *)
(*                                                                         *)
(* PEXPIREAT takes whole milliseconds while windows are in microseconds;   *)
(* Milli is a millisecond in ticks.                                        *)
(***************************************************************************)
EXTENDS FixedWindow

CONSTANT
  Milli     \* clock ticks in a millisecond

ASSUME RedisAssumption == Milli \in Nat \ {0}

\* "The window grid anchors at the Unix epoch" (now - now % window).
ASSUME EpochAssumption == Anchor = 0

VARIABLES
  now,      \* redis TIME
  key,      \* the hash {ws, count} with its expiry, or absent
  decision, \* the last Decision
  ages,     \* history: when the last requests were allowed, in real time
  steps     \* how often the clock has been set back

vars == <<now, key, decision, ages, steps>>

Hashes == [exists : BOOLEAN, ws : 0 .. MaxTime, count : 0 .. Rate, expireAt : Nat]

Absent == [exists |-> FALSE, ws |-> 0, count |-> 0, expireAt |-> 0]

TypeOK ==
  /\ now \in 0 .. MaxTime
  /\ key \in Hashes
  /\ decision \in Decisions
  /\ ages \in Ages
  /\ steps \in 0 .. MaxSteps

Init ==
  /\ now \in 0 .. MaxTime
  /\ key = Absent
  /\ decision = NoDecision
  /\ ages = NoAdmissions
  /\ steps = 0

mut_CeilMilli(t) == t \div Milli

\* math.ceil(t / 1000)
CeilMilli(t) == (t + Milli - 1) \div Milli

mut_Adopts == key.exists /\ key.ws = Grid(now)

\* sws >= ws: the stored window is the current one, or a later one that the
\* clock had reached before it was set back.
Adopts == key.exists /\ key.ws >= Grid(now)

\* The window the script decides in.
Ws == IF Adopts THEN key.ws ELSE Grid(now)

\* The count the script starts from.
Used == IF Adopts THEN key.count ELSE 0

script ==
  LET allowed == HasRoom(Used)
      count == IF allowed THEN Used + 1 ELSE Used
  IN  /\ key' = IF allowed
                THEN [exists |-> TRUE, ws |-> Ws, count |-> count,
                      expireAt |-> CeilMilli(Ws + Window)]
                ELSE key
      /\ decision' = MakeDecision(allowed, count, Ws, now)
      /\ ages' = Remember(ages, allowed)
      /\ UNCHANGED <<now, steps>>

\* Redis drops a key whose expiry time is reached.
Expire ==
  /\ key.exists
  /\ now >= key.expireAt * Milli
  /\ key' = Absent
  /\ UNCHANGED <<now, decision, ages, steps>>

Tick ==
  /\ now < MaxTime
  /\ now' = now + 1
  /\ ages' = GrowOlder(ages)
  /\ UNCHANGED <<key, decision, steps>>

\* The server's clock is set back while the key is stored.  The code's claim is
\* about this case: an expired key leaves no window to keep.
StepBack ==
  /\ key.exists
  /\ steps < MaxSteps
  /\ now' \in 0 .. now - 1
  /\ steps' = steps + 1
  /\ UNCHANGED <<key, decision, ages>>

Next == script \/ Expire \/ Tick \/ StepBack

Spec == Init /\ [][Next]_vars

-------------------------------------------------------------------------------
\* Until the clock is set back the stored window is never a future one.
StoredBehind == steps = 0 /\ key.exists => key.ws <= Grid(now)

\* The expiry never cuts the stored window short.
ExpiryCoversWindow == key.exists => key.ws + Window <= key.expireAt * Milli

StoredInv == TypeOK /\ StoredBehind /\ ExpiryCoversWindow

\* The stored window is one of the grid.
OnGrid == key.exists => Grid(key.ws) = key.ws

\* What the stored count says of past admissions, wherever the clock has been:
\* those it does not count are older than the stored window's start by this
\* clock, those beyond another Rate a window old, and all are younger than
\* that window's end only if the clock is.  Without a key the clock has not
\* been set back since the last one, and the current window has none.
AgesCounted ==
  \A i \in 1 .. 2 * Rate + 1 :
    IF key.exists
    THEN /\ ages[i] > now - key.ws - Window \/ ages[i] = Window
         /\ i > key.count => ages[i] > now - key.ws \/ ages[i] = Window
         /\ i > key.count + Rate => ages[i] = Window
    ELSE /\ ages[i] > now - Grid(now) \/ ages[i] = Window
         /\ i > Rate => ages[i] = Window

\* The last answer was about the stored window, and about one that is over
\* when its key is gone.
DecisionStored ==
  /\ ~decision.allowed => decision.remaining = 0
  /\ IF key.exists
     THEN decision.reset = key.ws + Window /\ decision.remaining = Rate - key.count
     ELSE now >= decision.reset

\* The inductive invariant behind the promises.
RedisInv == StoredInv /\ OnGrid /\ AgesCounted /\ DecisionStored

Quota == INSTANCE FixedQuota WITH used <- Used

\* The script implements the quota until the clock is set back: it makes the
\* decisions FixedQuota makes, expiry never takes a count away too early
\* (fixed_window.lua:16-54).
ImplementsQuota == Quota!Init /\ [][steps' = 0 => Quota!Next]_(Quota!vars)

\* fixed_window.lua:28-30: after a backward step of TIME the stored window is
\* kept "instead of opening a fresh one, which would hand out up to rate
\* extra admissions", so the 2*Rate bound survives it.
TwiceRate == Quota!TwiceRate

\* A denial's Reset stays the moment from which the key admits again, also
\* when the clock is set back after it with the key stored (limiter.go:20-32).
RetryExact == Quota!RetryExact

\* X-RateLimit-Remaining is what is really left, up to X-RateLimit-Reset, also
\* when the clock is set back in between with the key stored
\* (gateway.go:164-200).
RemainingExact == Quota!RemainingExact
================================================================================
