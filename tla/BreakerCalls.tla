------------------------------ MODULE BreakerCalls ------------------------------
(***************************************************************************)
(* Goroutines of one gateway instance calling redis through breaker.do     *)
(* (internal/limiter/breaker.go): admit under the mutex, fn with no lock   *)
(* held, record under the mutex.  Anything may happen between a caller's   *)
(* admit and its record: other callers trip the circuit, the cooldown runs *)
(* out, a probe starts, redis goes down or comes back.                     *)
(*                                                                         *)
(* A call to redis is bounded by the client's dial, write and read         *)
(* timeouts (redis.go:19-23), one second each, so it may outlive the       *)
(* one-second cooldown.                                                    *)
(***************************************************************************)
EXTENDS Breaker

CONSTANTS
  Callers,    \* goroutines, each making one call after another
  CallBudget  \* longest time fn can take, in ticks

ASSUME CallsAssumption == CallBudget \in Nat

VARIABLES
  brk,        \* the breaker
  pc,         \* where each caller is in breaker.do
  err,        \* what fn returned to the caller
  elapsed,    \* how long the caller's fn has been running
  redis,      \* whether redis answers
  probe,      \* history: the call was admitted by the open circuit
  sinceProbe, \* history: time since the last probe was admitted, up to Cooldown
  hangup      \* history: a canceled call was recorded in half-open since then

vars == <<brk, pc, err, elapsed, redis, probe, sinceProbe, hangup>>

TypeOK ==
  /\ brk \in Breakers
  /\ pc \in [Callers -> {"idle", "rejected", "calling", "returned"}]
  /\ err \in [Callers -> Errors]
  /\ elapsed \in [Callers -> 0 .. CallBudget]
  /\ redis \in {"up", "down"}
  /\ probe \in [Callers -> BOOLEAN]
  /\ sinceProbe \in 0 .. Cooldown
  /\ hangup \in BOOLEAN

Init ==
  /\ brk = newBreaker
  /\ pc = [c \in Callers |-> "idle"]
  /\ err = [c \in Callers |-> "nil"]
  /\ elapsed = [c \in Callers |-> 0]
  /\ redis = "up"
  /\ probe = [c \in Callers |-> FALSE]
  /\ sinceProbe = Cooldown
  /\ hangup = FALSE

\* A call waiting for redis, or holding an answer it has not recorded yet.
InFlight(c) == pc[c] \in {"calling", "returned"}

InFlightProbes == {c \in Callers : InFlight(c) /\ probe[c]}

-------------------------------------------------------------------------------
\* do: admit lets the caller through.
Admit(c) ==
  /\ ~InFlight(c)
  /\ Admits(brk)
  /\ brk' = admit(brk)
  /\ pc' = [pc EXCEPT ![c] = "calling"]
  /\ elapsed' = [elapsed EXCEPT ![c] = 0]
  /\ probe' = [probe EXCEPT ![c] = AdmitsAsProbe(brk)]
  /\ sinceProbe' = IF AdmitsAsProbe(brk) THEN 0 ELSE sinceProbe
  /\ hangup' = (hangup /\ ~AdmitsAsProbe(brk))
  /\ UNCHANGED <<err, redis>>

\* do: admit returns errBreakerOpen and fn does not run.
Reject(c) ==
  /\ ~InFlight(c)
  /\ ~Admits(brk)
  /\ pc' = [pc EXCEPT ![c] = "rejected"]
  /\ UNCHANGED <<brk, err, elapsed, redis, probe, sinceProbe, hangup>>

\* fn returns: redis answers, fails or times out, or the client hangs up.
Return(c, e) ==
  /\ pc[c] = "calling"
  /\ e = "nil" => redis = "up"
  /\ e = "failure" => redis = "down"
  /\ pc' = [pc EXCEPT ![c] = "returned"]
  /\ err' = [err EXCEPT ![c] = e]
  /\ UNCHANGED <<brk, elapsed, redis, probe, sinceProbe, hangup>>

\* do: record, and the error goes back to RedisLimiter.Allow.
Record(c) ==
  /\ pc[c] = "returned"
  /\ brk' = record(brk, err[c])
  /\ pc' = [pc EXCEPT ![c] = "idle"]
  /\ hangup' = (hangup \/ (brk.state = "halfOpen" /\ neutral(err[c])))
  /\ UNCHANGED <<err, elapsed, redis, probe, sinceProbe>>

\* Time passes, but not beyond a running call's timeouts.
Tick ==
  /\ \A c \in Callers : pc[c] = "calling" => elapsed[c] < CallBudget
  /\ brk' = Elapse(brk)
  /\ elapsed' = [c \in Callers |->
                   IF pc[c] = "calling" THEN elapsed[c] + 1 ELSE elapsed[c]]
  /\ sinceProbe' = IF sinceProbe < Cooldown THEN sinceProbe + 1 ELSE sinceProbe
  /\ UNCHANGED <<pc, err, redis, probe, hangup>>

RedisChanges ==
  /\ redis' \in {"up", "down"} \ {redis}
  /\ UNCHANGED <<brk, pc, err, elapsed, probe, sinceProbe, hangup>>

Next ==
  \/ \E c \in Callers : Admit(c)
  \/ \E c \in Callers : Reject(c)
  \/ \E c \in Callers, e \in Errors : Return(c, e)
  \/ \E c \in Callers : Record(c)
  \/ Tick
  \/ RedisChanges

Spec == Init /\ [][Next]_vars

\* Calls return within their timeouts and goroutines are scheduled; traffic
\* keeps coming; not every call is cut short by its client; clocks advance.
Fairness ==
  /\ WF_vars(Tick)
  /\ \A c \in Callers :
       /\ WF_vars(Admit(c))
       /\ WF_vars(\E e \in Errors : Return(c, e))
       /\ SF_vars(Return(c, "nil"))
       /\ WF_vars(Record(c))

FairSpec == Spec /\ Fairness

-------------------------------------------------------------------------------
\* A closed circuit is always at least one failure away from opening: closing
\* it wipes the streak that had opened it (recordHalfOpen, recordClosed).
ClosedBelowThreshold == brk.state = "closed" => brk.failures < Threshold

\* "half-open *means* that [a probe is in flight]" (breaker.go:104): a
\* half-open circuit, which rejects everyone, always has an in-flight probe
\* whose record will move it on, so it cannot wedge.
HalfOpenHasProbe == brk.state = "halfOpen" => InFlightProbes # {}

\* What breaker_state exports is what the breaker does.
GaugeFollowsState == brk.gauge = brk.state

\* The time the open circuit has waited is no longer than the time since the
\* last probe, unless a hang-up excuses it.  Needed for ProbesSpaced.
AgeSinceProbe == brk.state = "open" /\ ~hangup => brk.age <= sinceProbe

\* An outage costs one probing call per cooldown: two consecutive probes are
\* at least a cooldown apart unless a canceled call came in between, however
\* many stale verdicts arrive (record's TripNow, admit's cooldown test).
ProbesSpaced ==
  [][\A c \in Callers :
       ~InFlight(c) /\ InFlight(c)' /\ probe'[c] /\ ~hangup
         => sinceProbe = Cooldown]_vars

\* The inductive invariant behind the two invariants and ProbesSpaced.
BreakerInv ==
  /\ TypeOK
  /\ ClosedBelowThreshold
  /\ HalfOpenHasProbe
  /\ GaugeFollowsState
  /\ AgeSinceProbe

\* The circuit never stays half-open: the probe comes back, whatever its
\* outcome, and record moves the state.
HalfOpenEnds == brk.state = "halfOpen" ~> brk.state # "halfOpen"

\* Once redis stays up the circuit closes for good, whatever stale failures
\* and hang-ups are still under way when it comes back.
Recovers == <>[](redis = "up") => <>[](brk.state = "closed")

\* breaker.go:46-49, "one probe whose outcome picks the next state": only the
\* record of a probe takes the circuit out of half-open.
ProbeDecides ==
  [][brk.state = "halfOpen" /\ brk'.state # "halfOpen"
       => \E c \in InFlightProbes : ~InFlight(c)']_vars
================================================================================
