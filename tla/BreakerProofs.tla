------------------------------ MODULE BreakerProofs ------------------------------
(***************************************************************************)
(* Proofs about BreakerCalls, for any set of callers, threshold, cooldown  *)
(* and call budget.  BreakerInv is inductive:                              *)
(*   - half-open is entered only by admitting a probe, and every record,   *)
(*     the probe's own included, leaves it;                                *)
(*   - record counts the failure that reaches the threshold and opens the  *)
(*     circuit in the same step, and closing resets the count;             *)
(*   - the age of an open circuit starts at 0 whenever it trips, and the   *)
(*     clock advances it together with sinceProbe; only a hang-up recorded *)
(*     in half-open reopens the circuit with its old age.                  *)
(***************************************************************************)
EXTENDS BreakerCalls, TLAPS

\* The writes a step makes keep a breaker a breaker.
LEMMA SetStateType ==
  ASSUME NEW b \in Breakers, NEW s \in States
  PROVE  /\ setState(b, s) \in Breakers
         /\ TripNow(b) \in Breakers
         /\ [setState(b, s) EXCEPT !.failures = 0] \in Breakers
<1>1. setState(b, s) \in Breakers
  BY DEF Breakers, setState
<1>2. setState(b, "open") \in Breakers
  BY DEF Breakers, States, setState
<1>3. TripNow(b) \in Breakers
  BY <1>2, BreakerAssumption DEF Breakers, TripNow
<1>4. [setState(b, s) EXCEPT !.failures = 0] \in Breakers
  BY <1>1, BreakerAssumption DEF Breakers
<1> QED
  BY <1>1, <1>3, <1>4

\* record keeps a breaker a breaker whatever verdict it is given.
LEMMA RecordType ==
  ASSUME NEW b \in Breakers, NEW e \in Errors,
         b.state = "closed" => b.failures < Threshold
  PROVE  record(b, e) \in Breakers
<1>1. CASE b.state = "closed"
  <2> DEFINE counted == [b EXCEPT !.failures = @ + 1]
  <2>1. [b EXCEPT !.failures = 0] \in Breakers
    BY BreakerAssumption DEF Breakers
  <2>2. counted \in Breakers
    BY <1>1, BreakerAssumption DEF Breakers
  <2>3. TripNow(counted) \in Breakers
    BY <2>2, SetStateType DEF States
  <2> QED
    BY <1>1, <2>1, <2>2, <2>3 DEF record, recordClosed
<1>2. CASE b.state = "halfOpen"
  BY <1>2, SetStateType DEF States, record, recordHalfOpen
<1>3. CASE b.state = "open"
  BY <1>3 DEF record
<1> QED
  BY <1>1, <1>2, <1>3 DEF Breakers, States

\* After record the circuit is not half-open, and if it is closed another
\* failure is needed to open it.
LEMMA RecordEffect ==
  ASSUME NEW b \in Breakers, NEW e \in Errors,
         b.state = "closed" => b.failures < Threshold,
         b.gauge = b.state
  PROVE  /\ record(b, e).state # "halfOpen"
         /\ record(b, e).state = "closed" => record(b, e).failures < Threshold
         /\ record(b, e).gauge = record(b, e).state
<1>1. CASE b.state = "closed"
  <2> USE <1>1, BreakerAssumption DEF Breakers, States, record, recordClosed, TripNow, setState, neutral
  <2>1. CASE e = "nil"
    BY <2>1
  <2>2. CASE e = "canceled"
    BY <2>2
  <2>3. CASE e = "failure" /\ b.failures + 1 >= Threshold
    BY <2>3
  <2>4. CASE e = "failure" /\ b.failures + 1 < Threshold
    BY <2>4
  <2> QED
    BY <2>1, <2>2, <2>3, <2>4 DEF Errors
<1>2. CASE b.state = "halfOpen"
  BY <1>2, BreakerAssumption
     DEF Breakers, Errors, States, record, recordHalfOpen, TripNow, setState, neutral
<1>3. CASE b.state = "open"
  BY <1>3 DEF record
<1> QED
  BY <1>1, <1>2, <1>3 DEF Breakers, States

\* Recording opens the circuit with age 0, leaves an open circuit alone, or
\* reopens it with its old age on a hang-up in half-open.
LEMMA RecordAge ==
  ASSUME NEW b \in Breakers, NEW e \in Errors, record(b, e).state = "open"
  PROVE  \/ record(b, e).age = 0
         \/ b.state = "open" /\ record(b, e) = b
         \/ b.state = "halfOpen" /\ neutral(e)
<1>1. CASE b.state = "closed"
  <2> USE <1>1, BreakerAssumption DEF Breakers, States, record, recordClosed, TripNow, setState, neutral
  <2>1. CASE e = "nil"
    BY <2>1
  <2>2. CASE e = "canceled"
    BY <2>2
  <2>3. CASE e = "failure" /\ b.failures + 1 >= Threshold
    BY <2>3
  <2>4. CASE e = "failure" /\ b.failures + 1 < Threshold
    BY <2>4
  <2> QED
    BY <2>1, <2>2, <2>3, <2>4 DEF Errors
<1>2. CASE b.state = "halfOpen"
  BY <1>2, BreakerAssumption
     DEF Breakers, Errors, States, record, recordHalfOpen, TripNow, setState, neutral
<1>3. CASE b.state = "open"
  BY <1>3 DEF record
<1> QED
  BY <1>1, <1>2, <1>3 DEF Breakers, States

\* admit keeps a breaker a breaker, and changes it only from open to half-open.
LEMMA AdmitEffect ==
  ASSUME NEW b \in Breakers, b.gauge = b.state, Admits(b)
  PROVE  /\ admit(b) \in Breakers
         /\ admit(b).gauge = admit(b).state
         /\ admit(b).failures = b.failures
         /\ \/ b.state = "closed" /\ admit(b) = b /\ ~AdmitsAsProbe(b)
            \/ b.state = "open" /\ admit(b).state = "halfOpen" /\ AdmitsAsProbe(b)
BY DEF Breakers, States, Admits, AdmitsAsProbe, CooledDown, admit, setState

LEMMA ElapseEffect ==
  ASSUME NEW b \in Breakers
  PROVE  /\ Elapse(b) \in Breakers
         /\ Elapse(b).state = b.state
         /\ Elapse(b).gauge = b.gauge
         /\ Elapse(b).failures = b.failures
         /\ Elapse(b).age = IF b.age < Cooldown THEN b.age + 1 ELSE b.age
BY BreakerAssumption DEF Breakers, States, Elapse

--------------------------------------------------------------------------------
LEMMA InitInv == Init => BreakerInv
<1> SUFFICES ASSUME Init
             PROVE  BreakerInv
  OBVIOUS
<1>1. newBreaker \in Breakers
  BY BreakerAssumption DEF newBreaker, Breakers, States
<1>2. TypeOK
  <2>1. Cooldown \in 0 .. Cooldown /\ 0 \in 0 .. CallBudget /\ "nil" \in Errors
    BY BreakerAssumption, CallsAssumption DEF Errors
  <2>2. probe \in [Callers -> BOOLEAN]
    BY DEF Init
  <2> QED
    BY <1>1, <2>1, <2>2 DEF Init, TypeOK
<1>3. brk.state = "closed" /\ brk.gauge = "closed" /\ brk.failures = 0
  BY DEF Init, newBreaker
<1> QED
  BY <1>2, <1>3, BreakerAssumption
     DEF BreakerInv, ClosedBelowThreshold, HalfOpenHasProbe, GaugeFollowsState, AgeSinceProbe

LEMMA NextInv == BreakerInv /\ [Next]_vars => BreakerInv'
<1> SUFFICES ASSUME BreakerInv, [Next]_vars
             PROVE  BreakerInv'
  OBVIOUS
<1> USE DEF BreakerInv
<1>t. /\ brk \in Breakers
      /\ sinceProbe \in 0 .. Cooldown
      /\ hangup \in BOOLEAN
  BY DEF TypeOK
<1>1. ASSUME NEW c \in Callers, Admit(c)
      PROVE  BreakerInv'
  <2>1. /\ brk' = admit(brk)
        /\ Admits(brk)
    BY <1>1 DEF Admit
  <2>2. /\ brk' \in Breakers
        /\ brk'.gauge = brk'.state
        /\ brk'.failures = brk.failures
        /\ \/ brk.state = "closed" /\ brk' = brk /\ ~AdmitsAsProbe(brk)
           \/ brk.state = "open" /\ brk'.state = "halfOpen" /\ AdmitsAsProbe(brk)
    BY <1>t, <2>1, AdmitEffect DEF GaugeFollowsState
  <2>3. TypeOK'
    BY <1>1, <2>2, BreakerAssumption, CallsAssumption DEF TypeOK, Admit, AdmitsAsProbe
  <2>4. HalfOpenHasProbe'
    <3>1. CASE brk.state = "closed" /\ brk' = brk
      BY <3>1 DEF HalfOpenHasProbe
    <3>2. CASE AdmitsAsProbe(brk)
      <4>1. pc'[c] = "calling" /\ probe'[c] = TRUE
        BY <1>1, <3>2 DEF Admit, TypeOK
      <4> QED
        BY <4>1 DEF HalfOpenHasProbe, InFlightProbes, InFlight
    <3> QED
      BY <2>2, <3>1, <3>2
  <2>5. AgeSinceProbe'
    BY <2>2 DEF AgeSinceProbe
  <2> QED
    BY <2>2, <2>3, <2>4, <2>5 DEF ClosedBelowThreshold, GaugeFollowsState
<1>2. ASSUME NEW c \in Callers, Reject(c)
      PROVE  BreakerInv'
  <2>1. TypeOK'
    BY <1>2 DEF Reject, TypeOK
  <2>2. HalfOpenHasProbe'
    <3>1. \A d \in Callers : InFlight(d) => InFlight(d)'
      BY <1>2 DEF Reject, TypeOK, InFlight
    <3> QED
      BY <1>2, <3>1 DEF Reject, HalfOpenHasProbe, InFlightProbes
  <2> QED
    BY <1>2, <2>1, <2>2
       DEF Reject, ClosedBelowThreshold, GaugeFollowsState, AgeSinceProbe
<1>3. ASSUME NEW c \in Callers, NEW e \in Errors, Return(c, e)
      PROVE  BreakerInv'
  <2>1. TypeOK'
    BY <1>3 DEF Return, TypeOK
  <2>2. HalfOpenHasProbe'
    <3>1. \A d \in Callers : InFlight(d) => InFlight(d)'
      BY <1>3 DEF Return, TypeOK, InFlight
    <3> QED
      BY <1>3, <3>1 DEF Return, HalfOpenHasProbe, InFlightProbes
  <2> QED
    BY <1>3, <2>1, <2>2
       DEF Return, ClosedBelowThreshold, GaugeFollowsState, AgeSinceProbe
<1>4. ASSUME NEW c \in Callers, Record(c)
      PROVE  BreakerInv'
  <2>1. /\ brk' = record(brk, err[c])
        /\ err[c] \in Errors
    BY <1>4 DEF Record, TypeOK
  <2>2. brk' \in Breakers
    BY <1>t, <2>1, RecordType DEF ClosedBelowThreshold
  <2>3. /\ brk'.state # "halfOpen"
        /\ brk'.state = "closed" => brk'.failures < Threshold
        /\ brk'.gauge = brk'.state
    BY <1>t, <2>1, RecordEffect DEF ClosedBelowThreshold, GaugeFollowsState
  <2>4. TypeOK'
    BY <1>4, <2>2 DEF Record, TypeOK
  <2>5. AgeSinceProbe'
    <3> SUFFICES ASSUME brk'.state = "open", ~hangup'
                 PROVE  brk'.age <= sinceProbe'
      BY DEF AgeSinceProbe
    <3>1. \/ brk'.age = 0
          \/ brk.state = "open" /\ brk' = brk
      BY <1>t, <1>4, <2>1, RecordAge DEF Record
    <3> QED
      BY <1>t, <1>4, <3>1, BreakerAssumption DEF Record, AgeSinceProbe
  <2> QED
    BY <2>3, <2>4, <2>5 DEF ClosedBelowThreshold, HalfOpenHasProbe, GaugeFollowsState
<1>5. CASE Tick
  <2>1. /\ brk' \in Breakers
        /\ brk'.state = brk.state
        /\ brk'.gauge = brk.gauge
        /\ brk'.failures = brk.failures
        /\ brk'.age = IF brk.age < Cooldown THEN brk.age + 1 ELSE brk.age
    BY <1>t, <1>5, ElapseEffect DEF Tick
  <2>2. TypeOK'
    BY <1>5, <2>1, BreakerAssumption, CallsAssumption DEF Tick, TypeOK
  <2>3. HalfOpenHasProbe'
    BY <1>5, <2>1 DEF Tick, HalfOpenHasProbe, InFlightProbes, InFlight
  <2>4. AgeSinceProbe'
    BY <1>t, <1>5, <2>1, BreakerAssumption DEF Tick, AgeSinceProbe, Breakers
  <2> QED
    BY <2>1, <2>2, <2>3, <2>4 DEF ClosedBelowThreshold, GaugeFollowsState
<1>6. CASE RedisChanges
  BY <1>6 DEF RedisChanges, TypeOK, ClosedBelowThreshold, HalfOpenHasProbe, InFlightProbes,
              InFlight, GaugeFollowsState, AgeSinceProbe
<1>7. CASE UNCHANGED vars
  BY <1>7 DEF vars, TypeOK, ClosedBelowThreshold, HalfOpenHasProbe, InFlightProbes,
              InFlight, GaugeFollowsState, AgeSinceProbe
<1> QED
  BY <1>1, <1>2, <1>3, <1>4, <1>5, <1>6, <1>7 DEF Next

\* BreakerInv holds in every reachable state of breaker.do, whatever the
\* number of callers, the threshold, the cooldown and the calls' timeouts.
THEOREM BreakerInvariant == Spec => []BreakerInv
<1>1. Init => BreakerInv
  BY InitInv
<1>2. BreakerInv /\ [Next]_vars => BreakerInv'
  BY NextInv
<1> QED
  BY <1>1, <1>2, PTL DEF Spec

\* A closed circuit never holds a failure count that has reached the
\* threshold (record, breaker.go:119-162).
THEOREM ClosedBelowThresholdHolds == Spec => []ClosedBelowThreshold
<1>1. BreakerInv => ClosedBelowThreshold
  BY DEF BreakerInv
<1> QED
  BY <1>1, BreakerInvariant, PTL

\* A half-open circuit always has a probe in flight that will move it on
\* (admit and record, breaker.go:92-162).
THEOREM HalfOpenHasProbeHolds == Spec => []HalfOpenHasProbe
<1>1. BreakerInv => HalfOpenHasProbe
  BY DEF BreakerInv
<1> QED
  BY <1>1, BreakerInvariant, PTL

\* Probes not separated by a hang-up are at least a cooldown apart
\* (admit's cooldown test, breaker.go:97, against record's openedAt).
THEOREM ProbesAreSpaced == Spec => ProbesSpaced
<1>1. ASSUME BreakerInv, [Next]_vars, NEW c \in Callers,
             ~InFlight(c), InFlight(c)', probe'[c], ~hangup
      PROVE  sinceProbe = Cooldown
  <2>1. Admit(c)
    <3>1. pc'[c] # pc[c] /\ pc'[c] \in {"calling", "returned"} /\ pc[c] \notin {"calling", "returned"}
      BY <1>1 DEF InFlight
    <3>2. \A d \in Callers : Admit(d) => d = c
      BY <3>1, <1>1 DEF Admit, BreakerInv, TypeOK
    <3>3. \A d \in Callers : ~Reject(d)
      BY <3>1, <1>1 DEF Reject, BreakerInv, TypeOK
    <3>4. \A d \in Callers, e \in Errors : ~Return(d, e)
      BY <3>1, <1>1 DEF Return, BreakerInv, TypeOK
    <3>5. \A d \in Callers : ~Record(d)
      BY <3>1, <1>1 DEF Record, BreakerInv, TypeOK
    <3>6. ~Tick /\ ~RedisChanges /\ vars' # vars
      BY <3>1 DEF Tick, RedisChanges, vars
    <3> QED
      BY <1>1, <3>2, <3>3, <3>4, <3>5, <3>6 DEF Next
  <2>2. AdmitsAsProbe(brk)
    BY <1>1, <2>1 DEF Admit, BreakerInv, TypeOK
  <2>3. brk.state = "open" /\ brk.age = Cooldown
    BY <2>2 DEF AdmitsAsProbe, CooledDown
  <2> QED
    BY <1>1, <2>3, BreakerAssumption DEF BreakerInv, AgeSinceProbe, TypeOK
<1>2. BreakerInv /\ [Next]_vars
        => [\A c \in Callers : ~InFlight(c) /\ InFlight(c)' /\ probe'[c] /\ ~hangup
                                 => sinceProbe = Cooldown]_vars
  BY <1>1
<1> QED
  BY <1>2, BreakerInvariant, PTL DEF Spec, ProbesSpaced
================================================================================
