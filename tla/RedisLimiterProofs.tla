--------------------------- MODULE RedisLimiterProofs ---------------------------
(* RedisLimiter, for any number of instances, callers and keys. *)
EXTENDS RedisLimiter, FiniteSetTheorems, TLAPS

-------------------------------------------------------------------------------
(* The breaker's functions. *)

LEMMA TripKeeps ==
  ASSUME NEW b \in Breakers
  PROVE  /\ setState(b, "open") \in Breakers /\ setState(b, "open").state = "open"
         /\ TripNow(b) \in Breakers /\ TripNow(b).state = "open"
         /\ [b EXCEPT !.failures = 0] \in Breakers
<1>1. setState(b, "open") \in Breakers /\ setState(b, "open").state = "open"
  BY DEF Breakers, States, setState
<1>2. TripNow(b) \in Breakers /\ TripNow(b).state = "open"
  BY <1>1, BreakerAssumption DEF Breakers, TripNow
<1>3. [b EXCEPT !.failures = 0] \in Breakers
  BY BreakerAssumption DEF Breakers
<1> QED
  BY <1>1, <1>2, <1>3

LEMMA RecordKeeps ==
  ASSUME NEW b \in Breakers, NEW e,
         b.state = "closed" => b.failures < Threshold
  PROVE  /\ record(b, e) \in Breakers
         /\ record(b, e).state = "closed" => record(b, e).failures < Threshold
         /\ b.state = "closed" /\ e \in {"nil", "canceled"} => record(b, e).state = "closed"
<1>1. CASE b.state = "closed"
  <2> DEFINE counted == [b EXCEPT !.failures = @ + 1]
  <2>1. CASE e = "nil"
    <3>1. record(b, e) = [b EXCEPT !.failures = 0]
      BY <1>1, <2>1 DEF record, recordClosed
    <3> QED
      BY <1>1, <3>1, TripKeeps, BreakerAssumption DEF Breakers
  <2>2. CASE e = "canceled"
    BY <1>1, <2>2 DEF record, recordClosed, neutral
  <2>3. CASE e \notin {"nil", "canceled"}
    <3>1. record(b, e) = IF counted.failures >= Threshold THEN TripNow(counted) ELSE counted
      BY <1>1, <2>3 DEF record, recordClosed, neutral
    <3>2. counted \in Breakers
      BY <1>1, BreakerAssumption DEF Breakers
    <3>3. counted.failures \in Nat
      BY <3>2, BreakerAssumption DEF Breakers
    <3> HIDE DEF counted
    <3>4. CASE counted.failures >= Threshold
      BY <2>3, <3>1, <3>2, <3>4, TripKeeps
    <3>5. CASE ~(counted.failures >= Threshold)
      BY <2>3, <3>1, <3>2, <3>3, <3>5, BreakerAssumption
    <3> QED
      BY <3>4, <3>5
  <2> QED
    BY <2>1, <2>2, <2>3
<1>2. CASE b.state = "halfOpen"
  <2>1. CASE e = "nil"
    <3>1. record(b, e) = [setState(b, "closed") EXCEPT !.failures = 0]
      BY <1>2, <2>1 DEF record, recordHalfOpen
    <3>2. setState(b, "closed") \in Breakers
      BY DEF Breakers, States, setState
    <3> QED
      BY <1>2, <3>1, <3>2, TripKeeps, BreakerAssumption DEF Breakers
  <2>2. CASE e # "nil"
    BY <1>2, <2>2, TripKeeps DEF record, recordHalfOpen
  <2> QED
    BY <2>1, <2>2
<1>3. CASE b.state = "open"
  BY <1>3 DEF record
<1> QED
  BY <1>1, <1>2, <1>3 DEF Breakers, States

LEMMA AdmitKeeps ==
  ASSUME NEW b \in Breakers, b.state = "closed" => b.failures < Threshold
  PROVE  /\ admit(b) \in Breakers
         /\ admit(b).state = "closed" => admit(b).failures < Threshold
         /\ b.state = "closed" => admit(b) = b
BY DEF Breakers, States, AdmitsAsProbe, CooledDown, admit, setState

LEMMA ElapseKeeps ==
  ASSUME NEW b \in Breakers
  PROVE  /\ Elapse(b) \in Breakers
         /\ Elapse(b).state = b.state
         /\ Elapse(b).failures = b.failures
BY BreakerAssumption DEF Breakers, Elapse

-------------------------------------------------------------------------------
(* Types. *)

LEMMA FallbacksAre ==
  ASSUME NEW f
  PROVE  f \in Fallbacks <=> DOMAIN f \subseteq Keys /\ f \in [DOMAIN f -> 0 .. Rate]
BY DEF Fallbacks

LEMMA TypeInit == Init => TypeOK
<1> SUFFICES ASSUME Init
             PROVE  TypeOK
  OBVIOUS
<1>1. newBreaker \in Breakers
  BY BreakerAssumption DEF newBreaker, Breakers, States
<1>2. NoBuckets \in Fallbacks
  BY FallbacksAre DEF NoBuckets
<1>3. OnlyActive("redis") \in [{"redis", "memory"} -> {0, 1}]
  BY DEF OnlyActive
<1>4. 0 \in 0 .. Rate /\ 0 \in 0 .. MaxKeys /\ 0 \in 0 .. MaxLate /\ 0 \in 0 .. MaxCrashes
  BY LimiterAssumption
<1> QED
  BY <1>1, <1>2, <1>3, <1>4 DEF Init, TypeOK, Errors

\* The limits lie in the ranges they bound.
LEMMA Ranges ==
  /\ \A n \in 0 .. Rate : (IF n < Rate THEN n + 1 ELSE n) \in 0 .. Rate
  /\ \A n \in 0 .. MaxLate : /\ n < MaxLate => n + 1 \in 0 .. MaxLate
                            /\ n > 0 => n - 1 \in 0 .. MaxLate
  /\ \A n \in 0 .. MaxCrashes : n < MaxCrashes => n + 1 \in 0 .. MaxCrashes
  /\ 0 \in 0 .. Rate /\ 0 \in 0 .. MaxLate
BY LimiterAssumption

\* A write of SetActiveBackend.
LEMMA SeriesWritten ==
  ASSUME TypeOK, NEW c \in Callers, NEW series \in {"redis", "memory"}, WriteSeries(c, series)
  PROVE  /\ Home[c] \in Instances
         /\ backend' \in [Instances -> [{"redis", "memory"} -> {0, 1}]]
         /\ backend'[Home[c]][series] = IF ActiveFor(c) = series THEN 1 ELSE 0
         /\ \A other \in {"redis", "memory"} \ {series} :
              backend'[Home[c]][other] = backend[Home[c]][other]
         /\ \A i \in Instances \ {Home[c]} : backend'[i] = backend[i]
<1> DEFINE v == IF series = ActiveFor(c) THEN 1 ELSE 0
           new == [backend[Home[c]] EXCEPT ![series] = v]
<1>1. OnlyActive(ActiveFor(c))[series] = v
  BY DEF OnlyActive
<1>2. backend' = [backend EXCEPT ![Home[c]] = new]
  BY <1>1 DEF WriteSeries
<1>3. v \in {0, 1}
  OBVIOUS
<1>4. Home[c] \in Instances /\ backend \in [Instances -> [{"redis", "memory"} -> {0, 1}]]
  BY LimiterAssumption DEF TypeOK
<1> HIDE DEF v
<1>5. /\ new \in [{"redis", "memory"} -> {0, 1}]
      /\ new[series] = v
      /\ \A other \in {"redis", "memory"} \ {series} : new[other] = backend[Home[c]][other]
  BY <1>3, <1>4
<1> HIDE DEF new
<1>6. /\ backend' \in [Instances -> [{"redis", "memory"} -> {0, 1}]]
      /\ backend'[Home[c]] = new
      /\ \A i \in Instances \ {Home[c]} : backend'[i] = backend[i]
  BY <1>2, <1>4, <1>5
<1> QED
  BY <1>4, <1>5, <1>6 DEF v

LEMMA TypeNext ==
  ASSUME LimiterInv, Next
  PROVE  TypeOK'
<1> USE LimiterAssumption DEF LimiterInv, TypeOK, KeyKnown
<1>o. onError' \in Policies
  BY DEF Next
<1>1. ASSUME NEW c \in Callers, NEW k \in Keys, Start(c, k)
      PROVE  TypeOK'
  <2>1. Home[c] \in Instances /\ admit(brk[Home[c]]) \in Breakers
    BY AdmitKeeps DEF ClosedBelowThreshold
  <2> QED
    BY <1>o, <1>1, <2>1 DEF Start, serverVars, history
<1>2. ASSUME NEW c \in Callers, NEW k \in Keys, Reject(c, k)
      PROVE  TypeOK'
  BY <1>o, <1>2 DEF Reject, serverVars, history
<1>3. ASSUME NEW c \in Callers, Record(c)
      PROVE  TypeOK'
  <2>1. Home[c] \in Instances /\ record(brk[Home[c]], err[c]) \in Breakers
    BY RecordKeeps DEF ClosedBelowThreshold
  <2> QED
    BY <1>o, <1>3, <2>1 DEF Record, serverVars, history
<1>4. ASSUME NEW c \in Callers, Evalsha(c) \/ Eval(c)
      PROVE  TypeOK'
  <2>1. key[c] \in Keys /\ (IF count[key[c]] < Rate THEN count[key[c]] + 1 ELSE count[key[c]]) \in 0 .. Rate
    BY <1>4, Ranges DEF Evalsha, Eval
  <2>2. CASE Evalsha(c)
    BY <1>o, <2>1, <2>2 DEF Evalsha, Execute, history
  <2>3. CASE Eval(c)
    BY <1>o, <2>1, <2>3 DEF Eval, Execute, history
  <2> QED
    BY <1>4, <2>2, <2>3
<1>5. ASSUME NEW c \in Callers, NoScript(c) \/ Receive(c)
      PROVE  TypeOK'
  BY <1>o, <1>5 DEF NoScript, Receive, serverVars, history, Errors
<1>6. ASSUME NEW c \in Callers, TimeOut(c) \/ Refused(c) \/ HangUp(c)
      PROVE  TypeOK'
  <2>1. PICK e \in Errors, delivered \in BOOLEAN : Abandon(c, e, {"evalsha", "eval", "served"}, delivered)
    BY <1>6 DEF TimeOut, Refused, HangUp, Errors
  <2>2. UNCHANGED <<brk, memory, others, backend, redis, count, cached, key, reply, history>>
    BY <1>6 DEF TimeOut, Refused, HangUp
  <2>3. key[c] \in Keys
    BY <2>1 DEF Abandon
  <2>4. late' \in [Keys -> 0 .. MaxLate] /\ sent' \in [Callers -> Nat]
    <3>1. CASE delivered
      <4>1. late' = [late EXCEPT ![key[c]] = @ + 1] /\ late[key[c]] < MaxLate
        BY <2>1, <3>1 DEF Abandon
      <4>2. sent' = [sent EXCEPT ![c] = @ + 1]
        BY <2>1, <3>1 DEF Abandon
      <4> QED
        BY <2>3, <4>1, <4>2
    <3>2. CASE ~delivered
      BY <2>1, <3>2 DEF Abandon
    <3> QED
      BY <3>1, <3>2
  <2>5. pc' = [pc EXCEPT ![c] = "returned"] /\ err' = [err EXCEPT ![c] = e]
    BY <2>1 DEF Abandon
  <2> QED
    BY <1>o, <2>2, <2>4, <2>5 DEF history
<1>7. ASSUME NEW c \in Callers, Answer(c) \/ AnswerDegraded(c)
      PROVE  TypeOK'
  <2>1. backend' \in [Instances -> [{"redis", "memory"} -> {0, 1}]]
    BY <1>7, SeriesWritten DEF Answer, AnswerDegraded, StartFlip
  <2> QED
    BY <1>o, <1>7, <2>1 DEF Answer, AnswerDegraded, StartFlip, serverVars, history
<1>8. ASSUME NEW c \in Callers, FinishFlip(c)
      PROVE  TypeOK'
  <2>1. backend' \in [Instances -> [{"redis", "memory"} -> {0, 1}]]
    BY <1>8, SeriesWritten DEF FinishFlip
  <2>2. admitted' \in [Keys -> Nat]
    BY <1>8 DEF FinishFlip, Verdict
  <2> QED
    BY <1>o, <1>8, <2>1, <2>2 DEF FinishFlip, Verdict, Leave, serverVars, Errors
<1>9. ASSUME NEW c \in Callers, Fallback(c)
      PROVE  TypeOK'
  <2> DEFINE i == Home[c]
             new == IF CountedIn(i, key[c]) < Rate THEN CountedIn(i, key[c]) + 1 ELSE CountedIn(i, key[c])
             f == [x \in DOMAIN memory[i] \cup {key[c]} |-> IF x = key[c] THEN new ELSE memory[i][x]]
  <2>1. key[c] \in Keys /\ i \in Instances /\ memory[i] \in Fallbacks
    BY <1>9 DEF Fallback
  <2>2. new \in 0 .. Rate
    BY <2>1, FallbacksAre, Ranges DEF CountedIn
  <2>3. f \in Fallbacks
    <3>1. DOMAIN memory[i] \subseteq Keys /\ memory[i] \in [DOMAIN memory[i] -> 0 .. Rate]
      BY <2>1, FallbacksAre
    <3> HIDE DEF new
    <3>2. DOMAIN f \subseteq Keys /\ f \in [DOMAIN f -> 0 .. Rate]
      BY <2>1, <2>2, <3>1
    <3> HIDE DEF f
    <3> QED
      BY <3>2, FallbacksAre
  <2>4. memory' = [memory EXCEPT ![i] = f]
    BY <1>9 DEF Fallback
  <2>5. memory' \in [Instances -> Fallbacks]
    BY <2>1, <2>3, <2>4
  <2>6. reply' \in [Callers -> BOOLEAN]
    BY <1>9 DEF Fallback
  <2> QED
    BY <1>o, <1>9, <2>5, <2>6 DEF Fallback, serverVars, history
<1>10. ASSUME NEW c \in Callers, Fail(c)
       PROVE  TypeOK'
  BY <1>o, <1>10 DEF Fail, Leave, serverVars, history, Errors
<1>11. ASSUME NEW i \in Instances, Crowd(i)
       PROVE  TypeOK'
  <2>1. others[i] + 1 \in 0 .. MaxKeys
    BY <1>11, FS_CardinalityType DEF Crowd, HasRoom, WithinCap
  <2> QED
    BY <1>o, <1>11, <2>1 DEF Crowd, serverVars, callVars, history
<1>12. ASSUME NEW k \in Keys, RunLate(k)
       PROVE  TypeOK'
  <2>1. late' \in [Keys -> 0 .. MaxLate] /\ count' \in [Keys -> 0 .. Rate]
    BY <1>12, Ranges DEF RunLate
  <2> QED
    BY <1>o, <1>12, <2>1 DEF RunLate, callVars, history
<1>13. CASE Hang \/ Resume \/ FlushScripts
  BY <1>o, <1>13 DEF Hang, Resume, FlushScripts, callVars, history
<1>15. CASE Crash
  BY <1>o, <1>15, Ranges DEF Crash, callVars
<1>14. CASE Tick
  BY <1>o, <1>14, ElapseKeeps DEF Tick, serverVars, callVars, history
<1> QED
  BY <1>1, <1>2, <1>3, <1>4, <1>5, <1>6, <1>7, <1>8, <1>9, <1>10, <1>11, <1>12, <1>13, <1>14, <1>15
     DEF Next, Steps

-------------------------------------------------------------------------------
(* A caller's key and what it has sent. *)

LEMMA CallNext ==
  ASSUME LimiterInv, Next
  PROVE  KeyKnown' /\ SentInCall'
<1> USE DEF LimiterInv, TypeOK, KeyKnown, SentInCall, ChargedOnce
<1>1. ASSUME NEW c \in Callers, NEW k \in Keys, Start(c, k) \/ Reject(c, k)
      PROVE  KeyKnown' /\ SentInCall'
  BY <1>1 DEF Start, Reject
<1>2. ASSUME NEW c \in Callers, Record(c) \/ NoScript(c) \/ Receive(c)
      PROVE  KeyKnown' /\ SentInCall'
  BY <1>2 DEF Record, NoScript, Receive
<1>3. ASSUME NEW c \in Callers, Evalsha(c) \/ Eval(c)
      PROVE  KeyKnown' /\ SentInCall'
  BY <1>3 DEF Evalsha, Eval, Execute
<1>4. ASSUME NEW c \in Callers, TimeOut(c) \/ Refused(c) \/ HangUp(c)
      PROVE  KeyKnown' /\ SentInCall'
  <2>1. PICK e \in Errors, delivered \in BOOLEAN :
          Abandon(c, e, {"evalsha", "eval", "served"}, delivered)
    BY <1>4 DEF TimeOut, Refused, HangUp, Errors
  <2>2. key' = key
    BY <1>4 DEF TimeOut, Refused, HangUp
  <2>3. CASE delivered
    BY <2>1, <2>2, <2>3 DEF Abandon
  <2>4. CASE ~delivered
    BY <2>1, <2>2, <2>4 DEF Abandon
  <2> QED
    BY <2>3, <2>4
<1>5. ASSUME NEW c \in Callers, Answer(c) \/ AnswerDegraded(c) \/ Fallback(c)
      PROVE  KeyKnown' /\ SentInCall'
  BY <1>5 DEF Answer, AnswerDegraded, StartFlip, Fallback
<1>6. ASSUME NEW c \in Callers, FinishFlip(c) \/ Fail(c)
      PROVE  KeyKnown' /\ SentInCall'
  <2>1. Leave(c)
    BY <1>6 DEF FinishFlip, Verdict, Fail
  <2> QED
    BY <2>1 DEF Leave
<1>7. CASE \/ (\E i \in Instances : Crowd(i)) \/ (\E k \in Keys : RunLate(k))
           \/ Hang \/ Crash \/ Resume \/ FlushScripts \/ Tick
  <2>1. UNCHANGED callVars
    BY <1>7 DEF Crowd, RunLate, Hang, Crash, Resume, FlushScripts, Tick
  <2> QED
    BY <2>1 DEF callVars
<1> QED
  BY <1>1, <1>2, <1>3, <1>4, <1>5, <1>6, <1>7 DEF Next, Steps

-------------------------------------------------------------------------------
(* The breakers, and what a healthy redis means for them. *)

LEMMA BreakersNext ==
  ASSUME LimiterInv, Next
  PROVE  ClosedBelowThreshold' /\ HealthyRedis' /\ HealthyRedisAnswers'
<1> USE LimiterAssumption DEF LimiterInv, TypeOK, ClosedBelowThreshold, HealthyRedis, HealthyRedisAnswers
<1>1. ASSUME NEW c \in Callers, NEW k \in Keys, Start(c, k)
      PROVE  ClosedBelowThreshold' /\ HealthyRedis' /\ HealthyRedisAnswers'
  <2>1. /\ brk[Home[c]] \in Breakers /\ Home[c] \in Instances
        /\ brk' = [brk EXCEPT ![Home[c]] = admit(brk[Home[c]])]
    BY <1>1 DEF Start
  <2>2. /\ admit(brk[Home[c]]).state = "closed" => admit(brk[Home[c]]).failures < Threshold
        /\ brk[Home[c]].state = "closed" => admit(brk[Home[c]]).state = "closed"
    BY <2>1, AdmitKeeps
  <2>3. pc' = [pc EXCEPT ![c] = "evalsha"] /\ UNCHANGED <<err, redis, wasUp>>
    BY <1>1 DEF Start, serverVars, history
  <2> QED
    BY <2>1, <2>2, <2>3
<1>2. ASSUME NEW c \in Callers, NEW k \in Keys, Reject(c, k)
      PROVE  ClosedBelowThreshold' /\ HealthyRedis' /\ HealthyRedisAnswers'
  BY <1>2 DEF Reject, Admits, serverVars, history
<1>3. ASSUME NEW c \in Callers, Record(c)
      PROVE  ClosedBelowThreshold' /\ HealthyRedis' /\ HealthyRedisAnswers'
  <2> DEFINE b == record(brk[Home[c]], err[c])
  <2>1. /\ brk[Home[c]] \in Breakers /\ Home[c] \in Instances
        /\ brk' = [brk EXCEPT ![Home[c]] = b]
    BY <1>3 DEF Record
  <2>2. /\ b.state = "closed" => b.failures < Threshold
        /\ brk[Home[c]].state = "closed" /\ err[c] \in {"nil", "canceled"} => b.state = "closed"
    BY <2>1, RecordKeeps
  <2>3. pc' = [pc EXCEPT ![c] = "recorded"] /\ UNCHANGED <<err, redis, wasUp>>
    BY <1>3 DEF Record, serverVars, history
  <2> HIDE DEF b
  <2> QED
    BY <2>1, <2>2, <2>3
<1>4. ASSUME NEW c \in Callers, Evalsha(c) \/ NoScript(c) \/ Eval(c) \/ Receive(c)
      PROVE  ClosedBelowThreshold' /\ HealthyRedis' /\ HealthyRedisAnswers'
  BY <1>4 DEF Evalsha, NoScript, Eval, Execute, Receive, serverVars, history
<1>5. ASSUME NEW c \in Callers, TimeOut(c) \/ Refused(c) \/ HangUp(c)
      PROVE  ClosedBelowThreshold' /\ HealthyRedis' /\ HealthyRedisAnswers'
  <2>1. UNCHANGED <<brk, redis, wasUp>>
    BY <1>5 DEF TimeOut, Refused, HangUp, history
  <2>2. pc' = [pc EXCEPT ![c] = "returned"]
    BY <1>5 DEF TimeOut, Refused, HangUp, Abandon
  <2>3. \E e : err' = [err EXCEPT ![c] = e] /\ (redis = "up" => e = "canceled")
    BY <1>5 DEF TimeOut, Refused, HangUp, Abandon
  <2> QED
    BY <2>1, <2>2, <2>3
<1>6. ASSUME NEW c \in Callers, Answer(c) \/ AnswerDegraded(c) \/ FinishFlip(c) \/ Fail(c)
      PROVE  ClosedBelowThreshold' /\ HealthyRedis' /\ HealthyRedisAnswers'
  BY <1>6 DEF Answer, AnswerDegraded, StartFlip, FinishFlip, Verdict, Fail, Leave, serverVars, history
<1>7. ASSUME NEW c \in Callers, Fallback(c)
      PROVE  ClosedBelowThreshold' /\ HealthyRedis' /\ HealthyRedisAnswers'
  BY <1>7 DEF Fallback, UsesFallback, neutral, serverVars, history
<1>8. CASE Hang \/ Crash \/ Resume \/ FlushScripts
  BY <1>8 DEF Hang, Crash, Resume, FlushScripts, callVars, history
<1>9. CASE Tick
  BY <1>9, ElapseKeeps DEF Tick, serverVars, callVars, history
<1>10. CASE (\E i \in Instances : Crowd(i)) \/ (\E k \in Keys : RunLate(k))
  BY <1>10 DEF Crowd, RunLate, serverVars, callVars, history
<1> QED
  BY <1>1, <1>2, <1>3, <1>4, <1>5, <1>6, <1>7, <1>8, <1>9, <1>10 DEF Next, Steps

-------------------------------------------------------------------------------
(* The fallbacks. *)

\* The fallback counts one more for c's key, unless it is at the limit.
LEMMA FallbackCounts ==
  ASSUME LimiterInv, NEW c \in Callers, Fallback(c)
  PROVE  /\ Home[c] \in Instances /\ key[c] \in Keys
         /\ onError = "degrade" /\ err[c] # "nil" /\ pc[c] = "recorded"
         /\ HasBucket(Home[c], key[c])
         /\ CountedIn(Home[c], key[c]) \in 0 .. Rate
         /\ DOMAIN memory'[Home[c]] = DOMAIN memory[Home[c]] \cup {key[c]}
         /\ \A i \in Instances \ {Home[c]} : memory'[i] = memory[i]
         /\ \A i \in Instances, k \in Keys :
              CountedIn(i, k)' =
                IF i = Home[c] /\ k = key[c] /\ CountedIn(i, k) < Rate
                THEN CountedIn(i, k) + 1 ELSE CountedIn(i, k)
<1> DEFINE i == Home[c]
           used == CountedIn(i, key[c])
           new == IF used < Rate THEN used + 1 ELSE used
           f == [x \in DOMAIN memory[i] \cup {key[c]} |-> IF x = key[c] THEN new ELSE memory[i][x]]
<1>1. i \in Instances /\ key[c] \in Keys /\ memory \in [Instances -> Fallbacks]
  BY LimiterAssumption DEF LimiterInv, TypeOK, KeyKnown, Fallback
<1>2. onError = "degrade" /\ err[c] # "nil" /\ pc[c] = "recorded" /\ HasBucket(i, key[c])
  BY DEF Fallback, UsesFallback
<1>3. memory' = [memory EXCEPT ![i] = f]
  BY DEF Fallback
<1>4. used \in 0 .. Rate
  BY <1>1, FallbacksAre, Ranges DEF CountedIn
<1>5. memory'[i] = f /\ \A j \in Instances \ {i} : memory'[j] = memory[j]
  BY <1>1, <1>3
<1>6. \A k \in Keys : CountedIn(i, k)' = IF k = key[c] THEN new ELSE CountedIn(i, k)
  BY <1>5 DEF CountedIn
<1>7. \A j \in Instances \ {i}, k \in Keys : CountedIn(j, k)' = CountedIn(j, k)
  BY <1>5 DEF CountedIn
<1> QED
  BY <1>1, <1>2, <1>4, <1>5, <1>6, <1>7

LEMMA FallbackNext ==
  ASSUME LimiterInv, Next
  PROVE  FallbackForDegrade' /\ WithinCap'
<1>1. ASSUME NEW c \in Callers, Fallback(c)
      PROVE  FallbackForDegrade' /\ WithinCap'
  <2> DEFINE i == Home[c]
             D == DOMAIN memory[i]
  <2>1. /\ i \in Instances /\ DOMAIN memory'[i] = D \cup {key[c]}
        /\ \A j \in Instances \ {i} : memory'[j] = memory[j]
        /\ HasBucket(i, key[c]) /\ onError = "degrade"
    BY <1>1, FallbackCounts
  <2>2. others' = others /\ onError' = onError
    BY <1>1 DEF Fallback, Next
  <2>3. IsFiniteSet(D) /\ Cardinality(D) + others[i] <= MaxKeys /\ Cardinality(D) \in Nat
    BY <2>1, FS_CardinalityType DEF LimiterInv, WithinCap
  <2>4. others[i] \in Nat /\ MaxKeys \in Nat
    BY <2>1, LimiterAssumption DEF LimiterInv, TypeOK
  <2>5. IsFiniteSet(D \cup {key[c]}) /\ Cardinality(D \cup {key[c]}) + others[i] <= MaxKeys
    <3>1. /\ IsFiniteSet(D \cup {key[c]})
          /\ Cardinality(D \cup {key[c]}) = IF key[c] \in D THEN Cardinality(D) ELSE Cardinality(D) + 1
      BY <2>3, FS_AddElement
    <3>2. key[c] \in D \/ Cardinality(D) + others[i] < MaxKeys
      BY <2>1 DEF HasBucket, HasRoom
    <3> HIDE DEF D
    <3> QED
      BY <2>3, <2>4, <3>1, <3>2
  <2>6. WithinCap'
    BY <2>1, <2>2, <2>5 DEF WithinCap, LimiterInv
  <2> QED
    BY <2>1, <2>2, <2>6 DEF FallbackForDegrade
<1>2. ASSUME NEW i \in Instances, Crowd(i)
      PROVE  FallbackForDegrade' /\ WithinCap'
  <2>1. /\ memory' = memory /\ onError' = onError
        /\ others' = [others EXCEPT ![i] = @ + 1]
        /\ Cardinality(DOMAIN memory[i]) + others[i] < MaxKeys
    BY <1>2 DEF Crowd, HasRoom, Next
  <2>2. Cardinality(DOMAIN memory[i]) \in Nat
    BY FS_CardinalityType DEF LimiterInv, WithinCap
  <2> QED
    BY <2>1, <2>2, LimiterAssumption DEF LimiterInv, TypeOK, WithinCap, FallbackForDegrade
<1>3. ASSUME UNCHANGED <<memory, others, onError>>
      PROVE  FallbackForDegrade' /\ WithinCap'
  BY <1>3 DEF LimiterInv, WithinCap, FallbackForDegrade
<1>4. ASSUME NEW c \in Callers, NEW k \in Keys, Start(c, k) \/ Reject(c, k)
      PROVE  UNCHANGED <<memory, others>>
  BY <1>4 DEF Start, Reject
<1>5. ASSUME NEW c \in Callers,
             \/ Record(c) \/ Evalsha(c) \/ NoScript(c) \/ Eval(c) \/ Receive(c)
             \/ TimeOut(c) \/ Refused(c) \/ HangUp(c)
             \/ Answer(c) \/ AnswerDegraded(c) \/ FinishFlip(c) \/ Fail(c)
      PROVE  UNCHANGED <<memory, others>>
  BY <1>5 DEF Record, Evalsha, NoScript, Eval, Receive, TimeOut, Refused, HangUp, Answer,
              AnswerDegraded, StartFlip, FinishFlip, Fail
<1>6. ASSUME (\E k \in Keys : RunLate(k)) \/ Hang \/ Crash \/ Resume \/ FlushScripts \/ Tick
      PROVE  UNCHANGED <<memory, others>>
  BY <1>6 DEF RunLate, Hang, Crash, Resume, FlushScripts, Tick
<1> QED
  BY <1>1, <1>2, <1>3, <1>4, <1>5, <1>6 DEF Next, Steps

-------------------------------------------------------------------------------
(* The pair of backend series. *)

LEMMA FlipNext ==
  ASSUME LimiterInv, Next
  PROVE  FlipsExclude' /\ OneHot'
<1> USE LimiterAssumption DEF LimiterInv, TypeOK, FlipsExclude, OneHot
<1>1. ASSUME NEW c \in Callers, Answer(c) \/ AnswerDegraded(c)
      PROVE  FlipsExclude' /\ OneHot'
  <2>1. /\ Unlocked(Home[c]) /\ WriteSeries(c, "redis")
        /\ pc' = [pc EXCEPT ![c] = "flipping"] /\ err' = err
    BY <1>1 DEF Answer, AnswerDegraded, StartFlip
  <2>2. /\ backend'[Home[c]]["redis"] = IF ActiveFor(c) = "redis" THEN 1 ELSE 0
        /\ \A i \in Instances \ {Home[c]} : backend'[i] = backend[i]
    BY <2>1, SeriesWritten
  <2>3. FlipsExclude'
    BY <2>1, <2>2 DEF Unlocked, ActiveFor, OnlyActive
  <2>4. OneHot'
    BY <2>1, <2>2
  <2> QED
    BY <2>3, <2>4
<1>2. ASSUME NEW c \in Callers, FinishFlip(c)
      PROVE  FlipsExclude' /\ OneHot'
  <2>1. /\ pc[c] = "flipping" /\ WriteSeries(c, "memory")
        /\ pc' = [pc EXCEPT ![c] = "idle"] /\ err' = [err EXCEPT ![c] = "nil"]
    BY <1>2 DEF FinishFlip, Verdict, Leave
  <2>2. /\ Home[c] \in Instances
        /\ backend' \in [Instances -> [{"redis", "memory"} -> {0, 1}]]
        /\ backend'[Home[c]]["memory"] = IF ActiveFor(c) = "memory" THEN 1 ELSE 0
        /\ backend'[Home[c]]["redis"] = IF ActiveFor(c) = "redis" THEN 1 ELSE 0
        /\ \A i \in Instances \ {Home[c]} : backend'[i] = backend[i]
    BY <2>1, SeriesWritten DEF OnlyActive
  <2>3. FlipsExclude'
    BY <2>1, <2>2 DEF ActiveFor
  <2>4. backend'[Home[c]] = OnlyActive(ActiveFor(c))
    BY <2>2 DEF OnlyActive
  <2>5. OneHot'
    BY <2>1, <2>2, <2>4 DEF ActiveFor
  <2> QED
    BY <2>3, <2>5
<1>3. ASSUME backend' = backend,
             \A c \in Callers : pc'[c] = "flipping" <=> pc[c] = "flipping",
             \A c \in Callers : pc[c] = "flipping" => err'[c] = err[c]
      PROVE  FlipsExclude' /\ OneHot'
  BY <1>3 DEF ActiveFor
<1>4. ASSUME NEW c \in Callers, NEW k \in Keys, Start(c, k) \/ Reject(c, k)
      PROVE  FlipsExclude' /\ OneHot'
  BY <1>3, <1>4 DEF Start, Reject
<1>5. ASSUME NEW c \in Callers, Record(c) \/ Evalsha(c) \/ NoScript(c) \/ Eval(c) \/ Receive(c)
      PROVE  FlipsExclude' /\ OneHot'
  BY <1>3, <1>5 DEF Record, Evalsha, NoScript, Eval, Execute, Receive
<1>6. ASSUME NEW c \in Callers, TimeOut(c) \/ Refused(c) \/ HangUp(c)
      PROVE  FlipsExclude' /\ OneHot'
  BY <1>3, <1>6 DEF TimeOut, Refused, HangUp, Abandon
<1>7. ASSUME NEW c \in Callers, Fallback(c) \/ Fail(c)
      PROVE  FlipsExclude' /\ OneHot'
  BY <1>3, <1>7 DEF Fallback, Fail, Leave
<1>8. CASE \/ (\E i \in Instances : Crowd(i)) \/ (\E k \in Keys : RunLate(k))
           \/ Hang \/ Crash \/ Resume \/ FlushScripts \/ Tick
  <2>1. UNCHANGED <<backend, callVars>>
    BY <1>8 DEF Crowd, RunLate, Hang, Crash, Resume, FlushScripts, Tick
  <2> QED
    BY <1>3, <2>1 DEF callVars
<1> QED
  BY <1>1, <1>2, <1>4, <1>5, <1>6, <1>7, <1>8 DEF Next, Steps

-------------------------------------------------------------------------------
(* Allows and what pays for them. *)

\* When only caller c moves, the undelivered allows change by c's own.
LEMMA UndeliveredMoves ==
  ASSUME NEW c \in Callers, NEW k,
         \A d \in Callers \ {c} : HoldsAllow(d, k)' <=> HoldsAllow(d, k)
  PROVE  /\ Cardinality(Undelivered(k)) \in Nat
         /\ Cardinality(Undelivered(k)') =
              Cardinality(Undelivered(k)) + (IF HoldsAllow(c, k)' THEN 1 ELSE 0)
                                          - (IF HoldsAllow(c, k) THEN 1 ELSE 0)
<1> DEFINE S == {d \in Callers \ {c} : HoldsAllow(d, k)}
<1>1. IsFiniteSet(S) /\ Cardinality(S) \in Nat
  <2>1. IsFiniteSet(Callers) /\ S \in SUBSET Callers
    BY LimiterAssumption
  <2> QED
    BY <2>1, FS_Subset, FS_CardinalityType
<1>2. Cardinality(S \cup {c}) = Cardinality(S) + 1
  BY <1>1, FS_AddElement
<1>3. Undelivered(k) = IF HoldsAllow(c, k) THEN S \cup {c} ELSE S
  BY DEF Undelivered
<1>4. Undelivered(k)' = IF HoldsAllow(c, k)' THEN S \cup {c} ELSE S
  BY DEF Undelivered
<1> HIDE DEF S
<1>5. Cardinality(Undelivered(k)) = Cardinality(S) + (IF HoldsAllow(c, k) THEN 1 ELSE 0)
  BY <1>1, <1>2, <1>3
<1>6. Cardinality(Undelivered(k)') = Cardinality(S) + (IF HoldsAllow(c, k)' THEN 1 ELSE 0)
  BY <1>1, <1>2, <1>4
<1> QED
  BY <1>1, <1>5, <1>6

\* What the fallbacks have counted is at most the limit in each.
LEMMA DegradedBounded ==
  ASSUME TypeOK, NEW k \in Keys
  PROVE  /\ IsFiniteSet(Degraded(k))
         /\ Cardinality(Degraded(k)) \in Nat
         /\ Cardinality(Degraded(k)) <= Rate * Cardinality(Instances)
         /\ Cardinality(Instances) \in Nat
<1>1. /\ IsFiniteSet(1 .. Rate) /\ Cardinality(1 .. Rate) = Rate
      /\ IsFiniteSet(Instances) /\ Cardinality(Instances) \in Nat
  <2>1. 1 \in Int /\ Rate \in Int /\ ~(1 > Rate) /\ Rate - 1 + 1 = Rate
    BY LimiterAssumption
  <2>2. IsFiniteSet(1 .. Rate) /\ Cardinality(1 .. Rate) = Rate
    BY <2>1, FS_Interval
  <2> QED
    BY <2>2, LimiterAssumption, FS_CardinalityType
<1>2. /\ IsFiniteSet(Instances \X (1 .. Rate))
      /\ Cardinality(Instances \X (1 .. Rate)) = Cardinality(Instances) * Rate
  BY <1>1, FS_Product
<1>3. Degraded(k) \in SUBSET (Instances \X (1 .. Rate))
  BY DEF Degraded
<1>4. /\ IsFiniteSet(Degraded(k)) /\ Cardinality(Degraded(k)) \in Nat
      /\ Cardinality(Degraded(k)) <= Cardinality(Instances) * Rate
  BY <1>2, <1>3, FS_Subset, FS_CardinalityType
<1>5. Cardinality(Instances) * Rate = Rate * Cardinality(Instances)
  BY <1>1, LimiterAssumption
<1> QED
  BY <1>1, <1>4, <1>5

\* A fallback's count goes up by one exactly when it has allowed a request.
LEMMA DegradedGrows ==
  ASSUME LimiterInv, NEW c \in Callers, Fallback(c), NEW k \in Keys
  PROVE  Cardinality(Degraded(k)') =
           Cardinality(Degraded(k))
             + (IF k = key[c] /\ CountedIn(Home[c], k) < Rate THEN 1 ELSE 0)
<1> DEFINE i == Home[c]
           used == CountedIn(i, k)
<1>1. /\ i \in Instances
      /\ \A j \in Instances : CountedIn(j, k)' =
           IF j = i /\ k = key[c] /\ CountedIn(j, k) < Rate
           THEN CountedIn(j, k) + 1 ELSE CountedIn(j, k)
  BY FallbackCounts
<1>2. CASE k = key[c] /\ used < Rate
  <2>1. used \in 0 .. Rate
    BY <1>2, FallbackCounts
  <2>2. Degraded(k)' = Degraded(k) \cup {<<i, used + 1>>}
    <3>1. ASSUME NEW p \in Instances \X (1 .. Rate)
          PROVE  p[2] <= CountedIn(p[1], k)' <=> p[2] <= CountedIn(p[1], k) \/ p = <<i, used + 1>>
      <4>1. p[1] \in Instances /\ p[2] \in 1 .. Rate /\ p = <<p[1], p[2]>>
        OBVIOUS
      <4>2. CASE p[1] = i
        <5>1. CountedIn(p[1], k)' = used + 1 /\ CountedIn(p[1], k) = used
          BY <1>1, <1>2, <4>1, <4>2
        <5>2. p = <<i, used + 1>> <=> p[2] = used + 1
          BY <4>1, <4>2
        <5> HIDE DEF used
        <5> QED
          BY <2>1, <4>1, <5>1, <5>2, LimiterAssumption
      <4>3. CASE p[1] # i
        BY <1>1, <4>1, <4>3
      <4> QED
        BY <4>2, <4>3
    <3>2. <<i, used + 1>> \in Instances \X (1 .. Rate)
      BY <1>1, <1>2, <2>1, LimiterAssumption
    <3>3. Degraded(k)' = {p \in Instances \X (1 .. Rate) : p[2] <= CountedIn(p[1], k)'}
      BY DEF Degraded
    <3> QED
      BY <3>1, <3>2, <3>3 DEF Degraded
  <2>3. <<i, used + 1>> \notin Degraded(k)
    BY <2>1, LimiterAssumption DEF Degraded
  <2>4. IsFiniteSet(Degraded(k))
    BY DegradedBounded DEF LimiterInv
  <2> QED
    BY <1>2, <2>2, <2>3, <2>4, FS_AddElement
<1>3. CASE ~(k = key[c] /\ used < Rate)
  <2>1. \A j \in Instances : CountedIn(j, k)' = CountedIn(j, k)
    BY <1>1, <1>3
  <2>2. Degraded(k)' = {p \in Instances \X (1 .. Rate) : p[2] <= CountedIn(p[1], k)'}
    BY DEF Degraded
  <2>3. Degraded(k)' = Degraded(k)
    BY <2>1, <2>2 DEF Degraded
  <2>4. Cardinality(Degraded(k)) \in Nat
    BY DegradedBounded DEF LimiterInv
  <2> QED
    BY <1>3, <2>3, <2>4
<1> QED
  BY <1>2, <1>3

\* The numbers AllowsPaid compares.
LEMMA PaidTypes ==
  ASSUME LimiterInv, NEW k \in Keys
  PROVE  /\ admitted[k] \in Nat /\ count[k] \in 0 .. Rate
         /\ Cardinality(Undelivered(k)) \in Nat /\ Cardinality(Degraded(k)) \in Nat
         /\ Rate * crashes \in Nat /\ crashes \in Nat
         /\ admitted[k] + Cardinality(Undelivered(k))
              <= Rate * crashes + count[k] + Cardinality(Degraded(k))
<1>1. Cardinality(Undelivered(k)) \in Nat
  <2>1. IsFiniteSet(Callers) /\ Undelivered(k) \in SUBSET Callers
    BY LimiterAssumption DEF Undelivered
  <2> QED
    BY <2>1, FS_Subset, FS_CardinalityType
<1>2. Cardinality(Degraded(k)) \in Nat
  BY DegradedBounded DEF LimiterInv
<1>3. Rate * crashes \in Nat /\ crashes \in Nat
  BY LimiterAssumption DEF LimiterInv, TypeOK
<1> QED
  BY <1>1, <1>2, <1>3 DEF LimiterInv, TypeOK, AllowsPaid

\* A step that gives nobody an allow and takes nothing back leaves all paid.
LEMMA PaidStill ==
  ASSUME LimiterInv, UNCHANGED <<memory, admitted, crashes>>,
         NEW c \in Callers,
         \A d \in Callers \ {c}, k \in Keys : HoldsAllow(d, k)' <=> HoldsAllow(d, k),
         \A k \in Keys : HoldsAllow(c, k)' => HoldsAllow(c, k),
         \A k \in Keys : count'[k] \in Nat /\ count'[k] >= count[k]
  PROVE  AllowsPaid'
<1> SUFFICES ASSUME NEW k \in Keys
             PROVE  admitted'[k] + Cardinality(Undelivered(k)')
                      <= Rate * crashes' + count'[k] + Cardinality(Degraded(k)')
  BY DEF AllowsPaid
<1>1. Degraded(k)' = Degraded(k)
  BY DEF Degraded, CountedIn
<1>2. Cardinality(Undelivered(k)') =
        Cardinality(Undelivered(k)) + (IF HoldsAllow(c, k)' THEN 1 ELSE 0)
                                    - (IF HoldsAllow(c, k) THEN 1 ELSE 0)
  BY UndeliveredMoves
<1>3. (IF HoldsAllow(c, k)' THEN 1 ELSE 0) <= (IF HoldsAllow(c, k) THEN 1 ELSE 0)
  OBVIOUS
<1> QED
  BY <1>1, <1>2, <1>3, PaidTypes

LEMMA PaidNext ==
  ASSUME LimiterInv, Next
  PROVE  AllowsPaid'
<1> DEFINE Paid(k) == admitted'[k] + Cardinality(Undelivered(k)')
                        <= Rate * crashes' + count'[k] + Cardinality(Degraded(k)')
<1>g. (\A k \in Keys : Paid(k)) => AllowsPaid'
  BY DEF AllowsPaid
<1>t. /\ pc \in [Callers -> {"idle", "evalsha", "eval", "served", "returned", "recorded",
                           "fellback", "flipping"}]
      /\ key \in [Callers -> Keys \cup {NoKey}] /\ err \in [Callers -> Errors \cup {"open"}]
      /\ reply \in [Callers -> BOOLEAN] /\ count \in [Keys -> 0 .. Rate]
      /\ admitted \in [Keys -> Nat]
  BY DEF LimiterInv, TypeOK
<1>c. \A k \in Keys : count[k] \in Nat /\ count[k] >= count[k]
  BY <1>t
<1>1. ASSUME NEW c \in Callers, NEW k \in Keys, Start(c, k) \/ Reject(c, k)
      PROVE  AllowsPaid'
  <2>1. UNCHANGED <<memory, admitted, crashes, count>>
    BY <1>1 DEF Start, Reject, serverVars, history
  <2>2. \A d \in Callers \ {c}, j \in Keys : HoldsAllow(d, j)' <=> HoldsAllow(d, j)
    BY <1>1, <1>t DEF Start, Reject, HoldsAllow
  <2>3. \A j \in Keys : ~HoldsAllow(c, j)'
    BY <1>1, <1>t DEF Start, Reject, HoldsAllow
  <2> QED
    BY <1>c, <2>1, <2>2, <2>3, PaidStill
<1>2. ASSUME NEW c \in Callers, Record(c) \/ NoScript(c) \/ Receive(c)
      PROVE  AllowsPaid'
  <2>1. UNCHANGED <<memory, admitted, crashes, count>>
    BY <1>2 DEF Record, NoScript, Receive, serverVars, history
  <2>2. \A d \in Callers \ {c}, j \in Keys : HoldsAllow(d, j)' <=> HoldsAllow(d, j)
    BY <1>2, <1>t DEF Record, NoScript, Receive, HoldsAllow
  <2>3. \A j \in Keys : HoldsAllow(c, j)' => HoldsAllow(c, j)
    BY <1>2, <1>t DEF Record, NoScript, Receive, HoldsAllow
  <2> QED
    BY <1>c, <2>1, <2>2, <2>3, PaidStill
<1>3. ASSUME NEW c \in Callers, Evalsha(c) \/ Eval(c)
      PROVE  AllowsPaid'
  <2>1. /\ UNCHANGED <<memory, admitted, crashes, key, err>>
        /\ Execute(c) /\ key[c] \in Keys /\ pc[c] \in {"evalsha", "eval"}
    BY <1>3 DEF Evalsha, Eval, history, LimiterInv, KeyKnown
  <2>2. ASSUME NEW k \in Keys
        PROVE  Paid(k)
    <3>1. \A d \in Callers \ {c} : HoldsAllow(d, k)' <=> HoldsAllow(d, k)
      BY <1>t, <2>1 DEF Execute, HoldsAllow
    <3>2. ~HoldsAllow(c, k)
      BY <2>1 DEF HoldsAllow
    <3>3. HoldsAllow(c, k)' <=> k = key[c] /\ count[k] < Rate
      BY <1>t, <2>1 DEF Execute, HoldsAllow
    <3>4. count'[k] = IF k = key[c] /\ count[k] < Rate THEN count[k] + 1 ELSE count[k]
      BY <1>t, <2>1 DEF Execute
    <3>5. Cardinality(Undelivered(k)') =
            Cardinality(Undelivered(k)) + (IF HoldsAllow(c, k)' THEN 1 ELSE 0)
      BY <3>1, <3>2, UndeliveredMoves
    <3>6. Degraded(k)' = Degraded(k)
      BY <2>1 DEF Degraded, CountedIn
    <3> QED
      BY <2>1, <3>3, <3>4, <3>5, <3>6, PaidTypes
  <2> QED
    BY <1>g, <2>2
<1>4. ASSUME NEW c \in Callers, TimeOut(c) \/ Refused(c) \/ HangUp(c)
      PROVE  AllowsPaid'
  <2>1. UNCHANGED <<memory, admitted, crashes, count, key, reply>>
    BY <1>4 DEF TimeOut, Refused, HangUp, history
  <2>2. PICK e \in {"failure", "canceled"} :
          pc' = [pc EXCEPT ![c] = "returned"] /\ err' = [err EXCEPT ![c] = e]
    BY <1>4 DEF TimeOut, Refused, HangUp, Abandon
  <2>3. \A d \in Callers \ {c}, j \in Keys : HoldsAllow(d, j)' <=> HoldsAllow(d, j)
    BY <1>t, <2>1, <2>2 DEF HoldsAllow
  <2>4. \A j \in Keys : ~HoldsAllow(c, j)'
    BY <1>t, <2>1, <2>2 DEF HoldsAllow
  <2> QED
    BY <1>c, <2>1, <2>3, <2>4, PaidStill
<1>5. ASSUME NEW c \in Callers, Answer(c) \/ AnswerDegraded(c)
      PROVE  AllowsPaid'
  <2>1. UNCHANGED <<memory, admitted, crashes, count, key, reply, err>>
    BY <1>5 DEF Answer, AnswerDegraded, StartFlip, serverVars, history
  <2>2. pc' = [pc EXCEPT ![c] = "flipping"]
    BY <1>5 DEF Answer, AnswerDegraded, StartFlip
  <2>3. \A d \in Callers \ {c}, j \in Keys : HoldsAllow(d, j)' <=> HoldsAllow(d, j)
    BY <1>t, <2>1, <2>2 DEF HoldsAllow
  <2>4. \A j \in Keys : HoldsAllow(c, j)' => HoldsAllow(c, j)
    BY <1>5, <1>t, <2>1, <2>2 DEF Answer, AnswerDegraded, HoldsAllow
  <2> QED
    BY <1>c, <2>1, <2>3, <2>4, PaidStill
<1>6. ASSUME NEW c \in Callers, Fallback(c)
      PROVE  AllowsPaid'
  <2>1. /\ UNCHANGED <<admitted, crashes, count, key, err>>
        /\ pc' = [pc EXCEPT ![c] = "fellback"]
        /\ reply' = [reply EXCEPT ![c] = CountedIn(Home[c], key[c]) < Rate]
    BY <1>6 DEF Fallback, serverVars, history
  <2>2. ASSUME NEW k \in Keys
        PROVE  Paid(k)
    <3>1. \A d \in Callers \ {c} : HoldsAllow(d, k)' <=> HoldsAllow(d, k)
      BY <1>t, <2>1 DEF HoldsAllow
    <3>2. ~HoldsAllow(c, k)
      BY <1>6, FallbackCounts DEF HoldsAllow
    <3>3. HoldsAllow(c, k)' <=> k = key[c] /\ CountedIn(Home[c], k) < Rate
      BY <1>t, <2>1 DEF HoldsAllow
    <3>4. Cardinality(Undelivered(k)') =
            Cardinality(Undelivered(k)) + (IF HoldsAllow(c, k)' THEN 1 ELSE 0)
      BY <3>1, <3>2, UndeliveredMoves
    <3>5. Cardinality(Degraded(k)') =
            Cardinality(Degraded(k))
              + (IF k = key[c] /\ CountedIn(Home[c], k) < Rate THEN 1 ELSE 0)
      BY <1>6, DegradedGrows
    <3> QED
      BY <2>1, <3>3, <3>4, <3>5, PaidTypes
  <2> QED
    BY <1>g, <2>2
<1>7. ASSUME NEW c \in Callers, FinishFlip(c)
      PROVE  AllowsPaid'
  <2>1. /\ UNCHANGED <<memory, crashes, count>>
        /\ admitted' = [admitted EXCEPT ![key[c]] = IF reply[c] THEN @ + 1 ELSE @]
        /\ Leave(c) /\ pc[c] = "flipping" /\ key[c] \in Keys
    BY <1>7 DEF FinishFlip, Verdict, serverVars, LimiterInv, KeyKnown
  <2>2. ASSUME NEW k \in Keys
        PROVE  Paid(k)
    <3>1. \A d \in Callers \ {c} : HoldsAllow(d, k)' <=> HoldsAllow(d, k)
      BY <1>t, <2>1 DEF Leave, HoldsAllow
    <3>2. HoldsAllow(c, k) <=> k = key[c] /\ reply[c]
      BY <2>1 DEF HoldsAllow
    <3>3. ~HoldsAllow(c, k)'
      BY <1>t, <2>1 DEF Leave, HoldsAllow
    <3>4. Cardinality(Undelivered(k)') =
            Cardinality(Undelivered(k)) - (IF HoldsAllow(c, k) THEN 1 ELSE 0)
      BY <3>1, <3>3, UndeliveredMoves
    <3>5. admitted'[k] = IF k = key[c] /\ reply[c] THEN admitted[k] + 1 ELSE admitted[k]
      BY <1>t, <2>1
    <3>6. Degraded(k)' = Degraded(k)
      BY <2>1 DEF Degraded, CountedIn
    <3> QED
      BY <2>1, <3>2, <3>4, <3>5, <3>6, PaidTypes
  <2> QED
    BY <1>g, <2>2
<1>8. ASSUME NEW c \in Callers, Fail(c)
      PROVE  AllowsPaid'
  <2>1. UNCHANGED <<memory, admitted, crashes, count>> /\ Leave(c)
    BY <1>8 DEF Fail, serverVars, history
  <2>2. \A d \in Callers \ {c}, j \in Keys : HoldsAllow(d, j)' <=> HoldsAllow(d, j)
    BY <1>t, <2>1 DEF Leave, HoldsAllow
  <2>3. \A j \in Keys : ~HoldsAllow(c, j)'
    BY <1>t, <2>1 DEF Leave, HoldsAllow
  <2> QED
    BY <1>c, <2>1, <2>2, <2>3, PaidStill
<1>9. ASSUME UNCHANGED <<memory, admitted, callVars>>, crashes' = crashes,
             \A k \in Keys : count'[k] \in Nat /\ count'[k] >= count[k]
      PROVE  AllowsPaid'
  <2>1. ASSUME NEW k \in Keys
        PROVE  Paid(k)
    <3>1. Undelivered(k)' = Undelivered(k) /\ Degraded(k)' = Degraded(k)
      BY <1>9 DEF Undelivered, HoldsAllow, Degraded, CountedIn, callVars
    <3> QED
      BY <1>9, <3>1, PaidTypes
  <2> QED
    BY <1>g, <2>1
<1>10. ASSUME NEW i \in Instances, Crowd(i)
       PROVE  AllowsPaid'
  <2>1. UNCHANGED <<memory, admitted, callVars, count, crashes>>
    BY <1>10 DEF Crowd, serverVars, history
  <2> QED
    BY <1>9, <1>c, <2>1
<1>11. ASSUME NEW k \in Keys, RunLate(k)
       PROVE  AllowsPaid'
  <2>1. UNCHANGED <<memory, admitted, callVars>> /\ crashes' = crashes
    BY <1>11 DEF RunLate, history
  <2>2. \A j \in Keys : count'[j] \in Nat /\ count'[j] >= count[j]
    BY <1>11, <1>t DEF RunLate
  <2> QED
    BY <1>9, <2>1, <2>2
<1>12. CASE Hang \/ Resume \/ FlushScripts \/ Tick
  <2>1. UNCHANGED <<memory, admitted, callVars, count, crashes>>
    BY <1>12 DEF Hang, Resume, FlushScripts, Tick, serverVars, history
  <2> QED
    BY <1>9, <1>c, <2>1
<1>13. CASE Crash
  <2>1. /\ UNCHANGED <<memory, admitted, callVars>> /\ crashes' = crashes + 1
        /\ \A k \in Keys : count'[k] = 0
    BY <1>13 DEF Crash
  <2>2. ASSUME NEW k \in Keys
        PROVE  Paid(k)
    <3>1. Undelivered(k)' = Undelivered(k) /\ Degraded(k)' = Degraded(k)
      BY <2>1 DEF Undelivered, HoldsAllow, Degraded, CountedIn, callVars
    <3>2. Rate * (crashes + 1) = Rate * crashes + Rate
      BY PaidTypes, LimiterAssumption
    <3>3. Rate * crashes' = Rate * crashes + Rate
      BY <2>1, <3>2
    <3> QED
      BY <2>1, <3>1, <3>3, PaidTypes, LimiterAssumption
  <2> QED
    BY <1>g, <2>2
<1> QED
  BY <1>1, <1>2, <1>3, <1>4, <1>5, <1>6, <1>7, <1>8, <1>10, <1>11, <1>12, <1>13 DEF Next, Steps

-------------------------------------------------------------------------------
LEMMA InitInv == Init => LimiterInv
<1> SUFFICES ASSUME Init
             PROVE  LimiterInv
  OBVIOUS
<1>1. TypeOK
  BY TypeInit
<1>2. KeyKnown /\ SentInCall /\ FlipsExclude /\ HealthyRedisAnswers /\ OneHot
  BY DEF Init, KeyKnown, SentInCall, ChargedOnce, FlipsExclude, HealthyRedisAnswers, OneHot
<1>3. ClosedBelowThreshold /\ HealthyRedis
  BY BreakerAssumption DEF Init, ClosedBelowThreshold, HealthyRedis, newBreaker
<1>4. \A i \in Instances : DOMAIN memory[i] = {} /\ others[i] = 0
  BY DEF Init, NoBuckets
<1>5. FallbackForDegrade /\ WithinCap
  BY <1>4, FS_EmptySet, LimiterAssumption DEF FallbackForDegrade, WithinCap
<1>6. AllowsPaid
  <2> SUFFICES ASSUME NEW k \in Keys
               PROVE  admitted[k] + Cardinality(Undelivered(k))
                        <= Rate * crashes + count[k] + Cardinality(Degraded(k))
    BY DEF AllowsPaid
  <2>1. Undelivered(k) = {}
    BY DEF Init, Undelivered, HoldsAllow
  <2>2. Cardinality(Degraded(k)) \in Nat
    BY <1>1, DegradedBounded
  <2>3. admitted[k] = 0 /\ count[k] = 0 /\ crashes = 0
    BY DEF Init
  <2> QED
    BY <2>1, <2>2, <2>3, FS_EmptySet, LimiterAssumption
<1> QED
  BY <1>1, <1>2, <1>3, <1>5, <1>6 DEF LimiterInv

LEMMA NextInv == LimiterInv /\ [Next]_<<onError, vars>> => LimiterInv'
<1> SUFFICES ASSUME LimiterInv, [Next]_<<onError, vars>>
             PROVE  LimiterInv'
  OBVIOUS
<1>1. CASE Next
  BY <1>1, TypeNext, CallNext, BreakersNext, FallbackNext, FlipNext, PaidNext DEF LimiterInv
<1>2. CASE UNCHANGED <<onError, vars>>
  <2>1. /\ UNCHANGED <<onError, brk, memory, others, backend, redis, count, cached, late>>
        /\ UNCHANGED <<pc, key, err, reply, sent, admitted, crashes, wasUp>>
    BY <1>2 DEF vars, serverVars, callVars, history
  <2>2. TypeOK' /\ KeyKnown' /\ SentInCall' /\ ClosedBelowThreshold'
    BY <2>1 DEF LimiterInv, TypeOK, KeyKnown, SentInCall, ChargedOnce, ClosedBelowThreshold
  <2>3. FallbackForDegrade' /\ WithinCap' /\ HealthyRedis' /\ HealthyRedisAnswers'
    BY <2>1 DEF LimiterInv, FallbackForDegrade, WithinCap, HealthyRedis, HealthyRedisAnswers
  <2>4. FlipsExclude' /\ OneHot'
    BY <2>1 DEF LimiterInv, FlipsExclude, OneHot, ActiveFor
  <2>5. AllowsPaid'
    BY <2>1 DEF LimiterInv, AllowsPaid, Undelivered, HoldsAllow, Degraded, CountedIn
  <2> QED
    BY <2>2, <2>3, <2>4, <2>5 DEF LimiterInv
<1> QED
  BY <1>1, <1>2

\* The inductive invariant of RedisLimiter.Allow in any number of instances
\* (redis.go:149-200, memory.go:48-73, metrics.go:147-162).
THEOREM LimiterInvariant == Spec => []LimiterInv
  BY InitInv, NextInv, PTL DEF Spec

\* Every allow is paid for in redis or in a fallback, whatever ran late, timed
\* out or was hung up on, but for a limit's worth per crash.
THEOREM AllowsArePaid == Spec => []AllowsPaid
<1>1. LimiterInv => AllowsPaid
  BY DEF LimiterInv
<1> QED
  BY <1>1, LimiterInvariant, PTL

\* Over-admission under degrade is bounded by the number of instances times the
\* limit (redis.go:182-183), and there is none under the other policies.
THEOREM AdmissionIsBounded == Spec => []AdmissionBounded
<1>1. LimiterInv => AdmissionBounded
  <2> SUFFICES ASSUME LimiterInv, NEW k \in Keys
               PROVE  admitted[k] <= AdmissionBudget
    BY DEF AdmissionBounded
  <2>1. Rate * (crashes + 1) = Rate * crashes + Rate
    BY PaidTypes, LimiterAssumption
  <2>2. admitted[k] <= Rate * (crashes + 1) + Cardinality(Degraded(k))
    BY <2>1, PaidTypes, LimiterAssumption
  <2>3. CASE onError = "degrade"
    <3>1. /\ Cardinality(Degraded(k)) <= Rate * Cardinality(Instances)
          /\ Cardinality(Degraded(k)) \in Nat /\ Rate * Cardinality(Instances) \in Nat
      BY DegradedBounded, LimiterAssumption DEF LimiterInv
    <3>2. AdmissionBudget = Rate * (crashes + 1) + Rate * Cardinality(Instances)
      BY <2>3 DEF AdmissionBudget
    <3> QED
      BY <2>1, <2>2, <3>1, <3>2, PaidTypes, LimiterAssumption
  <2>4. CASE onError # "degrade"
    <3>1. \A i \in Instances : CountedIn(i, k) = 0
      BY <2>4 DEF LimiterInv, FallbackForDegrade, CountedIn
    <3>2. Degraded(k) = {}
      BY <3>1, LimiterAssumption DEF Degraded
    <3>3. AdmissionBudget = Rate * (crashes + 1) + 0
      BY <2>4 DEF AdmissionBudget
    <3> QED
      BY <2>2, <3>2, <3>3, FS_EmptySet
  <2> QED
    BY <2>3, <2>4
<1> QED
  BY <1>1, LimiterInvariant, PTL

\* A decision consumes quota in redis at most once (redis.go:75-82, 108-111).
THEOREM ChargedAtMostOnce == Spec => []ChargedOnce
<1>1. LimiterInv => ChargedOnce
  BY DEF LimiterInv, SentInCall
<1> QED
  BY <1>1, LimiterInvariant, PTL

\* While redis answers, no hang-up makes a breaker reject or a fallback answer
\* (redis.go:173-179, breaker.go:111-117).
THEOREM HealthyRedisServes == Spec => []HealthyRedisAnswers
<1>1. LimiterInv => HealthyRedisAnswers
  BY DEF LimiterInv
<1> QED
  BY <1>1, LimiterInvariant, PTL

\* Racing flips leave exactly one of the two backend series at 1
\* (metrics.go:83-85, 147-162).
THEOREM BackendOneHot == Spec => []OneHot
<1>1. LimiterInv => OneHot
  BY DEF LimiterInv
<1> QED
  BY <1>1, LimiterInvariant, PTL
================================================================================
