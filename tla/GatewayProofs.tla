----------------------------- MODULE GatewayProofs -----------------------------
(***************************************************************************)
(* The request path, for any finite set of requests: its counters agree    *)
(* and the on_error policy is kept.  A step moves one request, so the sets *)
(* that the counters are compared with gain or lose that request only.     *)
(***************************************************************************)
EXTENDS Gateway, FiniteSetTheorems, TLAPS

\* Two sets of requests that differ in r at most.
LEMMA DifferInOne ==
  ASSUME NEW S \in SUBSET Requests, NEW T \in SUBSET Requests, NEW r \in Requests,
         \A q \in Requests \ {r} : q \in S <=> q \in T
  PROVE  /\ Cardinality(S) \in Nat /\ Cardinality(T) \in Nat
         /\ Cardinality(T) = Cardinality(S) + (IF r \in T THEN 1 ELSE 0) - (IF r \in S THEN 1 ELSE 0)
<1> DEFINE U == S \ {r}
<1>1. IsFiniteSet(U) /\ Cardinality(U) \in Nat /\ r \notin U
  <2>1. IsFiniteSet(Requests) /\ U \in SUBSET Requests
    BY RequestsAssumption
  <2> QED
    BY <2>1, FS_Subset, FS_CardinalityType
<1>2. Cardinality(U \cup {r}) = Cardinality(U) + 1
  BY <1>1, FS_AddElement
<1>3. /\ r \in S => S = U \cup {r}
      /\ r \notin S => S = U
      /\ r \in T => T = U \cup {r}
      /\ r \notin T => T = U
  OBVIOUS
<1> HIDE DEF U
<1>4. /\ r \in S => Cardinality(S) = Cardinality(U) + 1
      /\ r \notin S => Cardinality(S) = Cardinality(U)
  BY <1>2, <1>3
<1>5. /\ r \in T => Cardinality(T) = Cardinality(U) + 1
      /\ r \notin T => Cardinality(T) = Cardinality(U)
  BY <1>2, <1>3
<1> QED
  BY <1>1, <1>4, <1>5

LEMMA LabelKnown ==
  ASSUME NEW res \in Results
  PROVE  decisionLabel(res) \in Labels
BY DEF Results, Failed, Labels, decisionLabel

LEMMA InitInv == Init => GatewayInv
<1> SUFFICES ASSUME Init
             PROVE  GatewayInv
  OBVIOUS
<1>1. Cardinality(Requests) \in Nat
  BY RequestsAssumption, FS_CardinalityType
<1>2. TypeOK
  BY <1>1 DEF Init, TypeOK, Statuses
<1>3. Progress /\ PolicyDecides
  BY DEF Init, Progress, PolicyDecides
<1>4. {r \in Requests : pc[r] = "done" /\ routed[r]} = {} /\ CountedInFlight = {}
  BY DEF Init, CountedInFlight
<1>5. ObservedOnce
  BY <1>4, FS_EmptySet DEF Init, ObservedOnce
<1>6. CountedInAll = 0
  BY DEF Init, CountedInAll, Labels
<1> QED
  BY <1>2, <1>3, <1>4, <1>5, <1>6, FS_EmptySet DEF Init, GatewayInv, ObservationsMirrorCounts

\* Counters that agree with disjoint sets of requests are within their bounds.
LEMMA CountersBounded ==
  ASSUME NEW cnt \in [Labels -> Nat],
         NEW S \in SUBSET Requests, NEW T \in SUBSET Requests, S \cap T = {},
         cnt["allow"] + cnt["deny"] + cnt["degrade_allow"] + cnt["degrade_deny"] + cnt["degrade"]
           = Cardinality(S) + Cardinality(T)
  PROVE  /\ cnt \in [Labels -> 0 .. Cardinality(Requests)]
         /\ Cardinality(S) \in 0 .. Cardinality(Requests)
<1>1. IsFiniteSet(Requests) /\ Cardinality(Requests) \in Nat
  BY RequestsAssumption, FS_CardinalityType
<1>2. /\ IsFiniteSet(S) /\ Cardinality(S) \in Nat /\ Cardinality(S) <= Cardinality(Requests)
      /\ IsFiniteSet(T) /\ Cardinality(T) \in Nat
  BY <1>1, FS_Subset, FS_CardinalityType
<1>3. Cardinality(S \cup T) = Cardinality(S) + Cardinality(T)
  <2>1. Cardinality(S \cup T) = Cardinality(S) + Cardinality(T) - Cardinality(S \cap T)
    BY <1>2, FS_Union
  <2>2. Cardinality(S \cap T) = 0
    BY FS_EmptySet
  <2> QED
    BY <1>2, <2>1, <2>2
<1>4. Cardinality(S \cup T) <= Cardinality(Requests)
  BY <1>1, FS_Subset
<1>5. \A l \in Labels : cnt[l] <= Cardinality(S) + Cardinality(T)
  BY DEF Labels
<1> QED
  BY <1>1, <1>2, <1>3, <1>4, <1>5

-------------------------------------------------------------------------------
(* What a step does to the request it moves. *)

\* Sets that the counters mirror.
Observed == {r \in Requests : pc[r] = "done" /\ routed[r]}

\* A step that moves request r only, and the counters with it.
MovesOnly(r) ==
  \A q \in Requests \ {r} : pc'[q] = pc[q] /\ routed'[q] = routed[q]

\* The counters follow request r.
LEMMA CountersFollow ==
  ASSUME GatewayInv, NEW r \in Requests, MovesOnly(r),
         counted' \in [Labels -> Nat],
         CountedInAll' - CountedInAll =
           (IF r \in CountedInFlight' \/ r \in Observed' THEN 1 ELSE 0)
             - (IF r \in CountedInFlight \/ r \in Observed THEN 1 ELSE 0),
         observed' - observed =
           (IF r \in Observed' THEN 1 ELSE 0) - (IF r \in Observed THEN 1 ELSE 0),
         CountedInAll' \in Nat, observed' \in Nat
  PROVE  /\ ObservedOnce' /\ ObservationsMirrorCounts'
         /\ counted' \in [Labels -> 0 .. Cardinality(Requests)]
         /\ observed' \in 0 .. Cardinality(Requests)
<1>1. /\ observed = Cardinality(Observed) /\ observed \in Nat
      /\ CountedInAll = observed + Cardinality(CountedInFlight)
  BY RequestsAssumption, FS_CardinalityType
     DEF GatewayInv, TypeOK, ObservedOnce, Observed, ObservationsMirrorCounts
<1>2. /\ Observed \in SUBSET Requests /\ Observed' \in SUBSET Requests
      /\ CountedInFlight \in SUBSET Requests /\ CountedInFlight' \in SUBSET Requests
      /\ Observed \cap CountedInFlight = {} /\ Observed' \cap CountedInFlight' = {}
  BY DEF Observed, CountedInFlight
<1>3. /\ \A q \in Requests \ {r} : q \in Observed <=> q \in Observed'
      /\ \A q \in Requests \ {r} : q \in CountedInFlight <=> q \in CountedInFlight'
  BY DEF MovesOnly, Observed, CountedInFlight
<1>4. /\ Cardinality(Observed) \in Nat /\ Cardinality(Observed') \in Nat
      /\ Cardinality(Observed') =
           Cardinality(Observed) + (IF r \in Observed' THEN 1 ELSE 0)
                                 - (IF r \in Observed THEN 1 ELSE 0)
  BY <1>2, <1>3, DifferInOne
<1>5. /\ Cardinality(CountedInFlight) \in Nat /\ Cardinality(CountedInFlight') \in Nat
      /\ Cardinality(CountedInFlight') =
           Cardinality(CountedInFlight) + (IF r \in CountedInFlight' THEN 1 ELSE 0)
                                        - (IF r \in CountedInFlight THEN 1 ELSE 0)
  BY <1>2, <1>3, DifferInOne
<1>6. observed' = Cardinality(Observed')
  BY <1>1, <1>4
<1>7. CountedInAll' = observed' + Cardinality(CountedInFlight')
  BY <1>1, <1>2, <1>4, <1>5, <1>6
<1>8. /\ counted' \in [Labels -> 0 .. Cardinality(Requests)]
      /\ Cardinality(Observed') \in 0 .. Cardinality(Requests)
  BY <1>2, <1>6, <1>7, CountersBounded DEF CountedInAll
<1> QED
  BY <1>6, <1>7, <1>8 DEF ObservedOnce, ObservationsMirrorCounts, Observed

-------------------------------------------------------------------------------
(* The parts of the invariant. *)

\* The rest of the type invariant.
LEMMA TypeKept ==
  ASSUME GatewayInv, Next,
         counted' \in [Labels -> 0 .. Cardinality(Requests)],
         observed' \in 0 .. Cardinality(Requests)
  PROVE  TypeOK'
<1> USE DEF GatewayInv, TypeOK, Progress
<1>1. ASSUME NEW r \in Requests, ServeReserved(r)
      PROVE  TypeOK'
  <2>1. ReservedStatus(r) \in Statuses
    BY DEF ReservedStatus, Statuses
  <2> QED
    BY <1>1, <2>1 DEF ServeReserved, inputs, metrics, redis
<1>2. ASSUME NEW r \in Requests, EnterMiddleware(r) \/ NoRoute(r) \/ Match(r)
      PROVE  TypeOK'
  <2>1. CASE EnterMiddleware(r)
    BY <2>1 DEF EnterMiddleware, inputs, redis
  <2>2. CASE NoRoute(r)
    BY <2>2 DEF NoRoute, Statuses, inputs, redis
  <2>3. CASE Match(r)
    BY <2>3 DEF Match, inputs, redis
  <2> QED
    BY <1>2, <2>1, <2>2, <2>3
<1>3. ASSUME NEW r \in Requests, NEW res \in Results, Decide(r, res)
      PROVE  TypeOK'
  BY <1>3 DEF Decide, inputs, redis
<1>4. ASSUME NEW r \in Requests,
             \/ Refuse(r) \/ UpstreamError(r)
             \/ \E code \in Upstream : Relay(r, code) \/ AbortBody(r, code)
      PROVE  TypeOK'
  <2>1. status' \in [Requests -> Statuses]
    <3>1. CASE Refuse(r) \/ UpstreamError(r)
      <4>1. PICK code \in {429, 499, 502, 503} : status' = [status EXCEPT ![r] = code]
        BY <3>1 DEF Refuse, UpstreamError
      <4>2. code \in Statuses
        BY DEF Statuses
      <4> QED
        BY <4>1, <4>2
    <3>2. CASE \E code \in Upstream : Relay(r, code) \/ AbortBody(r, code)
      <4>1. PICK code \in Upstream : status' = [status EXCEPT ![r] = code]
        BY <3>2 DEF Relay, AbortBody
      <4>2. code \in Statuses
        BY DEF Statuses
      <4> QED
        BY <4>1, <4>2
    <3> QED
      BY <1>4, <3>1, <3>2
  <2>2. /\ pc' = [pc EXCEPT ![r] = "finishing"]
        /\ UNCHANGED <<config, path, get, gone, routed, result, logged, redisUp, redisWasUp>>
        /\ forwarded' = forwarded
    BY <1>4 DEF Refuse, Relay, UpstreamError, AbortBody, inputs, redis
  <2> QED
    BY <2>1, <2>2
<1>5. ASSUME NEW r \in Requests, Forward(r) \/ HangUp(r)
      PROVE  TypeOK'
  <2>1. CASE Forward(r)
    BY <2>1 DEF Forward, inputs, redis
  <2>2. CASE HangUp(r)
    BY <2>2 DEF HangUp, inputs, redis
  <2> QED
    BY <1>5, <2>1, <2>2
<1>6. ASSUME NEW r \in Requests, Finish(r)
      PROVE  TypeOK'
  BY <1>6 DEF Finish, inputs, redis
<1>7. CASE RedisChanges
  <2>1. redisUp' \in BOOLEAN /\ redisWasUp' \in BOOLEAN
    BY <1>7 DEF RedisChanges
  <2> QED
    BY <1>7, <2>1 DEF RedisChanges, inputs, metrics
<1>8. CASE UNCHANGED vars
  BY <1>8 DEF vars, inputs, metrics, redis
<1> QED
  BY <1>1, <1>2, <1>3, <1>4, <1>5, <1>6, <1>7, <1>8 DEF Next

LEMMA ProgressNext ==
  ASSUME GatewayInv, Next
  PROVE  Progress' /\ PolicyDecides'
<1> USE DEF GatewayInv, TypeOK, Progress, PolicyDecides, Refuses, onError
<1>1. ASSUME NEW r \in Requests, ServeReserved(r)
      PROVE  Progress' /\ PolicyDecides'
  BY <1>1 DEF ServeReserved, inputs
<1>2. ASSUME NEW r \in Requests, EnterMiddleware(r) \/ NoRoute(r) \/ Match(r)
      PROVE  Progress' /\ PolicyDecides'
  BY <1>2 DEF EnterMiddleware, NoRoute, Match, inputs
<1>3. ASSUME NEW r \in Requests, NEW res \in Results, Decide(r, res)
      PROVE  Progress' /\ PolicyDecides'
  BY <1>3 DEF Decide, inputs, Results
<1>4. ASSUME NEW r \in Requests, Refuse(r)
      PROVE  Progress' /\ PolicyDecides'
  BY <1>4 DEF Refuse, inputs, Failed
<1>5. ASSUME NEW r \in Requests, Forward(r)
      PROVE  Progress' /\ PolicyDecides'
  BY <1>5 DEF Forward, inputs, Failed, Results, Configs
<1>6. ASSUME NEW r \in Requests, UpstreamError(r)
      PROVE  Progress' /\ PolicyDecides'
  BY <1>6 DEF UpstreamError, inputs
<1>7. ASSUME NEW r \in Requests, NEW code \in Upstream, Relay(r, code) \/ AbortBody(r, code)
      PROVE  Progress' /\ PolicyDecides'
  BY <1>7 DEF Relay, AbortBody, inputs
<1>8. ASSUME NEW r \in Requests, Finish(r) \/ HangUp(r)
      PROVE  Progress' /\ PolicyDecides'
  BY <1>8 DEF Finish, HangUp, inputs
<1>9. CASE RedisChanges \/ UNCHANGED vars
  BY <1>9 DEF RedisChanges, vars, inputs
<1> QED
  BY <1>1, <1>2, <1>3, <1>4, <1>5, <1>6, <1>7, <1>8, <1>9 DEF Next

LEMMA CountersNext ==
  ASSUME GatewayInv, Next
  PROVE  /\ ObservedOnce' /\ ObservationsMirrorCounts'
         /\ counted' \in [Labels -> 0 .. Cardinality(Requests)]
         /\ observed' \in 0 .. Cardinality(Requests)
<1> DEFINE Goal == /\ ObservedOnce' /\ ObservationsMirrorCounts'
                   /\ counted' \in [Labels -> 0 .. Cardinality(Requests)]
                   /\ observed' \in 0 .. Cardinality(Requests)
<1>t. /\ pc \in [Requests -> {"new", "middleware", "deciding", "decided", "proxying",
                            "finishing", "done"}]
      /\ routed \in [Requests -> BOOLEAN] /\ result \in [Requests -> Results \cup {"none"}]
      /\ Progress
  BY DEF GatewayInv, TypeOK
<1>n. counted \in [Labels -> Nat] /\ observed \in Nat /\ CountedInAll \in Nat
  <2>1. counted \in [Labels -> Nat] /\ observed \in Nat
    BY RequestsAssumption, FS_CardinalityType DEF GatewayInv, TypeOK
  <2> QED
    BY <2>1 DEF CountedInAll, Labels
<1>1. ASSUME NEW r \in Requests, MovesOnly(r), UNCHANGED <<counted, observed>>,
             r \in CountedInFlight' <=> r \in CountedInFlight,
             r \in Observed' <=> r \in Observed
      PROVE  Goal
  <2>1. CountedInAll' = CountedInAll
    BY <1>1 DEF CountedInAll
  <2> QED
    BY <1>1, <1>n, <2>1, CountersFollow
<1>2. ASSUME NEW r \in Requests, ServeReserved(r) \/ EnterMiddleware(r) \/ NoRoute(r) \/ Match(r)
      PROVE  Goal
  <2>1. MovesOnly(r) /\ UNCHANGED <<counted, observed>>
    BY <1>2, <1>t DEF ServeReserved, EnterMiddleware, NoRoute, Match, MovesOnly, metrics
  <2>2. r \notin CountedInFlight' /\ r \notin CountedInFlight
    BY <1>2, <1>t DEF ServeReserved, EnterMiddleware, NoRoute, Match, CountedInFlight, Progress
  <2>3. r \notin Observed' /\ r \notin Observed
    BY <1>2, <1>t DEF ServeReserved, EnterMiddleware, NoRoute, Match, Observed, Progress
  <2> QED
    BY <1>1, <2>1, <2>2, <2>3
<1>3. ASSUME NEW r \in Requests, NEW res \in Results, Decide(r, res)
      PROVE  Goal
  <2> DEFINE l == decisionLabel(res)
  <2>1. l \in Labels
    BY LabelKnown
  <2>2. /\ MovesOnly(r) /\ observed' = observed
        /\ counted' = [counted EXCEPT ![l] = @ + 1]
    BY <1>3, <1>t DEF Decide, MovesOnly
  <2>3. r \in CountedInFlight' /\ r \notin CountedInFlight /\ r \notin Observed' /\ r \notin Observed
    BY <1>3, <1>t DEF Decide, CountedInFlight, Observed, Progress
  <2> HIDE DEF l
  <2>4. counted' \in [Labels -> Nat] /\ CountedInAll' = CountedInAll + 1
    BY <1>n, <2>1, <2>2 DEF CountedInAll, Labels
  <2> QED
    BY <1>n, <2>2, <2>3, <2>4, CountersFollow
<1>4. ASSUME NEW r \in Requests,
             \/ Refuse(r) \/ Forward(r) \/ UpstreamError(r)
             \/ \E code \in Upstream : Relay(r, code) \/ AbortBody(r, code)
      PROVE  Goal
  <2>1. /\ routed' = routed /\ UNCHANGED <<counted, observed>>
        /\ pc[r] \in {"decided", "proxying"}
        /\ \E p \in {"proxying", "finishing"} : pc' = [pc EXCEPT ![r] = p]
    BY <1>4 DEF Refuse, Forward, Relay, UpstreamError, AbortBody, metrics
  <2>2. MovesOnly(r)
    BY <1>t, <2>1 DEF MovesOnly
  <2>3. /\ r \in CountedInFlight' /\ r \in CountedInFlight
        /\ r \notin Observed' /\ r \notin Observed
    BY <1>t, <2>1 DEF CountedInFlight, Observed, Progress
  <2> QED
    BY <1>1, <2>1, <2>2, <2>3
<1>5. ASSUME NEW r \in Requests, Finish(r)
      PROVE  Goal
  <2>1. /\ MovesOnly(r) /\ counted' = counted
        /\ observed' = IF routed[r] THEN observed + 1 ELSE observed
    BY <1>5, <1>t DEF Finish, MovesOnly
  <2>2. /\ r \notin CountedInFlight' /\ (r \in CountedInFlight <=> routed[r])
        /\ (r \in Observed' <=> routed[r]) /\ r \notin Observed
    BY <1>5, <1>t DEF Finish, CountedInFlight, Observed
  <2>3. CountedInAll' = CountedInAll
    BY <2>1 DEF CountedInAll
  <2> QED
    BY <1>n, <2>1, <2>2, <2>3, CountersFollow
<1>6. ASSUME UNCHANGED <<pc, routed, counted, observed>>
      PROVE  Goal
  BY <1>6 DEF GatewayInv, TypeOK, ObservedOnce, ObservationsMirrorCounts, CountedInAll, CountedInFlight
<1>7. CASE (\E r \in Requests : HangUp(r)) \/ RedisChanges \/ UNCHANGED vars
  <2>1. UNCHANGED <<pc, routed, counted, observed>>
    BY <1>7 DEF HangUp, RedisChanges, vars, metrics
  <2> QED
    BY <1>6, <2>1
<1> QED
  BY <1>2, <1>3, <1>4, <1>5, <1>7 DEF Next

LEMMA NextInv == GatewayInv /\ [Next]_vars => GatewayInv'
<1> SUFFICES ASSUME GatewayInv, [Next]_vars
             PROVE  GatewayInv'
  OBVIOUS
<1>1. CASE Next
  BY <1>1, CountersNext, TypeKept, ProgressNext DEF GatewayInv
<1>2. CASE UNCHANGED vars
  BY <1>2 DEF GatewayInv, TypeOK, Progress, ObservedOnce, ObservationsMirrorCounts, CountedInAll,
              CountedInFlight, PolicyDecides, Refuses, onError, vars, inputs, metrics, redis
<1> QED
  BY <1>1, <1>2

-------------------------------------------------------------------------------
\* The inductive invariant of the request path (handler.go, middleware.go,
\* gateway.go): types, what is known of a request at each point, and the two
\* invariants below.
THEOREM GatewayInvariant == Spec => []GatewayInv
  BY InitInv, NextInv, PTL DEF Spec

\* The duration histogram lags the request counter by exactly the requests under
\* way (gateway.go:109-113, middleware.go:56-59).
THEOREM ObservationsMirror == Spec => []ObservationsMirrorCounts
<1>1. GatewayInv => ObservationsMirrorCounts
  BY DEF GatewayInv
<1> QED
  BY <1>1, GatewayInvariant, PTL

\* on_error decides what becomes of a request without a verdict, and nothing
\* else does (gateway.go:115-136, handler.go:41-44).
THEOREM PolicyDecidesAlways == Spec => []PolicyDecides
<1>1. GatewayInv => PolicyDecides
  BY DEF GatewayInv
<1> QED
  BY <1>1, GatewayInvariant, PTL
================================================================================
