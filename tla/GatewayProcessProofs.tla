------------------------- MODULE GatewayProcessProofs -------------------------
(***************************************************************************)
(* The gateway process: the graceful drain for any set of requests, and    *)
(* what the compiled table, its limits and its routing are for any         *)
(* documents, paths, clients, decoding and fingerprint function.           *)
(***************************************************************************)
EXTENDS GatewayProcess, FiniteSetTheorems, SequenceTheorems, WellFoundedInduction, TLAPS

-------------------------------------------------------------------------------
(* Lifecycle. *)

LEMMA InitInv == Init => LifecycleInv
  BY DEF Init, LifecycleInv, TypeOK, Underway, Quiet

\* The steps of the main goroutine leave the requests alone.
LEMMA MainInv ==
  ASSUME LifecycleInv,
         BootFails \/ Bind \/ BuildLimiter \/ BuildFails \/ Launch \/ ServeReturned
           \/ Shutdown \/ Drained \/ DrainTimesOut \/ CloseClient \/ Exit
  PROVE  LifecycleInv'
<1>1. Underway' = Underway
  BY DEF Underway, BootFails, Bind, BuildLimiter, BuildFails, Launch, ServeReturned,
         Shutdown, Drained, DrainTimesOut, CloseClient, Exit
<1>2. TypeOK'
  <2>1. CASE BootFails \/ Bind \/ BuildLimiter \/ BuildFails \/ Launch
    BY <2>1 DEF LifecycleInv, TypeOK, BootFails, Bind, BuildLimiter, BuildFails, Launch
  <2>2. CASE ServeReturned
    <3>1. failed' \in BOOLEAN
      BY <2>2 DEF ServeReturned
    <3> QED
      BY <2>2, <3>1 DEF LifecycleInv, TypeOK, ServeReturned
  <2>3. CASE Shutdown \/ Drained \/ DrainTimesOut
    BY <2>3 DEF LifecycleInv, TypeOK, Shutdown, Drained, DrainTimesOut
  <2>4. CASE CloseClient \/ Exit
    BY <2>4 DEF LifecycleInv, TypeOK, CloseClient, Exit
  <2> QED
    BY <2>1, <2>2, <2>3, <2>4
<1>3. CASE BootFails \/ Bind \/ BuildLimiter \/ BuildFails \/ Launch
  BY <1>1, <1>2, <1>3
  DEF LifecycleInv, TypeOK, Quiet, BootFails, Bind, BuildLimiter, BuildFails, Launch
<1>4. CASE ServeReturned
  BY <1>1, <1>2, <1>4 DEF LifecycleInv, TypeOK, Quiet, ServeReturned
<1>5. CASE Shutdown
  BY <1>1, <1>2, <1>5 DEF LifecycleInv, TypeOK, Quiet, Shutdown
<1>6. CASE Drained \/ DrainTimesOut
  BY <1>1, <1>2, <1>6 DEF LifecycleInv, TypeOK, Quiet, Drained, DrainTimesOut
<1>7. CASE CloseClient \/ Exit
  BY <1>1, <1>2, <1>7 DEF LifecycleInv, TypeOK, Quiet, CloseClient, Exit
<1> QED
  BY <1>3, <1>4, <1>5, <1>6, <1>7

\* The signal and the goroutine that runs Serve.
LEMMA ServerInv ==
  ASSUME LifecycleInv, Signal \/ Serve \/ ServeEnds \/ AcceptFails
  PROVE  LifecycleInv'
<1>1. Underway' = Underway
  BY DEF Underway, Signal, Serve, ServeEnds, AcceptFails
<1>2. TypeOK'
  BY DEF LifecycleInv, TypeOK, Signal, Serve, ServeEnds, AcceptFails
<1> QED
  BY <1>1, <1>2 DEF LifecycleInv, TypeOK, Quiet, Alive, Signal, Serve, ServeEnds, AcceptFails

\* Requests: a new one needs an open listener, so none starts in a quiet state.
LEMMA RequestInv ==
  ASSUME LifecycleInv, NEW r \in Requests,
         Accept(r) \/ RefuseConnection(r) \/ Decide(r) \/ Answer(r)
  PROVE  LifecycleInv'
<1>1. TypeOK'
  BY DEF LifecycleInv, TypeOK, Accept, RefuseConnection, Decide, Answer
<1>2. CASE Accept(r)
  <2>1. server = "serving" /\ listener = "open" /\ main # "exited"
    BY <1>2 DEF Accept, Alive
  <2>2. UNCHANGED <<main, listener, server, errCh, signalled, client, failed, timedOut>>
    BY <1>2 DEF Accept
  <2> QED
    BY <1>1, <2>1, <2>2 DEF LifecycleInv, TypeOK, Quiet
<1>3. CASE RefuseConnection(r) \/ Decide(r) \/ Answer(r)
  <2>1. \A q \in Requests : request'[q] \in {"deciding", "proxying"}
                              => request[q] \in {"deciding", "proxying"}
    BY <1>3 DEF LifecycleInv, TypeOK, RefuseConnection, Decide, Answer
  <2>2. Underway = {} => Underway' = {}
    BY <2>1 DEF Underway
  <2>3. UNCHANGED <<main, listener, server, errCh, signalled, client, failed, timedOut>>
    BY <1>3 DEF RefuseConnection, Decide, Answer
  <2> QED
    BY <1>1, <2>2, <2>3 DEF LifecycleInv, TypeOK, Quiet
<1> QED
  BY <1>2, <1>3

\* LifecycleInv tells the exit paths of serve (main.go:63-132) apart and is
\* preserved by every step of every goroutine.
THEOREM LifecycleInvariant == Spec => []LifecycleInv
<1>1. Init => LifecycleInv
  BY InitInv
<1>2. LifecycleInv /\ [Next]_vars => LifecycleInv'
  <2> SUFFICES ASSUME LifecycleInv, [Next]_vars PROVE LifecycleInv'
    OBVIOUS
  <2>1. CASE UNCHANGED vars
    BY <2>1 DEF vars, LifecycleInv, TypeOK, Underway, Quiet
  <2>2. CASE Next
    BY <2>1, <2>2, MainInv, ServerInv, RequestInv DEF Next, Running
  <2> QED
    BY <2>1, <2>2
<1> QED
  BY <1>1, <1>2, PTL DEF Spec

\* The deferred Close of the redis client (main.go:84-88) never pulls it from
\* under a request, unless Serve failed or the shutdown timeout ran out.
THEOREM DrainKeepsClientHolds == Spec => []DrainKeepsClient
<1>1. LifecycleInv => DrainKeepsClient
  BY DEF LifecycleInv, DrainKeepsClient, Quiet
<1> QED
  BY <1>1, LifecycleInvariant, PTL

-------------------------------------------------------------------------------
(* Sorting. *)

LEMMA LeastOf ==
  ASSUME NEW S \in SUBSET Nat, S # {}
  PROVE  \E x \in S : \A y \in S : x <= y
<1>1. PICK x \in S : \A y \in S : ~(<<y, x>> \in OpToRel(<, Nat))
  BY NatLessThanWellFounded, WFMin
<1>2. \A y \in S : ~(y < x)
  BY <1>1 DEF OpToRel
<1> QED
  BY <1>2

\* R orders the elements of D.
Orders(R, D) ==
  /\ \A x, y \in D : x # y => <<x, y>> \in R \/ <<y, x>> \in R
  /\ \A x, y, z \in D : <<x, y>> \in R /\ <<y, z>> \in R => <<x, z>> \in R

First(R, S, x) == \A y \in S : y # x => <<x, y>> \in R

LEMMA FirstOf ==
  ASSUME NEW D, NEW R, Orders(R, D), NEW A \in SUBSET D, IsFiniteSet(A), A # {}
  PROVE  \E x \in A : First(R, A, x)
<1> DEFINE Bad(S) == IsFiniteSet(S) /\ S # {} /\ \A x \in S : ~First(R, S, x)
           T == {n \in Nat : \E S \in SUBSET D : Bad(S) /\ Cardinality(S) = n}
<1> SUFFICES ASSUME Bad(A)
             PROVE  FALSE
  OBVIOUS
<1>1. Cardinality(A) \in T
  BY FS_CardinalityType
<1>2. PICK n \in T : \A m \in T : n <= m
  <2>1. T \in SUBSET Nat /\ T # {}
    BY <1>1
  <2> HIDE DEF T
  <2> QED
    BY <2>1, LeastOf
<1>3. PICK S \in SUBSET D : Bad(S) /\ Cardinality(S) = n
  OBVIOUS
<1>4. PICK e \in S : TRUE
  BY <1>3
<1> DEFINE U == S \ {e}
<1>5. IsFiniteSet(U) /\ Cardinality(U) = n - 1 /\ n \in Nat
  BY <1>3, <1>4, FS_RemoveElement
<1>6. ~Bad(U)
  <2> SUFFICES ASSUME Bad(U)
               PROVE  FALSE
    OBVIOUS
  <2>1. n - 1 \in Nat
    BY <1>5, FS_CardinalityType
  <2>2. n - 1 \in T
    BY <1>5, <2>1
  <2>3. n <= n - 1
    <3> HIDE DEF T
    <3> QED
      BY <1>2, <2>2
  <2> QED
    BY <1>5, <2>3
<1>7. U # {}
  <2> SUFFICES ASSUME U = {}
               PROVE  FALSE
    OBVIOUS
  <2>1. First(R, S, e)
    BY DEF First
  <2> QED
    BY <1>3, <1>4, <2>1
<1>8. PICK x \in U : First(R, U, x)
  BY <1>5, <1>6, <1>7
<1>9. e \in D /\ x \in D /\ x # e /\ x \in S
  BY <1>3, <1>4
<1>10. CASE <<x, e>> \in R
  <2>1. First(R, S, x)
    BY <1>8, <1>10 DEF First
  <2> QED
    BY <1>3, <1>9, <2>1
<1>11. CASE <<e, x>> \in R
  <2>1. First(R, S, e)
    <3> SUFFICES ASSUME NEW y \in S, y # e
                 PROVE  <<e, y>> \in R
      BY DEF First
    <3>1. y \in U /\ y \in D
      OBVIOUS
    <3>2. CASE y = x
      BY <1>11, <3>2
    <3>3. CASE y # x
      <4>1. <<x, y>> \in R
        BY <1>8, <3>1, <3>3 DEF First
      <4> QED
        BY <1>9, <1>11, <3>1, <4>1 DEF Orders
    <3> QED
      BY <3>2, <3>3
  <2> QED
    BY <1>3, <1>4, <2>1
<1> QED
  BY <1>9, <1>10, <1>11 DEF Orders

\* The function f lists S in the order R.
Lists(R, S, n, f) ==
  f \in Bijection(1 .. n, S) /\ \A i, j \in 1 .. n : i < j => <<f[i], f[j]>> \in R

\* Every finite set can be sorted.
LEMMA Sorted ==
  ASSUME NEW D, NEW R, Orders(R, D), NEW A \in SUBSET D, IsFiniteSet(A)
  PROVE  \E f : Lists(R, A, Cardinality(A), f)
<1> DEFINE Bad(S) == IsFiniteSet(S) /\ \A f : ~Lists(R, S, Cardinality(S), f)
           T == {n \in Nat : \E S \in SUBSET D : Bad(S) /\ Cardinality(S) = n}
<1> SUFFICES ASSUME Bad(A)
             PROVE  FALSE
  OBVIOUS
<1>1. Cardinality(A) \in T
  BY FS_CardinalityType
<1>2. PICK n \in T : \A m \in T : n <= m
  <2>1. T \in SUBSET Nat /\ T # {}
    BY <1>1
  <2> HIDE DEF T
  <2> QED
    BY <2>1, LeastOf
<1>3. PICK S \in SUBSET D : Bad(S) /\ Cardinality(S) = n
  OBVIOUS
<1>4. n \in Nat /\ IsFiniteSet(S)
  BY <1>3
<1>5. S # {}
  <2> SUFFICES ASSUME S = {}
               PROVE  FALSE
    OBVIOUS
  <2> DEFINE f == [i \in 1 .. 0 |-> 0]
  <2>1. n = 0
    BY <1>3, FS_EmptySet
  <2>2. Lists(R, S, n, f)
    BY <2>1 DEF Lists, Bijection, Injection, Surjection, IsInjective
  <2> QED
    BY <1>3, <2>2
<1>6. PICK e \in S : First(R, S, e)
  BY <1>4, <1>5, FirstOf
<1> DEFINE U == S \ {e}
           p == n - 1
<1>7. IsFiniteSet(U) /\ Cardinality(U) = p /\ p \in Nat
  <2>1. IsFiniteSet(U) /\ Cardinality(U) = Cardinality(S) - 1
    BY <1>4, <1>6, FS_RemoveElement
  <2>2. Cardinality(U) \in Nat
    <3> HIDE DEF U
    <3> QED
      BY <2>1, FS_CardinalityType
  <2> QED
    BY <1>3, <2>1, <2>2
<1>8. ~Bad(U)
  <2> SUFFICES ASSUME Bad(U)
               PROVE  FALSE
    OBVIOUS
  <2>1. p \in T
    BY <1>7
  <2>2. n <= p
    <3> HIDE DEF T
    <3> QED
      BY <1>2, <2>1
  <2> QED
    BY <1>4, <2>2
<1>9. PICK f : Lists(R, U, p, f)
  BY <1>7, <1>8
<1>10. /\ f \in [1 .. p -> U]
       /\ \A i, j \in 1 .. p : f[i] = f[j] => i = j
       /\ \A u \in U : \E i \in 1 .. p : f[i] = u
       /\ \A i, j \in 1 .. p : i < j => <<f[i], f[j]>> \in R
  <2>1. f \in Injection(1 .. p, U) /\ f \in Surjection(1 .. p, U)
    BY <1>9 DEF Lists, Bijection
  <2>2. DOMAIN f = 1 .. p
    BY <2>1 DEF Injection
  <2> HIDE DEF p, U
  <2> QED
    BY <1>9, <2>1, <2>2 DEF Lists, Injection, Surjection, IsInjective
<1> DEFINE g == [i \in 1 .. n |-> IF i = 1 THEN e ELSE f[i - 1]]
<1>11. \A i \in 1 .. n : /\ i # 1 => i - 1 \in 1 .. p /\ g[i] = f[i - 1] /\ g[i] \in U
                         /\ i = 1 => g[i] = e
  BY <1>4, <1>10
<1>12. g \in [1 .. n -> S] /\ DOMAIN g = 1 .. n
  BY <1>6, <1>11
<1>13. \A i, j \in 1 .. n : g[i] = g[j] => i = j
  <2> SUFFICES ASSUME NEW i \in 1 .. n, NEW j \in 1 .. n, g[i] = g[j]
               PROVE  i = j
    OBVIOUS
  <2> HIDE DEF g, p
  <2>1. CASE i = 1 \/ j = 1
    BY <1>11, <2>1
  <2>2. CASE i # 1 /\ j # 1
    <3>1. i - 1 \in 1 .. p /\ j - 1 \in 1 .. p /\ f[i - 1] = f[j - 1]
      BY <1>11, <2>2
    <3>2. i - 1 = j - 1
      BY <1>10, <3>1
    <3> QED
      BY <3>2
  <2> QED
    BY <2>1, <2>2
<1>14. \A s \in S : \E i \in 1 .. n : g[i] = s
  <2> TAKE s \in S
  <2>1. CASE s = e
    <3>1. 1 \in 1 .. n
      BY <1>4, <1>7
    <3> QED
      BY <1>11, <2>1, <3>1
  <2>2. CASE s # e
    <3>1. PICK i \in 1 .. p : f[i] = s
      BY <1>10, <2>2
    <3>2. i + 1 \in 1 .. n /\ (i + 1) - 1 = i /\ i + 1 # 1
      BY <1>4
    <3> HIDE DEF g
    <3>3. g[i + 1] = f[(i + 1) - 1]
      BY <1>11, <3>2
    <3> QED
      BY <3>1, <3>2, <3>3
  <2> QED
    BY <2>1, <2>2
<1>15. \A i, j \in 1 .. n : i < j => <<g[i], g[j]>> \in R
  <2> SUFFICES ASSUME NEW i \in 1 .. n, NEW j \in 1 .. n, i < j
               PROVE  <<g[i], g[j]>> \in R
    OBVIOUS
  <2>1. j # 1
    OBVIOUS
  <2> HIDE DEF g, p
  <2>2. CASE i = 1
    <3>1. g[i] = e /\ g[j] \in U
      BY <1>11, <2>1, <2>2
    <3> QED
      BY <1>6, <3>1 DEF First
  <2>3. CASE i # 1
    <3>1. i - 1 \in 1 .. p /\ j - 1 \in 1 .. p /\ g[i] = f[i - 1] /\ g[j] = f[j - 1]
      BY <1>11, <2>1, <2>3
    <3>2. i - 1 < j - 1
      OBVIOUS
    <3> QED
      BY <1>10, <3>1, <3>2
  <2> QED
    BY <2>2, <2>3
<1>16. Lists(R, S, n, g)
  <2> HIDE DEF g
  <2> QED
    BY <1>12, <1>13, <1>14, <1>15 DEF Lists, Bijection, Injection, Surjection, IsInjective
<1> QED
  BY <1>3, <1>16

-------------------------------------------------------------------------------
(* The table. *)

LEMMA MaxFacts ==
  ASSUME NEW n \in Nat, NEW S \in SUBSET (1 .. n), S # {}
  PROVE  Max(S) \in S /\ \A y \in S : Max(S) >= y
<1> DEFINE T == {t \in 0 .. n : n - t \in S}
<1>1. T \in SUBSET Nat /\ T # {}
  <2>1. PICK s \in S : TRUE
    OBVIOUS
  <2>2. n - s \in 0 .. n /\ n - (n - s) = s
    BY <2>1
  <2>3. n - s \in T
    BY <2>1, <2>2
  <2>4. T \in SUBSET Nat
    OBVIOUS
  <2> QED
    BY <2>3, <2>4
<1>2. PICK t \in T : \A u \in T : t <= u
  <2> HIDE DEF T
  <2> QED
    BY <1>1, LeastOf
<1>3. \A y \in S : n - y \in T
  OBVIOUS
<1>4. n - t \in S /\ \A y \in S : n - t >= y
  BY <1>2, <1>3
<1> QED
  BY <1>4 DEF Max

\* A rooted prefix keeps at least its first segment.
LEMMA TrimRightLen ==
  ASSUME NEW path \in Seq(STRING), Rooted(path)
  PROVE  Len(TrimRight(path)) \in Nat
<1>0. Len(path) \in Nat /\ Len(path) > 1
  <2>1. Len(path) \in Nat
    OBVIOUS
  <2>2. Len(path) > 1
    BY DEF Rooted
  <2> QED
    BY <2>1, <2>2
<1> DEFINE I == {i \in 1 .. Len(path) : path[i] # ""}
           last == SelectLastInSeq(path, LAMBDA segment : segment # "")
           keep == IF last = 0 THEN 1 ELSE last
<1>1. last = IF I # {} THEN Max(I) ELSE 0
  BY DEF SelectLastInSeq
<1>2. keep \in 1 .. Len(path)
  <2>1. I # {} => Max(I) \in I
    <3>1. I \in SUBSET (1 .. Len(path))
      OBVIOUS
    <3> HIDE DEF I
    <3> QED
      BY <1>0, <3>1, MaxFacts
  <2>2. 1 \in 1 .. Len(path)
    BY <1>0
  <2> HIDE DEF last
  <2> QED
    BY <1>1, <2>1, <2>2
<1>3. TrimRight(path) = SubSeq(path, 1, keep)
  BY DEF TrimRight
<1> HIDE DEF keep
<1>4. Len(SubSeq(path, 1, keep)) = keep
  BY <1>2
<1> QED
  BY <1>2, <1>3, <1>4

\* A list of routes that validates.
ValidRoutes(routes, n) ==
  /\ DOMAIN routes = 1 .. n
  /\ \A i \in 1 .. n : routes[i].prefix \in Seq(STRING) /\ ValidRoute(routes[i])
  /\ Unique(routes)

\* sort.SliceStable permutes the routes (table.go:24-36), none is lost and none
\* is there twice, and puts them in order.
LEMMA OrderPermutes ==
  ASSUME NEW n \in Nat, NEW routes, ValidRoutes(routes, n)
  PROVE  /\ Order(routes) \in Bijection(1 .. n, 1 .. n)
         /\ \A i, j \in 1 .. n :
              i < j => Before(routes, Order(routes)[i], Order(routes)[j])
<1> DEFINE D == 1 .. n
           L(k) == Len(TrimRight(routes[k].prefix))
           R == {p \in D \X D : Before(routes, p[1], p[2])}
<1>1. \A k \in D : L(k) \in Nat
  BY TrimRightLen DEF ValidRoutes, ValidRoute
<1>2. \A i, j \in D : Before(routes, i, j) <=> L(i) > L(j) \/ (L(i) = L(j) /\ i < j)
  BY DEF Before, Entry
<1>3. \A i, j \in D : <<i, j>> \in R <=> Before(routes, i, j)
  OBVIOUS
<1>4. Orders(R, D)
  <2> HIDE DEF L, R
  <2>1. \A x, y \in D : x # y => <<x, y>> \in R \/ <<y, x>> \in R
    BY <1>1, <1>2, <1>3
  <2>2. ASSUME NEW x \in D, NEW y \in D, NEW z \in D, <<x, y>> \in R, <<y, z>> \in R
        PROVE  <<x, z>> \in R
    <3>1. L(x) \in Nat /\ L(y) \in Nat /\ L(z) \in Nat
      BY <1>1
    <3>2. L(x) > L(y) \/ (L(x) = L(y) /\ x < y)
      BY <1>2, <1>3, <2>2
    <3>3. L(y) > L(z) \/ (L(y) = L(z) /\ y < z)
      BY <1>2, <1>3, <2>2
    <3>4. L(x) > L(z) \/ (L(x) = L(z) /\ x < z)
      BY <3>1, <3>2, <3>3
    <3> QED
      BY <1>2, <1>3, <3>4
  <2> QED
    BY <2>1, <2>2 DEF Orders
<1>5. IsFiniteSet(D) /\ Cardinality(D) = n
  <2>1. IsFiniteSet(1 .. n) /\ Cardinality(1 .. n) = IF 1 > n THEN 0 ELSE n - 1 + 1
    BY FS_Interval
  <2> QED
    BY <2>1
<1>6. PICK f : Lists(R, D, n, f)
  <2>1. \E f : Lists(R, D, Cardinality(D), f)
    <3> HIDE DEF D, R
    <3> QED
      BY <1>4, <1>5, Sorted
  <2> QED
    BY <1>5, <2>1
<1>7. f \in Bijection(D, D) /\ \A i, j \in D : i < j => Before(routes, f[i], f[j])
  <2>1. f \in Bijection(D, D) /\ \A i, j \in D : i < j => <<f[i], f[j]>> \in R
    BY <1>6 DEF Lists
  <2> QED
    BY <2>1
<1>8. DOMAIN routes = D
  BY DEF ValidRoutes
<1> HIDE DEF D
<1> QED
  BY <1>7, <1>8 DEF Order, D

\* What the rest of the proof uses of a table.
LEMMA TableFacts ==
  ASSUME NEW n \in Nat, NEW routes, ValidRoutes(routes, n)
  PROVE  LET t == NewTable(routes)
         IN  /\ DOMAIN t = 1 .. n
             /\ \A i \in 1 .. n : \E k \in 1 .. n : t[i] = Entry(routes[k])
             /\ \A i, j \in 1 .. n : t[i].prefix = t[j].prefix => i = j
<1> DEFINE f == Order(routes)
<1>1. /\ f \in [1 .. n -> 1 .. n]
      /\ \A i, j \in 1 .. n : f[i] = f[j] => i = j
  <2>1. f \in Injection(1 .. n, 1 .. n)
    BY OrderPermutes DEF Bijection
  <2> HIDE DEF f
  <2> QED
    BY <2>1 DEF Injection, IsInjective
<1>2. NewTable(routes) = [i \in 1 .. n |-> Entry(routes[f[i]])]
  BY DEF NewTable, ValidRoutes
<1> HIDE DEF f
<1>3. ASSUME NEW i \in 1 .. n, NEW j \in 1 .. n,
             NewTable(routes)[i].prefix = NewTable(routes)[j].prefix
      PROVE  i = j
  <2>1. TrimRight(routes[f[i]].prefix) = TrimRight(routes[f[j]].prefix)
    BY <1>2, <1>3 DEF Entry
  <2>2. f[i] = f[j]
    BY <1>1, <2>1 DEF ValidRoutes, Unique
  <2> QED
    BY <1>1, <2>2
<1> QED
  BY <1>1, <1>2, <1>3

-------------------------------------------------------------------------------
(* The process with its configuration. *)

\* Each process step is a step of Lifecycle.
LEMMA ProcessStep == [ProcessNext]_processVars => [Next]_vars
<1> SUFFICES ASSUME [ProcessNext]_processVars
             PROVE  [Next]_vars
  OBVIOUS
<1>1. CASE LoadFails
  BY <1>1 DEF LoadFails, Next
<1>2. CASE Load
  BY <1>2 DEF Load, Next
<1>3. CASE NewLimiter
  BY <1>3 DEF NewLimiter, Next
<1>4. CASE NewHandler
  BY <1>4 DEF NewHandler, Next
<1>5. CASE Running
  BY <1>5 DEF Next
<1>6. CASE UNCHANGED processVars
  BY <1>6 DEF processVars
<1> QED
  BY <1>1, <1>2, <1>3, <1>4, <1>5, <1>6 DEF ProcessNext

\* The configured process (main.go with config.Load, limiter.New and
\* proxy.NewHandler) is a process of Lifecycle: what is proved of the drain
\* holds of it.
THEOREM ProcessImplementsLifecycle == ProcessSpec => Spec
<1>1. ProcessInit => Init
  BY DEF ProcessInit
<1> QED
  BY <1>1, ProcessStep, PTL DEF ProcessSpec, Spec

\* The document until it is loaded; then a Config that validates.
ConfigInv ==
  /\ main = "boot" => cfg \in Documents
  /\ main \in {"bound", "built"} => IsDocument(cfg) /\ validate(cfg)

LEMMA DefaultsDocument ==
  ASSUME NEW d, IsDocument(d)
  PROVE  IsDocument(applyDefaults(d))
<1> DEFINE routes == [i \in DOMAIN d.routes |->
                        [d.routes[i] EXCEPT !.limit = withDefaults(@)]]
           e == applyDefaults(d)
<1>1. "routes" \in DOMAIN e /\ e.routes = routes
  BY DEF applyDefaults, IsDocument
<1>2. PICK n \in Nat : DOMAIN d.routes = 1 .. n
  <2>1. d.routes \in Seq(Range(d.routes))
    BY DEF IsDocument
  <2> QED
    BY <2>1
<1>3. routes \in Seq(Range(routes))
  <2>1. DOMAIN routes = 1 .. n /\ \A i \in 1 .. n : routes[i] \in Range(routes)
    BY <1>2 DEF Range
  <2>2. routes = [i \in 1 .. n |-> routes[i]]
    BY <1>2
  <2> HIDE DEF routes
  <2> QED
    BY <2>1, <2>2
<1>4. \A i \in DOMAIN routes :
        "prefix" \in DOMAIN routes[i] /\ routes[i].prefix \in Seq(STRING)
  BY DEF IsDocument
<1> HIDE DEF routes
<1> QED
  BY <1>1, <1>3, <1>4 DEF IsDocument

\* Nothing changes the configuration between Load and NewHandler.
LEMMA ProcessInvariant == ProcessSpec => []ConfigInv
<1>1. ProcessInit => ConfigInv
  BY DEF ProcessInit, Init, ConfigInv
<1>2. ConfigInv /\ [ProcessNext]_processVars => ConfigInv'
  <2> SUFFICES ASSUME ConfigInv, [ProcessNext]_processVars
               PROVE  ConfigInv'
    OBVIOUS
  <2>1. CASE LoadFails
    BY <2>1 DEF LoadFails, BootFails, ConfigInv
  <2>2. CASE Load
    <3>1. main = "boot" /\ main' = "bound" /\ cfg' = applyDefaults(cfg) /\ validate(cfg')
      BY <2>2 DEF Load, Bind
    <3>2. IsDocument(cfg)
      BY <3>1, DocumentAssumption DEF ConfigInv
    <3>3. IsDocument(cfg')
      BY <3>1, <3>2, DefaultsDocument
    <3> QED
      BY <3>1, <3>3 DEF ConfigInv
  <2>3. CASE NewLimiter
    BY <2>3 DEF NewLimiter, BuildLimiter, ConfigInv
  <2>4. CASE NewHandler
    BY <2>4 DEF NewHandler, Launch, ConfigInv
  <2>5. CASE Running /\ UNCHANGED <<cfg, table>>
    <3>1. main' = main \/ main' \notin {"boot", "bound", "built"}
      <4>1. CASE ServeReturned \/ Shutdown \/ Drained \/ DrainTimesOut \/ Exit
        BY <4>1 DEF ServeReturned, Shutdown, Drained, DrainTimesOut, Exit
      <4>2. CASE CloseClient \/ Signal \/ Serve \/ ServeEnds \/ AcceptFails
        BY <4>2 DEF CloseClient, Signal, Serve, ServeEnds, AcceptFails
      <4>3. ASSUME NEW r \in Requests,
                   Accept(r) \/ RefuseConnection(r) \/ Decide(r) \/ Answer(r)
            PROVE  main' = main
        BY <4>3 DEF Accept, RefuseConnection, Decide, Answer
      <4> QED
        BY <2>5, <4>1, <4>2, <4>3 DEF Running, vars
    <3> QED
      BY <2>5, <3>1 DEF ConfigInv
  <2>6. CASE UNCHANGED processVars
    BY <2>6 DEF processVars, vars, ConfigInv
  <2> QED
    BY <2>1, <2>2, <2>3, <2>4, <2>5, <2>6 DEF ProcessNext
<1> QED
  BY <1>1, <1>2, PTL DEF ProcessSpec

\* Only NewHandler builds a table, and it has a validated configuration.
LEMMA BuiltFacts ==
  ASSUME ConfigInv, [ProcessNext]_processVars, Built
  PROVE  /\ cfg.backend \in {"memory", "redis"}
         /\ \E n \in Nat : ValidRoutes(cfg.routes, n) /\ table' = NewTable(cfg.routes)
<1>1. NewHandler
  BY DEF Built, ProcessNext, processVars, LoadFails, Load, NewLimiter
<1>2. IsDocument(cfg) /\ validate(cfg) /\ table' = NewTable(cfg.routes)
  BY <1>1 DEF NewHandler, Launch, ConfigInv
<1>3. PICK n \in Nat : DOMAIN cfg.routes = 1 .. n
  <2>1. cfg.routes \in Seq(Range(cfg.routes))
    BY <1>2 DEF IsDocument
  <2> QED
    BY <2>1
<1>4. ValidRoutes(cfg.routes, n)
  BY <1>2, <1>3 DEF ValidRoutes, IsDocument, validate
<1> QED
  BY <1>2, <1>4 DEF validate

\* A valid limit has its defaults.
LEMMA LimitForValid ==
  ASSUME NEW route, ValidRoute(route), NEW key
  PROVE  ValidLimit(LimitFor(route, key))
<1>1. CASE key \in DOMAIN route.overrides
  BY <1>1 DEF ValidRoute
<1>2. CASE key \notin DOMAIN route.overrides
  <2>1. LimitFor(route, key) = withDefaults(route.limit)
    BY <1>2 DEF LimitFor
  <2>2. ValidLimit(route.limit)
    BY DEF ValidRoute
  <2>3. route.limit.window # 0
    BY <2>2 DEF ValidLimit
  <2>4. withDefaults(route.limit) = route.limit
    BY <2>3 DEF withDefaults
  <2> QED
    BY <2>1, <2>2, <2>4
<1> QED
  BY <1>1, <1>2

\* The branches marked unreachable after validation (limiter.go:107,
\* gateway.go:64, memory.go:85, redis.go:153) are unreachable: whatever document
\* config.Load accepts, a client's merged limit on a route is a valid one.
THEOREM NothingLeftToFailHolds == ProcessSpec => NothingLeftToFail
<1> DEFINE Usable(limit) == /\ limit.algorithm \in Algorithms
                            /\ limit.rate > 0 /\ limit.window > 0
                            /\ limit.algorithm = "token_bucket" => limit.burst > 0
<1>1. ASSUME ConfigInv, [ProcessNext]_processVars, Built
      PROVE  /\ cfg.backend \in {"memory", "redis"}
             /\ \A i \in DOMAIN table', c \in Clients :
                  /\ table'[i].route.upstream # "unparseable"
                  /\ Usable(EffectiveLimit(table'[i], c))
  <2>1. cfg.backend \in {"memory", "redis"}
    BY <1>1, BuiltFacts
  <2>2. PICK n \in Nat : ValidRoutes(cfg.routes, n) /\ table' = NewTable(cfg.routes)
    BY <1>1, BuiltFacts
  <2>3. ASSUME NEW i \in DOMAIN table', NEW c \in Clients
        PROVE  /\ table'[i].route.upstream # "unparseable"
               /\ Usable(EffectiveLimit(table'[i], c))
    <3>1. PICK k \in 1 .. n : table'[i] = Entry(cfg.routes[k])
      <4>1. DOMAIN table' = 1 .. n
        BY <2>2, TableFacts
      <4>2. \A m \in 1 .. n : \E k \in 1 .. n : NewTable(cfg.routes)[m] = Entry(cfg.routes[k])
        BY <2>2, TableFacts
      <4> QED
        BY <2>2, <4>1, <4>2
    <3>2. table'[i].route = cfg.routes[k] /\ ValidRoute(cfg.routes[k])
      BY <2>2, <3>1 DEF Entry, ValidRoutes
    <3>3. table'[i].route.upstream # "unparseable"
      BY <3>2 DEF ValidRoute, Absolute
    <3>4. ValidLimit(EffectiveLimit(table'[i], c))
      BY <3>2, LimitForValid DEF EffectiveLimit
    <3>5. ASSUME NEW limit, ValidLimit(limit) PROVE Usable(limit)
      BY <3>5 DEF ValidLimit
    <3> QED
      BY <3>3, <3>4, <3>5
  <2> QED
    BY <2>1, <2>3
<1>2. ConfigInv /\ [ProcessNext]_processVars
        => [Built => /\ cfg.backend \in {"memory", "redis"}
                     /\ \A i \in DOMAIN table', c \in Clients :
                          LET limit == EffectiveLimit(table'[i], c)
                          IN  /\ table'[i].route.upstream # "unparseable"
                              /\ limit.algorithm \in Algorithms
                              /\ limit.rate > 0 /\ limit.window > 0
                              /\ limit.algorithm = "token_bucket" => limit.burst > 0]_processVars
  BY <1>1
<1> QED
  BY <1>2, ProcessInvariant, PTL DEF ProcessSpec, NothingLeftToFail

\* An identity's string tells clients apart, keys by their fingerprint
\* (identity.go).
LEMMA IdentityFacts ==
  ASSUME NEW c \in Clients, NEW d \in Clients
  PROVE  /\ SameClient(c, d) => IdentityFor(c) = IdentityFor(d)
         /\ IdentityString(IdentityFor(c)) = IdentityString(IdentityFor(d))
              => SameClient(c, d)
<1>1. SameClient(c, d) => IdentityFor(c) = IdentityFor(d)
  BY DEF SameClient, IdentityFor
<1>2. ASSUME IdentityString(IdentityFor(c)) = IdentityString(IdentityFor(d))
      PROVE  SameClient(c, d)
  <2>1. CASE c.key # "" /\ d.key # ""
    <3>1. Fingerprint(c.key) = Fingerprint(d.key)
      BY <1>2, <2>1 DEF IdentityString, IdentityFor
    <3> QED
      BY <2>1, <3>1, ProcessAssumption DEF SameClient
  <2>2. CASE c.key = "" /\ d.key = ""
    BY <1>2, <2>2 DEF IdentityString, IdentityFor, SameClient
  <2>3. CASE (c.key = "") # (d.key = "")
    BY <1>2, <2>3 DEF IdentityString, IdentityFor
  <2> QED
    BY <2>1, <2>2, <2>3
<1> QED
  BY <1>1, <1>2

\* gateway.go:97-103: for any routes that validate, two requests share a state
\* key exactly if they are from one client on one route, they are then measured
\* against one limit, and every route is proxied to its own upstream.
THEOREM QuotasSeparateHolds == ProcessSpec => QuotasSeparate
<1>1. ASSUME ConfigInv, [ProcessNext]_processVars, Built,
             NEW i \in DOMAIN table', NEW j \in DOMAIN table',
             NEW c \in Clients, NEW d \in Clients
      PROVE  /\ StateKey(table'[i], c) = StateKey(table'[j], d) <=> i = j /\ SameClient(c, d)
             /\ SameClient(c, d) => EffectiveLimit(table'[i], c) = EffectiveLimit(table'[i], d)
             /\ Proxies(table')[table'[i].prefix] = table'[i].route.upstream
  <2>1. PICK n \in Nat : ValidRoutes(cfg.routes, n) /\ table' = NewTable(cfg.routes)
    BY <1>1, BuiltFacts
  <2>2. /\ DOMAIN table' = 1 .. n
        /\ \A k \in 1 .. n : table'[i].prefix = table'[k].prefix => k = i
    BY <2>1, TableFacts
  <2>3. StateKey(table'[i], c) = StateKey(table'[j], d) => i = j /\ SameClient(c, d)
    <3> SUFFICES ASSUME StateKey(table'[i], c) = StateKey(table'[j], d)
                 PROVE  i = j /\ SameClient(c, d)
      OBVIOUS
    <3>1. /\ table'[i].prefix = table'[j].prefix
          /\ IdentityString(IdentityFor(c)) = IdentityString(IdentityFor(d))
      BY DEF StateKey
    <3> QED
      BY <2>2, <3>1, IdentityFacts
  <2>4. SameClient(c, d) => /\ EffectiveLimit(table'[i], c) = EffectiveLimit(table'[i], d)
                            /\ StateKey(table'[i], c) = StateKey(table'[i], d)
    BY IdentityFacts DEF EffectiveLimit, StateKey
  <2>5. Proxies(table')[table'[i].prefix] = table'[i].route.upstream
    <3>1. {k \in DOMAIN table' : table'[k].prefix = table'[i].prefix} = {i}
      BY <2>2
    <3>2. Max({i}) = i
      BY <2>2 DEF Max
    <3> QED
      BY <3>1, <3>2 DEF Proxies
  <2> QED
    BY <2>3, <2>4, <2>5
<1>2. ConfigInv /\ [ProcessNext]_processVars
        => [Built => \A i, j \in DOMAIN table', c, d \in Clients :
              /\ StateKey(table'[i], c) = StateKey(table'[j], d) <=> i = j /\ SameClient(c, d)
              /\ SameClient(c, d) => EffectiveLimit(table'[i], c) = EffectiveLimit(table'[i], d)
              /\ Proxies(table')[table'[i].prefix] = table'[i].route.upstream]_processVars
  BY <1>1
<1> QED
  BY <1>2, ProcessInvariant, PTL DEF ProcessSpec, QuotasSeparate

-------------------------------------------------------------------------------
(* Paths. *)

\* Induction up to n.
LEMMA Steps ==
  ASSUME NEW n \in Nat, NEW S, 0 \in S, \A i \in 0 .. n - 1 : i \in S => i + 1 \in S
  PROVE  \A i \in 0 .. n : i \in S
<1> DEFINE T == {i \in 0 .. n : i \notin S}
<1> SUFFICES ASSUME T # {}
             PROVE  FALSE
  OBVIOUS
<1>1. PICK x \in T : \A y \in T : x <= y
  <2>1. T \in SUBSET Nat
    OBVIOUS
  <2> HIDE DEF T
  <2> QED
    BY <2>1, LeastOf
<1>2. x \in 0 .. n /\ x \notin S /\ x # 0
  OBVIOUS
<1>3. x - 1 \in 0 .. n - 1 /\ (x - 1) + 1 = x /\ ~(x <= x - 1)
  BY <1>2
<1>4. x - 1 \notin T
  <2> HIDE DEF T
  <2> QED
    BY <1>1, <1>3
<1>5. x - 1 \in S
  BY <1>3, <1>4
<1> QED
  BY <1>2, <1>3, <1>5

\* Folding G over 1 .. n.
Folds(f, n, b, G) == f[0] = b /\ \A i \in 1 .. n : f[i] = G[i][f[i - 1]]

LEMMA FoldExists ==
  ASSUME NEW n \in Nat, NEW X, NEW b \in X, NEW G \in [1 .. n -> [X -> X]]
  PROVE  \E f \in [0 .. n -> X] : Folds(f, n, b, G)
<1> DEFINE S == {m \in 0 .. n : \E f \in [0 .. m -> X] : Folds(f, m, b, G)}
<1>1. 0 \in S
  <2> DEFINE f == [i \in 0 .. 0 |-> b]
  <2>1. f \in [0 .. 0 -> X] /\ Folds(f, 0, b, G)
    BY DEF Folds
  <2> QED
    BY <2>1
<1>2. ASSUME NEW m \in 0 .. n - 1, m \in S
      PROVE  m + 1 \in S
  <2>1. PICK f \in [0 .. m -> X] : Folds(f, m, b, G)
    BY <1>2
  <2> DEFINE g == [i \in 0 .. m + 1 |-> IF i <= m THEN f[i] ELSE G[m + 1][f[m]]]
  <2>2. m + 1 \in 1 .. n /\ m \in 0 .. m /\ m \in Nat
    OBVIOUS
  <2>3. G[m + 1][f[m]] \in X
    BY <2>2
  <2>4. /\ g \in [0 .. m + 1 -> X] /\ \A i \in 0 .. m : g[i] = f[i]
        /\ g[m + 1] = G[m + 1][f[m]]
    BY <2>2, <2>3
  <2> HIDE DEF g
  <2>5. g[0] = b
    BY <2>1, <2>2, <2>4 DEF Folds
  <2>6. ASSUME NEW i \in 1 .. m + 1
        PROVE  g[i] = G[i][g[i - 1]]
    <3>1. CASE i = m + 1
      <4>1. i - 1 = m
        BY <2>2, <3>1
      <4> QED
        BY <2>2, <2>4, <3>1, <4>1
    <3>2. CASE i # m + 1
      <4>1. i \in 1 .. m /\ i \in 0 .. m /\ i - 1 \in 0 .. m
        BY <2>2, <3>2
      <4>2. f[i] = G[i][f[i - 1]]
        BY <2>1, <4>1 DEF Folds
      <4> QED
        BY <2>4, <4>1, <4>2
    <3> QED
      BY <3>1, <3>2
  <2>7. Folds(g, m + 1, b, G)
    BY <2>5, <2>6 DEF Folds
  <2>8. m + 1 \in 0 .. n
    OBVIOUS
  <2> QED
    BY <2>4, <2>7, <2>8
<1> HIDE DEF S
<1>3. \A i \in 0 .. n : i \in S
  BY <1>1, <1>2, Steps
<1>4. n \in S
  BY <1>3
<1> QED
  BY <1>4 DEF S

Words == STRING

Texts == Seq(Words)

\* How Clean, Decoded and Segments go through a path: c is what they have after
\* each segment.
Cleans(c, path) ==
  /\ c \in [0 .. Len(path) -> Texts] /\ c[0] = << >>
  /\ \A i \in 1 .. Len(path) : c[i] = CleanStep(c[i - 1], path[i])

LEMMA CleanStepType ==
  ASSUME NEW acc \in Texts, NEW segment \in Words
  PROVE  CleanStep(acc, segment) \in Texts
<1>1. Append(acc, segment) \in Seq(Words)
  BY DEF Texts
<1>2. acc # << >> => Front(acc) \in Seq(Words)
  BY DEF Front, Texts
<1>3. \/ CleanStep(acc, segment) = acc
      \/ CleanStep(acc, segment) = Append(acc, segment)
      \/ acc # << >> /\ CleanStep(acc, segment) = Front(acc)
  BY Zenon DEF CleanStep
<1> QED
  BY <1>1, <1>2, <1>3 DEF Texts

LEMMA CleanFold ==
  ASSUME NEW path \in Texts
  PROVE  \E c : /\ Cleans(c, path)
                /\ Clean(path) =
                     IF Rooted(path)
                     THEN <<"">> \o (IF c[Len(path)] = << >> THEN <<"">> ELSE c[Len(path)])
                     ELSE IF path = <<"">> THEN <<".">> ELSE path
<1> DEFINE n == Len(path)
           F(c) == [i \in 0 .. n |-> IF i = 0 THEN << >> ELSE CleanStep(c[i - 1], path[i])]
           e == CHOOSE c : c = F(c)
           G == [i \in 1 .. n |-> [x \in Texts |-> CleanStep(x, path[i])]]
<1>1. n \in Nat /\ \A i \in 1 .. n : path[i] \in Words
  BY DEF Texts
<1>2. << >> \in Texts
  BY DEF Texts
<1>3. G \in [1 .. n -> [Texts -> Texts]]
  BY <1>1, CleanStepType
<1>4. PICK f \in [0 .. n -> Texts] : Folds(f, n, << >>, G)
  <2> HIDE DEF G, n
  <2> QED
    BY <1>1, <1>2, <1>3, FoldExists
<1>5. f[0] = << >> /\ \A i \in 1 .. n : f[i] = CleanStep(f[i - 1], path[i])
  <2>1. \A i \in 1 .. n : i - 1 \in 0 .. n
    BY <1>1
  <2> QED
    BY <1>4, <2>1 DEF Folds
<1>6. f = F(f)
  <2>1. \A i \in 0 .. n : f[i] = IF i = 0 THEN << >> ELSE CleanStep(f[i - 1], path[i])
    BY <1>1, <1>5
  <2> QED
    BY <2>1
<1>7. e = F(e)
  BY <1>6
<1>8. \A i \in 0 .. n : e[i] = f[i]
  <2> DEFINE S == {i \in 0 .. n : e[i] = f[i]}
  <2>1. \A i \in 0 .. n : e[i] = IF i = 0 THEN << >> ELSE CleanStep(e[i - 1], path[i])
    BY <1>7
  <2> HIDE DEF e, n
  <2>2. 0 \in S
    BY <1>1, <1>5, <2>1
  <2>3. ASSUME NEW i \in 0 .. n - 1, i \in S
        PROVE  i + 1 \in S
    <3>1. i + 1 \in 1 .. n /\ (i + 1) - 1 = i /\ i + 1 \in 0 .. n /\ i + 1 # 0
      BY <1>1
    <3>2. e[i + 1] = CleanStep(e[i], path[i + 1]) /\ f[i + 1] = CleanStep(f[i], path[i + 1])
      BY <1>5, <2>1, <3>1
    <3> QED
      BY <2>3, <3>1, <3>2
  <2> HIDE DEF S
  <2>4. \A i \in 0 .. n : i \in S
    BY <1>1, <2>2, <2>3, Steps
  <2> QED
    BY <2>4 DEF S
<1>9. Clean(path) = IF Rooted(path)
                    THEN <<"">> \o (IF e[n] = << >> THEN <<"">> ELSE e[n])
                    ELSE IF path = <<"">> THEN <<".">> ELSE path
  BY DEF Clean
<1>10. e[n] = f[n]
  <2> HIDE DEF e
  <2> QED
    BY <1>1, <1>8
<1>11. Cleans(f, path)
  BY <1>5 DEF Cleans
<1> HIDE DEF e
<1> QED
  BY <1>9, <1>10, <1>11

\* Texts: what concatenation and appending do, and texts that extend others.
Extends(s, t) == Len(s) <= Len(t) /\ \A k \in 1 .. Len(s) : t[k] = s[k]

LEMMA TextFacts ==
  ASSUME NEW t \in Texts
  PROVE  /\ Len(t) \in Nat /\ DOMAIN t = 1 .. Len(t)
         /\ \A i \in 1 .. Len(t) : t[i] \in Words
         /\ t = << >> <=> Len(t) = 0
  BY DEF Texts

LEMMA TextEqual ==
  ASSUME NEW s \in Texts, NEW t \in Texts, Len(s) = Len(t),
         \A i \in 1 .. Len(s) : s[i] = t[i]
  PROVE  s = t
  BY SeqEqual DEF Texts

LEMMA ConcatFacts ==
  ASSUME NEW s \in Texts, NEW t \in Texts
  PROVE  /\ s \o t \in Texts /\ Len(s \o t) = Len(s) + Len(t)
         /\ \A i \in 1 .. Len(s) : (s \o t)[i] = s[i]
         /\ \A i \in 1 .. Len(t) : (s \o t)[Len(s) + i] = t[i]
<1>1. Len(s) \in Nat /\ Len(t) \in Nat
  BY TextFacts
<1>2. /\ s \o t \in Seq(Words) /\ Len(s \o t) = Len(s) + Len(t)
      /\ \A i \in 1 .. Len(s) + Len(t) :
           (s \o t)[i] = IF i <= Len(s) THEN s[i] ELSE t[i - Len(s)]
  BY ConcatProperties DEF Texts
<1>3. ASSUME NEW i \in 1 .. Len(s) PROVE (s \o t)[i] = s[i]
  <2>1. i \in 1 .. Len(s) + Len(t) /\ i <= Len(s)
    BY <1>1
  <2> QED
    BY <1>2, <2>1
<1>4. ASSUME NEW i \in 1 .. Len(t) PROVE (s \o t)[Len(s) + i] = t[i]
  <2>1. /\ Len(s) + i \in 1 .. Len(s) + Len(t) /\ ~(Len(s) + i <= Len(s))
        /\ (Len(s) + i) - Len(s) = i
    BY <1>1
  <2> QED
    BY <1>2, <2>1
<1> QED
  BY <1>2, <1>3, <1>4 DEF Texts

LEMMA AppendFacts ==
  ASSUME NEW s \in Texts, NEW w \in Words
  PROVE  /\ Append(s, w) \in Texts /\ Len(Append(s, w)) = Len(s) + 1
         /\ \A i \in 1 .. Len(s) : Append(s, w)[i] = s[i]
         /\ Append(s, w)[Len(s) + 1] = w
  BY AppendProperties DEF Texts

LEMMA SingleFacts ==
  ASSUME NEW w \in Words
  PROVE  <<w>> \in Texts /\ Len(<<w>>) = 1 /\ <<w>>[1] = w
  BY DEF Texts

Blank == ""

LEMMA RootedFacts ==
  ASSUME NEW path \in Texts, Rooted(path)
  PROVE  /\ Blank \in Words /\ Len(path) \in Nat /\ Len(path) > 1
         /\ path[1] = Blank /\ 1 \in 1 .. Len(path)
<1>1. Len(path) \in Nat /\ Len(path) > 1
  BY TextFacts DEF Rooted
<1>2. path[1] = Blank
  BY DEF Rooted, Blank
<1>3. 1 \in 1 .. Len(path)
  BY <1>1
<1>4. path[1] \in Words
  BY <1>3, TextFacts
<1> QED
  BY <1>1, <1>2, <1>3, <1>4

LEMMA ExtendsFacts ==
  ASSUME NEW s \in Texts, NEW t \in Texts, NEW u \in Texts
  PROVE  /\ Extends(s, s)
         /\ Extends(s, t) /\ Extends(t, u) => Extends(s, u)
         /\ Extends(s, s \o t)
<1>1. Len(s) \in Nat /\ Len(t) \in Nat /\ Len(u) \in Nat
  BY TextFacts
<1>2. Extends(s, s)
  BY <1>1 DEF Extends
<1>3. Extends(s, t) /\ Extends(t, u) => Extends(s, u)
  BY <1>1 DEF Extends
<1>4. Extends(s, s \o t)
  BY <1>1, ConcatFacts DEF Extends
<1> QED
  BY <1>2, <1>3, <1>4

LEMMA PrefixIff ==
  ASSUME NEW s \in Texts, NEW t \in Texts
  PROVE  IsPrefix(s, t) <=> Extends(s, t)
<1>1. Len(s) \in Nat /\ Len(t) \in Nat
  BY TextFacts
<1> SUFFICES ASSUME Len(s) <= Len(t)
             PROVE  SubSeq(s, 1, Len(s)) = SubSeq(t, 1, Len(s))
                      <=> \A k \in 1 .. Len(s) : t[k] = s[k]
  BY DEF IsPrefix, Extends
<1> DEFINE a == SubSeq(s, 1, Len(s))
           b == SubSeq(t, 1, Len(s))
<1>2. a \in Texts /\ Len(a) = Len(s) /\ \A k \in 1 .. Len(s) : a[k] = s[k]
  BY <1>1, TextFacts DEF Texts
<1>3. b \in Texts /\ Len(b) = Len(s) /\ \A k \in 1 .. Len(s) : b[k] = t[k]
  BY <1>1, TextFacts DEF Texts
<1> HIDE DEF a, b
<1>4. (\A k \in 1 .. Len(s) : t[k] = s[k]) => a = b
  BY <1>2, <1>3, TextEqual
<1>5. a = b => \A k \in 1 .. Len(s) : t[k] = s[k]
  BY <1>2, <1>3
<1> QED
  BY <1>4, <1>5 DEF a, b

\* A sequence of texts each of which extends the one before.
LEMMA Grows ==
  ASSUME NEW n \in Nat, NEW g \in [0 .. n -> Texts],
         \A i \in 0 .. n - 1 : Extends(g[i], g[i + 1])
  PROVE  \A i \in 0 .. n : Extends(g[i], g[n])
<1> DEFINE S == {k \in 0 .. n : Extends(g[n - k], g[n])}
<1>1. 0 \in S
  <2>1. n - 0 = n /\ n \in 0 .. n /\ 0 \in 0 .. n
    OBVIOUS
  <2> QED
    BY <2>1, ExtendsFacts
<1>2. ASSUME NEW k \in 0 .. n - 1, k \in S
      PROVE  k + 1 \in S
  <2>1. /\ k + 1 \in 0 .. n /\ n - (k + 1) \in 0 .. n - 1 /\ (n - (k + 1)) + 1 = n - k
        /\ n - (k + 1) \in 0 .. n /\ n - k \in 0 .. n /\ n \in 0 .. n
    OBVIOUS
  <2>2. Extends(g[n - (k + 1)], g[n - k])
    BY <2>1
  <2>3. Extends(g[n - k], g[n])
    BY <1>2
  <2>4. Extends(g[n - (k + 1)], g[n])
    BY <2>1, <2>2, <2>3, ExtendsFacts
  <2> QED
    BY <2>1, <2>4
<1> HIDE DEF S
<1>3. \A k \in 0 .. n : k \in S
  BY <1>1, <1>2, Steps
<1>4. ASSUME NEW i \in 0 .. n PROVE Extends(g[i], g[n])
  <2>1. n - i \in 0 .. n /\ n - (n - i) = i
    OBVIOUS
  <2>2. n - i \in S
    BY <1>3, <2>1
  <2> QED
    BY <2>1, <2>2 DEF S
<1> QED
  BY <1>4

SegmentStep(acc, segment) == IF segment = Blank THEN acc ELSE Append(acc, segment)

Collects(c, path) ==
  /\ c \in [0 .. Len(path) -> Texts] /\ c[0] = << >>
  /\ \A i \in 1 .. Len(path) : c[i] = SegmentStep(c[i - 1], path[i])

LEMMA SegmentStepFacts ==
  ASSUME NEW acc \in Texts, NEW segment \in Words
  PROVE  SegmentStep(acc, segment) \in Texts /\ Extends(acc, SegmentStep(acc, segment))
<1>1. Len(acc) \in Nat
  BY TextFacts
<1>2. CASE segment = Blank
  BY <1>2, ExtendsFacts DEF SegmentStep
<1>3. CASE segment # Blank
  <2>1. SegmentStep(acc, segment) = Append(acc, segment)
    BY <1>3 DEF SegmentStep
  <2>2. Append(acc, segment) \in Texts /\ Extends(acc, Append(acc, segment))
    BY <1>1, AppendFacts DEF Extends
  <2> QED
    BY <2>1, <2>2
<1> QED
  BY <1>2, <1>3

LEMMA SegmentsFold ==
  ASSUME NEW path \in Texts
  PROVE  \E c : /\ Collects(c, path)
                /\ Segments(path) = c[Len(path)]
<1> DEFINE n == Len(path)
           F(c) == [i \in 0 .. n |-> IF i = 0 THEN << >> ELSE SegmentStep(c[i - 1], path[i])]
           e == CHOOSE c : c = F(c)
           G == [i \in 1 .. n |-> [x \in Texts |-> SegmentStep(x, path[i])]]
<1>1. n \in Nat /\ \A i \in 1 .. n : path[i] \in Words
  BY DEF Texts
<1>2. << >> \in Texts
  BY DEF Texts
<1>3. G \in [1 .. n -> [Texts -> Texts]]
  BY <1>1, SegmentStepFacts
<1>4. PICK f \in [0 .. n -> Texts] : Folds(f, n, << >>, G)
  <2> HIDE DEF G, n
  <2> QED
    BY <1>1, <1>2, <1>3, FoldExists
<1>5. f[0] = << >> /\ \A i \in 1 .. n : f[i] = SegmentStep(f[i - 1], path[i])
  <2>1. \A i \in 1 .. n : i - 1 \in 0 .. n
    BY <1>1
  <2> QED
    BY <1>4, <2>1 DEF Folds
<1>6. f = F(f)
  <2>1. \A i \in 0 .. n : f[i] = IF i = 0 THEN << >> ELSE SegmentStep(f[i - 1], path[i])
    BY <1>1, <1>5
  <2> QED
    BY <2>1
<1>7. e = F(e)
  BY <1>6
<1>8. \A i \in 0 .. n : e[i] = f[i]
  <2> DEFINE S == {i \in 0 .. n : e[i] = f[i]}
  <2>1. \A i \in 0 .. n : e[i] = IF i = 0 THEN << >> ELSE SegmentStep(e[i - 1], path[i])
    BY <1>7
  <2> HIDE DEF e, n
  <2>2. 0 \in S
    BY <1>1, <1>5, <2>1
  <2>3. ASSUME NEW i \in 0 .. n - 1, i \in S
        PROVE  i + 1 \in S
    <3>1. i + 1 \in 1 .. n /\ (i + 1) - 1 = i /\ i + 1 \in 0 .. n /\ i + 1 # 0
      BY <1>1
    <3>2. e[i + 1] = SegmentStep(e[i], path[i + 1]) /\ f[i + 1] = SegmentStep(f[i], path[i + 1])
      BY <1>5, <2>1, <3>1
    <3> QED
      BY <2>3, <3>1, <3>2
  <2> HIDE DEF S
  <2>4. \A i \in 0 .. n : i \in S
    BY <1>1, <2>2, <2>3, Steps
  <2> QED
    BY <2>4 DEF S
<1>9. Segments(path) = e[n]
  BY DEF Segments, SegmentStep, Blank
<1>10. e[n] = f[n]
  <2> HIDE DEF e
  <2> QED
    BY <1>1, <1>8
<1>11. Collects(f, path)
  BY <1>5 DEF Collects
<1> HIDE DEF e
<1> QED
  BY <1>9, <1>10, <1>11

\* Decoding is defined on the segments of the path.
Escaped(path) ==
  \A i \in 1 .. Len(path) : Unescape(path[i]) \in Texts /\ Unescape(path[i]) # << >>

Decodes(c, path) ==
  /\ c \in [0 .. Len(path) -> Texts] /\ c[0] = << >>
  /\ \A i \in 1 .. Len(path) : c[i] = c[i - 1] \o Unescape(path[i])

LEMMA DecodedFold ==
  ASSUME NEW path \in Texts, Escaped(path)
  PROVE  \E c : /\ Decodes(c, path)
                /\ Decoded(path) = c[Len(path)]
<1> DEFINE n == Len(path)
           F(c) == [i \in 0 .. n |-> IF i = 0 THEN << >> ELSE c[i - 1] \o Unescape(path[i])]
           e == CHOOSE c : c = F(c)
           G == [i \in 1 .. n |-> [x \in Texts |-> x \o Unescape(path[i])]]
<1>1. n \in Nat /\ \A i \in 1 .. n : Unescape(path[i]) \in Texts
  BY TextFacts DEF Escaped
<1>2. << >> \in Texts
  BY DEF Texts
<1>3. G \in [1 .. n -> [Texts -> Texts]]
  BY <1>1, ConcatFacts
<1>4. PICK f \in [0 .. n -> Texts] : Folds(f, n, << >>, G)
  <2> HIDE DEF G, n
  <2> QED
    BY <1>1, <1>2, <1>3, FoldExists
<1>5. f[0] = << >> /\ \A i \in 1 .. n : f[i] = f[i - 1] \o Unescape(path[i])
  <2>1. \A i \in 1 .. n : i - 1 \in 0 .. n
    BY <1>1
  <2> QED
    BY <1>4, <2>1 DEF Folds
<1>6. f = F(f)
  <2>1. \A i \in 0 .. n : f[i] = IF i = 0 THEN << >> ELSE f[i - 1] \o Unescape(path[i])
    BY <1>1, <1>5
  <2> QED
    BY <2>1
<1>7. e = F(e)
  BY <1>6
<1>8. \A i \in 0 .. n : e[i] = f[i]
  <2> DEFINE S == {i \in 0 .. n : e[i] = f[i]}
  <2>1. \A i \in 0 .. n : e[i] = IF i = 0 THEN << >> ELSE e[i - 1] \o Unescape(path[i])
    BY <1>7
  <2> HIDE DEF e, n
  <2>2. 0 \in S
    BY <1>1, <1>5, <2>1
  <2>3. ASSUME NEW i \in 0 .. n - 1, i \in S
        PROVE  i + 1 \in S
    <3>1. i + 1 \in 1 .. n /\ (i + 1) - 1 = i /\ i + 1 \in 0 .. n /\ i + 1 # 0
      BY <1>1
    <3>2. e[i + 1] = e[i] \o Unescape(path[i + 1]) /\ f[i + 1] = f[i] \o Unescape(path[i + 1])
      BY <1>5, <2>1, <3>1
    <3> QED
      BY <2>3, <3>1, <3>2
  <2> HIDE DEF S
  <2>4. \A i \in 0 .. n : i \in S
    BY <1>1, <2>2, <2>3, Steps
  <2> QED
    BY <2>4 DEF S
<1>9. Decoded(path) = e[n]
  BY DEF Decoded
<1>10. e[n] = f[n]
  <2> HIDE DEF e
  <2> QED
    BY <1>1, <1>8
<1>11. Decodes(f, path)
  BY <1>5 DEF Decodes
<1> HIDE DEF e
<1> QED
  BY <1>9, <1>10, <1>11

\* What has been collected after the first segments of a path are the segments of
\* the path that ends there.
LEMMA SegmentsOf ==
  ASSUME NEW path \in Texts, NEW s, Collects(s, path), NEW x \in Texts, Extends(x, path)
  PROVE  Segments(x) = s[Len(x)]
<1>1. PICK c : Collects(c, x) /\ Segments(x) = c[Len(x)]
  BY SegmentsFold
<1> DEFINE n == Len(x)
           S == {i \in 0 .. n : c[i] = s[i]}
<1>2. n \in Nat /\ Len(path) \in Nat /\ n <= Len(path)
  BY TextFacts DEF Extends
<1> HIDE DEF n
<1>3. /\ c[0] = << >> /\ s[0] = << >>
      /\ \A i \in 1 .. n : c[i] = SegmentStep(c[i - 1], x[i])
      /\ \A i \in 1 .. Len(path) : s[i] = SegmentStep(s[i - 1], path[i])
      /\ \A i \in 1 .. n : path[i] = x[i]
  BY <1>1 DEF Collects, Extends, n
<1>4. 0 \in S
  BY <1>2, <1>3
<1>5. ASSUME NEW i \in 0 .. n - 1, i \in S
      PROVE  i + 1 \in S
  <2>1. i + 1 \in 0 .. n /\ i + 1 \in 1 .. n /\ i + 1 \in 1 .. Len(path) /\ (i + 1) - 1 = i
    BY <1>2
  <2>2. c[i + 1] = SegmentStep(c[i], x[i + 1]) /\ s[i + 1] = SegmentStep(s[i], x[i + 1])
    BY <1>3, <2>1
  <2> QED
    BY <1>5, <2>1, <2>2
<1> HIDE DEF S
<1>6. \A i \in 0 .. n : i \in S
  BY <1>2, <1>4, <1>5, Steps
<1>7. n \in S
  BY <1>2, <1>6
<1> QED
  BY <1>1, <1>7 DEF S, n

LEMMA CollectGrows ==
  ASSUME NEW path \in Texts, NEW s, Collects(s, path)
  PROVE  /\ s \in [0 .. Len(path) -> Texts]
         /\ \A i \in 0 .. Len(path) : Extends(s[i], s[Len(path)])
<1>1. Len(path) \in Nat /\ s \in [0 .. Len(path) -> Texts]
  BY TextFacts DEF Collects
<1>2. ASSUME NEW i \in 0 .. Len(path) - 1
      PROVE  Extends(s[i], s[i + 1])
  <2>1. /\ i \in 0 .. Len(path) /\ i + 1 \in 1 .. Len(path) /\ (i + 1) - 1 = i
        /\ s[i] \in Texts
    BY <1>1
  <2>2. s[i + 1] = SegmentStep(s[i], path[i + 1]) /\ path[i + 1] \in Words
    BY <2>1, TextFacts DEF Collects
  <2> QED
    BY <2>1, <2>2, SegmentStepFacts
<1> QED
  BY <1>1, <1>2, Grows

LEMMA DecodeGrows ==
  ASSUME NEW path \in Texts, Escaped(path), NEW d, Decodes(d, path)
  PROVE  /\ d \in [0 .. Len(path) -> Texts]
         /\ \A i \in 0 .. Len(path) : Extends(d[i], d[Len(path)])
<1>1. Len(path) \in Nat /\ d \in [0 .. Len(path) -> Texts]
  BY TextFacts DEF Decodes
<1>2. ASSUME NEW i \in 0 .. Len(path) - 1
      PROVE  Extends(d[i], d[i + 1])
  <2>1. /\ i \in 0 .. Len(path) /\ i + 1 \in 1 .. Len(path) /\ (i + 1) - 1 = i
        /\ d[i] \in Texts
    BY <1>1
  <2>2. d[i + 1] = d[i] \o Unescape(path[i + 1]) /\ Unescape(path[i + 1]) \in Texts
    BY <2>1 DEF Decodes, Escaped
  <2> QED
    BY <2>1, <2>2, ExtendsFacts
<1> QED
  BY <1>1, <1>2, Grows

LEMMA SegmentsFull ==
  ASSUME NEW path \in Texts
  PROVE  /\ Segments(path) \in Texts
         /\ \A k \in 1 .. Len(Segments(path)) : Segments(path)[k] # Blank
<1> DEFINE n == Len(path)
<1>1. PICK s : Collects(s, path) /\ Segments(path) = s[n]
  BY SegmentsFold
<1>2. n \in Nat /\ s \in [0 .. n -> Texts] /\ \A i \in 1 .. n : path[i] \in Words
  BY <1>1, TextFacts DEF Collects
<1> DEFINE S == {i \in 0 .. n : \A k \in 1 .. Len(s[i]) : s[i][k] # Blank}
<1>3. s[0] = << >> /\ \A i \in 1 .. n : s[i] = SegmentStep(s[i - 1], path[i])
  BY <1>1 DEF Collects
<1> HIDE DEF n
<1>4. 0 \in S
  <2>1. Len(s[0]) = 0
    BY <1>3
  <2>2. 0 \in 0 .. n
    BY <1>2
  <2> QED
    BY <2>1, <2>2
<1>5. ASSUME NEW i \in 0 .. n - 1, i \in S
      PROVE  i + 1 \in S
  <2>1. i \in 0 .. n /\ i + 1 \in 0 .. n /\ i + 1 \in 1 .. n /\ (i + 1) - 1 = i
    BY <1>2
  <2>2. s[i] \in Texts /\ path[i + 1] \in Words /\ s[i + 1] = SegmentStep(s[i], path[i + 1])
    BY <1>2, <1>3, <2>1
  <2>3. Len(s[i]) \in Nat /\ \A k \in 1 .. Len(s[i]) : s[i][k] # Blank
    BY <1>5, <2>2, TextFacts
  <2>4. CASE path[i + 1] = Blank
    BY <1>5, <2>1, <2>2, <2>4 DEF SegmentStep
  <2>5. CASE path[i + 1] # Blank
    <3>1. s[i + 1] = Append(s[i], path[i + 1])
      BY <2>2, <2>5 DEF SegmentStep
    <3>2. /\ Len(s[i + 1]) = Len(s[i]) + 1 /\ s[i + 1][Len(s[i]) + 1] = path[i + 1]
          /\ \A k \in 1 .. Len(s[i]) : s[i + 1][k] = s[i][k]
      BY <2>2, <3>1, AppendFacts
    <3>3. ASSUME NEW k \in 1 .. Len(s[i + 1]) PROVE s[i + 1][k] # Blank
      <4>1. k \in 1 .. Len(s[i]) \/ k = Len(s[i]) + 1
        BY <2>3, <3>2
      <4> QED
        BY <2>3, <2>5, <3>2, <4>1
    <3> QED
      BY <2>1, <3>3
  <2> QED
    BY <2>4, <2>5
<1> HIDE DEF S
<1>6. \A i \in 0 .. n : i \in S
  BY <1>2, <1>4, <1>5, Steps
<1>7. n \in 0 .. n
  BY <1>2
<1>8. s[n] \in Texts /\ n \in S
  BY <1>2, <1>6, <1>7
<1> QED
  BY <1>1, <1>8 DEF S

\* A rooted path without dot segments is cleaned of its empty segments only.
CleanOf(s) == <<Blank>> \o (IF s = << >> THEN <<Blank>> ELSE s)

LEMMA CleanText ==
  ASSUME NEW path \in Texts, Rooted(path), ~hasDotSegments(path)
  PROVE  Clean(path) = CleanOf(Segments(path))
<1> DEFINE n == Len(path)
<1>1. PICK s : Collects(s, path) /\ Segments(path) = s[n]
  BY SegmentsFold
<1>2. PICK c : Cleans(c, path) /\ Clean(path) = CleanOf(c[n])
  BY CleanFold DEF CleanOf, Blank
<1>3. n \in Nat /\ \A i \in 1 .. n : path[i] \notin {".", ".."}
  BY TextFacts DEF hasDotSegments
<1>4. /\ c[0] = << >> /\ \A i \in 1 .. n : c[i] = CleanStep(c[i - 1], path[i])
      /\ s[0] = << >> /\ \A i \in 1 .. n : s[i] = SegmentStep(s[i - 1], path[i])
  BY <1>1, <1>2 DEF Cleans, Collects
<1> DEFINE S == {i \in 0 .. n : c[i] = s[i]}
<1> HIDE DEF n
<1>5. 0 \in S
  BY <1>3, <1>4
<1>6. ASSUME NEW i \in 0 .. n - 1, i \in S
      PROVE  i + 1 \in S
  <2>1. i + 1 \in 0 .. n /\ i + 1 \in 1 .. n /\ (i + 1) - 1 = i
    BY <1>3
  <2>2. /\ c[i + 1] = CleanStep(c[i], path[i + 1]) /\ s[i + 1] = SegmentStep(c[i], path[i + 1])
        /\ path[i + 1] # "." /\ path[i + 1] # ".."
    BY <1>3, <1>4, <1>6, <2>1
  <2>3. c[i + 1] = s[i + 1]
    BY <2>2, Zenon DEF CleanStep, SegmentStep, Blank
  <2> QED
    BY <2>1, <2>3
<1> HIDE DEF S
<1>7. \A i \in 0 .. n : i \in S
  BY <1>3, <1>5, <1>6, Steps
<1>8. n \in S
  BY <1>3, <1>7
<1> QED
  BY <1>1, <1>2, <1>8 DEF S

LEMMA CleanOfFacts ==
  ASSUME NEW s \in Texts, Blank \in Words
  PROVE  /\ CleanOf(s) \in Texts /\ CleanOf(s)[1] = Blank
         /\ s = << >> => Len(CleanOf(s)) = 2 /\ CleanOf(s)[2] = Blank
         /\ s # << >> => /\ Len(CleanOf(s)) = Len(s) + 1
                         /\ \A k \in 1 .. Len(s) : CleanOf(s)[k + 1] = s[k]
<1> DEFINE t == IF s = << >> THEN <<Blank>> ELSE s
           b == <<Blank>>
<1>1. b \in Texts /\ Len(b) = 1 /\ b[1] = Blank
  BY SingleFacts
<1>2. t \in Texts /\ CleanOf(s) = b \o t /\ Len(s) \in Nat /\ Len(t) \in Nat
  BY <1>1, TextFacts DEF CleanOf
<1>3. /\ s = << >> => Len(t) = 1 /\ t[1] = Blank
      /\ s # << >> => t = s
  BY <1>1
<1> HIDE DEF t, b
<1>4. /\ b \o t \in Texts /\ Len(b \o t) = 1 + Len(t) /\ (b \o t)[1] = Blank
      /\ \A k \in 1 .. Len(t) : (b \o t)[1 + k] = t[k]
  <2>1. 1 \in 1 .. 1
    OBVIOUS
  <2>2. /\ b \o t \in Texts /\ Len(b \o t) = Len(b) + Len(t)
        /\ \A i \in 1 .. Len(b) : (b \o t)[i] = b[i]
        /\ \A i \in 1 .. Len(t) : (b \o t)[Len(b) + i] = t[i]
    BY <1>1, <1>2, ConcatFacts
  <2> QED
    BY <1>1, <2>1, <2>2
<1>5. CASE s = << >>
  <2>1. 1 \in 1 .. Len(t) /\ Len(t) = 1 /\ t[1] = Blank /\ 1 + 1 = 2
    BY <1>3, <1>5
  <2>2. (b \o t)[2] = Blank /\ Len(b \o t) = 2
    BY <1>4, <2>1
  <2> QED
    BY <1>2, <1>4, <1>5, <2>2
<1>6. CASE s # << >>
  <2>1. \A k \in 1 .. Len(s) : k + 1 = 1 + k
    BY <1>2
  <2> QED
    BY <1>2, <1>3, <1>4, <1>6, <2>1
<1> QED
  BY <1>5, <1>6

Dots == {".", ".."}

LEMMA PathFacts ==
  ASSUME NEW path \in Paths
  PROVE  /\ path \in Texts /\ Escaped(path)
         /\ \A w \in Dots : Unescape(w) = <<w>>
         /\ Unescape(Blank) = <<Blank>>
<1>1. path \in Texts
  BY PathAssumption DEF Texts, Words
<1>2. \A i \in DOMAIN path : Unescape(path[i]) \in Texts /\ Unescape(path[i]) # << >>
  BY PathAssumption DEF Texts, Words
<1>3. Escaped(path)
  BY <1>1, <1>2, TextFacts DEF Escaped
<1>4. (\A w \in Dots : Unescape(w) = <<w>>) /\ Unescape(Blank) = <<Blank>>
  BY PathAssumption, Zenon DEF Dots, Blank
<1> QED
  BY <1>1, <1>3, <1>4

\* A dot segment in the escaped path is one in the decoded path.
LEMMA DotFree ==
  ASSUME NEW path \in Paths, ~hasDotSegments(Decoded(path))
  PROVE  ~hasDotSegments(path)
<1> SUFFICES ASSUME NEW i \in DOMAIN path, path[i] \in Dots
             PROVE  FALSE
  BY DEF hasDotSegments, Dots
<1> DEFINE n == Len(path)
           w == path[i]
<1>1. path \in Texts /\ Escaped(path) /\ Unescape(w) = <<w>>
  BY PathFacts
<1>2. PICK d : Decodes(d, path) /\ Decoded(path) = d[n]
  BY <1>1, DecodedFold
<1>3. n \in Nat /\ i \in 1 .. n /\ w \in Words
  BY <1>1, TextFacts
<1>4. /\ d \in [0 .. n -> Texts]
      /\ \A k \in 0 .. n : Extends(d[k], d[n])
  BY <1>1, <1>2, DecodeGrows
<1>5. d[i] = d[i - 1] \o <<w>>
  BY <1>1, <1>2, <1>3 DEF Decodes
<1> HIDE DEF n, w
<1>6. i - 1 \in 0 .. n /\ i \in 0 .. n /\ n \in 0 .. n
  BY <1>3
<1>7. d[i - 1] \in Texts /\ <<w>> \in Texts /\ Len(<<w>>) = 1 /\ <<w>>[1] = w
  BY <1>3, <1>4, <1>6, SingleFacts
<1> DEFINE m == Len(d[i - 1]) + 1
<1>8. /\ Len(d[i]) = m /\ d[i][m] = w
      /\ Len(d[i - 1]) \in Nat /\ m \in 1 .. m
  <2>1. Len(d[i - 1]) \in Nat
    BY <1>7, TextFacts
  <2>2. 1 \in 1 .. 1
    OBVIOUS
  <2>3. /\ Len(d[i - 1] \o <<w>>) = Len(d[i - 1]) + 1
        /\ (d[i - 1] \o <<w>>)[Len(d[i - 1]) + 1] = w
    BY <1>7, <2>2, ConcatFacts
  <2> QED
    BY <1>5, <2>1, <2>3
<1>9. d[n] \in Texts /\ Extends(d[i], d[n])
  BY <1>4, <1>6
<1> HIDE DEF m
<1>10. d[n][m] = w /\ m \in DOMAIN d[n]
  <2>1. m \in Nat /\ m <= Len(d[n]) /\ Len(d[n]) \in Nat /\ DOMAIN d[n] = 1 .. Len(d[n])
    BY <1>8, <1>9, TextFacts DEF Extends, m
  <2>2. d[n][m] = w
    BY <1>8, <1>9 DEF Extends
  <2> QED
    BY <1>8, <2>1, <2>2
<1> QED
  BY <1>2, <1>10 DEF hasDotSegments, Dots, w, n

\* The decoded path of a rooted path is rooted.
LEMMA DecodedRooted ==
  ASSUME NEW path \in Paths, Rooted(path)
  PROVE  Decoded(path) \in Texts /\ Rooted(Decoded(path))
<1> DEFINE n == Len(path)
<1>1. path \in Texts /\ Escaped(path) /\ Unescape(Blank) = <<Blank>>
  BY PathFacts
<1>2. PICK d : Decodes(d, path) /\ Decoded(path) = d[n]
  BY <1>1, DecodedFold
<1>3. Blank \in Words /\ n \in Nat /\ n > 1 /\ path[1] = Blank
  BY <1>1, RootedFacts
<1>4. /\ d \in [0 .. n -> Texts]
      /\ \A k \in 0 .. n : Extends(d[k], d[n])
  BY <1>1, <1>2, DecodeGrows
<1> DEFINE u == Unescape(path[2])
<1>5. /\ d[0] = << >> /\ d[1] = d[0] \o <<Blank>> /\ d[2] = d[1] \o u
      /\ u \in Texts /\ u # << >>
  <2>1. 1 \in 1 .. n /\ 2 \in 1 .. n /\ 1 - 1 = 0 /\ 2 - 1 = 1
    BY <1>3
  <2> QED
    BY <1>1, <1>2, <1>3, <2>1 DEF Decodes, Escaped
<1>6. 0 \in 0 .. n /\ 1 \in 0 .. n /\ 2 \in 0 .. n /\ n \in 0 .. n
  BY <1>3
<1> HIDE DEF n, u
<1>7. d[0] \in Texts /\ d[1] \in Texts /\ d[2] \in Texts /\ d[n] \in Texts
  BY <1>4, <1>6
<1>8. Len(d[1]) = 1 /\ d[1][1] = Blank
  <2>1. <<Blank>> \in Texts /\ Len(<<Blank>>) = 1 /\ <<Blank>>[1] = Blank /\ Len(d[0]) = 0
    BY <1>3, <1>5, SingleFacts
  <2>2. /\ Len(d[0] \o <<Blank>>) = 0 + 1
        /\ \A i \in 1 .. 1 : (d[0] \o <<Blank>>)[0 + i] = <<Blank>>[i]
    BY <1>7, <2>1, ConcatFacts
  <2>3. 1 \in 1 .. 1 /\ 0 + 1 = 1
    OBVIOUS
  <2> QED
    BY <1>5, <2>1, <2>2, <2>3
<1>9. Len(u) \in Nat /\ Len(u) # 0
  BY <1>5, TextFacts
<1>10. Len(d[2]) = 1 + Len(u) /\ d[2][1] = Blank
  <2>1. 1 \in 1 .. 1
    OBVIOUS
  <2> QED
    BY <1>5, <1>7, <1>8, <2>1, ConcatFacts
<1>11. Extends(d[2], d[n]) /\ Len(d[n]) \in Nat
  BY <1>4, <1>6, <1>7, TextFacts
<1>12. Len(d[n]) > 1 /\ 1 \in 1 .. Len(d[2])
  BY <1>9, <1>10, <1>11 DEF Extends
<1>13. d[n][1] = Blank
  BY <1>10, <1>11, <1>12 DEF Extends
<1> QED
  BY <1>2, <1>7, <1>12, <1>13 DEF Rooted, Blank

\* What strings.TrimRight keeps of a rooted prefix.
LEMMA TrimFacts ==
  ASSUME NEW prefix \in Texts, Rooted(prefix)
  PROVE  \E last \in 1 .. Len(prefix) :
           /\ TrimRight(prefix) \in Texts /\ Len(TrimRight(prefix)) = last
           /\ \A k \in 1 .. last : TrimRight(prefix)[k] = prefix[k]
           /\ \A k \in 1 .. Len(prefix) : k > last => prefix[k] = Blank
           /\ last = 1 \/ prefix[last] # Blank
<1> DEFINE n == Len(prefix)
           I == {i \in 1 .. n : prefix[i] # ""}
           sel == SelectLastInSeq(prefix, LAMBDA segment : segment # "")
           last == IF sel = 0 THEN 1 ELSE sel
<1>1. n \in Nat /\ 1 \in 1 .. n /\ prefix[1] = Blank /\ \A i \in 1 .. n : prefix[i] \in Words
  BY RootedFacts, TextFacts
<1>2. sel = IF I # {} THEN Max(I) ELSE 0
  BY DEF SelectLastInSeq
<1>3. TrimRight(prefix) = SubSeq(prefix, 1, last)
  BY DEF TrimRight
<1>4. I \in SUBSET (1 .. n) /\ \A i \in 1 .. n : i \in I <=> prefix[i] # Blank
  BY DEF Blank
<1> HIDE DEF I, n, sel
<1>5. I # {} => Max(I) \in I /\ \A y \in I : Max(I) >= y
  BY <1>1, <1>4, MaxFacts
<1>6. /\ last \in 1 .. n /\ (last = 1 \/ prefix[last] # Blank)
      /\ \A k \in 1 .. n : k > last => prefix[k] = Blank
  <2>1. CASE I = {}
    <3>1. last = 1
      BY <1>2, <2>1
    <3> HIDE DEF last
    <3> QED
      BY <1>1, <1>4, <2>1, <3>1
  <2>2. CASE I # {}
    <3>1. last = Max(I)
      BY <1>1, <1>2, <1>4, <1>5, <2>2
    <3> HIDE DEF last
    <3>2. ASSUME NEW k \in 1 .. n, k \in I PROVE ~(k > last)
      <4>1. last >= k
        BY <1>5, <2>2, <3>1, <3>2
      <4>2. last \in 1 .. n
        BY <1>4, <1>5, <2>2, <3>1
      <4> QED
        BY <1>1, <4>1, <4>2
    <3> QED
      BY <1>4, <1>5, <2>2, <3>1, <3>2
  <2> QED
    BY <2>1, <2>2
<1> HIDE DEF last
<1>7. /\ SubSeq(prefix, 1, last) \in Texts /\ Len(SubSeq(prefix, 1, last)) = last
      /\ \A k \in 1 .. last : SubSeq(prefix, 1, last)[k] = prefix[k]
  <2>1. /\ SubSeq(prefix, 1, last) \in Seq(Words)
        /\ Len(SubSeq(prefix, 1, last)) = last
    BY <1>1, <1>6 DEF n, Texts
  <2>2. \A k \in 1 .. last : SubSeq(prefix, 1, last)[k] = prefix[k]
    BY <1>1, <1>6 DEF n, Texts
  <2> QED
    BY <2>1, <2>2 DEF Texts
<1> QED
  BY <1>3, <1>6, <1>7 DEF n

-------------------------------------------------------------------------------
(* Routing. *)

\* The segments of a prefix without doubled slashes are those it is written with.
LEMMA PrefixSegments ==
  ASSUME NEW prefix \in Texts, Rooted(prefix), ~Doubled(prefix)
  PROVE  /\ Len(Segments(prefix)) + 1 = Len(TrimRight(prefix))
         /\ \A k \in 1 .. Len(Segments(prefix)) : Segments(prefix)[k] = TrimRight(prefix)[k + 1]
<1> DEFINE n == Len(prefix)
           P == TrimRight(prefix)
<1>1. PICK last \in 1 .. n :
           /\ P \in Texts /\ Len(P) = last
           /\ \A k \in 1 .. last : P[k] = prefix[k]
           /\ \A k \in 1 .. n : k > last => prefix[k] = Blank
           /\ last = 1 \/ prefix[last] # Blank
  BY TrimFacts
<1>2. PICK s : Collects(s, prefix) /\ Segments(prefix) = s[n]
  BY SegmentsFold
<1>3. n \in Nat /\ s \in [0 .. n -> Texts] /\ s[0] = << >> /\ prefix[1] = Blank
  BY <1>2, RootedFacts DEF Collects
<1>4. \A i \in 1 .. n : s[i] = SegmentStep(s[i - 1], prefix[i]) /\ prefix[i] \in Words
  BY <1>2, TextFacts DEF Collects
<1>5. \A i \in 2 .. last : prefix[i] # Blank
  <2>1. \A i \in 2 .. Len(P) : P[i] # Blank
    BY DEF Doubled, Blank
  <2>2. \A i \in 2 .. last : i \in 1 .. last
    BY <1>3
  <2> HIDE DEF P
  <2> QED
    BY <1>1, <2>1, <2>2
<1> HIDE DEF n, P
<1> DEFINE q(i) == IF i = 0 THEN 0 ELSE IF i <= last THEN i - 1 ELSE last - 1
           S == {i \in 0 .. n : /\ Len(s[i]) = q(i)
                                /\ \A k \in 1 .. q(i) : s[i][k] = prefix[k + 1]}
<1>6. 0 \in S
  <2>1. 0 \in 0 .. n /\ Len(s[0]) = 0
    BY <1>3
  <2> QED
    BY <2>1
<1>7. ASSUME NEW i \in 0 .. n - 1, i \in S
      PROVE  i + 1 \in S
  <2>1. /\ i \in Nat /\ last \in Nat /\ i \in 0 .. n /\ i + 1 \in 0 .. n
        /\ i + 1 \in 1 .. n /\ (i + 1) - 1 = i
    BY <1>1, <1>3
  <2>2. /\ s[i] \in Texts /\ prefix[i + 1] \in Words
        /\ s[i + 1] = SegmentStep(s[i], prefix[i + 1])
    BY <1>3, <1>4, <2>1
  <2>3. Len(s[i]) = q(i) /\ \A k \in 1 .. q(i) : s[i][k] = prefix[k + 1]
    BY <1>7
  <2>4. CASE i = 0
    <3>1. prefix[i + 1] = Blank /\ q(i) = 0 /\ q(i + 1) = 0
      BY <1>1, <1>3, <2>1, <2>4
    <3>2. s[i + 1] = s[i]
      BY <2>2, <3>1 DEF SegmentStep
    <3> HIDE DEF q
    <3> QED
      BY <2>1, <2>3, <3>1, <3>2
  <2>5. CASE i > 0 /\ i + 1 <= last
    <3>1. i + 1 \in 2 .. last /\ q(i) = i - 1 /\ q(i + 1) = i
      BY <2>1, <2>5
    <3>2. s[i + 1] = Append(s[i], prefix[i + 1])
      BY <1>5, <2>2, <3>1 DEF SegmentStep
    <3>3. /\ Len(s[i + 1]) = Len(s[i]) + 1
          /\ \A k \in 1 .. Len(s[i]) : s[i + 1][k] = s[i][k]
          /\ s[i + 1][Len(s[i]) + 1] = prefix[i + 1]
      BY <2>2, <3>2, AppendFacts
    <3>4. Len(s[i]) = i - 1 /\ (i - 1) + 1 = i
      BY <2>1, <2>3, <3>1
    <3>5. ASSUME NEW k \in 1 .. i PROVE s[i + 1][k] = prefix[k + 1]
      <4>1. k = i \/ k \in 1 .. i - 1
        BY <2>1
      <4> QED
        BY <2>3, <3>1, <3>3, <3>4, <4>1
    <3>6. Len(s[i + 1]) = q(i + 1) /\ \A k \in 1 .. q(i + 1) : s[i + 1][k] = prefix[k + 1]
      <4> HIDE DEF q
      <4> QED
        BY <3>1, <3>3, <3>4, <3>5
    <3> QED
      BY <2>1, <3>6
  <2>6. CASE i > 0 /\ ~(i + 1 <= last)
    <3>1. i + 1 > last /\ q(i) = last - 1 /\ q(i + 1) = last - 1
      BY <2>1, <2>6
    <3>2. s[i + 1] = s[i]
      BY <1>1, <2>1, <2>2, <3>1 DEF SegmentStep
    <3>3. Len(s[i + 1]) = q(i + 1) /\ \A k \in 1 .. q(i + 1) : s[i + 1][k] = prefix[k + 1]
      <4> HIDE DEF q
      <4> QED
        BY <2>3, <3>1, <3>2
    <3> QED
      BY <2>1, <3>3
  <2> QED
    BY <2>1, <2>4, <2>5, <2>6
<1>8. \A i \in 0 .. n : i \in S
  <2> HIDE DEF S
  <2> QED
    BY <1>3, <1>6, <1>7, Steps
<1>9. n \in 0 .. n /\ last \in Nat /\ q(n) = last - 1
  BY <1>1, <1>3
<1> HIDE DEF q
<1>10. Len(s[n]) = last - 1 /\ \A k \in 1 .. last - 1 : s[n][k] = prefix[k + 1]
  BY <1>8, <1>9
<1>11. \A k \in 1 .. last - 1 : k + 1 \in 1 .. last
  BY <1>9
<1>12. (last - 1) + 1 = last
  BY <1>9
<1> QED
  BY <1>1, <1>2, <1>10, <1>11, <1>12 DEF P

\* An entry matches a path without dot segments exactly if its prefix has no
\* doubled slash and its segments begin the path's.
LEMMA MatchIff ==
  ASSUME NEW route, route.prefix \in Texts, Rooted(route.prefix),
         NEW path \in Texts, Rooted(path), ~hasDotSegments(path)
  PROVE  /\ Matches(Entry(route), Clean(path))
              <=> Extends(TrimRight(route.prefix), Clean(path))
         /\ Matches(Entry(route), Clean(path))
              <=> /\ ~Doubled(route.prefix)
                  /\ IsPrefix(Segments(route.prefix), Segments(path))
<1> DEFINE prefix == route.prefix
           P == TrimRight(prefix)
           K == Clean(path)
           s == Segments(path)
<1> HIDE DEF prefix
<1>0. prefix \in Texts /\ Rooted(prefix)
  BY DEF prefix
<1>1. PICK last \in 1 .. Len(prefix) :
           /\ P \in Texts /\ Len(P) = last
           /\ \A k \in 1 .. last : P[k] = prefix[k]
           /\ \A k \in 1 .. Len(prefix) : k > last => prefix[k] = Blank
           /\ last = 1 \/ prefix[last] # Blank
  BY <1>0, TrimFacts
<1>2. s \in Texts /\ Len(s) \in Nat /\ \A k \in 1 .. Len(s) : s[k] # Blank
  BY SegmentsFull, TextFacts
<1>3. /\ K \in Texts /\ K[1] = Blank
      /\ s = << >> => Len(K) = 2 /\ K[2] = Blank
      /\ s # << >> => Len(K) = Len(s) + 1 /\ \A k \in 1 .. Len(s) : K[k + 1] = s[k]
  <2>1. K = CleanOf(s) /\ Blank \in Words
    BY CleanText, RootedFacts
  <2> HIDE DEF K, s
  <2> QED
    BY <1>2, <2>1, CleanOfFacts
<1>4. Entry(route).prefix = P
  BY DEF Entry, prefix
<1>5. /\ prefix[1] = Blank /\ last \in Nat /\ last >= 1 /\ Len(K) \in Nat
      /\ P[1] = Blank /\ last \in 1 .. last
  <2>1. Len(prefix) \in Nat /\ prefix[1] = Blank
    BY <1>0, RootedFacts
  <2>2. last \in Nat /\ last >= 1 /\ 1 \in 1 .. last /\ last \in 1 .. last
    BY <1>1, <2>1
  <2> QED
    BY <1>1, <1>3, <2>1, <2>2, TextFacts
<1>6. s = << >> <=> Len(s) = 0
  BY <1>2, TextFacts
<1>7. /\ Segments(prefix) \in Texts
      /\ ~Doubled(prefix) => /\ Len(Segments(prefix)) + 1 = Len(P)
                             /\ \A k \in 1 .. Len(Segments(prefix)) :
                                  Segments(prefix)[k] = P[k + 1]
  BY <1>0, SegmentsFull, PrefixSegments
<1>8. Doubled(prefix) <=> \E i \in 2 .. Len(P) : P[i] = Blank
  BY DEF Doubled, Blank
<1> HIDE DEF P, K, s
<1>9. Matches(Entry(route), K) <=> Extends(P, K)
  <2>1. Matches(Entry(route), K) <=> P = K \/ IsPrefix(P, K)
    BY <1>4 DEF Matches, IsStrictPrefix
  <2>2. IsPrefix(P, K) <=> Extends(P, K)
    BY <1>1, <1>3, PrefixIff
  <2>3. P = K => Extends(P, K)
    BY <1>3, ExtendsFacts
  <2> QED
    BY <2>1, <2>2, <2>3
<1>10. ASSUME Extends(P, K)
       PROVE  ~Doubled(prefix) /\ IsPrefix(Segments(prefix), s)
  <2>1. last <= Len(K) /\ \A k \in 1 .. last : K[k] = P[k]
    BY <1>1, <1>10 DEF Extends
  <2>2. s = << >> => last = 1
    <3> SUFFICES ASSUME s = << >>, last # 1
                 PROVE  FALSE
      OBVIOUS
    <3>1. Len(K) = 2
      BY <1>3
    <3>2. last = 2
      BY <1>5, <2>1, <3>1
    <3>3. P[last] # Blank /\ K[last] = P[last]
      BY <1>1, <1>5, <2>1
    <3> QED
      BY <1>3, <3>2, <3>3
  <2>3. ASSUME NEW i \in 2 .. last
        PROVE  P[i] # Blank /\ i - 1 \in 1 .. Len(s) /\ P[i] = s[i - 1]
    <3>1. s # << >>
      BY <1>5, <2>2
    <3>2. Len(K) = Len(s) + 1
      BY <1>3, <3>1
    <3>3. i \in 1 .. last /\ i - 1 \in 1 .. Len(s) /\ (i - 1) + 1 = i
      BY <1>2, <1>5, <2>1, <3>2
    <3>4. K[i] = s[i - 1]
      BY <1>3, <3>1, <3>3
    <3> QED
      BY <1>2, <2>1, <3>3, <3>4
  <2>4. ~Doubled(prefix)
    BY <1>1, <1>8, <2>3
  <2>5. Len(Segments(prefix)) \in Nat /\ Len(Segments(prefix)) + 1 = last
    BY <1>1, <1>7, <2>4, TextFacts
  <2>6. Len(Segments(prefix)) <= Len(s)
    <3>1. CASE last = 1
      BY <1>2, <2>5, <3>1
    <3>2. CASE last # 1
      <4>1. last \in 2 .. last
        BY <1>5, <3>2
      <4>2. last - 1 \in 1 .. Len(s)
        BY <2>3, <4>1
      <4> QED
        BY <1>2, <1>5, <2>5, <4>2
    <3> QED
      BY <3>1, <3>2
  <2>7. ASSUME NEW k \in 1 .. Len(Segments(prefix))
        PROVE  s[k] = Segments(prefix)[k]
    <3>1. k + 1 \in 2 .. last /\ (k + 1) - 1 = k
      BY <2>5
    <3>2. P[k + 1] = s[k]
      BY <2>3, <3>1
    <3> QED
      BY <1>7, <2>4, <3>2
  <2>8. Extends(Segments(prefix), s)
    BY <2>6, <2>7 DEF Extends
  <2> QED
    BY <1>2, <1>7, <2>4, <2>8, PrefixIff
<1>11. ASSUME ~Doubled(prefix), IsPrefix(Segments(prefix), s)
       PROVE  Extends(P, K)
  <2>1. Extends(Segments(prefix), s)
    BY <1>2, <1>7, <1>11, PrefixIff
  <2>2. /\ Len(Segments(prefix)) \in Nat /\ Len(Segments(prefix)) + 1 = last
        /\ Len(Segments(prefix)) <= Len(s)
    BY <1>1, <1>7, <1>11, <2>1, TextFacts DEF Extends
  <2>3. last <= Len(K)
    BY <1>2, <1>3, <1>6, <2>2
  <2>4. ASSUME NEW k \in 1 .. last
        PROVE  K[k] = P[k]
    <3>1. CASE k = 1
      BY <1>3, <1>5, <3>1
    <3>2. CASE k # 1
      <4>1. k - 1 \in 1 .. Len(Segments(prefix)) /\ (k - 1) + 1 = k
        BY <1>5, <2>2, <3>2
      <4>2. k - 1 \in 1 .. Len(s) /\ s # << >>
        BY <1>2, <1>6, <2>2, <4>1
      <4>3. Segments(prefix)[k - 1] = P[k]
        BY <1>7, <1>11, <4>1
      <4>4. s[k - 1] = Segments(prefix)[k - 1]
        BY <2>1, <4>1 DEF Extends
      <4>5. K[k] = s[k - 1]
        BY <1>3, <4>1, <4>2
      <4> QED
        BY <4>3, <4>4, <4>5
    <3> QED
      BY <3>1, <3>2
  <2> QED
    BY <1>1, <2>3, <2>4 DEF Extends
<1> QED
  BY <1>9, <1>10, <1>11 DEF prefix, P, K, s

\* Table.Match finds the first entry that matches.
LEMMA MatchFacts ==
  ASSUME NEW n \in Nat, NEW t, DOMAIN t = 1 .. n, t = [i \in 1 .. n |-> t[i]], NEW path
  PROVE  /\ Match(t, path) \in 0 .. n
         /\ Match(t, path) = 0 => \A i \in 1 .. n : ~Matches(t[i], Clean(path))
         /\ Match(t, path) # 0 =>
              /\ Matches(t[Match(t, path)], Clean(path))
              /\ \A i \in 1 .. n : Matches(t[i], Clean(path)) => Match(t, path) <= i
<1> DEFINE I == {i \in 1 .. Len(t) : Matches(t[i], Clean(path))}
<1>1. Len(t) = n
  <2>1. \A i \in 1 .. n : t[i] \in Range(t)
    BY DEF Range
  <2>2. t \in Seq(Range(t))
    BY <2>1
  <2> QED
    BY <2>2
<1>2. Match(t, path) = IF I # {} THEN Min(I) ELSE 0
  BY DEF Match, SelectInSeq
<1>3. I \in SUBSET (1 .. n) /\ \A i \in 1 .. n : i \in I <=> Matches(t[i], Clean(path))
  BY <1>1
<1> HIDE DEF I
<1>4. I # {} => Min(I) \in I /\ \A y \in I : Min(I) <= y
  <2>1. I \in SUBSET Nat
    BY <1>3
  <2>2. I # {} => \E x \in I : \A y \in I : x <= y
    BY <2>1, LeastOf
  <2> QED
    BY <2>2 DEF Min
<1>5. CASE I = {}
  <2>1. Match(t, path) = 0
    BY <1>2, <1>5
  <2> QED
    BY <1>3, <1>5, <2>1
<1>6. CASE I # {}
  <2>1. Match(t, path) = Min(I) /\ Min(I) \in 1 .. n
    BY <1>2, <1>3, <1>4, <1>6
  <2>2. Match(t, path) # 0 /\ Match(t, path) \in 0 .. n
    BY <2>1
  <2> QED
    BY <1>3, <1>4, <1>6, <2>1, <2>2
<1> QED
  BY <1>5, <1>6

\* The routes that a path without dot segments can go to, of a list that validates.
CandidatesOf(routes, path) ==
  {i \in DOMAIN routes : /\ ~Doubled(routes[i].prefix)
                         /\ IsPrefix(Segments(routes[i].prefix), Segments(path))}

\* The longest of them is the first match in the sorted table.
LEMMA LongestFirst ==
  ASSUME NEW n \in Nat, NEW routes, ValidRoutes(routes, n),
         NEW path \in Paths, Rooted(path), ~hasDotSegments(Decoded(path)),
         NEW place, place = Route(NewTable(routes), path)
  PROVE  IF place = 0 THEN CandidatesOf(routes, path) = {}
         ELSE \E i \in CandidatesOf(routes, path) :
                /\ NewTable(routes)[place].route = routes[i]
                /\ \A j \in CandidatesOf(routes, path) \ {i} :
                     Len(Segments(routes[j].prefix)) < Len(Segments(routes[i].prefix))
<1> DEFINE f == Order(routes)
           t == NewTable(routes)
           C == CandidatesOf(routes, path)
           K == Clean(path)
           P(i) == TrimRight(routes[i].prefix)
<1>1. /\ f \in [1 .. n -> 1 .. n]
      /\ \A i \in 1 .. n : \E k \in 1 .. n : f[k] = i
      /\ \A i, j \in 1 .. n : i < j => Before(routes, f[i], f[j])
  <2>1. /\ f \in Bijection(1 .. n, 1 .. n)
        /\ \A i, j \in 1 .. n : i < j => Before(routes, f[i], f[j])
    BY OrderPermutes
  <2> HIDE DEF f
  <2> QED
    BY <2>1 DEF Bijection, Injection, Surjection
<1>2. /\ DOMAIN t = 1 .. n /\ t = [i \in 1 .. n |-> t[i]]
      /\ \A i \in 1 .. n : t[i] = Entry(routes[f[i]])
  BY DEF NewTable, ValidRoutes
<1>3. place = Match(t, path)
  BY DEF Route
<1>4. path \in Texts /\ ~hasDotSegments(path)
  BY PathFacts, DotFree
<1>5. DOMAIN routes = 1 .. n
  BY DEF ValidRoutes
<1>6. ASSUME NEW i \in 1 .. n
      PROVE  /\ P(i) \in Texts
             /\ Matches(Entry(routes[i]), K) <=> Extends(P(i), K)
             /\ Matches(Entry(routes[i]), K) <=> i \in C
             /\ i \in C => /\ Len(Segments(routes[i].prefix)) \in Nat
                           /\ Len(P(i)) = Len(Segments(routes[i].prefix)) + 1
             /\ \A j \in 1 .. n : P(i) = P(j) => i = j
  <2>1. routes[i].prefix \in Texts /\ Rooted(routes[i].prefix)
    BY DEF ValidRoutes, ValidRoute, Texts, Words
  <2>2. P(i) \in Texts
    BY <2>1, TrimFacts
  <2>3. /\ Matches(Entry(routes[i]), K) <=> Extends(P(i), K)
        /\ Matches(Entry(routes[i]), K)
             <=> /\ ~Doubled(routes[i].prefix)
                 /\ IsPrefix(Segments(routes[i].prefix), Segments(path))
    BY <1>4, <2>1, MatchIff
  <2>4. i \in C <=> /\ ~Doubled(routes[i].prefix)
                    /\ IsPrefix(Segments(routes[i].prefix), Segments(path))
    BY <1>5 DEF CandidatesOf
  <2>5. Segments(routes[i].prefix) \in Texts
    BY <2>1, SegmentsFull
  <2>6. i \in C => /\ Len(Segments(routes[i].prefix)) \in Nat
                   /\ Len(P(i)) = Len(Segments(routes[i].prefix)) + 1
    BY <2>1, <2>4, <2>5, PrefixSegments, TextFacts
  <2>7. \A j \in 1 .. n : P(i) = P(j) => i = j
    BY <1>5 DEF ValidRoutes, Unique
  <2> HIDE DEF C, K, P
  <2> QED
    BY <2>2, <2>3, <2>4, <2>6, <2>7
<1>7. /\ place \in 0 .. n
      /\ place = 0 => \A i \in 1 .. n : ~Matches(t[i], K)
      /\ place # 0 => /\ Matches(t[place], K)
                      /\ \A i \in 1 .. n : Matches(t[i], K) => place <= i
  <2> HIDE DEF t
  <2> QED
    BY <1>2, <1>3, MatchFacts
<1>8. \A i, j \in 1 .. n : Before(routes, i, j) =>
        Len(P(i)) > Len(P(j)) \/ Len(P(i)) = Len(P(j))
  BY DEF Before, Entry
<1>9. C \in SUBSET (1 .. n)
  BY <1>5 DEF CandidatesOf
<1>10. K \in Texts
  <2>1. Segments(path) \in Texts /\ Blank \in Words /\ K = CleanOf(Segments(path))
    BY <1>4, SegmentsFull, RootedFacts, CleanText
  <2> HIDE DEF K
  <2> QED
    BY <2>1, CleanOfFacts
<1> HIDE DEF f, t, C, K, P
<1>11. CASE place = 0
  <2>1. ASSUME NEW i \in C PROVE FALSE
    <3>1. PICK k \in 1 .. n : f[k] = i
      BY <1>1, <1>9
    <3>2. Matches(t[k], K)
      BY <1>2, <1>6, <1>9, <3>1
    <3> QED
      BY <1>7, <1>11, <3>2
  <2>2. C = {}
    BY <2>1
  <2> QED
    BY <1>11, <2>2 DEF C
<1>12. CASE place # 0
  <2>1. place \in 1 .. n
    BY <1>7, <1>12
  <2> DEFINE i == f[place]
  <2>2. i \in 1 .. n /\ t[place] = Entry(routes[i]) /\ Matches(Entry(routes[i]), K)
    BY <1>1, <1>2, <1>7, <1>12, <2>1
  <2> HIDE DEF i
  <2>3. i \in C /\ t[place].route = routes[i]
    BY <1>6, <2>2 DEF Entry
  <2>4. ASSUME NEW j \in C \ {i}
        PROVE  Len(Segments(routes[j].prefix)) < Len(Segments(routes[i].prefix))
    <3>1. j \in 1 .. n /\ j # i
      BY <1>9
    <3>2. PICK k \in 1 .. n : f[k] = j
      BY <1>1, <3>1
    <3>3. Matches(t[k], K)
      BY <1>2, <1>6, <2>4, <3>1, <3>2
    <3>4. place < k
      <4>1. place <= k /\ place # k
        BY <1>7, <1>12, <3>1, <3>2, <3>3 DEF i
      <4> QED
        BY <2>1, <4>1
    <3>5. Len(P(i)) > Len(P(j)) \/ Len(P(i)) = Len(P(j))
      <4>1. Before(routes, i, j)
        BY <1>1, <2>1, <3>2, <3>4 DEF i
      <4> QED
        BY <1>8, <2>2, <3>1, <4>1
    <3>6. /\ Len(P(i)) = Len(Segments(routes[i].prefix)) + 1
          /\ Len(P(j)) = Len(Segments(routes[j].prefix)) + 1
          /\ Len(Segments(routes[i].prefix)) \in Nat /\ Len(Segments(routes[j].prefix)) \in Nat
      BY <1>6, <2>2, <2>3, <2>4, <3>1
    <3>7. Len(P(i)) # Len(P(j))
      <4> SUFFICES ASSUME Len(P(i)) = Len(P(j))
                   PROVE  FALSE
        OBVIOUS
      <4>1. /\ P(i) \in Texts /\ P(j) \in Texts
            /\ Extends(P(i), K) /\ Extends(P(j), K)
        BY <1>6, <2>2, <2>4, <3>1
      <4>2. \A m \in 1 .. Len(P(i)) : P(i)[m] = P(j)[m]
        BY <4>1 DEF Extends
      <4>3. P(i) = P(j)
        BY <4>1, <4>2, TextEqual
      <4> QED
        BY <1>6, <2>2, <3>1, <4>3
    <3> QED
      BY <3>5, <3>6, <3>7
  <2> QED
    BY <1>12, <2>3, <2>4 DEF C, t
<1> QED
  BY <1>11, <1>12

\* config.go:104-110, table.go:24-55: for every document that validates and every
\* path the gateway routes, the first match is the longest candidate, and without
\* a match there is no candidate.
THEOREM RoutesLongestPrefixHolds == ProcessSpec => RoutesLongestPrefix
<1>1. ASSUME ConfigInv, [ProcessNext]_processVars, Built, NEW path \in Paths,
             Rooted(path), ~hasDotSegments(Decoded(path)),
             NEW place, place = Route(table', path)
      PROVE  IF place = 0 THEN Candidates(path) = {}
             ELSE \E i \in Candidates(path) :
                    /\ table'[place].route = cfg.routes[i]
                    /\ \A j \in Candidates(path) \ {i} :
                         Len(Segments(cfg.routes[j].prefix))
                           < Len(Segments(cfg.routes[i].prefix))
  <2>1. PICK n \in Nat : ValidRoutes(cfg.routes, n) /\ table' = NewTable(cfg.routes)
    BY <1>1, BuiltFacts
  <2>2. Candidates(path) = CandidatesOf(cfg.routes, path)
    BY DEF Candidates, CandidatesOf
  <2>3. place = Route(NewTable(cfg.routes), path)
    BY <1>1, <2>1
  <2>4. IF place = 0 THEN CandidatesOf(cfg.routes, path) = {}
        ELSE \E i \in CandidatesOf(cfg.routes, path) :
               /\ NewTable(cfg.routes)[place].route = cfg.routes[i]
               /\ \A j \in CandidatesOf(cfg.routes, path) \ {i} :
                    Len(Segments(cfg.routes[j].prefix)) < Len(Segments(cfg.routes[i].prefix))
    BY <1>1, <2>1, <2>3, LongestFirst
  <2> QED
    BY <2>1, <2>2, <2>4
<1>2. ConfigInv /\ [ProcessNext]_processVars
        => [Built => \A path \in Paths :
              Rooted(path) /\ ~hasDotSegments(Decoded(path))
                => LET place == Route(table', path)
                   IN  IF place = 0 THEN Candidates(path) = {}
                       ELSE \E i \in Candidates(path) :
                              /\ table'[place].route = cfg.routes[i]
                              /\ \A j \in Candidates(path) \ {i} :
                                   Len(Segments(cfg.routes[j].prefix))
                                     < Len(Segments(cfg.routes[i].prefix))]_processVars
  BY <1>1
<1> QED
  BY <1>2, ProcessInvariant, PTL DEF ProcessSpec, RoutesLongestPrefix

\* The segments of a longer text extend those of a shorter one.
LEMMA SegmentsConcat ==
  ASSUME NEW x \in Texts, NEW y \in Texts
  PROVE  Extends(Segments(x), Segments(x \o y))
<1> DEFINE z == x \o y
<1>1. z \in Texts /\ Extends(x, z)
  BY ConcatFacts, ExtendsFacts
<1> HIDE DEF z
<1>2. PICK s : Collects(s, z) /\ Segments(z) = s[Len(z)]
  BY <1>1, SegmentsFold
<1>3. Segments(x) = s[Len(x)]
  BY <1>1, <1>2, SegmentsOf
<1>4. Len(x) \in 0 .. Len(z)
  BY <1>1, TextFacts DEF Extends
<1>5. Extends(s[Len(x)], s[Len(z)])
  BY <1>1, <1>2, <1>4, CollectGrows
<1> QED
  BY <1>2, <1>3, <1>5 DEF z

LEMMA SegmentsAppend ==
  ASSUME NEW x \in Texts, NEW w \in Words
  PROVE  Segments(x \o <<w>>) = SegmentStep(Segments(x), w)
<1> DEFINE y == <<w>>
           z == x \o y
<1>1. y \in Texts /\ Len(y) = 1 /\ y[1] = w
  BY SingleFacts
<1> HIDE DEF y
<1>2. z \in Texts /\ Extends(x, z) /\ Len(z) = Len(x) + 1 /\ z[Len(x) + 1] = w
  <2>1. 1 \in 1 .. 1
    OBVIOUS
  <2>2. /\ x \o y \in Texts /\ Len(x \o y) = Len(x) + Len(y)
        /\ \A i \in 1 .. Len(y) : (x \o y)[Len(x) + i] = y[i]
    BY <1>1, ConcatFacts
  <2>3. Extends(x, x \o y)
    BY <1>1, ExtendsFacts
  <2> QED
    BY <1>1, <2>1, <2>2, <2>3
<1> HIDE DEF z
<1>3. PICK s : Collects(s, z) /\ Segments(z) = s[Len(z)]
  BY <1>2, SegmentsFold
<1>4. Segments(x) = s[Len(x)]
  BY <1>2, <1>3, SegmentsOf
<1>5. Len(x) \in Nat /\ Len(x) + 1 \in 1 .. Len(z) /\ (Len(x) + 1) - 1 = Len(x)
  BY <1>2, TextFacts
<1>6. s[Len(z)] = SegmentStep(s[Len(x)], w)
  BY <1>2, <1>3, <1>5 DEF Collects
<1> QED
  BY <1>3, <1>4, <1>6 DEF y, z

\* The segments that a path begins with stay there when it is decoded, if they
\* have no escapes: decoding only splits segments.
LEMMA DecodedSegments ==
  ASSUME NEW path \in Texts, Escaped(path), Unescape(Blank) = <<Blank>>,
         NEW p \in Texts, Extends(p, Segments(path)),
         \A k \in 1 .. Len(p) : Unescape(p[k]) = <<p[k]>>
  PROVE  Extends(p, Segments(Decoded(path)))
<1> DEFINE n == Len(path)
           m == Len(p)
<1>1. PICK s : Collects(s, path) /\ Segments(path) = s[n]
  BY SegmentsFold
<1>2. PICK d : Decodes(d, path) /\ Decoded(path) = d[n]
  BY DecodedFold
<1>3. /\ s \in [0 .. n -> Texts] /\ \A i \in 0 .. n : Extends(s[i], s[n])
  BY <1>1, CollectGrows
<1>4. d \in [0 .. n -> Texts]
  BY <1>2, DecodeGrows
<1>5. /\ n \in Nat /\ m \in Nat /\ \A i \in 1 .. n : path[i] \in Words
      /\ \A i \in 1 .. n : Unescape(path[i]) \in Texts
  BY TextFacts DEF Escaped
<1>6. /\ s[0] = << >> /\ \A i \in 1 .. n : s[i] = SegmentStep(s[i - 1], path[i])
      /\ d[0] = << >> /\ \A i \in 1 .. n : d[i] = d[i - 1] \o Unescape(path[i])
  BY <1>1, <1>2 DEF Collects, Decodes
<1>7. Extends(p, s[n])
  BY <1>1
<1>8. 0 \in 0 .. n /\ n \in 0 .. n
  BY <1>5
<1> HIDE DEF n
<1> DEFINE Stays(i) == /\ Len(s[i]) <= m => Segments(d[i]) = s[i]
                       /\ Len(s[i]) >= m => Extends(p, Segments(d[i]))
           S == {i \in 0 .. n : Stays(i)}
<1>9. 0 \in S
  <2>1. << >> \in Texts /\ Len(<< >>) = 0 /\ s[0] \in Texts
    BY <1>3, <1>6, <1>8
  <2>2. PICK c : Collects(c, << >>) /\ Segments(<< >>) = c[Len(<< >>)]
    BY <2>1, SegmentsFold
  <2>3. Segments(d[0]) = s[0] /\ Len(s[0]) = 0
    BY <1>6, <2>1, <2>2 DEF Collects
  <2>4. m = 0 => Extends(p, Segments(d[0]))
    BY <1>6, <2>3 DEF Extends
  <2>5. Len(s[0]) >= m => m = 0
    BY <1>5, <2>3
  <2> QED
    BY <1>8, <2>3, <2>4, <2>5
<1>10. ASSUME NEW i \in 0 .. n - 1, i \in S
       PROVE  i + 1 \in S
  <2> DEFINE w == path[i + 1]
             u == Unescape(w)
             a == s[i]
             b == s[i + 1]
             x == d[i]
             y == d[i + 1]
  <2>1. i \in 0 .. n /\ i + 1 \in 0 .. n /\ i + 1 \in 1 .. n /\ (i + 1) - 1 = i
    BY <1>5
  <2>2. /\ a \in Texts /\ b \in Texts /\ x \in Texts /\ y \in Texts /\ w \in Words
        /\ u \in Texts /\ b = SegmentStep(a, w) /\ y = x \o u /\ Extends(b, s[n])
    BY <1>3, <1>4, <1>5, <1>6, <2>1
  <2>3. /\ Len(a) <= m => Segments(x) = a
        /\ Len(a) >= m => Extends(p, Segments(x))
    BY <1>10
  <2>4. s[n] \in Texts /\ Len(a) \in Nat /\ Len(b) \in Nat
    BY <1>3, <1>8, <2>2, TextFacts
  <2>5. u = <<w>> => Segments(y) = SegmentStep(Segments(x), w)
    BY <2>2, SegmentsAppend
  <2>6. Extends(Segments(x), Segments(y)) /\ Segments(x) \in Texts /\ Segments(y) \in Texts
    BY <2>2, SegmentsConcat, SegmentsFull
  <2>7. w = Blank => u = <<w>>
    OBVIOUS
  <2>8. \A k \in 1 .. m : w = p[k] => u = <<w>>
    OBVIOUS
  <2>9. ASSUME Stays(i + 1) PROVE i + 1 \in S
    <3> HIDE DEF Stays
    <3> QED
      BY <2>1, <2>9
  <2>10. Stays(i + 1) <=> /\ Len(b) <= m => Segments(y) = b
                          /\ Len(b) >= m => Extends(p, Segments(y))
    OBVIOUS
  <2> HIDE DEF w, u, a, b, x, y, S, m, Stays
  <2> SUFFICES /\ Len(b) <= m => Segments(y) = b
               /\ Len(b) >= m => Extends(p, Segments(y))
    BY <2>9, <2>10
  <2>11. CASE w = Blank
    <3>1. b = a /\ Segments(y) = Segments(x)
      BY <2>2, <2>5, <2>7, <2>11 DEF SegmentStep
    <3> QED
      BY <2>3, <3>1
  <2>12. CASE w # Blank /\ Len(a) < m
    <3>1. b = Append(a, w)
      BY <2>2, <2>12 DEF SegmentStep
    <3> DEFINE k == Len(a) + 1
    <3>2. Len(b) = k /\ b[k] = w
      BY <2>2, <3>1, AppendFacts
    <3>3. k \in 1 .. m /\ k \in 1 .. k /\ k \in Nat
      BY <1>5, <2>4, <2>12
    <3> HIDE DEF k
    <3>4. s[n][k] = w /\ s[n][k] = p[k]
      BY <1>7, <2>2, <3>2, <3>3 DEF Extends, m
    <3>5. u = <<w>>
      BY <2>8, <3>3, <3>4
    <3>6. Segments(x) = a
      BY <1>5, <2>3, <2>4, <2>12
    <3>7. Segments(y) = b
      BY <2>2, <2>5, <3>5, <3>6
    <3>8. ASSUME Len(b) >= m PROVE Extends(p, b)
      <4>1. Len(b) = m
        BY <1>5, <3>2, <3>3, <3>8
      <4> QED
        BY <1>7, <2>2, <4>1 DEF Extends, m
    <3> QED
      BY <3>7, <3>8
  <2>13. CASE w # Blank /\ ~(Len(a) < m)
    <3>1. b = Append(a, w)
      BY <2>2, <2>13 DEF SegmentStep
    <3>2. Len(b) = Len(a) + 1
      BY <2>2, <3>1, AppendFacts
    <3>3. Len(a) >= m /\ ~(Len(b) <= m)
      BY <1>5, <2>4, <2>13, <3>2
    <3>4. Extends(p, Segments(y))
      BY <2>3, <2>6, <3>3, ExtendsFacts
    <3> QED
      BY <3>3, <3>4
  <2> QED
    BY <2>11, <2>12, <2>13
<1>11. \A i \in 0 .. n : i \in S
  <2> HIDE DEF S
  <2> QED
    BY <1>5, <1>9, <1>10, Steps
<1>12. Len(s[n]) >= m
  <2>1. Len(s[n]) \in Nat
    BY <1>3, <1>8, TextFacts
  <2> QED
    BY <1>5, <1>7, <2>1 DEF Extends
<1> QED
  BY <1>2, <1>8, <1>11, <1>12

\* Only a rooted path is routed.
LEMMA RoutedRooted ==
  ASSUME NEW prefix \in Texts, Rooted(prefix), NEW path \in Texts, ~Rooted(path)
  PROVE  /\ TrimRight(prefix) # Clean(path)
         /\ ~IsStrictPrefix(TrimRight(prefix), Clean(path))
<1> DEFINE P == TrimRight(prefix)
           K == Clean(path)
<1>1. P \in Texts /\ Len(P) \in Nat /\ Len(P) >= 1 /\ P[1] = Blank
  <2>1. PICK last \in 1 .. Len(prefix) :
           /\ P \in Texts /\ Len(P) = last
           /\ \A k \in 1 .. last : P[k] = prefix[k]
    BY TrimFacts
  <2>2. prefix[1] = Blank /\ Len(prefix) \in Nat
    BY RootedFacts
  <2>3. last \in Nat /\ last >= 1 /\ 1 \in 1 .. last
    BY <2>2
  <2> HIDE DEF P
  <2> QED
    BY <2>1, <2>2, <2>3
<1> DEFINE w == "."
<1>2. (K = IF path = <<Blank>> THEN <<w>> ELSE path) /\ w # Blank
  BY CleanFold DEF Blank
<1>3. ~(Len(path) > 1 /\ path[1] = Blank)
  BY DEF Rooted, Blank
<1> SUFFICES P # K /\ ~IsPrefix(P, K)
  BY DEF IsStrictPrefix
<1> HIDE DEF P, K, w
<1>4. CASE path = <<Blank>>
  <2>1. K = <<w>> /\ w # Blank
    BY <1>2, <1>4
  <2>2. P # K
    BY <1>1, <2>1
  <2>3. ~IsPrefix(P, K)
    <3> SUFFICES ASSUME Len(P) <= Len(K), SubSeq(P, 1, Len(P)) = SubSeq(K, 1, Len(P))
                 PROVE  FALSE
      BY DEF IsPrefix
    <3>1. K[1] = w /\ K \in Seq({w})
      BY <2>1
    <3>2. Len(K) = 1
      BY <2>1
    <3>3. Len(P) = 1
      <4>1. Len(P) \in Nat /\ Len(P) >= 1
        BY <1>1
      <4> QED
        BY <3>2, <4>1
    <3>4. SubSeq(P, 1, 1)[1] = P[1]
      BY <1>1, <3>3 DEF Texts
    <3>5. SubSeq(K, 1, 1)[1] = w
      BY <3>1
    <3> QED
      BY <1>1, <2>1, <3>3, <3>4, <3>5
  <2> QED
    BY <2>2, <2>3
<1>5. CASE path # <<Blank>>
  <2>1. K = path /\ K \in Texts /\ Len(K) \in Nat
    BY <1>2, <1>5, TextFacts
  <2>2. SUFFICES ASSUME Extends(P, K)
                 PROVE  FALSE
    BY <1>1, <2>1, PrefixIff, ExtendsFacts
  <2>3. Len(K) >= 1 /\ K[1] = Blank
    BY <1>1, <2>1, <2>2 DEF Extends
  <2>4. path[1] = Blank
    BY <2>1, <2>3
  <2>5. Len(path) = 1
    <3>1. Len(path) \in Nat /\ Len(path) >= 1 /\ ~(Len(path) > 1)
      BY <1>3, <2>1, <2>3, <2>4
    <3>2. \A x \in Nat : x >= 1 /\ ~(x > 1) => x = 1
      OBVIOUS
    <3> QED
      BY <3>1, <3>2, Zenon
  <2>6. Blank \in Words
    <3>1. 1 \in 1 .. Len(path)
      BY <2>5
    <3> QED
      BY <2>4, <3>1, TextFacts
  <2>7. path = <<Blank>>
    <3> DEFINE z == <<Blank>>
    <3>1. z \in Texts /\ Len(z) = 1 /\ z[1] = Blank
      BY <2>6, SingleFacts
    <3> HIDE DEF z
    <3>2. \A i \in 1 .. 1 : z[i] = path[i]
      BY <2>4, <3>1
    <3>3. path = z
      BY <2>5, <3>1, <3>2, TextEqual
    <3> QED
      BY <3>3 DEF z
  <2> QED
    BY <1>5, <2>7
<1> QED
  BY <1>4, <1>5

\* gateway.go:81-95: whatever path the gateway routes, what the upstream resolves
\* it to after decoding and cleaning lies under the route's prefix.
THEOREM ResolvedWithinRouteHolds == ProcessSpec => ResolvedWithinRoute
<1>1. ASSUME ConfigInv, [ProcessNext]_processVars, Built, NEW path \in Paths,
             NEW place, place = Route(table', path), place # 0,
             Literal(table'[place].prefix)
      PROVE  IsPrefix(table'[place].prefix, Clean(Decoded(path)))
  <2>1. PICK n \in Nat : ValidRoutes(cfg.routes, n) /\ table' = NewTable(cfg.routes)
    BY <1>1, BuiltFacts
  <2>2. ~hasDotSegments(Decoded(path)) /\ place = Match(table', path)
    BY <1>1, Zenon DEF Route
  <2>3. /\ DOMAIN table' = 1 .. n /\ table' = [i \in 1 .. n |-> table'[i]]
        /\ \A i \in 1 .. n : \E k \in 1 .. n : table'[i] = Entry(cfg.routes[k])
    <3>1. DOMAIN table' = 1 .. n
      BY <2>1 DEF NewTable, ValidRoutes
    <3>2. table' = [i \in 1 .. n |-> table'[i]]
      BY <2>1 DEF NewTable, ValidRoutes
    <3>3. \A i \in 1 .. n : \E k \in 1 .. n : NewTable(cfg.routes)[i] = Entry(cfg.routes[k])
      BY <2>1, TableFacts
    <3> QED
      BY <2>1, <3>1, <3>2, <3>3
  <2>4. place \in 1 .. n /\ Matches(table'[place], Clean(path))
    <3>1. place \in 0 .. n /\ Matches(table'[place], Clean(path))
      BY <1>1, <2>2, <2>3, MatchFacts
    <3> QED
      BY <1>1, <3>1
  <2>5. PICK k \in 1 .. n : table'[place] = Entry(cfg.routes[k])
    BY <2>3, <2>4
  <2> DEFINE route == cfg.routes[k]
             prefix == route.prefix
             P == TrimRight(prefix)
             p == Segments(prefix)
  <2>6. prefix \in Texts /\ Rooted(prefix) /\ table'[place].prefix = P
    <3>1. ValidRoute(route) /\ prefix \in Seq(STRING)
      BY <2>1 DEF ValidRoutes
    <3>2. Rooted(prefix)
      BY <3>1 DEF ValidRoute
    <3>3. prefix \in Texts
      BY <3>1 DEF Texts, Words
    <3>4. table'[place].prefix = P
      BY <2>5 DEF Entry
    <3> QED
      BY <3>2, <3>3, <3>4
  <2>7. path \in Texts /\ Escaped(path) /\ Unescape(Blank) = <<Blank>> /\ ~hasDotSegments(path)
    BY <2>2, PathFacts, DotFree
  <2>8. Rooted(path)
    BY <2>4, <2>6, <2>7, RoutedRooted DEF Matches
  <2>9. Decoded(path) \in Texts /\ Rooted(Decoded(path))
    BY <2>8, DecodedRooted
  <2>10. ~Doubled(prefix) /\ IsPrefix(p, Segments(path))
    BY <2>4, <2>5, <2>6, <2>7, <2>8, MatchIff
  <2>11. P \in Texts /\ p \in Texts /\ Segments(path) \in Texts /\ Segments(Decoded(path)) \in Texts
    BY <2>6, <2>7, <2>9, TrimFacts, SegmentsFull
  <2>12. Len(p) + 1 = Len(P) /\ \A i \in 1 .. Len(p) : p[i] = P[i + 1]
    BY <2>6, <2>10, PrefixSegments
  <2>13. \A i \in 1 .. Len(p) : Unescape(p[i]) = <<p[i]>>
    <3>1. DOMAIN P = 1 .. Len(P) /\ Len(p) \in Nat
      BY <2>11, TextFacts
    <3>2. \A i \in DOMAIN P : Unescape(P[i]) = <<P[i]>>
      BY <1>1, <2>6 DEF Literal
    <3> HIDE DEF P, p
    <3>3. \A i \in 1 .. Len(p) : i + 1 \in DOMAIN P
      BY <2>12, <3>1
    <3> QED
      BY <2>12, <3>2, <3>3
  <2>14. Extends(p, Segments(Decoded(path)))
    <3>1. Extends(p, Segments(path))
      BY <2>10, <2>11, PrefixIff
    <3> HIDE DEF p
    <3> QED
      BY <2>7, <2>11, <2>13, <3>1, DecodedSegments
  <2>15. IsPrefix(p, Segments(Decoded(path)))
    BY <2>11, <2>14, PrefixIff
  <2>16. Extends(P, Clean(Decoded(path)))
    BY <2>2, <2>6, <2>9, <2>10, <2>15, MatchIff
  <2>17. Clean(Decoded(path)) \in Texts
    <3>1. Clean(Decoded(path)) = CleanOf(Segments(Decoded(path))) /\ Blank \in Words
      BY <2>2, <2>9, CleanText, RootedFacts
    <3> QED
      BY <2>11, <3>1, CleanOfFacts
  <2> QED
    BY <2>6, <2>11, <2>16, <2>17, PrefixIff
<1>2. ConfigInv /\ [ProcessNext]_processVars
        => [Built => \A path \in Paths :
              LET place == Route(table', path)
              IN  place # 0 /\ Literal(table'[place].prefix)
                    => IsPrefix(table'[place].prefix, Clean(Decoded(path)))]_processVars
  BY <1>1
<1> QED
  BY <1>2, ProcessInvariant, PTL DEF ProcessSpec, ResolvedWithinRoute
================================================================================
