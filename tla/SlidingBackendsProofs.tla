------------------------- MODULE SlidingBackendsProofs -------------------------
(***************************************************************************)
(* The redis sliding_window script, for every rate, window, length of a    *)
(* millisecond and number of backward steps of redis TIME; then the        *)
(* in-memory bucket beside it.                                             *)
(*                                                                         *)
(* The log and the true record of admissions bound each other: the last k  *)
(* admissions that count are in the log (AdmissionsLogged), and fewer than *)
(* k entries are later than the k-th admission (EntriesAdmitted).  A clock *)
(* set back makes entries look newer than they are, by no more than it was *)
(* set back, and never makes one look older.  A key that expires holds     *)
(* nothing that still counts (ExpiryCoversLog).                            *)
(*                                                                         *)
(* The bucket's log records the admissions exactly (Recorded), so that it  *)
(* answers as the quota does; so does the script until TIME is set back.   *)
(***************************************************************************)
EXTENDS SlidingBackends, Sequences, FiniteSetTheorems, WellFoundedInduction, TLAPS

(* Arithmetic. *)

LEMMA Constants ==
  /\ Rate \in Nat \ {0} /\ Window \in Nat \ {0} /\ MaxTime \in Nat
  /\ Milli \in Nat \ {0} /\ MaxSteps \in Nat
  /\ Rate \in 1 .. Rate + 1 /\ Rate + 1 \in 1 .. Rate + 1 /\ 1 \in 1 .. Rate + 1
BY WindowAssumption, RedisAssumption

LEMMA DivMod ==
  ASSUME NEW d \in Nat \ {0}, NEW t \in Nat
  PROVE  /\ t \div d \in Nat
         /\ d * (t \div d) <= t
         /\ t < d * (t \div d) + d
OBVIOUS

LEMMA TimesMonotone ==
  ASSUME NEW a \in Int, NEW b \in Int, a <= b, NEW c \in Nat
  PROVE  c * a <= c * b
<1>1. (b - a) \in Nat
  OBVIOUS
<1>2. (b - a) * c \in Nat
  BY <1>1
<1>3. (b - a) * c = c * b - c * a
  OBVIOUS
<1> QED
  BY <1>2, <1>3

\* A clock set back from n to m, b having been lost before.
LEMMA SetBack ==
  ASSUME NEW n \in Nat, NEW m \in 0 .. n - 1, NEW b \in Nat
  PROVE  m \in Nat /\ m < n /\ b + n - m \in Nat /\ m + (b + n - m) = n + b
OBVIOUS

\* A set of naturals has a least element.
LEMMA LeastOf ==
  ASSUME NEW S \in SUBSET Nat, S # {}
  PROVE  \E x \in S : \A y \in S : x <= y
<1>1. PICK x \in S : \A y \in S : ~(<<y, x>> \in OpToRel(<, Nat))
  BY NatLessThanWellFounded, WFMin
<1>2. \A y \in S : ~(y < x)
  BY <1>1 DEF OpToRel
<1> QED
  BY <1>2

LEMMA MinFacts ==
  ASSUME NEW S \in SUBSET Nat, S # {}
  PROVE  Min(S) \in S /\ \A y \in S : Min(S) <= y
<1>1. \E x \in S : \A y \in S : x <= y
  BY LeastOf
<1> QED
  BY <1>1 DEF Min

LEMMA MaxFacts ==
  ASSUME NEW n \in Nat, NEW S \in SUBSET (0 .. n), S # {}
  PROVE  Max(S) \in S /\ \A y \in S : y <= Max(S)
<1> DEFINE T == {t \in 0 .. n : n - t \in S}
<1>1. T \in SUBSET Nat /\ T # {}
  <2>1. PICK s \in S : TRUE
    OBVIOUS
  <2>2. n - s \in 0 .. n /\ n - (n - s) = s
    OBVIOUS
  <2> QED
    BY <2>1, <2>2
<1>2. PICK t \in T : \A u \in T : t <= u
  BY <1>1, LeastOf
<1>3. n - t \in S /\ t \in 0 .. n
  OBVIOUS
<1>4. \A y \in S : n - t >= y
  <2> TAKE y \in S
  <2>1. n - y \in 0 .. n /\ n - (n - y) = y /\ y \in 0 .. n
    OBVIOUS
  <2>2. n - y \in T
    BY <2>1
  <2>3. t <= n - y
    <3> HIDE DEF T
    <3> QED
      BY <1>2, <2>2
  <2> QED
    BY <1>3, <2>1, <2>3
<1>5. \E x \in S : \A y \in S : x >= y
  BY <1>3, <1>4
<1>6. Max(S) \in S /\ \A y \in S : Max(S) >= y
  BY <1>5 DEF Max
<1> QED
  BY <1>6

-------------------------------------------------------------------------------
(* The log. *)

Entries == [score : 0 .. MaxTime, nonce : Nonces]

\* The entries of the log z from the time t on.
From(z, t) == {m \in z : m.score >= t}

LEMMA LogFinite ==
  ASSUME NEW z \in SUBSET Entries
  PROVE  IsFiniteSet(z) /\ Cardinality(z) \in Nat
<1> DEFINE P == (0 .. MaxTime) \X Nonces
           f == [m \in Entries |-> <<m.score, m.nonce>>]
<1>1. IsFiniteSet(0 .. MaxTime) /\ IsFiniteSet(Nonces)
  BY Constants, FS_Interval DEF Nonces
<1>2. IsFiniteSet(P)
  BY <1>1, FS_Product
<1>3. f \in Injection(Entries, P)
  BY DEF Entries, Injection, IsInjective
<1>4. IsFiniteSet(Entries)
  BY <1>2, <1>3, FS_Injection
<1>5. IsFiniteSet(z)
  BY <1>4, FS_Subset
<1> QED
  BY <1>5, FS_CardinalityType

LEMMA FromFacts ==
  ASSUME NEW z \in SUBSET Entries, NEW t \in Int
  PROVE  /\ From(z, t) \in SUBSET Entries
         /\ IsFiniteSet(From(z, t)) /\ Cardinality(From(z, t)) \in Nat
         /\ From(z, t) \in SUBSET z
         /\ Cardinality(From(z, t)) <= Cardinality(z)
         /\ Cardinality(From(z, t)) = Cardinality(z) => From(z, t) = z
<1>1. From(z, t) \in SUBSET Entries /\ From(z, t) \in SUBSET z
  BY DEF From
<1>2. IsFiniteSet(z) /\ Cardinality(z) \in Nat
  BY LogFinite
<1>3. IsFiniteSet(From(z, t)) /\ Cardinality(From(z, t)) \in Nat
  BY <1>1, LogFinite
<1> QED
  BY <1>1, <1>2, <1>3, FS_Subset

\* A smaller log has fewer entries from a later time on.
LEMMA FromMonotone ==
  ASSUME NEW z \in SUBSET Entries, NEW y \in SUBSET z, NEW t \in Int, NEW u \in Int, t <= u
  PROVE  Cardinality(From(y, u)) <= Cardinality(From(z, t))
<1>1. \A m \in z : m.score \in Int
  BY Constants DEF Entries
<1>2. From(y, u) \in SUBSET From(z, t)
  BY <1>1 DEF From
<1>3. IsFiniteSet(From(z, t))
  BY FromFacts
<1> QED
  BY <1>2, <1>3, FS_Subset

LEMMA SomeEntry ==
  ASSUME NEW z \in SUBSET Entries, Cardinality(z) >= 1
  PROVE  \E m \in z : TRUE
<1>1. IsFiniteSet(z) /\ Cardinality(z) \in Nat
  BY LogFinite
<1> QED
  BY <1>1, FS_EmptySet

LEMMA NoEntry ==
  ASSUME NEW z \in SUBSET Entries, Cardinality(z) < 1
  PROVE  z = {}
<1>1. IsFiniteSet(z) /\ Cardinality(z) \in Nat
  BY LogFinite
<1> QED
  BY <1>1, FS_EmptySet

\* The scores of a log.
LEMMA ScoreFacts ==
  ASSUME NEW z \in SUBSET Entries, z # {}
  PROVE  /\ Scores(z) \in SUBSET (0 .. MaxTime) /\ Scores(z) # {}
         /\ Min(Scores(z)) \in 0 .. MaxTime /\ Max(Scores(z)) \in 0 .. MaxTime
         /\ \A m \in z : Min(Scores(z)) <= m.score /\ m.score <= Max(Scores(z))
         /\ \E m \in z : m.score = Min(Scores(z))
         /\ \E m \in z : m.score = Max(Scores(z))
<1> DEFINE S == Scores(z)
<1>1. S \in SUBSET (0 .. MaxTime) /\ S # {} /\ \A m \in z : m.score \in S
  BY DEF Scores, Entries
<1>2. \A s \in S : \E m \in z : m.score = s
  BY DEF Scores
<1> HIDE DEF S
<1>3. Min(S) \in S /\ \A s \in S : Min(S) <= s
  <2>1. S \in SUBSET Nat
    BY <1>1, Constants
  <2> QED
    BY <1>1, <2>1, MinFacts
<1>4. Max(S) \in S /\ \A s \in S : s <= Max(S)
  BY <1>1, MaxFacts, Constants
<1> QED
  BY <1>1, <1>2, <1>3, <1>4 DEF S

\* A log with room in it leaves a nonce free.
LEMMA FreshNonce ==
  ASSUME NEW z \in SUBSET Entries, Cardinality(z) < Rate
  PROVE  NewNonce(z) \in Nonces /\ \A m \in z : m.nonce # NewNonce(z)
<1>1. \E n \in Nonces : \A m \in z : m.nonce # n
  <2> SUFFICES ASSUME \A n \in Nonces : \E m \in z : m.nonce = n
               PROVE  FALSE
    OBVIOUS
  <2> DEFINE f == [m \in z |-> m.nonce]
  <2>1. f \in Surjection(z, Nonces)
    BY DEF Surjection, Entries
  <2>2. IsFiniteSet(z) /\ Cardinality(z) \in Nat
    BY LogFinite
  <2>3. Cardinality(Nonces) <= Cardinality(z)
    BY <2>1, <2>2, FS_Surjection
  <2>4. Cardinality(Nonces) = Rate
    BY FS_Interval, Constants DEF Nonces
  <2> QED
    BY <2>2, <2>3, <2>4, Constants
<1> QED
  BY <1>1 DEF NewNonce

\* The record of admissions.
LEMMA AgesFacts ==
  ASSUME NEW a \in Ages
  PROVE  /\ Remember(a, TRUE) \in Ages /\ Remember(a, FALSE) = a
         /\ GrowOlder(a) \in Ages /\ NoAdmissions \in Ages
BY Constants DEF Ages, Remember, GrowOlder, NoAdmissions, Older

LEMMA AgeFacts ==
  ASSUME NEW a \in Ages, NEW i \in 1 .. Rate + 1
  PROVE  /\ a[i] \in 0 .. Window /\ a[i] \in Int /\ 0 <= a[i] /\ i \in Nat /\ 1 <= i
         /\ Remember(a, TRUE)[i] = IF i = 1 THEN 0 ELSE a[i - 1]
         /\ i # 1 => i - 1 \in 1 .. Rate + 1
         /\ GrowOlder(a)[i] \in 0 .. Window
         /\ GrowOlder(a)[i] <= a[i] + 1
         /\ GrowOlder(a)[i] < Window => a[i] < Window /\ GrowOlder(a)[i] = a[i] + 1
         /\ GrowOlder(a)[i] = Older(a[i])
BY Constants DEF Ages, Remember, GrowOlder, Older

\* Redis keeps the key as long as an entry of this instant counts.
LEMMA ExpiryCovers ==
  ASSUME NEW t \in Nat
  PROVE  /\ (t \div Milli) + CeilMilli(Window) \in Nat
         /\ t + Window <= ((t \div Milli) + CeilMilli(Window) + 1) * Milli
<1> DEFINE q == t \div Milli
           w == Window + Milli - 1
           c == w \div Milli
<1>1. q \in Nat /\ t < Milli * q + Milli
  BY DivMod, Constants
<1>2. w \in Nat
  BY Constants
<1>3. c \in Nat /\ w < Milli * c + Milli
  <2> HIDE DEF w
  <2> QED
    BY <1>2, DivMod, Constants
<1>4. CeilMilli(Window) = c
  BY DEF CeilMilli
<1> DEFINE mq == Milli * q
           mc == Milli * c
<1>5. (q + c + 1) * Milli = mq + mc + Milli /\ mq \in Int /\ mc \in Int
  <2> HIDE DEF q, c
  <2> QED
    BY <1>1, <1>3, Constants
<1>6. t + Window <= mq + mc + Milli
  <2>1. t < mq + Milli /\ w < mc + Milli
    BY <1>1, <1>3
  <2>2. w = Window + Milli - 1
    OBVIOUS
  <2> HIDE DEF mq, mc, w
  <2> QED
    BY <1>5, <2>1, <2>2, Constants
<1> QED
  BY <1>1, <1>3, <1>4, <1>5, <1>6

-------------------------------------------------------------------------------
(* The two bounds, for a log z and admissions of ages a. *)

\* AdmissionsLogged at the time t.
Logged(z, a, t) ==
  \A k \in 1 .. Rate + 1 : a[k] < Window => Cardinality(From(z, t - a[k])) >= k

\* EntriesAdmitted at the real time t.
NoOthers(z, a, t) ==
  \A k \in 1 .. Rate + 1 : Cardinality(From(z, t - a[k] + 1)) < k

Sorted(a) == \A i, j \in 1 .. Rate + 1 : i <= j => a[i] <= a[j]

LEMMA OthersOf ==
  ASSUME NEW z \in SUBSET Entries, NEW a \in Ages, NEW r \in Int
  PROVE  NoOthers(z, a, r) <=>
           \A k \in 1 .. Rate + 1 : Cardinality({m \in z : m.score > r - a[k]}) < k
<1>1. \A m \in z : m.score \in Int
  BY Constants DEF Entries
<1>2. ASSUME NEW k \in 1 .. Rate + 1
      PROVE  From(z, r - a[k] + 1) = {m \in z : m.score > r - a[k]}
  <2>1. a[k] \in Int
    BY AgeFacts
  <2> QED
    BY <1>1, <2>1 DEF From
<1> QED
  BY <1>2 DEF NoOthers

LEMMA BoundsOf ==
  ASSUME TypeOK
  PROVE  /\ AdmissionsLogged <=> Logged(zset, ages, now)
         /\ EntriesAdmitted <=> NoOthers(zset, ages, now + back)
         /\ AgesSorted <=> Sorted(ages)
<1>1. now \in Nat /\ back \in Nat /\ zset \in SUBSET Entries /\ ages \in Ages
  BY Constants DEF TypeOK, Entries
<1>2. \A k \in 1 .. Rate + 1 : ages[k] \in Int
  BY <1>1, AgeFacts
<1>3. \A m \in zset : m.score \in Int
  BY <1>1, Constants DEF Entries
<1>4. \A k \in 1 .. Rate + 1 :
        {m \in zset : m.score >= now - ages[k]} = From(zset, now - ages[k])
  BY DEF From
<1>6. AdmissionsLogged <=> Logged(zset, ages, now)
  BY <1>4 DEF AdmissionsLogged, Logged
<1>7. EntriesAdmitted <=> NoOthers(zset, ages, now + back)
  <2> DEFINE r == now + back
  <2>1. r \in Int
    BY <1>1
  <2>2. EntriesAdmitted <=>
          \A k \in 1 .. Rate + 1 : Cardinality({m \in zset : m.score > r - ages[k]}) < k
    BY DEF EntriesAdmitted
  <2> HIDE DEF r
  <2>3. EntriesAdmitted <=> NoOthers(zset, ages, r)
    BY <1>1, <2>1, <2>2, OthersOf
  <2> QED
    BY <2>3 DEF r
<1> QED
  BY <1>6, <1>7 DEF AgesSorted, Sorted

\* The same a step later.
LEMMA BoundsOfNext ==
  ASSUME TypeOK'
  PROVE  /\ AdmissionsLogged' <=> Logged(zset', ages', now')
         /\ EntriesAdmitted' <=> NoOthers(zset', ages', now' + back')
         /\ AgesSorted' <=> Sorted(ages')
<1>1. now' \in Nat /\ back' \in Nat /\ zset' \in SUBSET Entries /\ ages' \in Ages
  BY Constants DEF TypeOK, Entries, Nonces, Ages
<1>2. \A k \in 1 .. Rate + 1 : ages'[k] \in Int
  BY <1>1, AgeFacts
<1>3. \A m \in zset' : m.score \in Int
  BY <1>1, Constants DEF Entries
<1>4. \A k \in 1 .. Rate + 1 :
        {m \in zset' : m.score >= now' - ages'[k]} = From(zset', now' - ages'[k])
  BY DEF From
<1>6. AdmissionsLogged' <=> Logged(zset', ages', now')
  BY <1>4 DEF AdmissionsLogged, Logged
<1>7. EntriesAdmitted' <=> NoOthers(zset', ages', now' + back')
  <2> DEFINE r == now' + back'
  <2>1. r \in Int
    BY <1>1
  <2>2. EntriesAdmitted' <=>
          \A k \in 1 .. Rate + 1 : Cardinality({m \in zset' : m.score > r - ages'[k]}) < k
    BY DEF EntriesAdmitted
  <2> HIDE DEF r
  <2>3. EntriesAdmitted' <=> NoOthers(zset', ages', r)
    BY <1>1, <2>1, <2>2, OthersOf
  <2> QED
    BY <2>3 DEF r
<1> QED
  BY <1>6, <1>7 DEF AgesSorted, Sorted

\* Trimming, and time going by for the ages and the clock, keep the bounds.
LEMMA TrimKeepsLogged ==
  ASSUME NEW z \in SUBSET Entries, NEW a \in Ages, NEW t \in Nat, Logged(z, a, t)
  PROVE  Logged(From(z, t - Window + 1), a, t)
<1> SUFFICES ASSUME NEW k \in 1 .. Rate + 1, a[k] < Window
             PROVE  Cardinality(From(From(z, t - Window + 1), t - a[k])) >= k
  BY DEF Logged
<1>1. a[k] \in 0 .. Window
  BY AgeFacts
<1>2. \A m \in z : m.score \in Int
  BY Constants DEF Entries
<1>3. From(From(z, t - Window + 1), t - a[k]) = From(z, t - a[k])
  BY <1>1, <1>2, Constants DEF From
<1> QED
  BY <1>3 DEF Logged

LEMMA LogShrinks ==
  ASSUME NEW z \in SUBSET Entries, NEW y \in SUBSET z, NEW a \in Ages, NEW b \in Ages,
         NEW t \in Nat, NEW u \in Nat, NoOthers(z, a, t),
         \A k \in 1 .. Rate + 1 : t - a[k] <= u - b[k]
  PROVE  NoOthers(y, b, u)
<1> SUFFICES ASSUME NEW k \in 1 .. Rate + 1
             PROVE  Cardinality(From(y, u - b[k] + 1)) < k
  BY DEF NoOthers
<1>1. a[k] \in Int /\ b[k] \in Int /\ k \in Nat
  BY AgeFacts
<1>2. Cardinality(From(y, u - b[k] + 1)) <= Cardinality(From(z, t - a[k] + 1))
  <2>1. t - a[k] + 1 \in Int /\ u - b[k] + 1 \in Int /\ t - a[k] + 1 <= u - b[k] + 1
    BY <1>1
  <2> QED
    BY <2>1, FromMonotone
<1>3. Cardinality(From(z, t - a[k] + 1)) < k
  BY DEF NoOthers
<1>4. Cardinality(From(z, t - a[k] + 1)) \in Nat /\ Cardinality(From(y, u - b[k] + 1)) \in Nat
  <2>1. y \in SUBSET Entries
    OBVIOUS
  <2>2. t - a[k] + 1 \in Int /\ u - b[k] + 1 \in Int
    BY <1>1
  <2> QED
    BY <2>1, <2>2, FromFacts
<1> QED
  BY <1>1, <1>2, <1>3, <1>4

LEMMA ClockRetreats ==
  ASSUME NEW z \in SUBSET Entries, NEW a \in Ages, NEW b \in Ages,
         NEW t \in Nat, NEW u \in Nat, Logged(z, a, t),
         \A k \in 1 .. Rate + 1 : b[k] < Window => a[k] < Window /\ u - b[k] <= t - a[k]
  PROVE  Logged(z, b, u)
<1> SUFFICES ASSUME NEW k \in 1 .. Rate + 1, b[k] < Window
             PROVE  Cardinality(From(z, u - b[k])) >= k
  BY DEF Logged
<1>1. a[k] \in Int /\ b[k] \in Int /\ k \in Nat
  BY AgeFacts
<1>2. u - b[k] \in Int /\ t - a[k] \in Int /\ u - b[k] <= t - a[k]
  BY <1>1
<1>3. Cardinality(From(z, t - a[k])) <= Cardinality(From(z, u - b[k]))
  BY <1>2, FromMonotone
<1>4. Cardinality(From(z, t - a[k])) >= k
  BY DEF Logged
<1>5. Cardinality(From(z, t - a[k])) \in Nat /\ Cardinality(From(z, u - b[k])) \in Nat
  BY <1>2, FromFacts
<1> QED
  BY <1>1, <1>3, <1>4, <1>5

\* An admission at the time t, r in real time.
LEMMA AdmissionLogged ==
  ASSUME NEW z \in SUBSET Entries, NEW a \in Ages, NEW t \in Nat,
         NEW e \in Entries, e \notin z, e.score = t, Logged(z, a, t)
  PROVE  Logged(z \cup {e}, Remember(a, TRUE), t)
<1> DEFINE b == Remember(a, TRUE)
<1> SUFFICES ASSUME NEW k \in 1 .. Rate + 1, b[k] < Window
             PROVE  Cardinality(From(z \cup {e}, t - b[k])) >= k
  BY DEF Logged
<1>1. b[k] \in 0 .. Window /\ k \in Nat /\ 1 <= k /\ b \in Ages
  <2>1. b \in Ages
    BY AgesFacts
  <2> QED
    BY <2>1, AgeFacts
<1> HIDE DEF b
<1>2. From(z \cup {e}, t - b[k]) = From(z, t - b[k]) \cup {e}
  BY <1>1 DEF From
<1>3. e \notin From(z, t - b[k])
  BY DEF From
<1>4. IsFiniteSet(From(z, t - b[k])) /\ Cardinality(From(z, t - b[k])) \in Nat
  <2>1. t - b[k] \in Int
    BY <1>1
  <2> QED
    BY <2>1, FromFacts
<1>5. Cardinality(From(z \cup {e}, t - b[k])) = Cardinality(From(z, t - b[k])) + 1
  BY <1>2, <1>3, <1>4, FS_AddElement
<1>6. CASE k = 1
  BY <1>4, <1>5, <1>6
<1>7. CASE k # 1
  <2>1. k - 1 \in 1 .. Rate + 1 /\ b[k] = a[k - 1]
    BY <1>7, AgeFacts DEF b
  <2>2. Cardinality(From(z, t - b[k])) >= k - 1
    BY <2>1 DEF Logged
  <2> QED
    BY <1>1, <1>4, <1>5, <2>2
<1> QED
  BY <1>6, <1>7

LEMMA AdmissionCounted ==
  ASSUME NEW z \in SUBSET Entries, NEW a \in Ages, NEW t \in Nat, NEW r \in Nat, t <= r,
         NEW e \in Entries, e \notin z, e.score = t, NoOthers(z, a, r)
  PROVE  NoOthers(z \cup {e}, Remember(a, TRUE), r)
<1> DEFINE b == Remember(a, TRUE)
<1> SUFFICES ASSUME NEW k \in 1 .. Rate + 1
             PROVE  Cardinality(From(z \cup {e}, r - b[k] + 1)) < k
  BY DEF NoOthers
<1>1. b[k] \in 0 .. Window /\ k \in Nat /\ 1 <= k /\ b \in Ages
  <2>1. b \in Ages
    BY AgesFacts
  <2> QED
    BY <2>1, AgeFacts
<1>2. CASE k = 1
  <2>1. b[k] = 0
    BY <1>2, AgeFacts
  <2> HIDE DEF b
  <2>2. From(z \cup {e}, r - b[k] + 1) = From(z, r + 1)
    <3>1. r - b[k] + 1 = r + 1
      BY <2>1
    <3>2. From(z \cup {e}, r + 1) = From(z, r + 1)
      BY DEF From
    <3> QED
      BY <3>1, <3>2
  <2>3. a[1] \in Int /\ 0 <= a[1]
    BY Constants, AgeFacts
  <2>4. r - a[1] + 1 \in Int /\ r + 1 \in Int /\ r - a[1] + 1 <= r + 1
    BY <2>3
  <2>5. Cardinality(From(z, r + 1)) <= Cardinality(From(z, r - a[1] + 1))
    BY <2>4, FromMonotone
  <2>6. Cardinality(From(z, r - a[1] + 1)) < 1
    BY Constants DEF NoOthers
  <2>7. Cardinality(From(z, r + 1)) \in Nat /\ Cardinality(From(z, r - a[1] + 1)) \in Nat
    BY <2>4, FromFacts
  <2>8. Cardinality(From(z, r + 1)) < 1
    BY <2>5, <2>6, <2>7
  <2> QED
    BY <1>2, <2>2, <2>8
<1>3. CASE k # 1
  <2>1. k - 1 \in 1 .. Rate + 1 /\ b[k] = a[k - 1]
    BY <1>3, AgeFacts
  <2> HIDE DEF b
  <2>2. r - b[k] + 1 \in Int
    BY <1>1
  <2>3. Cardinality(From(z, r - b[k] + 1)) < k - 1
    BY <2>1 DEF NoOthers
  <2>4. IsFiniteSet(From(z, r - b[k] + 1)) /\ Cardinality(From(z, r - b[k] + 1)) \in Nat
    BY <2>2, FromFacts
  <2>5. From(z \cup {e}, r - b[k] + 1) \in SUBSET (From(z, r - b[k] + 1) \cup {e})
    BY DEF From
  <2>6. /\ IsFiniteSet(From(z, r - b[k] + 1) \cup {e})
        /\ Cardinality(From(z, r - b[k] + 1) \cup {e}) <= Cardinality(From(z, r - b[k] + 1)) + 1
        /\ Cardinality(From(z, r - b[k] + 1) \cup {e}) \in Nat
    <3> DEFINE y == From(z, r - b[k] + 1)
    <3> HIDE DEF y
    <3>1. IsFiniteSet(y) /\ Cardinality(y) \in Nat
      BY <2>4 DEF y
    <3>2. e \notin y
      BY DEF y, From
    <3>3. IsFiniteSet(y \cup {e}) /\ Cardinality(y \cup {e}) = Cardinality(y) + 1
      BY <3>1, <3>2, FS_AddElement
    <3> QED
      BY <3>1, <3>3 DEF y
  <2>7. /\ Cardinality(From(z \cup {e}, r - b[k] + 1)) <= Cardinality(From(z, r - b[k] + 1) \cup {e})
        /\ IsFiniteSet(From(z \cup {e}, r - b[k] + 1))
    BY <2>5, <2>6, FS_Subset
  <2>8. Cardinality(From(z \cup {e}, r - b[k] + 1)) \in Nat
    BY <2>7, FS_CardinalityType
  <2> QED
    BY <1>1, <2>3, <2>4, <2>6, <2>7, <2>8
<1> QED
  BY <1>2, <1>3

LEMMA SortedKept ==
  ASSUME NEW a \in Ages, Sorted(a)
  PROVE  Sorted(Remember(a, TRUE)) /\ Sorted(GrowOlder(a))
<1>1. Sorted(Remember(a, TRUE))
  <2> SUFFICES ASSUME NEW i \in 1 .. Rate + 1, NEW j \in 1 .. Rate + 1, i <= j
               PROVE  Remember(a, TRUE)[i] <= Remember(a, TRUE)[j]
    BY DEF Sorted
  <2>1. CASE i = 1
    <3>1. Remember(a, TRUE) \in Ages
      BY AgesFacts
    <3>2. Remember(a, TRUE)[j] \in Int /\ 0 <= Remember(a, TRUE)[j]
      BY <3>1, AgeFacts
    <3>3. Remember(a, TRUE)[i] = 0
      BY <2>1, AgeFacts
    <3> QED
      BY <3>2, <3>3
  <2>2. CASE i # 1
    <3>1. j # 1
      BY <2>2
    <3>2. i - 1 \in 1 .. Rate + 1 /\ j - 1 \in 1 .. Rate + 1 /\ i - 1 <= j - 1
      BY <2>2, <3>1, Constants
    <3>3. a[i - 1] <= a[j - 1]
      BY <3>2 DEF Sorted
    <3> QED
      BY <2>2, <3>1, <3>3, AgeFacts
  <2> QED
    BY <2>1, <2>2
<1>2. Sorted(GrowOlder(a))
  <2> SUFFICES ASSUME NEW i \in 1 .. Rate + 1, NEW j \in 1 .. Rate + 1, i <= j
               PROVE  GrowOlder(a)[i] <= GrowOlder(a)[j]
    BY DEF Sorted
  <2>1. a[i] <= a[j] /\ a[i] \in 0 .. Window /\ a[j] \in 0 .. Window
    BY AgeFacts DEF Sorted
  <2>2. GrowOlder(a)[i] = Older(a[i]) /\ GrowOlder(a)[j] = Older(a[j])
    BY AgeFacts
  <2> QED
    BY <2>1, <2>2, Constants DEF Older
<1> QED
  BY <1>1, <1>2

-------------------------------------------------------------------------------
(* The script. *)

\* The log that the script decides on.
LEMMA TrimmedFacts ==
  ASSUME TypeOK
  PROVE  /\ zset \in SUBSET Entries /\ ages \in Ages /\ now \in Nat /\ back \in Nat
         /\ Trimmed = From(zset, now - Window + 1)
         /\ Trimmed \in SUBSET zset /\ Trimmed \in SUBSET Entries
         /\ IsFiniteSet(Trimmed) /\ Cardinality(Trimmed) \in Nat
         /\ Cardinality(Trimmed) <= Cardinality(zset)
         /\ \A m \in Trimmed : m.score > now - Window
<1>1. zset \in SUBSET Entries /\ ages \in Ages /\ now \in Nat /\ back \in Nat
  BY Constants DEF TypeOK, Entries
<1>2. \A m \in zset : m.score \in Int
  BY <1>1, Constants DEF Entries
<1>3. Trimmed = From(zset, now - Window + 1)
  BY <1>1, <1>2, Constants DEF Trimmed, From
<1>4. now - Window + 1 \in Int
  BY <1>1, Constants
<1>5. \A m \in Trimmed : m.score > now - Window
  BY DEF Trimmed
<1> QED
  BY <1>1, <1>3, <1>4, <1>5, FromFacts

\* The entry of an allowed request.
NewEntry == [score |-> now, nonce |-> NewNonce(Trimmed)]

LEMMA ScriptAllows ==
  ASSUME TypeOK, script, Cardinality(Trimmed) < Rate
  PROVE  /\ zset' = Trimmed \cup {NewEntry} /\ ages' = Remember(ages, TRUE)
         /\ NewEntry \in Entries /\ NewEntry \notin Trimmed /\ NewEntry.score = now
         /\ zset' # {} /\ zset' \in SUBSET Entries
         /\ Cardinality(zset') = Cardinality(Trimmed) + 1
         /\ decision'.allowed = TRUE /\ decision'.remaining = Rate - Cardinality(zset')
         /\ decision'.reset = Max(Scores(zset')) + Window /\ decision'.retry = 0
         /\ decision' \in Decisions
<1>1. /\ Trimmed \in SUBSET Entries /\ IsFiniteSet(Trimmed) /\ Cardinality(Trimmed) \in Nat
      /\ now \in 0 .. MaxTime
  BY TrimmedFacts DEF TypeOK
<1>2. NewNonce(Trimmed) \in Nonces /\ \A m \in Trimmed : m.nonce # NewNonce(Trimmed)
  BY <1>1, FreshNonce
<1>3. NewEntry \in Entries /\ NewEntry \notin Trimmed /\ NewEntry.score = now
  BY <1>1, <1>2 DEF NewEntry, Entries
<1>4. HasRoom(Cardinality(Trimmed)) = TRUE
  BY DEF HasRoom
<1>5. zset' = Trimmed \cup {NewEntry} /\ ages' = Remember(ages, TRUE)
  BY <1>4 DEF script, NewEntry
<1>6. zset' # {} /\ zset' \in SUBSET Entries
  BY <1>1, <1>3, <1>5
<1>7. Cardinality(zset') = Cardinality(Trimmed) + 1
  BY <1>1, <1>3, <1>5, FS_AddElement
<1>8. decision' = [allowed |-> TRUE, remaining |-> RemainingOf(Cardinality(Trimmed) + 1),
                   reset |-> Max(Scores(zset')) + Window, retry |-> 0]
  BY <1>4, <1>6 DEF script
<1>9. RemainingOf(Cardinality(Trimmed) + 1) = Rate - Cardinality(zset')
  BY <1>1, <1>7, Constants DEF RemainingOf
<1>10. Rate - Cardinality(zset') \in 0 .. Rate
  BY <1>1, <1>7, Constants
<1>11. Max(Scores(zset')) + Window \in Nat
  <2>1. Max(Scores(zset')) \in 0 .. MaxTime
    BY <1>6, ScoreFacts
  <2> QED
    BY <2>1, Constants
<1>12. decision' \in Decisions
  BY <1>8, <1>9, <1>10, <1>11 DEF Decisions
<1> QED
  BY <1>3, <1>5, <1>6, <1>7, <1>8, <1>9, <1>12

LEMMA ScriptDenies ==
  ASSUME TypeOK, script, ~(Cardinality(Trimmed) < Rate)
  PROVE  /\ zset' = Trimmed /\ ages' = ages /\ Trimmed # {}
         /\ decision'.allowed = FALSE /\ decision'.remaining = 0
         /\ decision'.reset = Max(Scores(Trimmed)) + Window
         /\ decision'.retry = Min(Scores(Trimmed)) + Window - now
         /\ decision' \in Decisions
<1>1. /\ Trimmed \in SUBSET Entries /\ IsFiniteSet(Trimmed) /\ Cardinality(Trimmed) \in Nat
      /\ \A m \in Trimmed : m.score > now - Window
      /\ now \in Nat /\ ages \in Ages
  BY TrimmedFacts
<1>2. Trimmed # {}
  <2>1. Cardinality(Trimmed) # 0
    BY <1>1, Constants
  <2> QED
    BY <2>1, FS_EmptySet
<1>3. HasRoom(Cardinality(Trimmed)) = FALSE
  BY DEF HasRoom
<1>4. zset' = Trimmed /\ ages' = ages
  BY <1>1, <1>3, AgesFacts DEF script
<1>5. decision' = [allowed |-> FALSE, remaining |-> RemainingOf(Cardinality(Trimmed) + 0),
                   reset |-> Max(Scores(Trimmed)) + Window,
                   retry |-> Min(Scores(Trimmed)) + Window - now]
  BY <1>2, <1>3 DEF script, RetryOf
<1>6. RemainingOf(Cardinality(Trimmed) + 0) = 0
  BY <1>1, Constants DEF RemainingOf
<1>7. Max(Scores(Trimmed)) + Window \in Nat /\ Min(Scores(Trimmed)) + Window - now \in Nat
  <2>1. /\ Max(Scores(Trimmed)) \in 0 .. MaxTime /\ Min(Scores(Trimmed)) \in 0 .. MaxTime
        /\ \E m \in Trimmed : m.score = Min(Scores(Trimmed))
    BY <1>1, <1>2, ScoreFacts
  <2>2. Min(Scores(Trimmed)) > now - Window
    BY <1>1, <2>1
  <2> QED
    BY <1>1, <2>1, <2>2, Constants
<1>8. decision' \in Decisions
  <2>1. 0 \in 0 .. Rate
    BY Constants
  <2> QED
    BY <1>5, <1>6, <1>7, <2>1 DEF Decisions
<1> QED
  BY <1>2, <1>4, <1>5, <1>6, <1>8

LEMMA ScriptKeeps ==
  ASSUME LogInv, script
  PROVE  LogInv'
<1>1. /\ TypeOK /\ (steps = 0 => back = 0) /\ Sorted(ages) /\ Logged(zset, ages, now)
      /\ NoOthers(zset, ages, now + back) /\ Cardinality(zset) <= Rate
  BY BoundsOf DEF LogInv, LogBounded
<1>2. /\ zset \in SUBSET Entries /\ ages \in Ages /\ now \in Nat /\ back \in Nat
      /\ Trimmed = From(zset, now - Window + 1) /\ Trimmed \in SUBSET zset
      /\ Trimmed \in SUBSET Entries /\ Cardinality(Trimmed) \in Nat
      /\ Cardinality(Trimmed) <= Cardinality(zset) /\ Cardinality(zset) \in Nat
  BY <1>1, TrimmedFacts, LogFinite
<1>3. now' = now /\ back' = back /\ steps' = steps /\ since' = 0 /\ expireAt' = Expiry
  BY DEF script
<1>4. Logged(Trimmed, ages, now)
  BY <1>1, <1>2, TrimKeepsLogged
<1>5. NoOthers(Trimmed, ages, now + back)
  <2> DEFINE r == now + back
  <2>1. r \in Nat /\ NoOthers(zset, ages, r)
    BY <1>1, <1>2
  <2> HIDE DEF r
  <2>2. \A k \in 1 .. Rate + 1 : r - ages[k] <= r - ages[k]
    <3> TAKE k \in 1 .. Rate + 1
    <3>1. ages[k] \in Int
      BY <1>2, AgeFacts
    <3> QED
      BY <2>1, <3>1
  <2>3. NoOthers(Trimmed, ages, r)
    BY <1>2, <2>1, <2>2, LogShrinks
  <2> QED
    BY <2>3 DEF r
<1>6. /\ zset' \in SUBSET Entries /\ ages' \in Ages /\ Sorted(ages') /\ Cardinality(zset') <= Rate
      /\ Logged(zset', ages', now) /\ NoOthers(zset', ages', now + back)
      /\ decision' \in Decisions
  <2>1. CASE Cardinality(Trimmed) < Rate
    <3>1. /\ zset' = Trimmed \cup {NewEntry} /\ ages' = Remember(ages, TRUE)
          /\ NewEntry \in Entries /\ NewEntry \notin Trimmed /\ NewEntry.score = now
          /\ zset' \in SUBSET Entries /\ Cardinality(zset') = Cardinality(Trimmed) + 1
          /\ decision' \in Decisions
      BY <1>1, <2>1, ScriptAllows
    <3>2. Cardinality(zset') <= Rate
      BY <1>2, <2>1, <3>1, Constants
    <3>3. ages' \in Ages /\ Sorted(ages')
      BY <1>1, <1>2, <3>1, AgesFacts, SortedKept
    <3>4. Logged(zset', ages', now)
      BY <1>2, <1>4, <3>1, AdmissionLogged
    <3>5. NoOthers(zset', ages', now + back)
      <4>1. now + back \in Nat /\ now <= now + back
        BY <1>2
      <4> QED
        BY <1>2, <1>5, <3>1, <4>1, AdmissionCounted
    <3> QED
      BY <3>1, <3>2, <3>3, <3>4, <3>5
  <2>2. CASE ~(Cardinality(Trimmed) < Rate)
    <3>1. zset' = Trimmed /\ ages' = ages /\ decision' \in Decisions
      BY <1>1, <2>2, ScriptDenies
    <3>2. Cardinality(Trimmed) <= Rate
      BY <1>1, <1>2, Constants
    <3> QED
      BY <1>1, <1>2, <1>4, <1>5, <3>1, <3>2
  <2> QED
    BY <2>1, <2>2
<1>7. Expiry \in Nat /\ now + Window <= (Expiry + 1) * Milli
  BY <1>2, ExpiryCovers DEF Expiry
<1>8. TypeOK'
  <2>1. zset' \subseteq [score : 0 .. MaxTime, nonce : Nonces]
    BY <1>6 DEF Entries
  <2>2. 0 \in 0 .. Window
    BY Constants
  <2> QED
    BY <1>1, <1>3, <1>6, <1>7, <2>1, <2>2 DEF TypeOK, Nonces, Decisions, Ages
<1>9. ExpiryCoversLog'
  <2>1. ages'[1] \in Int /\ 0 <= ages'[1]
    BY <1>6, AgeFacts, Constants
  <2> DEFINE gone == (Expiry + 1) * Milli
  <2>2. gone \in Int /\ now + Window <= gone
    BY <1>7, Constants
  <2> HIDE DEF gone
  <2>3. now + Window - ages'[1] <= gone
    BY <1>2, <2>1, <2>2, Constants
  <2> QED
    BY <1>3, <2>3 DEF ExpiryCoversLog, gone
<1> QED
  BY <1>1, <1>3, <1>6, <1>8, <1>9, BoundsOfNext DEF LogInv, LogBounded

LEMMA ExpireKeeps ==
  ASSUME LogInv, Expire
  PROVE  LogInv'
<1>1. /\ TypeOK /\ (steps = 0 => back = 0) /\ Sorted(ages) /\ ExpiryCoversLog
      /\ zset \in SUBSET Entries /\ ages \in Ages /\ now \in Nat /\ back \in Nat
      /\ expireAt \in Nat
  BY BoundsOf, TrimmedFacts DEF LogInv, TypeOK
<1>2. /\ zset' = {} /\ now \div Milli > expireAt
      /\ UNCHANGED <<now, expireAt, decision, since, ages, steps, back>>
  BY DEF Expire
<1>3. \A k \in 1 .. Rate + 1 : ~(ages[k] < Window)
  <2> DEFINE q == now \div Milli
             gone == Milli * (expireAt + 1)
             mq == Milli * q
  <2>1. q \in Nat /\ Milli * q <= now
    BY <1>1, DivMod, Constants
  <2>2. expireAt + 1 <= q
    BY <1>1, <1>2, <2>1
  <2> HIDE DEF q
  <2>3. Milli * (expireAt + 1) <= Milli * q
    BY <1>1, <2>1, <2>2, TimesMonotone, Constants
  <2>4. gone \in Int /\ mq \in Int /\ (expireAt + 1) * Milli = gone /\ gone <= mq /\ mq <= now
    BY <1>1, <2>1, <2>3, Constants
  <2> HIDE DEF gone, mq
  <2>5. ages[1] \in 0 .. Window
    BY <1>1, AgeFacts, Constants
  <2>6. ~(ages[1] < Window)
    BY <1>1, <2>4, <2>5, Constants DEF ExpiryCoversLog
  <2> TAKE k \in 1 .. Rate + 1
  <2>7. ages[1] <= ages[k] /\ ages[k] \in Int
    BY <1>1, AgeFacts, Constants DEF Sorted
  <2> QED
    BY <2>5, <2>6, <2>7, Constants
<1>4. /\ \A t : From({}, t) = {}
      /\ Cardinality({}) = 0
  BY FS_EmptySet DEF From
<1>5. Logged(zset', ages', now') /\ NoOthers(zset', ages', now' + back') /\ Cardinality(zset') <= Rate
  <2>1. Logged({}, ages, now)
    BY <1>3 DEF Logged
  <2>2. NoOthers({}, ages, now + back)
    BY <1>4 DEF NoOthers
  <2> QED
    BY <1>2, <1>4, <2>1, <2>2, Constants
<1>6. TypeOK'
  BY <1>1, <1>2 DEF TypeOK, Nonces, Decisions, Ages
<1>7. ExpiryCoversLog'
  BY <1>1, <1>2 DEF ExpiryCoversLog
<1> QED
  BY <1>1, <1>2, <1>5, <1>6, <1>7, BoundsOfNext DEF LogInv, LogBounded

LEMMA TickKeeps ==
  ASSUME LogInv, Tick
  PROVE  LogInv'
<1>1. /\ TypeOK /\ (steps = 0 => back = 0) /\ Sorted(ages) /\ ExpiryCoversLog
      /\ Logged(zset, ages, now) /\ NoOthers(zset, ages, now + back)
      /\ Cardinality(zset) <= Rate
      /\ zset \in SUBSET Entries /\ ages \in Ages /\ now \in Nat /\ back \in Nat
      /\ since \in 0 .. Window /\ now \in 0 .. MaxTime
  BY BoundsOf, TrimmedFacts DEF LogInv, LogBounded, TypeOK
<1>2. /\ now < MaxTime /\ now' = now + 1 /\ since' = Older(since) /\ ages' = GrowOlder(ages)
      /\ UNCHANGED <<zset, expireAt, decision, steps, back>>
  BY DEF Tick
<1>3. ages' \in Ages /\ Sorted(ages')
  BY <1>1, <1>2, AgesFacts, SortedKept
<1>4. \A k \in 1 .. Rate + 1 :
        /\ ages[k] \in Int /\ ages'[k] \in Int /\ ages'[k] <= ages[k] + 1
        /\ ages'[k] < Window => ages[k] < Window /\ ages'[k] = ages[k] + 1
  <2> TAKE k \in 1 .. Rate + 1
  <2> QED
    BY <1>1, <1>2, <1>3, AgeFacts
<1>5. Logged(zset, ages', now + 1)
  <2> DEFINE u == now + 1
  <2>1. \A k \in 1 .. Rate + 1 :
          ages'[k] < Window => ages[k] < Window /\ u - ages'[k] <= now - ages[k]
    BY <1>1, <1>4
  <2>2. u \in Nat
    BY <1>1
  <2> HIDE DEF u
  <2>3. Logged(zset, ages', u)
    BY <1>1, <1>3, <2>1, <2>2, ClockRetreats
  <2> QED
    BY <2>3 DEF u
<1>6. NoOthers(zset, ages', now + 1 + back)
  <2> DEFINE r == now + back
             u == now + 1 + back
  <2>1. \A k \in 1 .. Rate + 1 : r - ages[k] <= u - ages'[k]
    BY <1>1, <1>4
  <2>2. r \in Nat /\ u \in Nat /\ zset \in SUBSET zset /\ NoOthers(zset, ages, r)
    BY <1>1
  <2> HIDE DEF r, u
  <2>3. NoOthers(zset, ages', u)
    BY <1>1, <1>3, <2>1, <2>2, LogShrinks
  <2> QED
    BY <2>3 DEF u
<1>7. TypeOK'
  <2>1. now' \in 0 .. MaxTime
    BY <1>1, <1>2, Constants
  <2>2. since' \in 0 .. Window
    BY <1>1, <1>2, Constants DEF Older
  <2> QED
    BY <1>1, <1>2, <1>3, <2>1, <2>2 DEF TypeOK, Nonces, Decisions, Ages
<1>8. ExpiryCoversLog'
  <2>1. ASSUME ages'[1] < Window
        PROVE  ages[1] < Window /\ now' + Window - ages'[1] = now + Window - ages[1]
    BY <1>1, <1>2, <1>4, <2>1, Constants
  <2> QED
    BY <1>1, <1>2, <2>1 DEF ExpiryCoversLog
<1> QED
  BY <1>1, <1>2, <1>3, <1>5, <1>6, <1>7, <1>8, BoundsOfNext DEF LogInv, LogBounded

LEMMA StepBackKeeps ==
  ASSUME LogInv, StepBack
  PROVE  LogInv' /\ steps' # 0
<1>1. /\ TypeOK /\ (steps = 0 => back = 0) /\ Sorted(ages) /\ ExpiryCoversLog
      /\ Logged(zset, ages, now) /\ NoOthers(zset, ages, now + back)
      /\ Cardinality(zset) <= Rate
      /\ zset \in SUBSET Entries /\ ages \in Ages /\ now \in Nat /\ back \in Nat
      /\ expireAt \in Nat /\ now \in 0 .. MaxTime /\ steps \in 0 .. MaxSteps
  BY BoundsOf, TrimmedFacts DEF LogInv, LogBounded, TypeOK
<1>2. /\ steps < MaxSteps /\ now' \in 0 .. now - 1 /\ steps' = steps + 1
      /\ back' = back + now - now'
      /\ UNCHANGED <<zset, expireAt, decision, since, ages>>
  BY DEF StepBack
<1>3. now' \in Nat /\ now' < now /\ back' \in Nat /\ now' + back' = now + back
  <2>1. now \in Nat /\ now' \in 0 .. now - 1 /\ back \in Nat /\ back' = back + now - now'
    BY <1>1, <1>2
  <2>2. /\ now' \in Nat /\ now' < now /\ back + now - now' \in Nat
        /\ now' + (back + now - now') = now + back
    BY <2>1, SetBack
  <2> QED
    BY <2>1, <2>2
<1>4. Logged(zset', ages', now')
  <2>1. \A k \in 1 .. Rate + 1 :
          ages[k] < Window => ages[k] < Window /\ now' - ages[k] <= now - ages[k]
    <3> TAKE k \in 1 .. Rate + 1
    <3>1. ages[k] \in Int
      BY <1>1, AgeFacts
    <3> QED
      BY <1>1, <1>3, <3>1
  <2>2. Logged(zset, ages, now')
    BY <1>1, <1>3, <2>1, ClockRetreats
  <2> QED
    BY <1>2, <2>2
<1>5. NoOthers(zset', ages', now' + back')
  BY <1>1, <1>2, <1>3
<1>6. TypeOK' /\ steps' # 0
  <2>1. now' \in 0 .. MaxTime
    BY <1>1, <1>3, Constants
  <2>2. steps' \in 0 .. MaxSteps /\ steps' # 0
    BY <1>1, <1>2, Constants
  <2> QED
    BY <1>1, <1>2, <1>3, <2>1, <2>2 DEF TypeOK, Nonces, Decisions, Ages
<1>7. ExpiryCoversLog'
  <2>1. ages[1] \in Int
    BY <1>1, AgeFacts, Constants
  <2> DEFINE gone == (expireAt + 1) * Milli
  <2>2. gone \in Int
    BY <1>1, Constants
  <2> HIDE DEF gone
  <2>3. ages[1] < Window => now + Window - ages[1] <= gone
    BY <1>1 DEF ExpiryCoversLog, gone
  <2>4. ages[1] < Window => now' + Window - ages[1] <= gone
    BY <1>1, <1>3, <2>1, <2>2, <2>3, Constants
  <2> QED
    BY <1>2, <2>4 DEF ExpiryCoversLog, gone
<1> QED
  BY <1>1, <1>2, <1>4, <1>5, <1>6, <1>7, BoundsOfNext DEF LogInv, LogBounded

LEMMA LogInit == Init => LogInv
<1> SUFFICES ASSUME Init
             PROVE  LogInv
  OBVIOUS
<1>1. /\ now \in 0 .. MaxTime /\ zset = {} /\ expireAt = 0 /\ decision = NoDecision
      /\ since = 0 /\ ages = NoAdmissions /\ steps = 0 /\ back = 0
  BY DEF Init
<1>2. NoDecision \in Decisions /\ NoAdmissions \in Ages
  BY Constants DEF NoDecision, Decisions, NoAdmissions, Ages
<1>3. TypeOK
  BY <1>1, <1>2, Constants DEF TypeOK
<1>4. \A k \in 1 .. Rate + 1 : ages[k] = Window
  BY <1>1 DEF NoAdmissions
<1>5. Cardinality({}) = 0
  BY FS_EmptySet
<1>6. AgesSorted /\ AdmissionsLogged /\ ExpiryCoversLog
  BY <1>4, Constants DEF AgesSorted, AdmissionsLogged, ExpiryCoversLog
<1>7. EntriesAdmitted
  <2> SUFFICES ASSUME NEW k \in 1 .. Rate + 1
               PROVE  Cardinality({m \in zset : m.score > (now + back) - ages[k]}) < k
    BY DEF EntriesAdmitted
  <2> DEFINE y == {m \in zset : m.score > (now + back) - ages[k]}
  <2>1. y = {}
    BY <1>1
  <2> HIDE DEF y
  <2>2. Cardinality(y) < k
    BY <1>5, <2>1
  <2> QED
    BY <2>2 DEF y
<1>8. LogBounded
  BY <1>1, <1>5, Constants DEF LogBounded
<1> QED
  BY <1>1, <1>3, <1>6, <1>7, <1>8 DEF LogInv

LEMMA LogNext == LogInv /\ [Next]_vars => LogInv'
<1> SUFFICES ASSUME LogInv, [Next]_vars
             PROVE  LogInv'
  OBVIOUS
<1>1. CASE UNCHANGED vars
  BY <1>1 DEF vars, LogInv, TypeOK, Nonces, Decisions, Ages, AgesSorted, AdmissionsLogged,
              EntriesAdmitted, LogBounded, ExpiryCoversLog
<1> QED
  BY <1>1, ScriptKeeps, ExpireKeeps, TickKeeps, StepBackKeeps DEF Next

\* The log and the record of admissions bound each other whatever the clock
\* does (sliding_window.lua:14-49).
THEOREM LogInvariant == Spec => []LogInv
BY LogInit, LogNext, PTL DEF Spec

LEMMA LogAdmits ==
  ASSUME NEW z \in SUBSET Entries, NEW a \in Ages, NEW t \in Nat,
         Logged(z, a, t), Cardinality(z) <= Rate
  PROVE  a[Rate + 1] = Window
<1> SUFFICES ASSUME ~(a[Rate + 1] = Window)
             PROVE  FALSE
  OBVIOUS
<1>1. a[Rate + 1] \in 0 .. Window
  BY AgeFacts, Constants
<1>2. Cardinality(From(z, t - a[Rate + 1])) >= Rate + 1
  BY <1>1, Constants DEF Logged
<1>3. t - a[Rate + 1] \in Int
  BY <1>1
<1>4. /\ Cardinality(From(z, t - a[Rate + 1])) <= Cardinality(z)
      /\ Cardinality(From(z, t - a[Rate + 1])) \in Nat /\ Cardinality(z) \in Nat
  BY <1>3, FromFacts, LogFinite
<1> QED
  BY <1>2, <1>4, Constants

\* Never more than Rate requests in any stretch as long as a window, with
\* backward steps of redis TIME too: "A backward step never over-admits"
\* (sliding_window.lua:11-12).
THEOREM LogAdmitsRate == Spec => []RateInAnyWindow
<1>1. LogInv => RateInAnyWindow
  <2> SUFFICES ASSUME LogInv
               PROVE  ages[Rate + 1] = Window
    BY DEF RateInAnyWindow, Quota!RateInAnyWindow
  <2>1. /\ TypeOK /\ Logged(zset, ages, now) /\ Cardinality(zset) <= Rate
        /\ zset \in SUBSET Entries /\ ages \in Ages /\ now \in Nat
    BY BoundsOf, TrimmedFacts DEF LogInv, LogBounded
  <2> QED
    BY <2>1, LogAdmits
<1> QED
  BY <1>1, LogInvariant, PTL

-------------------------------------------------------------------------------
(* The times of a decision. *)

\* No entry is later than the last admission.
LEMMA NewestAdmitted ==
  ASSUME NEW z \in SUBSET Entries, NEW a \in Ages, NEW r \in Nat, NoOthers(z, a, r)
  PROVE  \A m \in z : m.score <= r - a[1]
<1>1. a[1] \in Int /\ r - a[1] + 1 \in Int
  <2>1. a[1] \in Int
    BY AgeFacts, Constants
  <2> QED
    BY <2>1
<1>2. Cardinality(From(z, r - a[1] + 1)) < 1
  BY Constants DEF NoOthers
<1>3. From(z, r - a[1] + 1) \in SUBSET Entries
  BY <1>1, FromFacts
<1>4. From(z, r - a[1] + 1) = {}
  BY <1>2, <1>3, NoEntry
<1>5. \A m \in z : m.score \in Int /\ ~(m.score >= r - a[1] + 1)
  BY <1>4, Constants DEF From, Entries
<1> QED
  BY <1>1, <1>5

\* In a full log an entry is no later than the Rate-th last admission.
LEMMA OldestAdmitted ==
  ASSUME NEW z \in SUBSET Entries, NEW a \in Ages, NEW r \in Nat, NoOthers(z, a, r),
         ~(Cardinality(z) < Rate)
  PROVE  \E m \in z : m.score <= r - a[Rate]
<1> SUFFICES ASSUME \A m \in z : ~(m.score <= r - a[Rate])
             PROVE  FALSE
  OBVIOUS
<1>1. a[Rate] \in Int
  BY AgeFacts, Constants
<1>2. \A m \in z : m.score \in Int
  BY Constants DEF Entries
<1>3. From(z, r - a[Rate] + 1) = z
  BY <1>1, <1>2 DEF From
<1>4. Cardinality(From(z, r - a[Rate] + 1)) < Rate
  BY Constants DEF NoOthers
<1> QED
  BY <1>3, <1>4

\* What the script leaves in the log, and the bounds on it.
LEMMA ScriptLog ==
  ASSUME LogInv, script
  PROVE  /\ TypeOK /\ now \in Nat /\ back \in Nat /\ ages \in Ages /\ ages' \in Ages
         /\ now' = now /\ back' = back /\ steps' = steps /\ since' = 0
         /\ zset' \in SUBSET Entries /\ Sorted(ages') /\ Logged(zset', ages', now)
         /\ NoOthers(zset', ages', now + back) /\ ages'[Rate + 1] = Window
<1>1. LogInv' /\ TypeOK' /\ TypeOK
  BY ScriptKeeps DEF LogInv
<1>2. now' = now /\ back' = back /\ steps' = steps /\ since' = 0
  BY DEF script
<1>3. now \in Nat /\ back \in Nat /\ ages \in Ages
  BY <1>1, TrimmedFacts
<1>4. zset' \in SUBSET Entries /\ ages' \in Ages
  BY <1>1 DEF TypeOK, Entries, Nonces, Ages
<1>5. Sorted(ages') /\ Logged(zset', ages', now') /\ NoOthers(zset', ages', now' + back')
  BY <1>1, BoundsOfNext DEF LogInv
<1>6. ages'[Rate + 1] = Window
  <2>1. Cardinality(zset') <= Rate
    BY <1>1 DEF LogInv, LogBounded
  <2> QED
    BY <1>2, <1>3, <1>4, <1>5, <2>1, LogAdmits
<1> QED
  BY <1>1, <1>2, <1>3, <1>4, <1>5, <1>6

LEMMA ScriptInflation ==
  ASSUME LogInv, script
  PROVE  /\ ~decision'.allowed => decision'.retry <= Window - ages'[Rate] + back
         /\ decision'.reset - now <= Window - ages'[1] + back
<1> DEFINE r == now + back
<1>1. /\ TypeOK /\ now \in Nat /\ back \in Nat /\ ages' \in Ages /\ r \in Nat
      /\ zset' \in SUBSET Entries /\ NoOthers(zset', ages', r)
  BY ScriptLog
<1>2. r = now + back
  OBVIOUS
<1> HIDE DEF r
<1>3. ages'[1] \in Int /\ ages'[Rate] \in Int
  BY <1>1, AgeFacts, Constants
<1>4. \A m \in zset' : m.score <= r - ages'[1]
  BY <1>1, NewestAdmitted
<1>5. ASSUME zset' # {}, decision'.reset = Max(Scores(zset')) + Window
      PROVE  decision'.reset - now <= Window - ages'[1] + back
  <2> DEFINE x == Max(Scores(zset'))
  <2>1. x \in 0 .. MaxTime /\ \E m \in zset' : m.score = x
    BY <1>1, <1>5, ScoreFacts
  <2> HIDE DEF x
  <2>2. x \in Int /\ x <= r - ages'[1]
    BY <1>4, <2>1
  <2>3. decision'.reset = x + Window
    BY <1>5 DEF x
  <2> QED
    BY <1>1, <1>2, <1>3, <2>2, <2>3, Constants
<1>6. CASE Cardinality(Trimmed) < Rate
  <2>1. /\ zset' # {} /\ decision'.allowed = TRUE
        /\ decision'.reset = Max(Scores(zset')) + Window
    BY <1>1, <1>6, ScriptAllows
  <2> QED
    BY <1>5, <2>1
<1>7. CASE ~(Cardinality(Trimmed) < Rate)
  <2> DEFINE x == Min(Scores(zset'))
  <2>1. /\ zset' = Trimmed /\ zset' # {} /\ ~(Cardinality(zset') < Rate)
        /\ decision'.reset = Max(Scores(zset')) + Window
        /\ decision'.retry = x + Window - now
    BY <1>1, <1>7, ScriptDenies
  <2>2. \E m \in zset' : m.score <= r - ages'[Rate]
    BY <1>1, <2>1, OldestAdmitted
  <2>3. x \in 0 .. MaxTime /\ \A m \in zset' : x <= m.score /\ m.score \in Int
    BY <1>1, <2>1, ScoreFacts DEF Entries
  <2> HIDE DEF x
  <2>4. x \in Int /\ x <= r - ages'[Rate]
    BY <1>1, <1>3, <2>2, <2>3
  <2>5. decision'.retry <= Window - ages'[Rate] + back
    BY <1>1, <1>2, <1>3, <2>1, <2>4, Constants
  <2> QED
    BY <1>5, <2>1, <2>5
<1> QED
  BY <1>6, <1>7

\* A backward step of redis TIME inflates Reset and RetryAfter by no more than
\* the step: "only inflates Reset/RetryAfter by at most the step"
\* (sliding_window.lua:12-13).
THEOREM LogInflation == Spec => InflationBounded
<1>1. LogInv /\ [Next]_vars =>
        [script => /\ ~decision'.allowed => decision'.retry <= Window - ages'[Rate] + back
                   /\ decision'.reset - now <= Window - ages'[1] + back]_vars
  BY ScriptInflation
<1> QED
  BY <1>1, LogInvariant, PTL DEF Spec, InflationBounded

-------------------------------------------------------------------------------
(* The quota. *)

\* The admissions that count are the first ones.
LEMMA CountedPrefix ==
  ASSUME NEW a \in Ages, Sorted(a), a[Rate + 1] = Window
  PROVE  \E c \in 0 .. Rate :
           /\ Quota!Counted(a) = c
           /\ a[c + 1] = Window
           /\ c > 0 => a[c] < Window
<1> DEFINE T == {i \in 1 .. Rate + 1 : a[i] = Window}
<1>1. T \in SUBSET Nat /\ Rate + 1 \in T
  BY Constants
<1>2. PICK n \in T : \A i \in T : n <= i
  BY <1>1, LeastOf
<1>3. n \in 1 .. Rate + 1 /\ a[n] = Window
  OBVIOUS
<1>4. \A i \in 1 .. Rate + 1 : a[i] \in 0 .. Window
  BY AgeFacts
<1>5. \A i \in 1 .. Rate + 1 : i < n => a[i] < Window
  <2> TAKE i \in 1 .. Rate + 1
  <2> HAVE i < n
  <2>1. i \notin T
    <3> HIDE DEF T
    <3> QED
      BY <1>2, <1>3
  <2> QED
    BY <1>4, <2>1, Constants
<1>6. \A i \in 1 .. Rate + 1 : n <= i => ~(a[i] < Window)
  <2> TAKE i \in 1 .. Rate + 1
  <2> HAVE n <= i
  <2>1. a[n] <= a[i]
    BY <1>3 DEF Sorted
  <2> QED
    BY <1>3, <1>4, <2>1, Constants
<1>7. DOMAIN a = 1 .. Rate + 1
  BY DEF Ages
<1>8. {i \in DOMAIN a : a[i] < Window} = 1 .. n - 1
  BY <1>3, <1>5, <1>6, <1>7, Constants
<1>9. Cardinality(1 .. n - 1) = n - 1
  BY <1>3, FS_Interval
<1>10. Quota!Counted(a) = n - 1
  <2>1. Quota!Counted(a) = Cardinality({i \in DOMAIN a : a[i] < Window})
    BY DEF Quota!Counted, Quota!Cardinality, Cardinality
  <2> QED
    BY <1>8, <1>9, <2>1
<1>11. n - 1 \in 0 .. Rate /\ a[(n - 1) + 1] = Window
  <2>1. (n - 1) + 1 = n
    BY <1>3
  <2> QED
    BY <1>3, <2>1, Constants
<1>12. ASSUME n - 1 > 0
       PROVE  a[n - 1] < Window
  <2>1. n - 1 \in 1 .. Rate + 1 /\ n - 1 < n
    BY <1>3, <1>12, Constants
  <2> QED
    BY <1>5, <2>1
<1> QED
  BY <1>10, <1>11, <1>12

\* The log holds as many entries that count as admissions do.
LEMMA LogCounts ==
  ASSUME NEW z \in SUBSET Entries, NEW a \in Ages, NEW t \in Nat,
         Sorted(a), a[Rate + 1] = Window, Logged(z, a, t), NoOthers(z, a, t),
         \A m \in z : m.score > t - Window
  PROVE  Cardinality(z) = Quota!Counted(a)
<1>1. PICK c \in 0 .. Rate :
        Quota!Counted(a) = c /\ a[c + 1] = Window /\ (c > 0 => a[c] < Window)
  BY CountedPrefix
<1>2. IsFiniteSet(z) /\ Cardinality(z) \in Nat
  BY LogFinite
<1>3. \A m \in z : m.score \in Int
  BY Constants DEF Entries
<1>4. From(z, t - Window + 1) = z
  BY <1>3, Constants DEF From
<1>5. Cardinality(z) < c + 1
  <2>1. c + 1 \in 1 .. Rate + 1
    BY Constants
  <2>2. Cardinality(From(z, t - a[c + 1] + 1)) < c + 1
    BY <2>1 DEF NoOthers
  <2> QED
    BY <1>1, <1>4, <2>2
<1>6. c <= Cardinality(z)
  <2>1. CASE c = 0
    BY <1>2, <2>1
  <2>2. CASE c # 0
    <3>1. c \in 1 .. Rate + 1 /\ a[c] < Window
      BY <1>1, <2>2, Constants
    <3>2. Cardinality(From(z, t - a[c])) >= c
      BY <3>1 DEF Logged
    <3>3. t - a[c] \in Int
      <4>1. a[c] \in Int
        BY <3>1, AgeFacts
      <4> QED
        BY <4>1
    <3>4. Cardinality(From(z, t - a[c])) <= Cardinality(z) /\ Cardinality(From(z, t - a[c])) \in Nat
      BY <3>3, FromFacts
    <3> QED
      BY <1>2, <3>2, <3>4
  <2> QED
    BY <2>1, <2>2
<1> QED
  BY <1>1, <1>2, <1>5, <1>6

LEMMA QuotaOperators ==
  /\ \A a, x : Quota!Remember(a, x) = Remember(a, x)
  /\ \A a : Quota!GrowOlder(a) = GrowOlder(a)
  /\ \A s : Quota!Older(s) = Older(s)
  /\ Quota!NoDecision = NoDecision /\ Quota!NoAdmissions = NoAdmissions
BY DEF Quota!Remember, Remember, Quota!GrowOlder, GrowOlder, Quota!Older, Older,
       Quota!NoDecision, NoDecision, Quota!NoAdmissions, NoAdmissions

LEMMA ScriptIsQuotaStep ==
  ASSUME LogInv, script, steps = 0
  PROVE  Quota!Allow \/ Quota!Deny
<1>1. /\ TypeOK /\ now \in Nat /\ back = 0 /\ ages \in Ages /\ ages' \in Ages
      /\ now' = now /\ since' = 0 /\ zset' \in SUBSET Entries
      /\ Sorted(ages') /\ Logged(zset', ages', now) /\ ages'[Rate + 1] = Window
      /\ NoOthers(zset', ages', now + back)
  BY ScriptLog DEF LogInv
<1>2. NoOthers(zset', ages', now)
  <2>1. now + back = now
    BY <1>1
  <2> QED
    BY <1>1, <2>1
<1>3. /\ zset \in SUBSET Entries /\ Cardinality(zset) <= Rate /\ Cardinality(zset) \in Nat
      /\ Sorted(ages) /\ Logged(zset, ages, now) /\ NoOthers(zset, ages, now + back)
      /\ Trimmed = From(zset, now - Window + 1) /\ Trimmed \in SUBSET zset
      /\ Trimmed \in SUBSET Entries /\ Cardinality(Trimmed) \in Nat
      /\ Cardinality(Trimmed) <= Cardinality(zset)
      /\ \A m \in Trimmed : m.score > now - Window
  BY <1>1, BoundsOf, TrimmedFacts, LogFinite DEF LogInv, LogBounded
<1>4. Logged(Trimmed, ages, now) /\ NoOthers(Trimmed, ages, now)
  <2>1. NoOthers(zset, ages, now)
    <3>1. now + back = now
      BY <1>1
    <3> QED
      BY <1>3, <3>1
  <2>2. \A k \in 1 .. Rate + 1 : now - ages[k] <= now - ages[k]
    <3> TAKE k \in 1 .. Rate + 1
    <3>1. ages[k] \in Int
      BY <1>1, AgeFacts
    <3> QED
      BY <1>1, <3>1
  <2>3. NoOthers(Trimmed, ages, now)
    BY <1>1, <1>3, <2>1, <2>2, LogShrinks
  <2> QED
    BY <1>1, <1>3, <2>3, TrimKeepsLogged
<1>5. Cardinality(Trimmed) = Quota!Counted(ages)
  <2>1. ages[Rate + 1] = Window
    BY <1>1, <1>3, LogAdmits
  <2> QED
    BY <1>1, <1>3, <1>4, <2>1, LogCounts
<1>6. ages'[1] \in Int /\ ages'[Rate] \in Int
  BY <1>1, AgeFacts, Constants
<1>7. \A m \in zset' : m.score <= now - ages'[1]
  BY <1>1, <1>2, NewestAdmitted
<1>8. CASE Cardinality(Trimmed) < Rate
  <2>1. /\ zset' = Trimmed \cup {NewEntry} /\ ages' = Remember(ages, TRUE)
        /\ NewEntry.score = now /\ zset' # {}
        /\ decision'.allowed = TRUE /\ decision'.remaining = Rate - Cardinality(zset')
        /\ decision'.reset = Max(Scores(zset')) + Window /\ decision'.retry = 0
        /\ decision' \in Decisions
    BY <1>1, <1>8, ScriptAllows
  <2>2. Max(Scores(zset')) = now
    <3> DEFINE x == Max(Scores(zset'))
    <3>1. /\ x \in 0 .. MaxTime /\ \A m \in zset' : m.score <= x
          /\ \E m \in zset' : m.score = x
      BY <1>1, <2>1, ScoreFacts
    <3> HIDE DEF x
    <3>2. ages'[1] = 0
      BY <1>1, <2>1, AgeFacts, Constants
    <3>3. now <= x
      BY <2>1, <3>1
    <3>4. x <= now
      BY <1>1, <1>7, <3>1, <3>2
    <3> QED
      BY <1>1, <3>1, <3>3, <3>4 DEF x
  <2>3. Cardinality(zset') = Quota!Counted(ages')
    <3>1. \A m \in zset' : m.score > now - Window
      BY <1>1, <1>3, <2>1, Constants
    <3> QED
      BY <1>1, <1>2, <3>1, LogCounts
  <2>4. decision' = [allowed |-> TRUE, remaining |-> Rate - Quota!Counted(ages'),
                     reset |-> now + Window, retry |-> 0]
    <3>1. decision' = [allowed |-> decision'.allowed, remaining |-> decision'.remaining,
                       reset |-> decision'.reset, retry |-> decision'.retry]
      BY <2>1 DEF Decisions
    <3> QED
      BY <2>1, <2>2, <2>3, <3>1
  <2>5. Quota!Counted(ages) < Rate
    BY <1>5, <1>8
  <2>6. ages' = Quota!Remember(ages, TRUE)
    BY <2>1, QuotaOperators
  <2>7. Quota!Allow
    BY <1>1, <2>4, <2>5, <2>6 DEF Quota!Allow
  <2> QED
    BY <2>7
<1>9. CASE ~(Cardinality(Trimmed) < Rate)
  <2> DEFINE lo == Min(Scores(Trimmed))
             hi == Max(Scores(Trimmed))
  <2>1. /\ zset' = Trimmed /\ ages' = ages /\ Trimmed # {}
        /\ decision'.allowed = FALSE /\ decision'.remaining = 0
        /\ decision'.reset = hi + Window /\ decision'.retry = lo + Window - now
        /\ decision' \in Decisions
    BY <1>1, <1>9, ScriptDenies
  <2>2. /\ hi \in 0 .. MaxTime /\ lo \in 0 .. MaxTime
        /\ \A m \in Trimmed : lo <= m.score /\ m.score <= hi
        /\ \E m \in Trimmed : m.score = hi
        /\ \E m \in Trimmed : m.score = lo
    BY <1>3, <2>1, ScoreFacts
  <2> HIDE DEF lo, hi
  <2>3. \A m \in Trimmed : m.score \in Int
    BY <1>3, Constants DEF Entries
  <2>4. PICK c \in 0 .. Rate :
          Quota!Counted(ages) = c /\ ages[c + 1] = Window /\ (c > 0 => ages[c] < Window)
    BY <1>1, <2>1, CountedPrefix
  <2>5. c = Rate
    BY <1>5, <1>9, <2>4, Constants
  <2>6. ages[Rate] < Window /\ ages[1] < Window
    <3>1. ages[Rate] < Window
      BY <2>4, <2>5, Constants
    <3>2. ages[1] <= ages[Rate] /\ ages[1] \in Int /\ ages[Rate] \in Int
      BY <1>3, <1>6, <2>1, Constants DEF Sorted
    <3> QED
      BY <3>1, <3>2, Constants
  <2>7. hi = now - ages[1]
    <3>1. Cardinality(From(Trimmed, now - ages[1])) >= 1
      BY <1>4, <2>6, Constants DEF Logged
    <3>2. now - ages[1] \in Int
      BY <1>1, <1>6, <2>1
    <3>3. From(Trimmed, now - ages[1]) \in SUBSET Entries
      BY <1>3, <3>2, FromFacts
    <3>4. \E m \in From(Trimmed, now - ages[1]) : TRUE
      BY <3>1, <3>3, SomeEntry
    <3>5. \E m \in Trimmed : m.score >= now - ages[1]
      BY <3>4 DEF From
    <3>6. \A m \in Trimmed : m.score <= now - ages[1]
      BY <1>7, <2>1
    <3> DEFINE x == now - ages[1]
    <3> HIDE DEF x
    <3>7. x \in Int /\ (\E m \in Trimmed : m.score >= x) /\ (\A m \in Trimmed : m.score <= x)
      BY <3>2, <3>5, <3>6 DEF x
    <3>8. hi = x
      BY <2>2, <2>3, <3>7
    <3> QED
      BY <3>8 DEF x
  <2>8. lo = now - ages[Rate]
    <3> DEFINE x == now - ages[Rate]
    <3>1. x \in Int
      BY <1>1, <1>6, <2>1
    <3>2. \E m \in Trimmed : m.score <= x
      BY <1>1, <1>3, <1>4, <1>9, OldestAdmitted
    <3>3. Cardinality(From(Trimmed, x)) >= Rate
      BY <1>4, <2>6, Constants DEF Logged
    <3> HIDE DEF x
    <3>4. Cardinality(From(Trimmed, x)) = Cardinality(Trimmed)
      <4>1. Cardinality(From(Trimmed, x)) <= Cardinality(Trimmed) /\ Cardinality(From(Trimmed, x)) \in Nat
        BY <1>3, <3>1, FromFacts
      <4> QED
        BY <1>3, <3>3, <4>1, Constants
    <3>5. From(Trimmed, x) = Trimmed
      BY <1>3, <3>1, <3>4, FromFacts
    <3>6. \A m \in Trimmed : m.score >= x
      BY <3>5 DEF From
    <3>7. lo = x
      BY <2>2, <2>3, <3>1, <3>2, <3>6
    <3> QED
      BY <3>7 DEF x
  <2>9. decision' = [allowed |-> FALSE, remaining |-> 0,
                     reset |-> now + Window - ages[1], retry |-> Window - ages[Rate]]
    <3>1. decision' = [allowed |-> decision'.allowed, remaining |-> decision'.remaining,
                       reset |-> decision'.reset, retry |-> decision'.retry]
      BY <2>1 DEF Decisions
    <3>2. hi + Window = now + Window - ages[1]
      BY <1>1, <1>6, <2>1, <2>7, Constants
    <3>3. lo + Window - now = Window - ages[Rate]
      BY <1>1, <1>6, <2>1, <2>8, Constants
    <3> QED
      BY <2>1, <3>1, <3>2, <3>3
  <2>10. Quota!Counted(ages) >= Rate
    BY <2>4, <2>5, Constants
  <2>11. Quota!Deny
    BY <1>1, <2>1, <2>9, <2>10 DEF Quota!Deny
  <2> QED
    BY <2>11
<1> QED
  BY <1>8, <1>9

LEMMA QuotaStep == LogInv /\ [Next]_vars => [steps' = 0 => Quota!Next]_(Quota!vars)
<1> SUFFICES ASSUME LogInv, [Next]_vars
             PROVE  [steps' = 0 => Quota!Next]_(Quota!vars)
  OBVIOUS
<1>1. CASE script
  <2>1. steps' = steps
    BY <1>1 DEF script
  <2> QED
    BY <1>1, <2>1, ScriptIsQuotaStep DEF Quota!Next
<1>2. CASE Expire
  BY <1>2 DEF Expire, Quota!vars
<1>3. CASE Tick
  BY <1>3, QuotaOperators DEF Tick, Quota!Tick, Quota!Next
<1>4. CASE StepBack
  BY <1>4, StepBackKeeps
<1>5. CASE UNCHANGED vars
  BY <1>5 DEF vars, Quota!vars
<1> QED
  BY <1>1, <1>2, <1>3, <1>4, <1>5 DEF Next

\* Until redis TIME is set back the script implements the quota: neither
\* trimming, nor the expiry in whole milliseconds, nor two requests of one
\* microsecond lose an entry that still counts (sliding_window.lua:14-49).
THEOREM LogImplementsQuota == Spec => ImplementsQuota
<1>1. Init => Quota!Init
  BY QuotaOperators DEF Init, Quota!Init
<1> QED
  BY <1>1, QuotaStep, LogInvariant, PTL DEF Spec, ImplementsQuota

-------------------------------------------------------------------------------
(* The in-memory bucket. *)

\* Kept of SlidingWindowMemory, of any log at any time.
KeptOf(l, t) ==
  LET counted == {i \in DOMAIN l : l[i] > t - Window}
      place(i) == Cardinality({j \in counted : j <= i})
  IN  [n \in 1 .. Cardinality(counted) |-> l[CHOOSE i \in counted : place(i) = n]]

\* A saturating time span.
Capped(x) == IF x < Window THEN x ELSE Window

Ascending(l) == \A i, j \in 1 .. Len(l) : i <= j => l[i] <= l[j]

\* The log l and the ages a record the same admissions at the time t.
Recorded(l, a, t) ==
  /\ l \in Seq(0 .. t) /\ Len(l) <= Rate /\ Ascending(l)
  /\ a \in Ages /\ Sorted(a)
  /\ \A k \in 1 .. Rate + 1 :
       a[k] = IF k <= Len(l) THEN Capped(t - l[Len(l) - k + 1]) ELSE Window

\* The k-th of the places from m + 1 on.
LEMMA PlaceOf ==
  ASSUME NEW n \in Nat, NEW m \in 0 .. n, NEW k \in 1 .. n - m
  PROVE  (CHOOSE i \in m + 1 .. n : Cardinality({j \in m + 1 .. n : j <= i}) = k) = m + k
<1>1. ASSUME NEW i \in m + 1 .. n
      PROVE  Cardinality({j \in m + 1 .. n : j <= i}) = i - m
  <2>1. {j \in m + 1 .. n : j <= i} = m + 1 .. i
    OBVIOUS
  <2>2. Cardinality(m + 1 .. i) = IF m + 1 > i THEN 0 ELSE i - (m + 1) + 1
    BY FS_Interval
  <2>3. Cardinality(m + 1 .. i) = i - m
    BY <2>2
  <2> QED
    BY <2>1, <2>3
<1>2. m + k \in m + 1 .. n /\ (m + k) - m = k
  OBVIOUS
<1>3. \A i \in m + 1 .. n : Cardinality({j \in m + 1 .. n : j <= i}) = k <=> i = m + k
  BY <1>1
<1> QED
  BY <1>2, <1>3

\* Eviction takes a sorted log's first entries.
LEMMA KeptTail ==
  ASSUME NEW t \in Nat, NEW l \in Seq(0 .. t), Ascending(l)
  PROVE  \E m \in 0 .. Len(l) :
           /\ KeptOf(l, t) = [k \in 1 .. Len(l) - m |-> l[m + k]]
           /\ \A i \in 1 .. Len(l) : i <= m => l[i] <= t - Window
           /\ \A i \in 1 .. Len(l) : i > m => l[i] > t - Window
<1> DEFINE n == Len(l)
           T == {i \in 1 .. n + 1 : i = n + 1 \/ l[i] > t - Window}
           counted == {i \in DOMAIN l : l[i] > t - Window}
<1>1. n \in Nat /\ DOMAIN l = 1 .. n /\ \A i \in 1 .. n : l[i] \in Int
  OBVIOUS
<1>2. T \in SUBSET Nat /\ n + 1 \in T
  BY <1>1
<1>3. PICK f \in T : \A i \in T : f <= i
  <2> HIDE DEF T
  <2> QED
    BY <1>2, LeastOf
<1> DEFINE m == f - 1
<1>4. m \in 0 .. n /\ f = m + 1 /\ f \in Nat
  BY <1>1, <1>2
<1>5. ASSUME NEW i \in 1 .. n, i <= m
      PROVE  l[i] <= t - Window
  <2>1. i \notin T
    <3> HIDE DEF T
    <3> QED
      BY <1>3, <1>4, <1>5
  <2>2. ~(l[i] > t - Window)
    BY <2>1, <1>1
  <2> QED
    BY <1>1, <2>2, Constants
<1>6. ASSUME NEW i \in 1 .. n, i > m
      PROVE  l[i] > t - Window
  <2>1. f \in 1 .. n /\ f <= i
    BY <1>1, <1>4, <1>6
  <2>2. l[f] > t - Window
    BY <1>1, <2>1
  <2>3. l[f] <= l[i] /\ l[f] \in Int /\ l[i] \in Int
    BY <1>1, <2>1 DEF Ascending
  <2> QED
    BY <2>2, <2>3, Constants
<1> HIDE DEF m, n
<1>7. counted = m + 1 .. n
  <2>1. \A i \in 1 .. n : l[i] > t - Window <=> i > m
    BY <1>1, <1>4, <1>5, <1>6, Constants
  <2> QED
    BY <1>1, <1>4, <2>1
<1>8. Cardinality(m + 1 .. n) = n - m
  <2>1. Cardinality(m + 1 .. n) = IF m + 1 > n THEN 0 ELSE n - (m + 1) + 1
    BY <1>1, <1>4, FS_Interval
  <2> QED
    BY <1>1, <1>4, <2>1
<1>9. KeptOf(l, t) = [k \in 1 .. Cardinality(counted) |->
                        l[CHOOSE i \in counted : Cardinality({j \in counted : j <= i}) = k]]
  BY DEF KeptOf
<1>10. KeptOf(l, t) = [k \in 1 .. n - m |->
          l[CHOOSE i \in m + 1 .. n : Cardinality({j \in m + 1 .. n : j <= i}) = k]]
  <2> HIDE DEF counted
  <2>1. KeptOf(l, t) = [k \in 1 .. Cardinality(counted) |->
          l[CHOOSE i \in m + 1 .. n : Cardinality({j \in m + 1 .. n : j <= i}) = k]]
    BY <1>7, <1>9
  <2>2. Cardinality(counted) = n - m
    BY <1>7, <1>8
  <2> QED
    BY <2>1, <2>2
<1>11. KeptOf(l, t) = [k \in 1 .. n - m |-> l[m + k]]
  BY <1>1, <1>4, <1>10, PlaceOf
<1> QED
  BY <1>4, <1>5, <1>6, <1>11 DEF n

\* As many entries are kept as admissions count.
LEMMA LenCounts ==
  ASSUME NEW t \in Nat, NEW l, NEW a, Recorded(l, a, t),
         \A i \in 1 .. Len(l) : l[i] > t - Window
  PROVE  Len(l) = Quota!Counted(a)
<1>1. /\ Len(l) \in Nat /\ Len(l) <= Rate /\ a \in Ages /\ Sorted(a)
      /\ \A i \in 1 .. Len(l) : l[i] \in Int
  BY DEF Recorded
<1>2. ASSUME NEW k \in 1 .. Rate + 1
      PROVE  /\ k <= Len(l) => a[k] < Window
             /\ k > Len(l) => a[k] = Window
  <2>1. a[k] = IF k <= Len(l) THEN Capped(t - l[Len(l) - k + 1]) ELSE Window
    BY DEF Recorded
  <2>2. CASE k <= Len(l)
    <3> DEFINE i == Len(l) - k + 1
    <3>1. i \in 1 .. Len(l)
      BY <1>1, <2>2
    <3>2. l[i] \in Int /\ l[i] > t - Window
      BY <1>1, <3>1
    <3> HIDE DEF i
    <3>3. t - l[i] < Window
      BY <3>2, Constants
    <3>4. a[k] = t - l[i]
      BY <2>1, <2>2, <3>3 DEF Capped, i
    <3> QED
      BY <1>1, <2>2, <3>3, <3>4
  <2>3. CASE ~(k <= Len(l))
    BY <2>1, <2>3, <1>1, Constants
  <2> QED
    BY <2>2, <2>3, <1>1, Constants
<1>3. a[Rate + 1] = Window
  BY <1>1, <1>2, Constants
<1>4. PICK c \in 0 .. Rate :
        Quota!Counted(a) = c /\ a[c + 1] = Window /\ (c > 0 => a[c] < Window)
  BY <1>1, <1>3, CountedPrefix
<1>5. ~(c + 1 <= Len(l))
  <2>1. c + 1 \in 1 .. Rate + 1
    BY Constants
  <2> QED
    BY <1>2, <1>4, <2>1, Constants
<1>6. ~(c > Len(l))
  <2> SUFFICES ASSUME c > Len(l)
               PROVE  FALSE
    OBVIOUS
  <2>1. c \in 1 .. Rate + 1 /\ c > 0
    BY <1>1, Constants
  <2>2. a[c] = Window
    BY <1>2, <2>1
  <2> QED
    BY <1>4, <2>1, <2>2, Constants
<1> QED
  BY <1>1, <1>4, <1>5, <1>6

\* Eviction loses no admission that counts.
LEMMA KeptRecorded ==
  ASSUME NEW t \in Nat, NEW l, NEW a, Recorded(l, a, t)
  PROVE  LET s == KeptOf(l, t)
         IN  /\ Recorded(s, a, t)
             /\ \A i \in 1 .. Len(s) : s[i] > t - Window
             /\ Len(s) = Quota!Counted(a)
<1> DEFINE s == KeptOf(l, t)
           n == Len(l)
<1>1. /\ l \in Seq(0 .. t) /\ n \in Nat /\ n <= Rate /\ Ascending(l) /\ a \in Ages /\ Sorted(a)
      /\ \A i \in 1 .. n : l[i] \in 0 .. t
  BY DEF Recorded
<1>2. PICK m \in 0 .. n : /\ s = [k \in 1 .. n - m |-> l[m + k]]
                          /\ \A i \in 1 .. n : i <= m => l[i] <= t - Window
                          /\ \A i \in 1 .. n : i > m => l[i] > t - Window
  BY <1>1, KeptTail
<1>3. \A k \in 1 .. n - m : m + k \in 1 .. n /\ m + k > m
  BY <1>1
<1> HIDE DEF s, n
<1>4. s \in Seq(0 .. t) /\ Len(s) = n - m
  <2>1. n - m \in Nat
    BY <1>1
  <2>2. s \in [1 .. n - m -> 0 .. t]
    BY <1>1, <1>2, <1>3
  <2> QED
    BY <2>1, <2>2
<1>5. \A k \in 1 .. Len(s) : s[k] = l[m + k] /\ s[k] > t - Window /\ s[k] \in 0 .. t
  BY <1>1, <1>2, <1>3, <1>4
<1>6. Ascending(s)
  <2> SUFFICES ASSUME NEW i \in 1 .. Len(s), NEW j \in 1 .. Len(s), i <= j
               PROVE  s[i] <= s[j]
    BY DEF Ascending
  <2>1. m + i \in 1 .. n /\ m + j \in 1 .. n /\ m + i <= m + j
    BY <1>1, <1>3, <1>4
  <2>2. l[m + i] <= l[m + j]
    BY <1>1, <2>1 DEF Ascending, n
  <2> QED
    BY <1>5, <2>2
<1>7. ASSUME NEW k \in 1 .. Rate + 1
      PROVE  a[k] = IF k <= Len(s) THEN Capped(t - s[Len(s) - k + 1]) ELSE Window
  <2>1. a[k] = IF k <= n THEN Capped(t - l[n - k + 1]) ELSE Window
    BY DEF Recorded, n
  <2>2. CASE k <= Len(s)
    <3> DEFINE i == Len(s) - k + 1
    <3>1. i \in 1 .. Len(s) /\ m + i = n - k + 1
      BY <1>1, <1>4, <2>2, Constants
    <3>2. k <= n
      BY <1>1, <1>4, <2>2, Constants
    <3> HIDE DEF i
    <3>3. s[i] = l[n - k + 1]
      BY <1>5, <3>1
    <3> QED
      BY <2>1, <2>2, <3>2, <3>3 DEF i
  <2>3. CASE ~(k <= Len(s)) /\ k <= n
    <3> DEFINE i == n - k + 1
    <3>1. i \in 1 .. n /\ i <= m
      BY <1>1, <1>4, <2>3, Constants
    <3>2. l[i] <= t - Window /\ l[i] \in 0 .. t
      BY <1>1, <1>2, <3>1
    <3> HIDE DEF i
    <3>3. ~(t - l[i] < Window)
      BY <3>2, Constants
    <3>4. Capped(t - l[i]) = Window
      BY <3>3 DEF Capped
    <3> QED
      BY <2>1, <2>3, <3>4 DEF i
  <2>4. CASE ~(k <= n)
    BY <1>1, <1>4, <2>1, <2>4, Constants
  <2> QED
    BY <2>2, <2>3, <2>4
<1>8. Len(s) <= Rate
  BY <1>1, <1>4, Constants
<1>9. Recorded(s, a, t)
  BY <1>1, <1>4, <1>6, <1>7, <1>8 DEF Recorded
<1>10. Len(s) = Quota!Counted(a)
  BY <1>5, <1>9, LenCounts
<1> QED
  BY <1>5, <1>9, <1>10 DEF s

\* An admission is appended.
LEMMA AppendRecorded ==
  ASSUME NEW t \in Nat, NEW l, NEW a, Recorded(l, a, t), Len(l) < Rate
  PROVE  /\ Recorded(Append(l, t), Remember(a, TRUE), t)
         /\ Len(Append(l, t)) = Len(l) + 1 /\ Append(l, t)[Len(l) + 1] = t
         /\ \A i \in 1 .. Len(l) : Append(l, t)[i] = l[i]
<1> DEFINE s == Append(l, t)
           n == Len(l)
           b == Remember(a, TRUE)
<1>1. /\ l \in Seq(0 .. t) /\ n \in Nat /\ n < Rate /\ Ascending(l) /\ a \in Ages /\ Sorted(a)
      /\ \A i \in 1 .. n : l[i] \in 0 .. t
  BY DEF Recorded
<1>2. /\ s \in Seq(0 .. t) /\ Len(s) = n + 1 /\ s[n + 1] = t
      /\ \A i \in 1 .. n : s[i] = l[i]
  <2>1. t \in 0 .. t
    OBVIOUS
  <2> QED
    BY <1>1, <2>1
<1> HIDE DEF s, n
<1>3. Ascending(s)
  <2> SUFFICES ASSUME NEW i \in 1 .. n + 1, NEW j \in 1 .. n + 1, i <= j
               PROVE  s[i] <= s[j]
    BY <1>2 DEF Ascending
  <2>1. CASE j = n + 1
    <3>1. s[i] \in 0 .. t
      BY <1>1, <1>2
    <3> QED
      BY <1>2, <2>1, <3>1
  <2>2. CASE j # n + 1
    <3>1. i \in 1 .. n /\ j \in 1 .. n
      BY <1>1, <2>2
    <3>2. l[i] <= l[j]
      BY <1>1, <3>1 DEF Ascending, n
    <3> QED
      BY <1>2, <3>1, <3>2
  <2> QED
    BY <2>1, <2>2
<1>4. b \in Ages /\ Sorted(b)
  BY <1>1, AgesFacts, SortedKept
<1>5. ASSUME NEW k \in 1 .. Rate + 1
      PROVE  b[k] = IF k <= Len(s) THEN Capped(t - s[Len(s) - k + 1]) ELSE Window
  <2>1. b[k] = IF k = 1 THEN 0 ELSE a[k - 1]
    BY <1>1, AgeFacts
  <2>2. k \in Nat /\ (k # 1 => k - 1 \in 1 .. Rate + 1)
    BY Constants
  <2> HIDE DEF b
  <2>3. CASE k = 1
    <3>1. k <= Len(s) /\ Len(s) - k + 1 = n + 1
      BY <1>1, <1>2, <2>3
    <3>2. Capped(t - t) = 0
      BY Constants DEF Capped
    <3> QED
      BY <1>2, <2>1, <2>3, <3>1, <3>2
  <2>4. CASE k # 1
    <3>1. a[k - 1] = IF k - 1 <= n THEN Capped(t - l[n - (k - 1) + 1]) ELSE Window
      BY <2>2, <2>4 DEF Recorded, n
    <3>2. CASE k - 1 <= n
      <4> DEFINE i == Len(s) - k + 1
      <4>1. i \in 1 .. n /\ i = n - (k - 1) + 1 /\ k <= Len(s)
        BY <1>1, <1>2, <2>2, <2>4, <3>2
      <4> HIDE DEF i
      <4>2. s[i] = l[n - (k - 1) + 1]
        BY <1>2, <4>1
      <4> QED
        BY <2>1, <2>4, <3>1, <3>2, <4>1, <4>2 DEF i
    <3>3. CASE ~(k - 1 <= n)
      <4>1. ~(k <= Len(s))
        BY <1>1, <1>2, <2>2, <3>3
      <4> QED
        BY <2>1, <2>4, <3>1, <3>3, <4>1
    <3> QED
      BY <3>2, <3>3
  <2> QED
    BY <2>3, <2>4
<1>6. Len(s) <= Rate
  BY <1>1, <1>2, Constants
<1>7. Recorded(s, b, t)
  BY <1>2, <1>3, <1>4, <1>5, <1>6 DEF Recorded
<1> QED
  BY <1>2, <1>7 DEF s, n

\* A tick of the bucket's clock.
LEMMA TickRecorded ==
  ASSUME NEW t \in Nat, NEW l, NEW a, Recorded(l, a, t)
  PROVE  Recorded(l, GrowOlder(a), t + 1)
<1> DEFINE n == Len(l)
           b == GrowOlder(a)
<1>1. /\ l \in Seq(0 .. t) /\ n \in Nat /\ n <= Rate /\ Ascending(l) /\ a \in Ages /\ Sorted(a)
      /\ \A i \in 1 .. n : l[i] \in 0 .. t
  BY DEF Recorded
<1>2. b \in Ages /\ Sorted(b)
  BY <1>1, AgesFacts, SortedKept
<1>3. l \in Seq(0 .. t + 1)
  <2>1. l \in [1 .. n -> 0 .. t + 1]
    BY <1>1
  <2> QED
    BY <1>1, <2>1
<1> HIDE DEF n
<1>4. ASSUME NEW k \in 1 .. Rate + 1
      PROVE  b[k] = IF k <= n THEN Capped((t + 1) - l[n - k + 1]) ELSE Window
  <2>1. b[k] = Older(a[k])
    BY <1>1, AgeFacts
  <2>2. a[k] = IF k <= n THEN Capped(t - l[n - k + 1]) ELSE Window
    BY DEF Recorded, n
  <2>3. CASE k <= n
    <3> DEFINE x == l[n - k + 1]
    <3>1. x \in 0 .. t
      <4>1. n - k + 1 \in 1 .. n
        BY <1>1, <2>3
      <4> QED
        BY <1>1, <4>1
    <3> HIDE DEF x
    <3>2. Older(Capped(t - x)) = Capped((t + 1) - x)
      BY <3>1, Constants DEF Older, Capped
    <3> QED
      BY <2>1, <2>2, <2>3, <3>2 DEF x
  <2>4. CASE ~(k <= n)
    BY <2>1, <2>2, <2>4, Constants DEF Older
  <2> QED
    BY <2>3, <2>4
<1> QED
  BY <1>1, <1>2, <1>3, <1>4 DEF Recorded, n

\* What the quota answers at the time t after the admissions a.
Answer(t, a) ==
  IF Quota!Counted(a) < Rate
  THEN [allowed |-> TRUE, remaining |-> Rate - Quota!Counted(Remember(a, TRUE)),
        reset |-> t + Window, retry |-> 0]
  ELSE [allowed |-> FALSE, remaining |-> 0, reset |-> t + Window - a[1],
        retry |-> Window - a[Rate]]

\* And the admissions after the answer.
NextAges(a) == Remember(a, Quota!Counted(a) < Rate)

LEMMA ScriptAnswers ==
  ASSUME LogInv, script, steps = 0
  PROVE  decision' = Answer(now, ages) /\ ages' = NextAges(ages)
<1>1. ages \in Ages /\ ages[Rate + 1] = Window /\ Sorted(ages)
  <2>1. /\ TypeOK /\ Logged(zset, ages, now) /\ Cardinality(zset) <= Rate /\ Sorted(ages)
        /\ zset \in SUBSET Entries /\ ages \in Ages /\ now \in Nat
    BY BoundsOf, TrimmedFacts DEF LogInv, LogBounded
  <2> QED
    BY <2>1, LogAdmits
<1>2. Quota!Counted(ages) \in Nat
  BY <1>1, CountedPrefix
<1>3. CASE Quota!Allow
  BY <1>3, QuotaOperators DEF Quota!Allow, Answer, NextAges
<1>4. CASE Quota!Deny
  <2>1. ~(Quota!Counted(ages) < Rate)
    BY <1>2, <1>4, Constants DEF Quota!Deny
  <2>2. NextAges(ages) = ages
    BY <2>1 DEF NextAges, Remember
  <2> QED
    BY <1>4, <2>1, <2>2 DEF Quota!Deny, Answer
<1> QED
  BY <1>3, <1>4, ScriptIsQuotaStep

\* The bucket's step on constants: l and a before it, s and d after it.
StepOf(t, l, a, new, d) ==
  LET kept == KeptOf(l, t)
      allowed == HasRoom(Len(kept))
  IN  /\ new = IF allowed THEN Append(kept, t) ELSE kept
      /\ d = [allowed |-> allowed, remaining |-> RemainingOf(Len(new)),
              reset |-> IF new # << >> THEN new[Len(new)] + Window ELSE t,
              retry |-> IF allowed THEN 0 ELSE new[1] + Window - t]

LEMMA MemoryStepOf ==
  ASSUME Mem!step
  PROVE  /\ StepOf(now + back, log, memAges, log', memDecision')
         /\ memAges' = Remember(memAges, HasRoom(Len(KeptOf(log, now + back))))
         /\ since' = 0
<1>1. Mem!Kept = KeptOf(log, now + back)
  BY DEF Mem!Kept, KeptOf, Mem!Cardinality, Cardinality
<1> QED
  BY <1>1 DEF Mem!step, StepOf, Mem!HasRoom, HasRoom, Mem!RemainingOf, RemainingOf,
              Mem!ResetOf, Mem!RetryOf, Mem!Remember, Remember

LEMMA StepAnswers ==
  ASSUME NEW t \in Nat, NEW l, NEW a, Recorded(l, a, t), NEW new, NEW d,
         StepOf(t, l, a, new, d)
  PROVE  /\ d = Answer(t, a)
         /\ Recorded(new, NextAges(a), t)
         /\ HasRoom(Len(KeptOf(l, t))) = (Quota!Counted(a) < Rate)
<1> DEFINE s == KeptOf(l, t)
           c == Quota!Counted(a)
<1>1. /\ Recorded(s, a, t) /\ Len(s) = c
      /\ \A i \in 1 .. Len(s) : s[i] > t - Window
  BY KeptRecorded
<1>2. /\ s \in Seq(0 .. t) /\ c \in Nat /\ c <= Rate /\ a \in Ages
      /\ \A i \in 1 .. c : s[i] \in 0 .. t
  BY <1>1 DEF Recorded
<1>3. /\ new = IF c < Rate THEN Append(s, t) ELSE s
      /\ d = [allowed |-> c < Rate, remaining |-> RemainingOf(Len(new)),
              reset |-> IF new # << >> THEN new[Len(new)] + Window ELSE t,
              retry |-> IF c < Rate THEN 0 ELSE new[1] + Window - t]
  BY <1>1 DEF StepOf, HasRoom
<1>4. HasRoom(Len(s)) = (c < Rate)
  BY <1>1 DEF HasRoom
<1> HIDE DEF s
<1>5. CASE c < Rate
  <2>1. new = Append(s, t) /\ NextAges(a) = Remember(a, TRUE)
    BY <1>3, <1>5 DEF NextAges
  <2>2. /\ Recorded(new, NextAges(a), t) /\ Len(new) = c + 1 /\ new[c + 1] = t
        /\ \A i \in 1 .. c : new[i] = s[i]
    <3> DEFINE app == Append(s, t)
    <3>1. Len(s) < Rate
      BY <1>1, <1>5
    <3>2. /\ Recorded(app, Remember(a, TRUE), t)
          /\ Len(app) = Len(s) + 1 /\ app[Len(s) + 1] = t
          /\ \A i \in 1 .. Len(s) : app[i] = s[i]
      BY <1>1, <3>1, AppendRecorded
    <3> HIDE DEF app, c
    <3>3. new = app
      BY <2>1 DEF app
    <3> QED
      BY <1>1, <2>1, <3>2, <3>3
  <2>3. \A i \in 1 .. Len(new) : new[i] > t - Window
    BY <1>1, <1>2, <2>2, Constants
  <2>4. Len(new) = Quota!Counted(NextAges(a))
    BY <2>2, <2>3, LenCounts
  <2>5. new # << >>
    BY <1>2, <2>2
  <2>6. RemainingOf(Len(new)) = Rate - Len(new)
    BY <1>2, <1>5, <2>2, Constants DEF RemainingOf
  <2>7. d = [allowed |-> TRUE, remaining |-> Rate - Len(new), reset |-> t + Window, retry |-> 0]
    BY <1>3, <1>5, <2>2, <2>5, <2>6
  <2>8. d = Answer(t, a)
    BY <1>5, <2>1, <2>4, <2>7 DEF Answer
  <2> QED
    BY <1>4, <2>2, <2>8 DEF s
<1>6. CASE ~(c < Rate)
  <2>1. new = s /\ NextAges(a) = a /\ c = Rate
    BY <1>2, <1>3, <1>6, Constants DEF NextAges, Remember
  <2>2. ASSUME NEW k \in 1 .. Rate
        PROVE  a[k] = t - s[Rate - k + 1] /\ s[Rate - k + 1] \in 0 .. t
    <3> DEFINE x == s[Rate - k + 1]
    <3>1. Rate - k + 1 \in 1 .. c
      BY <2>1, Constants
    <3>2. x \in 0 .. t /\ x > t - Window
      BY <1>1, <1>2, <3>1
    <3>3. a[k] = Capped(t - x)
      <4>1. k \in 1 .. Rate + 1 /\ k <= Len(s)
        BY <1>1, <2>1, Constants
      <4>2. a[k] = IF k <= Len(s) THEN Capped(t - s[Len(s) - k + 1]) ELSE Window
        BY <1>1, <4>1 DEF Recorded
      <4> QED
        BY <1>1, <2>1, <4>1, <4>2
    <3> HIDE DEF x
    <3>4. Capped(t - x) = t - x
      BY <3>2, Constants DEF Capped
    <3> QED
      BY <3>2, <3>3, <3>4 DEF x
  <2>3. a[1] = t - s[Rate] /\ s[Rate] \in 0 .. t
    <3>1. 1 \in 1 .. Rate /\ Rate - 1 + 1 = Rate
      BY Constants
    <3> QED
      BY <2>2, <3>1
  <2>4. a[Rate] = t - s[1] /\ s[1] \in 0 .. t
    <3>1. Rate \in 1 .. Rate /\ Rate - Rate + 1 = 1
      BY Constants
    <3> QED
      BY <2>2, <3>1
  <2>5. s # << >> /\ Len(s) = Rate
    BY <1>1, <1>2, <2>1, Constants
  <2>6. RemainingOf(Len(new)) = 0
    BY <2>1, <2>5, Constants DEF RemainingOf
  <2>7. d = [allowed |-> FALSE, remaining |-> 0, reset |-> s[Rate] + Window,
             retry |-> s[1] + Window - t]
    <3>1. (c < Rate) = FALSE
      BY <1>6
    <3>2. new = s /\ Len(new) = Rate /\ new # << >>
      BY <2>1, <2>5
    <3> HIDE DEF c
    <3> QED
      BY <1>3, <1>6, <2>6, <3>1, <3>2
  <2>8. s[Rate] + Window = t + Window - a[1] /\ s[1] + Window - t = Window - a[Rate]
    BY <2>3, <2>4, Constants
  <2>9. d = Answer(t, a)
    BY <1>6, <2>7, <2>8 DEF Answer
  <2> QED
    BY <1>1, <1>4, <2>1, <2>9 DEF s
<1> QED
  BY <1>5, <1>6

\* What the last answer d, given s ago, said of the admissions a still holds: the
\* oldest one that stood in the way leaves when RetryAfter is over, the newest
\* one at Reset.
Current(d, a, s, t) ==
  /\ d.reset \in Nat
  /\ ~d.allowed => d.retry \in 1 .. Window /\ a[Rate] = Capped((Window - d.retry) + s)
  /\ a[1] < Window => d.reset = t + Window - a[1]
  /\ a[1] = Window => d.reset <= t

LEMMA CountedFacts ==
  ASSUME NEW t \in Nat, NEW l, NEW a, Recorded(l, a, t)
  PROVE  /\ Quota!Counted(a) \in Nat
         /\ Quota!Counted(a) < Rate <=> a[Rate] = Window
         /\ Quota!Counted(a) = 0 <=> a[1] = Window
<1>1. /\ a \in Ages /\ Sorted(a) /\ Len(l) \in Nat /\ Len(l) <= Rate
      /\ \A k \in 1 .. Rate + 1 : a[k] \in 0 .. Window
  <2>1. a \in Ages /\ Sorted(a) /\ Len(l) \in Nat /\ Len(l) <= Rate
    BY DEF Recorded
  <2> QED
    BY <2>1, AgeFacts
<1>2. a[Rate + 1] = Window
  <2>1. a[Rate + 1] = IF Rate + 1 <= Len(l) THEN Capped(t - l[Len(l) - (Rate + 1) + 1]) ELSE Window
    BY Constants DEF Recorded
  <2>2. ~(Rate + 1 <= Len(l))
    BY <1>1, Constants
  <2> QED
    BY <2>1, <2>2
<1>3. PICK c \in 0 .. Rate :
        Quota!Counted(a) = c /\ a[c + 1] = Window /\ (c > 0 => a[c] < Window)
  BY <1>1, <1>2, CountedPrefix
<1>4. ASSUME NEW k \in 1 .. Rate + 1
      PROVE  a[k] = Window <=> k > c
  <2>1. CASE k > c
    <3>1. a[c + 1] <= a[k] /\ a[k] \in 0 .. Window
      BY <1>1, <2>1, Constants DEF Sorted
    <3> QED
      BY <1>3, <2>1, <3>1, Constants
  <2>2. CASE ~(k > c)
    <3>1. c \in 1 .. Rate + 1 /\ k <= c /\ c > 0
      BY <2>2, Constants
    <3>2. a[k] <= a[c] /\ a[k] \in 0 .. Window /\ a[c] \in 0 .. Window
      BY <1>1, <3>1 DEF Sorted
    <3> QED
      BY <1>3, <2>2, <3>1, <3>2, Constants
  <2> QED
    BY <2>1, <2>2
<1>5. (a[Rate] = Window <=> Rate > c) /\ (a[1] = Window <=> 1 > c)
  BY <1>4, Constants
<1> QED
  BY <1>3, <1>5, Constants

LEMMA AnswerCurrent ==
  ASSUME NEW t \in Nat, NEW l, NEW a, Recorded(l, a, t)
  PROVE  Current(Answer(t, a), NextAges(a), 0, t)
<1> DEFINE c == Quota!Counted(a)
<1>1. /\ c \in Nat /\ (c < Rate <=> a[Rate] = Window) /\ (c = 0 <=> a[1] = Window)
  BY CountedFacts
<1>2. a \in Ages /\ a[1] \in 0 .. Window /\ a[Rate] \in 0 .. Window
  BY AgeFacts, Constants DEF Recorded
<1>3. CASE c < Rate
  <2>1. Answer(t, a).allowed = TRUE /\ Answer(t, a).reset = t + Window
    BY <1>3 DEF Answer
  <2>2. NextAges(a)[1] = 0
    <3>1. NextAges(a) = Remember(a, TRUE)
      BY <1>3 DEF NextAges
    <3> QED
      BY <1>2, <3>1, AgeFacts, Constants
  <2> QED
    BY <2>1, <2>2, Constants DEF Current
<1>4. CASE ~(c < Rate)
  <2>1. /\ Answer(t, a).allowed = FALSE /\ Answer(t, a).reset = t + Window - a[1]
        /\ Answer(t, a).retry = Window - a[Rate]
    BY <1>4 DEF Answer
  <2>2. NextAges(a) = a
    BY <1>4 DEF NextAges, Remember
  <2>3. a[1] < Window /\ a[Rate] < Window
    BY <1>1, <1>2, <1>4, Constants
  <2>4. t + Window - a[1] \in Nat /\ Window - a[Rate] \in 1 .. Window
    BY <1>2, <2>3, Constants
  <2>5. a[Rate] = Capped((Window - (Window - a[Rate])) + 0)
    BY <1>2, <2>3, Constants DEF Capped
  <2> DEFINE d == Answer(t, a)
  <2>6. /\ d.allowed = FALSE /\ d.reset \in Nat /\ d.reset = t + Window - a[1]
        /\ d.retry \in 1 .. Window /\ a[Rate] = Capped((Window - d.retry) + 0)
    BY <2>1, <2>4, <2>5
  <2> HIDE DEF d
  <2>7. Current(d, a, 0, t)
    BY <1>2, <2>3, <2>6, Constants DEF Current
  <2> QED
    BY <2>2, <2>7 DEF d
<1> QED
  BY <1>3, <1>4

LEMMA TickCurrent ==
  ASSUME NEW t \in Nat, NEW a \in Ages, NEW s \in 0 .. Window, NEW d, Current(d, a, s, t)
  PROVE  Current(d, GrowOlder(a), Older(s), t + 1)
<1> DEFINE b == GrowOlder(a)
<1>1. /\ a[1] \in 0 .. Window /\ a[Rate] \in 0 .. Window
      /\ b[1] = Older(a[1]) /\ b[Rate] = Older(a[Rate])
  BY AgeFacts, Constants
<1> HIDE DEF b
<1>2. d.reset \in Nat
  BY DEF Current
<1>3. ASSUME ~d.allowed
      PROVE  d.retry \in 1 .. Window /\ b[Rate] = Capped((Window - d.retry) + Older(s))
  <2>1. d.retry \in 1 .. Window /\ a[Rate] = Capped((Window - d.retry) + s)
    BY <1>3 DEF Current
  <2> QED
    BY <1>1, <2>1, Constants DEF Capped, Older
<1>4. b[1] < Window => d.reset = (t + 1) + Window - b[1]
  <2> SUFFICES ASSUME b[1] < Window
               PROVE  d.reset = (t + 1) + Window - b[1]
    OBVIOUS
  <2>1. a[1] < Window /\ b[1] = a[1] + 1
    BY <1>1, Constants DEF Older
  <2>2. d.reset = t + Window - a[1]
    BY <2>1 DEF Current
  <2> QED
    BY <1>1, <2>1, <2>2, Constants
<1>5. b[1] = Window => d.reset <= t + 1
  <2>1. CASE a[1] = Window
    BY <1>2, <2>1 DEF Current
  <2>2. CASE a[1] # Window
    <3>1. a[1] < Window
      BY <1>1, <2>2, Constants
    <3>2. d.reset = t + Window - a[1] /\ b[1] = a[1] + 1
      BY <1>1, <3>1 DEF Current, Older
    <3> QED
      BY <1>1, <3>2, Constants
  <2> QED
    BY <2>1, <2>2
<1> QED
  BY <1>2, <1>3, <1>4, <1>5 DEF Current, b

\* The two backends side by side: the log of each records the admissions, and
\* until TIME is set back they have given the same answers.
BothInv ==
  /\ LogInv
  /\ Recorded(log, memAges, now + back)
  /\ Current(memDecision, memAges, since, now + back)
  /\ SameAnswers

LEMMA AskKeeps ==
  ASSUME BothInv, Ask
  PROVE  BothInv'
<1> DEFINE t == now + back
<1>1. LogInv /\ script /\ Mem!step /\ Recorded(log, memAges, t) /\ SameAnswers
  BY DEF BothInv, Ask
<1>2. t \in Nat /\ now \in Nat /\ (steps = 0 => back = 0) /\ back \in Nat
  BY <1>1, TrimmedFacts DEF LogInv
<1>3. now' = now /\ back' = back /\ steps' = steps /\ since' = 0
  BY <1>1 DEF script
<1>4. StepOf(t, log, memAges, log', memDecision')
  BY <1>1, MemoryStepOf
<1> HIDE DEF t
<1>5. /\ memDecision' = Answer(t, memAges) /\ Recorded(log', NextAges(memAges), t)
      /\ HasRoom(Len(KeptOf(log, t))) = (Quota!Counted(memAges) < Rate)
  BY <1>1, <1>2, <1>4, StepAnswers
<1>6. memAges' = NextAges(memAges)
  <2>1. memAges' = Remember(memAges, HasRoom(Len(KeptOf(log, t))))
    BY <1>1, MemoryStepOf DEF t
  <2> QED
    BY <1>5, <2>1 DEF NextAges
<1>7. LogInv'
  BY <1>1, ScriptKeeps
<1>8. Recorded(log', memAges', now' + back')
  BY <1>3, <1>5, <1>6 DEF t
<1>9. Current(memDecision', memAges', since', now' + back')
  <2>1. Current(Answer(t, memAges), NextAges(memAges), 0, t)
    BY <1>1, <1>2, AnswerCurrent
  <2> QED
    BY <1>3, <1>5, <1>6, <2>1 DEF t
<1>10. SameAnswers'
  <2> SUFFICES ASSUME steps' = 0
               PROVE  decision' = memDecision' /\ ages' = memAges'
    BY DEF SameAnswers
  <2>1. steps = 0 /\ t = now
    BY <1>2, <1>3 DEF t
  <2>2. decision' = Answer(now, ages) /\ ages' = NextAges(ages)
    BY <1>1, <2>1, ScriptAnswers
  <2>3. ages = memAges
    BY <1>1, <2>1 DEF SameAnswers
  <2> QED
    BY <1>5, <1>6, <2>1, <2>2, <2>3
<1> QED
  BY <1>7, <1>8, <1>9, <1>10 DEF BothInv

LEMMA BothTickKeeps ==
  ASSUME BothInv, BothTick
  PROVE  BothInv'
<1> DEFINE t == now + back
<1>1. /\ LogInv /\ Tick /\ Mem!Tick /\ Recorded(log, memAges, t) /\ SameAnswers
      /\ Current(memDecision, memAges, since, t)
  BY DEF BothInv, BothTick
<1>2. t \in Nat /\ now \in Nat /\ back \in Nat /\ since \in 0 .. Window /\ memAges \in Ages
  BY <1>1, TrimmedFacts DEF LogInv, TypeOK, Recorded
<1>3. /\ now' = now + 1 /\ back' = back /\ steps' = steps /\ since' = Older(since)
      /\ ages' = GrowOlder(ages) /\ decision' = decision
  BY <1>1 DEF Tick
<1>4. memAges' = GrowOlder(memAges) /\ log' = log /\ memDecision' = memDecision
  BY <1>1 DEF Mem!Tick, Mem!GrowOlder, GrowOlder, Mem!Older, Older
<1>5. now' + back' = t + 1
  BY <1>2, <1>3
<1> HIDE DEF t
<1>6. Recorded(log, GrowOlder(memAges), t + 1)
  BY <1>1, <1>2, TickRecorded
<1>7. Current(memDecision, GrowOlder(memAges), Older(since), t + 1)
  BY <1>1, <1>2, TickCurrent
<1>8. LogInv'
  BY <1>1, TickKeeps
<1>9. SameAnswers'
  BY <1>1, <1>3, <1>4 DEF SameAnswers
<1>10. Recorded(log', memAges', now' + back')
  BY <1>4, <1>5, <1>6
<1>11. Current(memDecision', memAges', since', now' + back')
  BY <1>3, <1>4, <1>5, <1>7
<1> QED
  BY <1>8, <1>9, <1>10, <1>11 DEF BothInv

LEMMA RedisAloneKeeps ==
  ASSUME BothInv, RedisStepsBack \/ RedisExpires
  PROVE  BothInv'
<1>1. UNCHANGED <<log, memDecision, memAges, since, decision, ages>>
  BY DEF RedisStepsBack, RedisExpires, StepBack, Expire
<1>2. CASE RedisStepsBack
  <2>1. StepBack /\ LogInv
    BY <1>2 DEF RedisStepsBack, BothInv
  <2>2. LogInv' /\ steps' # 0
    BY <2>1, StepBackKeeps
  <2>3. now' + back' = now + back
    <3>1. now \in Nat /\ back \in Nat /\ now' \in 0 .. now - 1 /\ back' = back + now - now'
      BY <2>1, TrimmedFacts DEF StepBack, LogInv
    <3>2. now' + (back + now - now') = now + back
      BY <3>1, SetBack
    <3> QED
      BY <3>1, <3>2
  <2> QED
    BY <1>1, <2>2, <2>3 DEF BothInv, SameAnswers
<1>3. CASE RedisExpires
  <2>1. Expire /\ LogInv
    BY <1>3 DEF RedisExpires, BothInv
  <2>2. LogInv'
    BY <2>1, ExpireKeeps
  <2>3. now' = now /\ back' = back /\ steps' = steps
    BY <2>1 DEF Expire
  <2> QED
    BY <1>1, <2>2, <2>3 DEF BothInv, SameAnswers
<1> QED
  BY <1>2, <1>3

LEMMA BothInitInv == BothInit => BothInv
<1> SUFFICES ASSUME BothInit
             PROVE  BothInv
  OBVIOUS
<1>1. Init /\ Mem!Init
  BY DEF BothInit
<1>2. LogInv /\ now + back \in Nat
  <2>1. LogInv
    BY <1>1, LogInit
  <2> QED
    BY <2>1, TrimmedFacts DEF LogInv
<1>3. /\ log = << >> /\ memDecision = NoDecision /\ memAges = NoAdmissions /\ since = 0
      /\ decision = NoDecision /\ ages = NoAdmissions
  BY <1>1 DEF Init, Mem!Init, Mem!NoDecision, NoDecision, Mem!NoAdmissions, NoAdmissions
<1>4. NoAdmissions \in Ages /\ \A k \in 1 .. Rate + 1 : NoAdmissions[k] = Window
  BY Constants DEF NoAdmissions, Ages
<1>5. Recorded(log, memAges, now + back)
  <2>1. Sorted(NoAdmissions)
    BY <1>4, Constants DEF Sorted
  <2>2. << >> \in Seq(0 .. now + back) /\ Len(<< >>) = 0
    OBVIOUS
  <2>3. Ascending(<< >>)
    BY <2>2 DEF Ascending
  <2>4. \A k \in 1 .. Rate + 1 : ~(k <= 0)
    BY Constants
  <2> QED
    BY <1>3, <1>4, <2>1, <2>2, <2>3, <2>4, Constants DEF Recorded
<1>6. Current(memDecision, memAges, since, now + back)
  <2>1. NoDecision.reset = 0 /\ NoDecision.allowed = TRUE /\ NoAdmissions[1] = Window
    BY <1>4, Constants DEF NoDecision
  <2> QED
    BY <1>2, <1>3, <2>1, Constants DEF Current
<1> QED
  BY <1>2, <1>3, <1>5, <1>6 DEF BothInv, SameAnswers

LEMMA BothInvariant == BothSpec => []BothInv
<1> DEFINE both == <<vars, log, memDecision, memAges>>
<1>1. BothInv /\ [BothNext]_both => BothInv'
  <2> SUFFICES ASSUME BothInv, [BothNext]_both
               PROVE  BothInv'
    OBVIOUS
  <2>1. CASE UNCHANGED both
    <3>1. UNCHANGED vars /\ UNCHANGED <<log, memDecision, memAges>>
      BY <2>1
    <3>2. LogInv'
      BY <3>1, LogNext DEF BothInv
    <3>3. UNCHANGED <<now, back, since, steps, decision, ages>>
      BY <3>1 DEF vars
    <3> QED
      BY <3>1, <3>2, <3>3 DEF BothInv, SameAnswers
  <2> QED
    BY <2>1, AskKeeps, BothTickKeeps, RedisAloneKeeps DEF BothNext
<1> QED
  BY <1>1, BothInitInv, PTL DEF BothSpec

\* TestRedisSlidingWindowParity for every rate, window and millisecond: until
\* redis TIME is set back the script and the in-memory bucket give the same
\* answers, whatever redis has let expire.
THEOREM SlidingBackendsAgree == BothSpec => []SameAnswers
<1>1. BothInv => SameAnswers
  BY DEF BothInv
<1> QED
  BY <1>1, BothInvariant, PTL

\* The in-memory limiter's RetryAfter and Reset (sliding_window.go:45-62) are
\* exact as long as nobody else asks.
THEOREM MemoryTimes == BothSpec => []MemoryTimesExact
<1>1. ASSUME BothInv
      PROVE  MemoryTimesExact
  <2> DEFINE t == now + back
             kept == KeptOf(log, t)
  <2>1. /\ t \in Nat /\ since \in 0 .. Window /\ Recorded(log, memAges, t)
        /\ Current(memDecision, memAges, since, t)
    BY <1>1, TrimmedFacts DEF BothInv, LogInv, TypeOK
  <2>2. Mem!Kept = kept
    BY DEF Mem!Kept, KeptOf, Mem!Cardinality, Cardinality
  <2> HIDE DEF t
  <2>3. Len(kept) = Quota!Counted(memAges) /\ kept \in Seq(0 .. t)
    BY <2>1, KeptRecorded DEF Recorded
  <2>4. /\ Len(kept) \in Nat
        /\ Len(kept) < Rate <=> memAges[Rate] = Window
        /\ Len(kept) = 0 <=> memAges[1] = Window
    BY <2>1, <2>3, CountedFacts
  <2>5. memAges[1] \in 0 .. Window
    BY <2>1, AgeFacts, Constants DEF Recorded
  <2> HIDE DEF kept
  <2>6. Mem!RetryExact
    <3> SUFFICES ASSUME ~memDecision.allowed
                 PROVE  Len(kept) < Rate <=> since >= memDecision.retry
      BY <2>2 DEF Mem!RetryExact, Mem!HasRoom
    <3>1. /\ memDecision.retry \in 1 .. Window
          /\ memAges[Rate] = Capped((Window - memDecision.retry) + since)
      BY <2>1 DEF Current
    <3>2. memAges[Rate] = Window <=> since >= memDecision.retry
      BY <2>1, <3>1, Constants DEF Capped
    <3> QED
      BY <2>4, <3>2
  <2>7. Mem!ResetExact
    <3>1. kept = << >> <=> Len(kept) = 0
      BY <2>3
    <3>2. memAges[1] = Window <=> t >= memDecision.reset
      <4>1. memDecision.reset \in Nat
        BY <2>1 DEF Current
      <4>2. CASE memAges[1] = Window
        BY <2>1, <4>1, <4>2 DEF Current
      <4>3. CASE memAges[1] # Window
        <5>1. memAges[1] < Window
          BY <2>5, <4>3, Constants
        <5>2. memDecision.reset = t + Window - memAges[1]
          BY <2>1, <5>1 DEF Current
        <5> QED
          BY <2>1, <2>5, <5>1, <5>2, Constants
      <4> QED
        BY <4>2, <4>3
    <3> QED
      BY <2>2, <2>4, <3>1, <3>2 DEF Mem!ResetExact, t
  <2> QED
    BY <2>6, <2>7 DEF MemoryTimesExact
<1> QED
  BY <1>1, BothInvariant, PTL

-------------------------------------------------------------------------------
(* The bucket implements the quota, on its own clock. *)

MemQuota == INSTANCE SlidingQuota WITH
  now <- now + back, decision <- memDecision, ages <- memAges

LEMMA MemQuotaOperators ==
  /\ \A a, x : MemQuota!Remember(a, x) = Remember(a, x)
  /\ \A a : MemQuota!GrowOlder(a) = GrowOlder(a)
  /\ \A s : MemQuota!Older(s) = Older(s)
  /\ MemQuota!NoDecision = NoDecision /\ MemQuota!NoAdmissions = NoAdmissions
  /\ \A a : MemQuota!Counted(a) = Quota!Counted(a)
<1>1. \A a : MemQuota!Counted(a) = Quota!Counted(a)
  BY DEF MemQuota!Counted, Quota!Counted, MemQuota!Cardinality, Quota!Cardinality
<1> QED
  BY <1>1 DEF MemQuota!Remember, Remember, MemQuota!GrowOlder, GrowOlder, MemQuota!Older,
              Older, MemQuota!NoDecision, NoDecision, MemQuota!NoAdmissions, NoAdmissions

LEMMA AskIsQuotaStep ==
  ASSUME BothInv, Ask
  PROVE  MemQuota!Allow \/ MemQuota!Deny
<1> DEFINE t == now + back
           c == Quota!Counted(memAges)
<1>1. LogInv /\ script /\ Mem!step /\ Recorded(log, memAges, t)
  BY DEF BothInv, Ask
<1>2. t \in Nat
  BY <1>1, TrimmedFacts DEF LogInv
<1>3. now' = now /\ back' = back /\ since' = 0
  BY <1>1 DEF script
<1>4. /\ StepOf(t, log, memAges, log', memDecision')
      /\ memAges' = Remember(memAges, HasRoom(Len(KeptOf(log, t))))
  BY <1>1, MemoryStepOf
<1>5. now' + back' = t
  BY <1>3
<1>6. c \in Nat
  BY <1>1, <1>2, CountedFacts
<1> HIDE DEF t
<1>7. /\ memDecision' = Answer(t, memAges)
      /\ HasRoom(Len(KeptOf(log, t))) = (c < Rate)
  BY <1>1, <1>2, <1>4, StepAnswers
<1>8. CASE c < Rate
  <2>1. memAges' = Remember(memAges, TRUE)
    BY <1>4, <1>7, <1>8
  <2>2. memDecision' = [allowed |-> TRUE, remaining |-> Rate - Quota!Counted(memAges'),
                        reset |-> t + Window, retry |-> 0]
    BY <1>7, <1>8, <2>1 DEF Answer
  <2> QED
    BY <1>3, <1>5, <1>8, <2>1, <2>2, MemQuotaOperators DEF MemQuota!Allow, t
<1>9. CASE ~(c < Rate)
  <2>1. memAges' = memAges
    BY <1>4, <1>7, <1>9 DEF Remember
  <2>2. memDecision' = [allowed |-> FALSE, remaining |-> 0,
                        reset |-> t + Window - memAges[1], retry |-> Window - memAges[Rate]]
    BY <1>7, <1>9 DEF Answer
  <2>3. c >= Rate
    BY <1>6, <1>9, Constants
  <2> QED
    BY <1>3, <1>5, <2>1, <2>2, <2>3, MemQuotaOperators DEF MemQuota!Deny, t
<1> QED
  BY <1>8, <1>9

\* The in-memory bucket (sliding_window.go:20-64) allows a request exactly if
\* fewer than the rate were allowed less than a window ago, and answers with the
\* exact times, whatever happens to redis meanwhile.
THEOREM MemoryImplementsQuota == BothSpec => MemQuota!Spec
<1> DEFINE both == <<vars, log, memDecision, memAges>>
<1>1. BothInit => MemQuota!Init
  <2> SUFFICES ASSUME BothInit
               PROVE  MemQuota!Init
    OBVIOUS
  <2>1. Mem!Init
    BY DEF BothInit
  <2> QED
    BY <2>1, MemQuotaOperators
    DEF Mem!Init, MemQuota!Init, Mem!NoDecision, NoDecision, Mem!NoAdmissions, NoAdmissions
<1>2. BothInv /\ [BothNext]_both => [MemQuota!Next]_(MemQuota!vars)
  <2> SUFFICES ASSUME BothInv, [BothNext]_both
               PROVE  [MemQuota!Next]_(MemQuota!vars)
    OBVIOUS
  <2>1. CASE Ask
    BY <2>1, AskIsQuotaStep DEF MemQuota!Next
  <2>2. CASE BothTick
    <3>1. Mem!Tick
      BY <2>2 DEF BothTick
    <3>2. memAges' = GrowOlder(memAges) /\ since' = Older(since)
      BY <3>1 DEF Mem!Tick, Mem!GrowOlder, GrowOlder, Mem!Older, Older
    <3>3. MemQuota!Tick
      BY <3>1, <3>2, MemQuotaOperators DEF Mem!Tick, MemQuota!Tick
    <3> QED
      BY <3>3 DEF MemQuota!Next
  <2>3. CASE RedisStepsBack
    <3>1. StepBack /\ UNCHANGED <<memDecision, memAges>>
      BY <2>3 DEF RedisStepsBack
    <3>2. /\ now \in Nat /\ back \in Nat /\ now' \in 0 .. now - 1
          /\ back' = back + now - now' /\ since' = since
      BY <3>1, TrimmedFacts DEF StepBack, BothInv, LogInv
    <3>3. now' + (back + now - now') = now + back
      BY <3>2, SetBack
    <3>4. now' + back' = now + back
      BY <3>2, <3>3
    <3> QED
      BY <3>1, <3>2, <3>4 DEF MemQuota!vars
  <2>4. CASE RedisExpires
    BY <2>4 DEF RedisExpires, Expire, MemQuota!vars
  <2>5. CASE UNCHANGED both
    BY <2>5 DEF vars, MemQuota!vars
  <2> QED
    BY <2>1, <2>2, <2>3, <2>4, <2>5 DEF BothNext
<1> QED
  BY <1>1, <1>2, BothInvariant, PTL DEF BothSpec, MemQuota!Spec
================================================================================
