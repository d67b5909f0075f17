-------------------------- MODULE TokenBackendsProofs --------------------------
(***************************************************************************)
(* The two token_bucket backends, for every burst, rate, window, epsilon   *)
(* and length of a millisecond.                                            *)
(*                                                                         *)
(* Every admission takes at least Window - Epsilon shares out of the       *)
(* bucket, and a tick of real time puts at most Rate in, so the last j     *)
(* admissions and what is in the bucket now come from the burst and the    *)
(* refill since the first of them (AdmissionsPaid).  A clock set back      *)
(* takes shares away and gives none.  After it the key may expire before   *)
(* the bucket is full by redis TIME, and a fresh bucket is full; but it    *)
(* lives for as long as the refill takes in real time, so the shares it    *)
(* gains have been paid for (ExpiryPaid).                                  *)
(*                                                                         *)
(* Until the clock is set back the bucket is full when its key expires     *)
(* (ExpiresFull), so expiry loses nothing: the script implements the       *)
(* quota, a denial's RetryAfter stays exact, and the in-memory bucket,     *)
(* which expires never, holds as much.                                     *)
(***************************************************************************)
EXTENDS TokenBackends, TLAPS

(* Arithmetic. *)

LEMMA DivMod ==
  ASSUME NEW d \in Nat \ {0}, NEW t \in Nat
  PROVE  /\ t \div d \in Nat
         /\ d * (t \div d) <= t
         /\ t < d * (t \div d) + d
OBVIOUS

LEMMA TimesMonotone ==
  ASSUME NEW a \in Int, NEW b \in Int, a <= b, NEW c \in Nat
  PROVE  a * c <= b * c
<1>1. (b - a) \in Nat
  OBVIOUS
<1>2. (b - a) * c \in Nat
  BY <1>1
<1>3. (b - a) * c = b * c - a * c
  OBVIOUS
<1> QED
  BY <1>2, <1>3

\* Products that the proofs need one step of, or taken apart.
LEMMA TimesStep ==
  ASSUME NEW a \in Int, NEW b \in Int, NEW c \in Int
  PROVE  /\ a * c \in Int
         /\ (a + b) * c = a * c + b * c
         /\ (a + 1) * c = a * c + c
         /\ (a - b) * c = a * c - b * c
         /\ c * a = a * c
OBVIOUS

\* Rounding up.
LEMMA CeilLeast ==
  ASSUME NEW a \in Nat, NEW b \in Nat \ {0}, NEW n \in Nat
  PROVE  /\ CeilDiv(a, b) \in Nat
         /\ CeilDiv(a, b) <= n <=> a <= n * b
<1> DEFINE s == a + b - 1
           c == s \div b
<1>1. s \in Nat /\ c \in Nat /\ b * c <= s /\ s < b * c + b
  BY DivMod
<1>2. CeilDiv(a, b) = c
  BY DEF CeilDiv
<1>3. b * c = c * b /\ b * c \in Int /\ n * b \in Int
  <2> HIDE DEF c, s
  <2> QED
    BY <1>1, TimesStep
<1>4. ASSUME c <= n
      PROVE  a <= n * b
  <2>1. c * b <= n * b
    BY <1>1, <1>4, TimesMonotone
  <2>2. a <= b * c
    BY <1>1, <1>3
  <2> QED
    <3> HIDE DEF c, s
    <3> QED
      BY <2>1, <2>2, <1>3
<1>5. ASSUME ~(c <= n)
      PROVE  ~(a <= n * b)
  <2>1. (n + 1) * b <= c * b
    <3>1. n + 1 <= c
      BY <1>1, <1>5
    <3> QED
      BY <3>1, <1>1, TimesMonotone
  <2>2. (n + 1) * b = n * b + b
    OBVIOUS
  <2> QED
    BY <2>1, <2>2, <1>1, <1>3
<1> QED
  BY <1>1, <1>2, <1>4, <1>5

\* Rounding up and rounding down differ by at most one.
LEMMA CeilFloor ==
  ASSUME NEW a \in Nat, NEW b \in Nat \ {0}
  PROVE  CeilDiv(a, b) - (a \div b) \in 0 .. 1
<1> DEFINE f == a \div b
<1>1. f \in Nat /\ b * f <= a /\ a < b * f + b
  BY DivMod
<1>2. CeilDiv(a, b) \in Nat
  BY CeilLeast, <1>1
<1>3. CeilDiv(a, b) <= f + 1
  <2>1. a <= (f + 1) * b
    <3> HIDE DEF f
    <3> QED
      BY <1>1
  <2>2. f + 1 \in Nat
    BY <1>1
  <2> HIDE DEF f
  <2> QED
    BY <2>1, <2>2, CeilLeast
<1>4. f <= CeilDiv(a, b)
  <2>1. CASE f = 0
    BY <1>2, <2>1
  <2>2. CASE f # 0
    <3>1. f - 1 \in Nat
      BY <1>1, <2>2
    <3>2. ~(a <= (f - 1) * b)
      <4> HIDE DEF f
      <4>1. (f - 1) * b = b * f - b
        BY <1>1
      <4> QED
        BY <1>1, <4>1
    <3>3. ~(CeilDiv(a, b) <= f - 1)
      BY <3>1, <3>2, CeilLeast
    <3> QED
      BY <1>1, <1>2, <3>3
  <2> QED
    BY <2>1, <2>2
<1> QED
  BY <1>1, <1>2, <1>3, <1>4

LEMMA CapacityHoldsToken == Capacity \in Nat /\ Window <= Capacity
<1>1. Burst \in Int /\ 1 <= Burst /\ Window \in Nat
  BY BucketAssumption
<1>2. 1 * Window <= Burst * Window
  BY <1>1, TimesMonotone
<1> QED
  BY <1>1, <1>2, TimesStep DEF Capacity

-------------------------------------------------------------------------------
(* The bucket. *)

\* Window - Epsilon shares are the least an admission takes.
LEMMA TokenSize ==
  /\ Rate \in Nat \ {0} /\ Window \in Nat \ {0} /\ Epsilon \in Nat
  /\ Window - Epsilon \in Nat \ {0} /\ Window - Epsilon <= Window
  /\ Horizon \in Nat \ {0} /\ MaxTime \in Nat /\ Burst \in Nat \ {0}
  /\ Milli \in Nat \ {0} /\ MaxSteps \in Nat
BY BucketAssumption, RedisAssumption

LEMMA RefillFacts ==
  ASSUME NEW s \in 0 .. Capacity, NEW d \in Nat
  PROVE  /\ Refill(s, d) \in 0 .. Capacity
         /\ s <= Refill(s, d)
         /\ Refill(s, 0) = s
         /\ Refill(s, d + 1) = Refill(Refill(s, d), 1)
         /\ Refill(s, d) <= Refill(s, d + 1)
         /\ Refill(s, d + 1) <= Refill(s, d) + Rate
         /\ Refill(Capacity, d) = Capacity
<1> DEFINE p == d * Rate
<1>1. p \in Nat /\ (d + 1) * Rate = p + Rate /\ 0 * Rate = 0 /\ 1 * Rate = Rate
  BY TokenSize
<1> HIDE DEF p
<1>2. /\ Refill(s, d) = IF s + p < Capacity THEN s + p ELSE Capacity
      /\ Refill(s, d + 1) = IF s + (p + Rate) < Capacity THEN s + (p + Rate) ELSE Capacity
      /\ Refill(s, 0) = IF s + 0 < Capacity THEN s + 0 ELSE Capacity
      /\ Refill(Capacity, d) = IF Capacity + p < Capacity THEN Capacity + p ELSE Capacity
      /\ \A x : Refill(x, 1) = IF x + Rate < Capacity THEN x + Rate ELSE Capacity
  BY <1>1 DEF Refill, p
<1> QED
  BY <1>1, <1>2, TokenSize, CapacityHoldsToken

LEMMA RefillMonotone ==
  ASSUME NEW s \in 0 .. Capacity, NEW d \in Nat, NEW e \in Nat, d <= e
  PROVE  Refill(s, d) <= Refill(s, e)
<1>1. d * Rate <= e * Rate /\ d * Rate \in Int /\ e * Rate \in Int
  BY TimesMonotone, TokenSize
<1> QED
  BY <1>1, CapacityHoldsToken DEF Refill

\* The shares that the key k holds at time t.
Holds(k, t) ==
  IF ~k.exists THEN Capacity
  ELSE IF t > k.last THEN Refill(k.shares, t - k.last)
  ELSE k.shares

LEMMA RefilledHolds == Refilled = Holds(key, now) /\ Refilled' = Holds(key', now')
BY DEF Refilled, Holds

LEMMA HoldsFacts ==
  ASSUME NEW k \in Hashes, NEW t \in Nat
  PROVE  /\ Holds(k, t) \in 0 .. Capacity
         /\ Holds(k, t + 1) <= Holds(k, t) + Rate
         /\ k.exists /\ k.last <= t => Holds(k, t) = Refill(k.shares, t - k.last)
         /\ (k.exists => k.last <= t) => Holds(k, t + 1) = Refill(Holds(k, t), 1)
<1>1. k.shares \in 0 .. Capacity /\ k.last \in Nat /\ Capacity \in Nat
  BY CapacityHoldsToken, TokenSize DEF Hashes
<1>2. CASE ~k.exists
  <2>1. Holds(k, t) = Capacity /\ Holds(k, t + 1) = Capacity
    BY <1>2 DEF Holds
  <2>2. Refill(Capacity, 1) = Capacity
    BY <1>1, RefillFacts
  <2> QED
    BY <1>1, <1>2, <2>1, <2>2, TokenSize
<1>3. CASE k.exists /\ k.last <= t
  <2> DEFINE d == t - k.last
  <2>1. d \in Nat /\ t + 1 - k.last = d + 1 /\ t + 1 > k.last
    BY <1>1, <1>3
  <2>2. Refill(k.shares, 0) = k.shares
    BY <1>1, <2>1, RefillFacts
  <2>3. Holds(k, t) = Refill(k.shares, d)
    BY <1>1, <1>3, <2>2 DEF Holds
  <2>4. Holds(k, t + 1) = Refill(k.shares, d + 1)
    BY <1>1, <1>3, <2>1 DEF Holds
  <2>5. /\ Refill(k.shares, d) \in 0 .. Capacity
        /\ Refill(k.shares, d + 1) = Refill(Refill(k.shares, d), 1)
        /\ Refill(k.shares, d + 1) <= Refill(k.shares, d) + Rate
    <3> HIDE DEF d
    <3> QED
      BY <1>1, <2>1, RefillFacts
  <2> QED
    BY <2>3, <2>4, <2>5
<1>4. CASE k.exists /\ ~(k.last <= t)
  <2>1. Holds(k, t) = k.shares
    BY <1>1, <1>4 DEF Holds
  <2>2. Holds(k, t + 1) = k.shares
    BY <1>1, <1>4 DEF Holds
  <2> QED
    BY <1>1, <1>4, <2>1, <2>2, TokenSize
<1> QED
  BY <1>2, <1>3, <1>4

LEMMA HoldsMonotone ==
  ASSUME NEW k \in Hashes, NEW u \in Nat, NEW t \in Nat, u <= t
  PROVE  Holds(k, u) <= Holds(k, t)
<1>1. k.shares \in 0 .. Capacity /\ k.last \in Nat /\ Capacity \in Nat
  BY CapacityHoldsToken, TokenSize DEF Hashes
<1>2. CASE ~k.exists
  BY <1>1, <1>2 DEF Holds
<1>3. CASE k.exists /\ k.last < u
  <2>1. u - k.last \in Nat /\ t - k.last \in Nat /\ u - k.last <= t - k.last
    BY <1>1, <1>3
  <2>2. Holds(k, u) = Refill(k.shares, u - k.last) /\ Holds(k, t) = Refill(k.shares, t - k.last)
    BY <1>1, <1>3 DEF Holds
  <2> QED
    BY <1>1, <2>1, <2>2, RefillMonotone
<1>4. CASE k.exists /\ ~(k.last < u)
  <2>1. Holds(k, u) = k.shares
    BY <1>1, <1>4 DEF Holds
  <2>2. CASE t > k.last
    <3>1. t - k.last \in Nat /\ Holds(k, t) = Refill(k.shares, t - k.last)
      BY <1>1, <1>4, <2>2 DEF Holds
    <3> QED
      BY <1>1, <2>1, <3>1, RefillFacts
  <2>3. CASE ~(t > k.last)
    BY <1>1, <1>4, <2>1, <2>3 DEF Holds
  <2> QED
    BY <2>2, <2>3
<1> QED
  BY <1>1, <1>2, <1>3, <1>4

\* An admission takes at least Window - Epsilon shares out of the bucket.
LEMMA SpendPays ==
  ASSUME NEW r \in 0 .. Capacity, HasToken(r)
  PROVE  Spend(r) \in 0 .. Capacity /\ (Window - Epsilon) + Spend(r) <= r
BY TokenSize, CapacityHoldsToken DEF HasToken, Spend

\* Redis keeps the key until the bucket is full.
LEMMA ExpiryCovers ==
  ASSUME NEW t \in Nat, NEW short \in Nat, NEW e, e = (t \div Milli) + TTL(short)
  PROVE  /\ e \in Nat
         /\ t < (e + 1) * Milli
         /\ short <= ((e + 1) * Milli - t) * Rate
<1> DEFINE q == t \div Milli
           ttl == TTL(short)
           perMilli == Rate * Milli
<1>1. q \in Nat /\ t < Milli * q + Milli
  BY DivMod, TokenSize
<1>2. perMilli \in Nat \ {0}
  BY TokenSize
<1>3. ttl \in Nat /\ CeilDiv(short, perMilli) <= ttl
  <2> HIDE DEF perMilli
  <2>1. CeilDiv(short, perMilli) \in Nat
    BY <1>2, CeilLeast
  <2> QED
    BY <2>1 DEF TTL, perMilli
<1>4. short <= ttl * perMilli
  <2> HIDE DEF ttl, perMilli
  <2> QED
    BY <1>2, <1>3, CeilLeast
<1>5. e \in Nat
  BY <1>1, <1>3
<1> HIDE DEF q, ttl
<1>6. e = q + ttl
  BY DEF q, ttl
<1>7. (e + 1) * Milli = Milli * q + Milli + ttl * Milli
  BY <1>1, <1>3, <1>6, TokenSize
<1>8. ttl * Milli \in Nat /\ Milli * q \in Int
  BY <1>1, <1>3, TokenSize
<1>9. t + ttl * Milli <= (e + 1) * Milli /\ t < (e + 1) * Milli /\ (e + 1) * Milli \in Int
  BY <1>1, <1>7, <1>8, TokenSize
<1>10. (ttl * Milli) * Rate <= ((e + 1) * Milli - t) * Rate
  <2> DEFINE gone == (e + 1) * Milli
             need == ttl * Milli
  <2>1. need \in Int /\ gone - t \in Int /\ need <= gone - t
    BY <1>8, <1>9
  <2> HIDE DEF gone, need
  <2>2. need * Rate <= (gone - t) * Rate
    BY <2>1, TimesMonotone, TokenSize
  <2> QED
    BY <2>2 DEF gone, need
<1>11. (ttl * Milli) * Rate = ttl * perMilli
  BY <1>3, TokenSize
<1>12. ((e + 1) * Milli - t) * Rate \in Int /\ ttl * perMilli \in Int
  BY <1>2, <1>3, <1>9, TokenSize
<1> QED
  BY <1>4, <1>5, <1>9, <1>10, <1>11, <1>12

\* The record of admissions.
LEMMA AgesFacts ==
  ASSUME NEW a \in Ages
  PROVE  /\ Remember(a, TRUE) \in Ages /\ GrowOlder(a) \in Ages /\ NoAdmissions \in Ages
         /\ \A i \in Remembered :
              /\ a[i] \in 0 .. Horizon /\ i \in Nat /\ 1 <= i
              /\ Remember(a, TRUE)[i] = IF i = 1 THEN 0 ELSE a[i - 1]
              /\ i # 1 => i - 1 \in Remembered
              /\ GrowOlder(a)[i] \in 0 .. Horizon
              /\ GrowOlder(a)[i] < Horizon => a[i] < Horizon /\ GrowOlder(a)[i] = a[i] + 1
              /\ GrowOlder(a)[i] = Older(a[i])
         /\ 1 \in Remembered
BY TokenSize DEF Ages, Remember, GrowOlder, NoAdmissions, Remembered, Older

\* What the script leaves in the bucket.
Left == IF HasToken(Refilled) THEN Spend(Refilled) ELSE Refilled

LEMMA RemainingBounds ==
  ASSUME NEW r \in 0 .. Capacity
  PROVE  Remaining(r) \in 0 .. Burst /\ (r < Window => Remaining(r) = 0)
<1> DEFINE q == r \div Window
<1>1. q \in Nat /\ Window * q <= r /\ r < Window * q + Window /\ r \in Nat
  BY DivMod, TokenSize, CapacityHoldsToken
<1>2. q <= Burst
  <2> SUFFICES ASSUME ~(q <= Burst)
               PROVE  FALSE
    OBVIOUS
  <2>1. Burst + 1 <= q
    BY <1>1, TokenSize
  <2>2. (Burst + 1) * Window <= q * Window
    <3> HIDE DEF q
    <3> QED
      BY <1>1, <2>1, TimesMonotone, TokenSize
  <2>3. (Burst + 1) * Window = Capacity + Window
    BY TokenSize DEF Capacity
  <2>4. q * Window = Window * q
    <3> HIDE DEF q
    <3> QED
      BY <1>1, TokenSize
  <2> QED
    <3> HIDE DEF q
    <3> QED
      BY <1>1, <2>2, <2>3, <2>4, TokenSize, CapacityHoldsToken
<1>3. ASSUME r < Window
      PROVE  q = 0
  BY <1>1, <1>3, TokenSize
<1> QED
  BY <1>1, <1>2, <1>3 DEF Remaining

LEMMA ScriptEffect ==
  ASSUME TypeOK, script
  PROVE  /\ Refilled \in 0 .. Capacity /\ Left \in 0 .. Capacity
         /\ key' \in Hashes
         /\ key'.exists = TRUE /\ key'.shares = Left /\ key'.last = Last
         /\ now <= Last /\ (~key.exists \/ key.last <= now => Last = now)
         /\ now < (key'.expireAt + 1) * Milli
         /\ Capacity - Left <= ((key'.expireAt + 1) * Milli - now) * Rate
         /\ Refilled' = Left
         /\ now' = now /\ steps' = steps /\ since' = 0
<1>1. /\ key \in Hashes /\ now \in 0 .. MaxTime /\ now \in Nat /\ Capacity \in Nat
      /\ key.last \in 0 .. MaxTime
  BY CapacityHoldsToken, TokenSize DEF TypeOK, Hashes
<1>2. Refilled \in 0 .. Capacity
  BY <1>1, RefilledHolds, HoldsFacts
<1>3. Left \in 0 .. Capacity
  BY <1>2, SpendPays DEF Left
<1>4. /\ key' = [exists |-> TRUE, shares |-> Left, last |-> Last,
                 expireAt |-> (now \div Milli) + TTL(Capacity - Left)]
      /\ now' = now /\ steps' = steps /\ since' = 0
  BY DEF script, Left
<1>5. Capacity - Left \in Nat
  BY <1>1, <1>3
<1>6. /\ key'.expireAt \in Nat
      /\ now < (key'.expireAt + 1) * Milli
      /\ Capacity - Left <= ((key'.expireAt + 1) * Milli - now) * Rate
  <2>1. key'.expireAt = (now \div Milli) + TTL(Capacity - Left)
    BY <1>4
  <2> QED
    BY <1>1, <1>5, <2>1, ExpiryCovers
<1>7. Last \in 0 .. MaxTime /\ now <= Last /\ (~key.exists \/ key.last <= now => Last = now)
  BY <1>1 DEF Last
<1>8. key'.exists = TRUE /\ key'.shares = Left /\ key'.last = Last
  BY <1>4
<1>9. key' \in Hashes
  BY <1>3, <1>4, <1>6, <1>7 DEF Hashes
<1>10. Refilled' = Left
  <2>1. ~(now' > key'.last)
    BY <1>1, <1>4, <1>7, <1>8
  <2> QED
    BY <1>8, <2>1, RefilledHolds DEF Holds
<1> QED
  BY <1>2, <1>3, <1>4, <1>6, <1>7, <1>8, <1>9, <1>10

\* The two outcomes.
LEMMA ScriptAllows ==
  ASSUME TypeOK, script, HasToken(Refilled)
  PROVE  /\ Left = Spend(Refilled) /\ ages' = Remember(ages, TRUE)
         /\ decision' = [allowed |-> TRUE, remaining |-> Remaining(Left),
                         reset |-> now + CeilDiv(Capacity - Left, Rate), retry |-> 0]
<1>1. HasToken(Refilled) = TRUE
  BY DEF HasToken
<1> QED
  BY <1>1 DEF script, Left

LEMMA ScriptDenies ==
  ASSUME TypeOK, script, ~HasToken(Refilled)
  PROVE  /\ Left = Refilled /\ ages' = ages
         /\ Refilled < Window - Epsilon
         /\ decision' = [allowed |-> FALSE, remaining |-> Remaining(Left),
                         reset |-> now + CeilDiv(Capacity - Left, Rate),
                         retry |-> RetryOf(Left)]
<1>1. HasToken(Refilled) = FALSE
  BY DEF HasToken
<1>2. Refilled \in 0 .. Capacity
  BY ScriptEffect
<1>3. Left = Refilled /\ ages' = ages
  BY <1>1 DEF script, Left, Remember
<1>4. Refilled < Window - Epsilon
  BY <1>2, TokenSize, CapacityHoldsToken DEF HasToken
<1>5. decision' = [allowed |-> FALSE, remaining |-> Remaining(Left),
                   reset |-> now + CeilDiv(Capacity - Left, Rate), retry |-> RetryOf(Left)]
  BY <1>1 DEF script, Left
<1> QED
  BY <1>3, <1>4, <1>5

LEMMA ScriptTypes ==
  ASSUME TypeOK, script
  PROVE  TypeOK'
<1>1. /\ key' \in Hashes /\ now' = now /\ steps' = steps /\ since' = 0
      /\ Left \in 0 .. Capacity /\ Refilled \in 0 .. Capacity
  BY ScriptEffect
<1>2. /\ now \in Nat /\ Capacity - Left \in Nat /\ Remaining(Left) \in 0 .. Burst
      /\ CeilDiv(Capacity - Left, Rate) \in Nat
  <2>1. Capacity - Left \in Nat
    BY <1>1, CapacityHoldsToken
  <2> QED
    BY <1>1, <2>1, CeilLeast, RemainingBounds, TokenSize DEF TypeOK
<1>3. CASE HasToken(Refilled)
  <2>1. decision' \in Decisions /\ ages' \in Ages
    <3>1. ages' = Remember(ages, TRUE) /\ Remember(ages, TRUE) \in Ages
      BY <1>3, ScriptAllows, AgesFacts DEF TypeOK
    <3>2. decision' = [allowed |-> TRUE, remaining |-> Remaining(Left),
                       reset |-> now + CeilDiv(Capacity - Left, Rate), retry |-> 0]
      BY <1>3, ScriptAllows
    <3>3. decision' \in Decisions
      BY <1>2, <3>2 DEF Decisions
    <3> QED
      BY <3>1, <3>3
  <2> QED
    BY <1>1, <2>1, TokenSize DEF TypeOK
<1>4. CASE ~HasToken(Refilled)
  <2>1. Window - Left \in Nat
    BY <1>1, <1>4, ScriptDenies, TokenSize, CapacityHoldsToken
  <2>2. RetryOf(Left) \in Nat
    BY <2>1, CeilLeast, TokenSize DEF RetryOf
  <2>3. decision' \in Decisions /\ ages' \in Ages
    <3>1. ages' = ages
      BY <1>4, ScriptDenies
    <3>2. decision' = [allowed |-> FALSE, remaining |-> Remaining(Left),
                       reset |-> now + CeilDiv(Capacity - Left, Rate), retry |-> RetryOf(Left)]
      BY <1>4, ScriptDenies
    <3> QED
      BY <1>2, <2>2, <3>1, <3>2 DEF TypeOK, Decisions
  <2> QED
    BY <1>1, <2>3, TokenSize DEF TypeOK
<1> QED
  BY <1>3, <1>4

-------------------------------------------------------------------------------
(* The invariant of the redis script. *)

\* Conforms, as a condition on the number of admissions and the time they took.
Pays(n, d) == n * Window <= Capacity + d * Rate + n * Epsilon

LEMMA ConformsPays ==
  Conforms <=> \A i, j \in Remembered :
                 i <= j /\ ages[j] < Horizon => Pays(j - i + 1, ages[j] - ages[i])
BY DEF Conforms, Quota!Conforms, Quota!Remembered, Remembered, Quota!Capacity, Capacity, Pays

LEMMA ConformsPaysNext ==
  Conforms' <=> \A i, j \in Remembered :
                  i <= j /\ ages'[j] < Horizon => Pays(j - i + 1, ages'[j] - ages'[i])
BY DEF Conforms, Quota!Conforms, Quota!Remembered, Remembered, Quota!Capacity, Capacity, Pays

\* From the bucket's level to the admissions up to now.
LEMMA PaidPays ==
  ASSUME NEW j \in Nat, NEW a \in Nat, NEW r \in Nat,
         j * (Window - Epsilon) + r <= Capacity + a * Rate
  PROVE  Pays(j, a)
<1>1. /\ j * (Window - Epsilon) = j * Window - j * Epsilon
      /\ j * Window \in Int /\ j * Epsilon \in Int /\ a * Rate \in Int
  BY TokenSize
<1> QED
  BY <1>1, CapacityHoldsToken DEF Pays

LEMMA SortedScript ==
  ASSUME BucketInv, script
  PROVE  AgesSorted' /\ AdmissionsPaid' /\ Conforms'
<1>1. TypeOK /\ ages \in Ages /\ AgesSorted /\ AdmissionsPaid /\ Conforms
  BY DEF BucketInv, TypeOK
<1>2. Refilled \in 0 .. Capacity /\ Refilled' = Left
  BY <1>1, ScriptEffect
<1>3. CASE ~HasToken(Refilled)
  <2>1. ages' = ages /\ Refilled' = Refilled
    BY <1>1, <1>2, <1>3, ScriptDenies
  <2> QED
    BY <1>1, <2>1, ConformsPays, ConformsPaysNext DEF AgesSorted, AdmissionsPaid
<1>4. CASE HasToken(Refilled)
  <2>1. /\ ages' = Remember(ages, TRUE) /\ Refilled' = Spend(Refilled)
        /\ (Window - Epsilon) + Spend(Refilled) <= Refilled
        /\ Spend(Refilled) \in Nat /\ Refilled \in Nat /\ Refilled <= Capacity
    BY <1>1, <1>2, <1>4, ScriptAllows, SpendPays, CapacityHoldsToken
  <2>2. \A i \in Remembered :
          /\ ages[i] \in 0 .. Horizon /\ i \in Nat /\ 1 <= i
          /\ ages'[i] = IF i = 1 THEN 0 ELSE ages[i - 1]
          /\ i # 1 => i - 1 \in Remembered
    BY <1>1, <2>1, AgesFacts
  <2>3. AgesSorted'
    BY <1>1, <2>2, TokenSize DEF AgesSorted
  <2>4. ASSUME NEW j \in Remembered, ages'[j] < Horizon
        PROVE  j * (Window - Epsilon) + Refilled' <= Capacity + ages'[j] * Rate
    <3>1. CASE j = 1
      <4>1. j * (Window - Epsilon) = Window - Epsilon /\ ages'[j] * Rate = 0
        BY <2>2, <3>1, TokenSize
      <4> QED
        <5> DEFINE p == j * (Window - Epsilon)
                   q == ages'[j] * Rate
        <5>1. p = Window - Epsilon /\ q = 0
          BY <4>1
        <5> HIDE DEF p, q
        <5>2. p + Spend(Refilled) <= Capacity + q
          BY <2>1, <5>1, TokenSize, CapacityHoldsToken
        <5> QED
          BY <2>1, <5>2 DEF p, q
    <3>2. CASE j # 1
      <4> DEFINE k == j - 1
                 a == ages[k]
                 w == Window - Epsilon
      <4>1. k \in Remembered /\ k \in Nat /\ a \in Nat /\ ages'[j] = a /\ j = k + 1
        BY <2>2, <3>2, TokenSize
      <4>2. k * w + Refilled <= Capacity + a * Rate
        BY <1>1, <2>4, <4>1 DEF AdmissionsPaid
      <4>3. w \in Nat
        BY TokenSize
      <4> HIDE DEF k, a, w
      <4>4. (k + 1) * w = k * w + w /\ k * w \in Int /\ a * Rate \in Int
        BY <4>1, <4>3, TokenSize
      <4>5. w + Spend(Refilled) <= Refilled
        BY <2>1 DEF w
      <4>6. (k + 1) * w + Spend(Refilled) <= Capacity + a * Rate
        BY <2>1, <4>2, <4>3, <4>4, <4>5, CapacityHoldsToken
      <4>7. j * (Window - Epsilon) = (k + 1) * w
        BY <4>1 DEF w
      <4> QED
        BY <2>1, <4>1, <4>6, <4>7
    <3> QED
      BY <3>1, <3>2
  <2>5. AdmissionsPaid'
    BY <2>4 DEF AdmissionsPaid
  <2>6. ASSUME NEW i \in Remembered, NEW j \in Remembered, i <= j, ages'[j] < Horizon
        PROVE  Pays(j - i + 1, ages'[j] - ages'[i])
    <3>1. CASE i = 1
      <4>1. j - i + 1 = j /\ ages'[i] = 0 /\ ages'[j] \in Nat /\ ages'[j] - ages'[i] = ages'[j]
        BY <2>2, <3>1, TokenSize
      <4>2. Pays(j, ages'[j])
        BY <2>1, <2>2, <2>4, <2>6, <4>1, PaidPays
      <4> QED
        BY <4>1, <4>2
    <3>2. CASE i # 1
      <4>1. /\ i - 1 \in Remembered /\ j - 1 \in Remembered /\ i - 1 <= j - 1
            /\ ages'[j] = ages[j - 1] /\ ages'[i] = ages[i - 1]
            /\ (j - 1) - (i - 1) + 1 = j - i + 1
        BY <2>2, <2>6, <3>2
      <4> QED
        BY <1>1, <2>6, <4>1, ConformsPays
    <3> QED
      BY <3>1, <3>2
  <2> QED
    BY <2>3, <2>5, <2>6, ConformsPaysNext
<1> QED
  BY <1>3, <1>4

\* How long redis keeps the key k from time t on for sure.
KeptFor(k, t) == IF t < (k.expireAt + 1) * Milli THEN (k.expireAt + 1) * Milli - t ELSE 0

LEMMA KeptForUntilExpiry ==
  UntilExpiry = KeptFor(key, now) /\ UntilExpiry' = KeptFor(key', now')
BY DEF UntilExpiry, KeptFor

LEMMA KeptForFacts ==
  ASSUME NEW k \in Hashes, NEW t \in Nat
  PROVE  /\ KeptFor(k, t) \in Nat
         /\ KeptFor(k, t) <= KeptFor(k, t + 1) + 1
         /\ \A u \in Nat : u <= t => KeptFor(k, t) <= KeptFor(k, u)
<1> DEFINE gone == (k.expireAt + 1) * Milli
<1>1. gone \in Nat
  BY TokenSize DEF Hashes
<1> HIDE DEF gone
<1>2. \A u : KeptFor(k, u) = IF u < gone THEN gone - u ELSE 0
  BY DEF KeptFor, gone
<1> QED
  BY <1>1, <1>2

LEMMA ExpiryScript ==
  ASSUME BucketInv, script
  PROVE  ExpiryPaid' /\ ExpiresFull' /\ DenialCurrent'
<1>1. TypeOK /\ AdmissionsPaid'
  BY SortedScript DEF BucketInv
<1>2. /\ key' \in Hashes /\ key'.exists = TRUE /\ key'.shares = Left /\ key'.last = Last
      /\ now < (key'.expireAt + 1) * Milli
      /\ Capacity - Left <= ((key'.expireAt + 1) * Milli - now) * Rate
      /\ Refilled' = Left /\ Left \in 0 .. Capacity /\ Refilled \in 0 .. Capacity
      /\ now' = now /\ steps' = steps /\ since' = 0
      /\ (~key.exists \/ key.last <= now => Last = now)
  BY <1>1, ScriptEffect
<1>3. now \in Nat /\ ages' \in Ages
  BY <1>1, ScriptTypes, TokenSize DEF TypeOK
<1>4. ExpiryPaid'
  <2> SUFFICES ASSUME NEW j \in Remembered, ages'[j] < Horizon
               PROVE  j * (Window - Epsilon) <= (ages'[j] + UntilExpiry') * Rate
    BY DEF ExpiryPaid
  <2> DEFINE u == UntilExpiry'
             a == ages'[j]
             p == j * (Window - Epsilon)
  <2>1. u = (key'.expireAt + 1) * Milli - now /\ u \in Nat
    <3>1. u = (key'.expireAt + 1) * Milli - now
      BY <1>2, KeptForUntilExpiry DEF KeptFor
    <3>2. u \in Nat
      BY <1>2, <1>3, KeptForUntilExpiry, KeptForFacts
    <3> QED
      BY <3>1, <3>2
  <2>2. a \in Nat /\ j \in Nat /\ p \in Int
    <3>1. a \in 0 .. Horizon /\ j \in Nat
      BY <1>3, AgesFacts
    <3> QED
      BY <3>1, TokenSize
  <2>3. p + Left <= Capacity + a * Rate
    BY <1>1, <1>2 DEF AdmissionsPaid
  <2>4. Capacity - Left <= u * Rate
    BY <1>2, <2>1
  <2> HIDE DEF u, a, p
  <2>5. (a + u) * Rate = a * Rate + u * Rate /\ a * Rate \in Int /\ u * Rate \in Int
    BY <2>1, <2>2, TokenSize
  <2>6. p <= (a + u) * Rate
    BY <1>2, <2>2, <2>3, <2>4, <2>5, CapacityHoldsToken
  <2> QED
    BY <2>6 DEF p, a, u
<1>5. ExpiresFull'
  <2> SUFFICES ASSUME steps = 0
               PROVE  /\ key'.last <= now
                      /\ Capacity <= key'.shares + ((key'.expireAt + 1) * Milli - key'.last) * Rate
    BY <1>2 DEF ExpiresFull
  <2>1. key'.last = now
    BY <1>2 DEF BucketInv, ExpiresFull
  <2> DEFINE p == ((key'.expireAt + 1) * Milli - now) * Rate
  <2>2. p \in Int
    BY <1>2, <1>3, TokenSize DEF Hashes
  <2>3. Capacity - Left <= p
    BY <1>2
  <2> HIDE DEF p
  <2>4. Capacity <= Left + p
    BY <1>2, <2>2, <2>3, CapacityHoldsToken
  <2> QED
    BY <1>2, <1>3, <2>1, <2>4 DEF p
<1>6. DenialCurrent'
  <2> SUFFICES ASSUME steps = 0, ~decision'.allowed
               PROVE  /\ key'.shares < Window
                      /\ now' = key'.last + since'
                      /\ decision'.retry = RetryOf(key'.shares)
    BY <1>2 DEF DenialCurrent
  <2>1. key'.last = now
    BY <1>2 DEF BucketInv, ExpiresFull
  <2>2. ~HasToken(Refilled)
    <3>1. HasToken(Refilled) => decision'.allowed = TRUE
      BY <1>1, ScriptAllows
    <3> QED
      BY <3>1
  <2>3. /\ Left = Refilled /\ Refilled < Window - Epsilon /\ decision'.retry = RetryOf(Left)
    BY <1>1, <2>2, ScriptDenies
  <2>4. Left < Window
    BY <1>2, <2>3, TokenSize, CapacityHoldsToken
  <2> QED
    BY <1>2, <1>3, <2>1, <2>3, <2>4
<1> QED
  BY <1>4, <1>5, <1>6

LEMMA ExpireKeeps ==
  ASSUME BucketInv, Expire
  PROVE  BucketInv' /\ (steps = 0 => Refilled' = Refilled)
<1>1. /\ TypeOK /\ key \in Hashes /\ key.exists /\ now \in Nat /\ ages \in Ages
      /\ key' = Absent /\ UNCHANGED <<now, decision, since, ages, steps>>
      /\ now \div Milli > key.expireAt /\ key.expireAt \in Nat
      /\ key.shares \in 0 .. Capacity /\ key.last \in Nat /\ since \in Nat
  BY TokenSize DEF BucketInv, TypeOK, Expire, Hashes
<1>2. Refilled' = Capacity /\ Refilled \in 0 .. Capacity
  BY <1>1, RefilledHolds, HoldsFacts DEF Holds, Absent
<1>3. (key.expireAt + 1) * Milli <= now
  <2> DEFINE q == now \div Milli
  <2>1. q \in Nat /\ Milli * q <= now /\ key.expireAt + 1 <= q
    BY <1>1, DivMod, TokenSize
  <2> HIDE DEF q
  <2>2. (key.expireAt + 1) * Milli <= q * Milli /\ q * Milli = Milli * q
    BY <1>1, <2>1, TimesMonotone, TokenSize
  <2>3. (key.expireAt + 1) * Milli \in Int /\ Milli * q \in Int
    BY <1>1, <2>1, TokenSize
  <2> QED
    BY <1>1, <2>1, <2>2, <2>3
<1>4. UntilExpiry = 0
  <2>1. (key.expireAt + 1) * Milli \in Int
    BY <1>1, TokenSize
  <2> QED
    BY <1>1, <1>3, <2>1 DEF UntilExpiry
<1>5. TypeOK'
  BY <1>1, CapacityHoldsToken, TokenSize DEF TypeOK, Absent, Hashes
<1>6. AdmissionsPaid'
  <2> SUFFICES ASSUME NEW j \in Remembered, ages[j] < Horizon
               PROVE  j * (Window - Epsilon) + Capacity <= Capacity + ages[j] * Rate
    BY <1>1, <1>2 DEF AdmissionsPaid
  <2>1. ages[j] \in 0 .. Horizon /\ j \in Nat
    BY <1>1, AgesFacts
  <2>2. ages[j] + UntilExpiry = ages[j]
    BY <1>4, <2>1
  <2>3. j * (Window - Epsilon) <= ages[j] * Rate
    BY <1>1, <2>2 DEF BucketInv, ExpiryPaid
  <2>4. j * (Window - Epsilon) \in Int /\ ages[j] * Rate \in Int
    BY <2>1, TokenSize
  <2> QED
    BY <2>3, <2>4, CapacityHoldsToken
\* Until the clock is set back the bucket was full already.
<1>7. ASSUME steps = 0
      PROVE  /\ key.last <= now /\ now - key.last \in Nat
             /\ Capacity <= key.shares + (now - key.last) * Rate
  <2> DEFINE gone == (key.expireAt + 1) * Milli
  <2>1. key.last <= now /\ Capacity <= key.shares + (gone - key.last) * Rate /\ gone \in Int
    BY <1>1, <1>7, TokenSize DEF BucketInv, ExpiresFull
  <2> HIDE DEF gone
  <2>2. gone <= now
    BY <1>3 DEF gone
  <2>3. (gone - key.last) * Rate <= (now - key.last) * Rate
    BY <1>1, <2>1, <2>2, TimesMonotone, TokenSize
  <2>4. (gone - key.last) * Rate \in Int /\ (now - key.last) * Rate \in Int
    BY <1>1, <2>1, TokenSize
  <2> QED
    BY <1>1, <2>1, <2>3, <2>4, CapacityHoldsToken
<1>8. steps = 0 => Refilled' = Refilled
  <2> SUFFICES ASSUME steps = 0
               PROVE  Refilled = Capacity
    BY <1>2
  <2>1. Refilled = Refill(key.shares, now - key.last)
    BY <1>1, <1>7, RefilledHolds, HoldsFacts
  <2>2. (now - key.last) * Rate \in Int
    BY <1>7, TokenSize
  <2> QED
    BY <1>1, <1>7, <2>1, <2>2, CapacityHoldsToken DEF Refill
<1>9. DenialCurrent'
  <2> SUFFICES ASSUME steps = 0, ~decision.allowed, since < Horizon
               PROVE  since >= decision.retry
    BY <1>1 DEF DenialCurrent, Absent
  <2>1. /\ key.shares < Window /\ now = key.last + since /\ decision.retry = RetryOf(key.shares)
    BY <1>1 DEF BucketInv, DenialCurrent
  <2>2. now - key.last = since
    BY <1>1, <2>1
  <2>3. Capacity <= key.shares + since * Rate /\ since * Rate \in Int
    BY <1>1, <1>7, <2>2, TokenSize
  <2>4. Window - key.shares \in Nat /\ Window - key.shares <= since * Rate
    BY <1>1, <2>1, <2>3, CapacityHoldsToken, TokenSize
  <2>5. CeilDiv(Window - key.shares, Rate) <= since
    BY <1>1, <2>4, CeilLeast, TokenSize
  <2>6. CeilDiv(Window - key.shares, Rate) \in Nat
    BY <2>4, CeilLeast, TokenSize
  <2> QED
    BY <1>1, <2>1, <2>5, <2>6 DEF RetryOf
<1>10. AgesSorted' /\ ExpiryPaid' /\ ExpiresFull'
  BY <1>1 DEF BucketInv, AgesSorted, ExpiryPaid, ExpiresFull, Absent
<1>11. Conforms'
  BY <1>1, ConformsPays, ConformsPaysNext DEF BucketInv
<1> QED
  BY <1>5, <1>6, <1>8, <1>9, <1>10, <1>11 DEF BucketInv

LEMMA TickKeeps ==
  ASSUME BucketInv, Tick
  PROVE  BucketInv' /\ (steps = 0 => Refilled' = Refill(Refilled, 1))
<1>1. /\ TypeOK /\ key \in Hashes /\ now \in Nat /\ ages \in Ages
      /\ now' = now + 1 /\ now' \in 0 .. MaxTime /\ since' = Older(since)
      /\ ages' = GrowOlder(ages) /\ UNCHANGED <<key, decision, steps>>
      /\ since \in 0 .. Horizon
  BY TokenSize DEF BucketInv, TypeOK, Tick
<1>2. /\ Refilled = Holds(key, now) /\ Refilled' = Holds(key, now + 1)
      /\ Refilled \in 0 .. Capacity /\ Refilled' \in 0 .. Capacity
      /\ Refilled' <= Refilled + Rate
  BY <1>1, RefilledHolds, HoldsFacts
<1>3. \A i \in Remembered :
        /\ ages[i] \in 0 .. Horizon /\ ages'[i] \in 0 .. Horizon /\ i \in Nat
        /\ ages'[i] < Horizon => ages[i] < Horizon /\ ages'[i] = ages[i] + 1
        /\ ages'[i] = Older(ages[i])
  BY <1>1, AgesFacts
<1>4. TypeOK'
  <2>1. ages' \in Ages
    BY <1>1, AgesFacts
  <2> QED
    BY <1>1, <2>1, TokenSize DEF TypeOK, Older
<1>5. AgesSorted'
  BY <1>3, TokenSize DEF BucketInv, AgesSorted, Older
<1>6. AdmissionsPaid'
  <2> SUFFICES ASSUME NEW j \in Remembered, ages'[j] < Horizon
               PROVE  j * (Window - Epsilon) + Refilled' <= Capacity + ages'[j] * Rate
    BY DEF AdmissionsPaid
  <2> DEFINE a == ages[j]
             p == j * (Window - Epsilon)
  <2>1. a \in Nat /\ a < Horizon /\ ages'[j] = a + 1 /\ p \in Int
    BY <1>3, TokenSize
  <2>2. p + Refilled <= Capacity + a * Rate
    BY <2>1 DEF BucketInv, AdmissionsPaid
  <2> HIDE DEF a, p
  <2>3. (a + 1) * Rate = a * Rate + Rate /\ a * Rate \in Int
    BY <2>1, TokenSize
  <2>4. p + Refilled' <= Capacity + (a + 1) * Rate
    BY <1>2, <2>1, <2>2, <2>3, CapacityHoldsToken, TokenSize
  <2> QED
    BY <2>1, <2>4 DEF p
<1>7. Conforms'
  <2> SUFFICES ASSUME NEW i \in Remembered, NEW j \in Remembered, i <= j, ages'[j] < Horizon
               PROVE  Pays(j - i + 1, ages'[j] - ages'[i])
    BY ConformsPaysNext
  <2>1. ages[i] <= ages[j] /\ ages[j] < Horizon /\ ages'[j] = ages[j] + 1
    BY <1>3 DEF BucketInv, AgesSorted
  <2>2. ages'[i] = ages[i] + 1 /\ ages'[j] - ages'[i] = ages[j] - ages[i]
    BY <1>3, <2>1, TokenSize DEF Older
  <2> QED
    BY <2>1, <2>2, ConformsPays DEF BucketInv
<1>8. ExpiryPaid'
  <2> SUFFICES ASSUME key.exists, NEW j \in Remembered, ages'[j] < Horizon
               PROVE  j * (Window - Epsilon) <= (ages'[j] + UntilExpiry') * Rate
    BY <1>1 DEF ExpiryPaid
  <2> DEFINE b == ages[j] + UntilExpiry
             c == ages'[j] + UntilExpiry'
             p == j * (Window - Epsilon)
  <2>1. /\ UntilExpiry \in Nat /\ UntilExpiry' \in Nat /\ UntilExpiry <= UntilExpiry' + 1
    BY <1>1, KeptForUntilExpiry, KeptForFacts
  <2>2. ages[j] \in Nat /\ ages[j] < Horizon /\ ages'[j] = ages[j] + 1 /\ p \in Int
    BY <1>3, TokenSize
  <2>3. b \in Int /\ c \in Int /\ b <= c
    <3> DEFINE u == UntilExpiry
               v == UntilExpiry'
    <3>1. u \in Nat /\ v \in Nat /\ u <= v + 1
      BY <2>1
    <3>2. b = ages[j] + u /\ c = ages[j] + 1 + v
      BY <2>2
    <3> HIDE DEF u, v, b, c
    <3> QED
      BY <2>2, <3>1, <3>2
  <2>4. p <= b * Rate
    BY <2>2 DEF BucketInv, ExpiryPaid
  <2> HIDE DEF b, c, p
  <2>5. b * Rate <= c * Rate /\ b * Rate \in Int /\ c * Rate \in Int
    BY <2>3, TimesMonotone, TokenSize
  <2>6. p <= c * Rate
    BY <2>2, <2>4, <2>5
  <2> QED
    BY <2>6 DEF p, c
<1>9. ExpiresFull'
  BY <1>1, TokenSize DEF BucketInv, ExpiresFull, Hashes
<1>10. DenialCurrent'
  BY <1>1, TokenSize DEF BucketInv, DenialCurrent, Older, TypeOK, Decisions, Hashes
<1>11. steps = 0 => Refilled' = Refill(Refilled, 1)
  BY <1>1, <1>2, HoldsFacts DEF BucketInv, ExpiresFull
<1> QED
  BY <1>4, <1>5, <1>6, <1>7, <1>8, <1>9, <1>10, <1>11 DEF BucketInv

LEMMA StepBackKeeps ==
  ASSUME BucketInv, StepBack
  PROVE  BucketInv' /\ steps' # 0
<1>1. /\ TypeOK /\ key \in Hashes /\ now \in Nat /\ ages \in Ages
      /\ now' \in Nat /\ now' <= now /\ now' \in 0 .. MaxTime
      /\ steps' \in 0 .. MaxSteps /\ steps' # 0 /\ UNCHANGED <<key, decision, since, ages>>
  BY TokenSize DEF BucketInv, TypeOK, StepBack
<1>2. Refilled \in 0 .. Capacity /\ Refilled' \in 0 .. Capacity /\ Refilled' <= Refilled
  BY <1>1, RefilledHolds, HoldsFacts, HoldsMonotone
<1>3. TypeOK'
  BY <1>1 DEF TypeOK
<1>4. AdmissionsPaid'
  <2> SUFFICES ASSUME NEW j \in Remembered, ages[j] < Horizon
               PROVE  j * (Window - Epsilon) + Refilled' <= Capacity + ages[j] * Rate
    BY <1>1 DEF AdmissionsPaid
  <2>1. ages[j] \in 0 .. Horizon /\ j \in Nat
    BY <1>1, AgesFacts
  <2>2. j * (Window - Epsilon) \in Int /\ ages[j] * Rate \in Int
    BY <2>1, TokenSize
  <2>3. j * (Window - Epsilon) + Refilled <= Capacity + ages[j] * Rate
    BY DEF BucketInv, AdmissionsPaid
  <2> QED
    BY <1>2, <2>2, <2>3, CapacityHoldsToken
<1>5. ExpiryPaid'
  <2> SUFFICES ASSUME key.exists, NEW j \in Remembered, ages[j] < Horizon
               PROVE  j * (Window - Epsilon) <= (ages[j] + UntilExpiry') * Rate
    BY <1>1 DEF ExpiryPaid
  <2> DEFINE b == ages[j] + UntilExpiry
             c == ages[j] + UntilExpiry'
             p == j * (Window - Epsilon)
  <2>1. UntilExpiry \in Nat /\ UntilExpiry' \in Nat /\ UntilExpiry <= UntilExpiry'
    BY <1>1, KeptForUntilExpiry, KeptForFacts
  <2>2. ages[j] \in 0 .. Horizon /\ j \in Nat
    BY <1>1, AgesFacts
  <2>3. b \in Int /\ c \in Int /\ b <= c /\ p \in Int
    BY <2>1, <2>2, TokenSize
  <2>4. p <= b * Rate
    BY DEF BucketInv, ExpiryPaid
  <2> HIDE DEF b, c, p
  <2>5. b * Rate <= c * Rate /\ b * Rate \in Int /\ c * Rate \in Int
    BY <2>3, TimesMonotone, TokenSize
  <2>6. p <= c * Rate
    BY <2>3, <2>4, <2>5
  <2> QED
    BY <2>6 DEF p, c
<1>6. AgesSorted' /\ ExpiresFull' /\ DenialCurrent'
  BY <1>1 DEF BucketInv, AgesSorted, ExpiresFull, DenialCurrent
<1>7. Conforms'
  BY <1>1, ConformsPays, ConformsPaysNext DEF BucketInv
<1> QED
  BY <1>1, <1>3, <1>4, <1>5, <1>6, <1>7 DEF BucketInv

LEMMA BucketInit == Init => BucketInv
<1> SUFFICES ASSUME Init
             PROVE  BucketInv
  OBVIOUS
<1>1. /\ key = Absent /\ now \in Nat /\ ages = NoAdmissions /\ decision = NoDecision
      /\ decision.allowed = TRUE /\ key.exists = FALSE
  BY TokenSize DEF Init, Absent, NoDecision
<1>2. \A i \in Remembered : ages[i] = Horizon /\ ~(ages[i] < Horizon)
  BY <1>1, TokenSize DEF NoAdmissions
<1>3. TypeOK
  <2>1. key \in Hashes
    BY <1>1, CapacityHoldsToken, TokenSize DEF Absent, Hashes
  <2>2. decision \in Decisions /\ ages \in Ages
    BY <1>1, TokenSize DEF NoDecision, Decisions, NoAdmissions, Ages
  <2> QED
    BY <2>1, <2>2, TokenSize DEF Init, TypeOK
<1>4. AgesSorted /\ AdmissionsPaid /\ ExpiryPaid
  BY <1>1, <1>2, TokenSize DEF AgesSorted, AdmissionsPaid, ExpiryPaid
<1>5. Conforms
  BY <1>2, ConformsPays
<1>6. ExpiresFull /\ DenialCurrent
  BY <1>1 DEF ExpiresFull, DenialCurrent
<1> QED
  BY <1>3, <1>4, <1>5, <1>6 DEF BucketInv

LEMMA BucketNext == BucketInv /\ [Next]_vars => BucketInv'
<1> SUFFICES ASSUME BucketInv, [Next]_vars
             PROVE  BucketInv'
  OBVIOUS
<1>1. CASE script
  BY <1>1, ScriptTypes, SortedScript, ExpiryScript DEF BucketInv
<1>2. CASE Expire
  BY <1>2, ExpireKeeps
<1>3. CASE Tick
  BY <1>3, TickKeeps
<1>4. CASE StepBack
  BY <1>4, StepBackKeeps
<1>5. CASE UNCHANGED vars
  <2>1. TypeOK' /\ AgesSorted' /\ ExpiresFull' /\ DenialCurrent'
    BY <1>5 DEF BucketInv, vars, TypeOK, AgesSorted, ExpiresFull, DenialCurrent
  <2>2. AdmissionsPaid' /\ ExpiryPaid'
    <3>1. Refilled' = Refilled /\ UntilExpiry' = UntilExpiry
      BY <1>5 DEF vars, Refilled, UntilExpiry
    <3> QED
      BY <1>5, <3>1 DEF BucketInv, vars, AdmissionsPaid, ExpiryPaid
  <2>3. Conforms'
    BY <1>5, ConformsPays, ConformsPaysNext DEF BucketInv, vars
  <2> QED
    BY <2>1, <2>2, <2>3 DEF BucketInv
<1> QED
  BY <1>1, <1>2, <1>3, <1>4, <1>5 DEF Next

\* The inductive invariant of the redis token_bucket (token_bucket.lua:10-62):
\* whatever the clock has done, what is in the bucket and what it has admitted
\* come from the burst and the refill in real time.
THEOREM BucketInvariant == Spec => []BucketInv
BY BucketInit, BucketNext, PTL DEF Spec

\* Over any stretch of real time the redis token_bucket allows no more than the
\* burst and the refill, but for the epsilon of each request, also when TIME
\* steps backward (token_bucket.lua:25-32) and the key expires.
THEOREM BucketConforms == Spec => []Conforms
<1>1. BucketInv => Conforms
  BY DEF BucketInv
<1> QED
  BY <1>1, BucketInvariant, PTL

LEMMA RetryFromInv == BucketInv => RetryExact
<1> SUFFICES ASSUME BucketInv, steps = 0, ~decision.allowed, since < Horizon
             PROVE  IF since >= decision.retry THEN HasToken(Refilled) ELSE Refilled < Window
  BY DEF RetryExact
<1>1. key \in Hashes /\ now \in Nat /\ since \in Nat /\ decision.retry \in Nat
  BY TokenSize DEF BucketInv, TypeOK, Decisions
<1>2. CASE ~key.exists
  <2>1. since >= decision.retry /\ Refilled = Capacity
    BY <1>2 DEF BucketInv, DenialCurrent, Refilled
  <2>2. HasToken(Capacity)
    BY TokenSize, CapacityHoldsToken DEF HasToken
  <2> QED
    BY <2>1, <2>2
<1>3. CASE key.exists
  <2>1. /\ key.shares < Window /\ now = key.last + since /\ decision.retry = RetryOf(key.shares)
        /\ key.shares \in 0 .. Capacity /\ key.last \in Nat
    BY <1>1, <1>3, TokenSize DEF BucketInv, DenialCurrent, Hashes
  <2>2. key.last <= now /\ now - key.last = since
    BY <1>1, <2>1
  <2>3. Refilled = Refill(key.shares, since)
    BY <1>1, <1>3, <2>2, RefilledHolds, HoldsFacts
  <2>4. Window - key.shares \in Nat
    BY <2>1, TokenSize, CapacityHoldsToken
  <2>5. decision.retry <= since <=> Window - key.shares <= since * Rate
    BY <1>1, <2>1, <2>4, CeilLeast, TokenSize DEF RetryOf
  <2>6. since * Rate \in Int
    BY <1>1, TokenSize
  <2>7. CASE decision.retry <= since
    <3>1. Window <= key.shares + since * Rate
      BY <2>1, <2>4, <2>5, <2>6, <2>7, TokenSize, CapacityHoldsToken
    <3>2. Window <= Refill(key.shares, since) /\ Refill(key.shares, since) \in Int
      BY <2>1, <2>6, <3>1, CapacityHoldsToken, TokenSize DEF Refill
    <3> QED
      BY <1>1, <2>3, <2>7, <3>2, TokenSize DEF HasToken
  <2>8. CASE ~(decision.retry <= since)
    <3>1. key.shares + since * Rate < Window
      BY <2>1, <2>4, <2>5, <2>6, <2>8, TokenSize, CapacityHoldsToken
    <3> QED
      BY <1>1, <2>1, <2>3, <2>6, <2>8, <3>1, CapacityHoldsToken, TokenSize DEF Refill
  <2> QED
    BY <2>7, <2>8
<1> QED
  BY <1>2, <1>3

\* A denied client's RetryAfter, rounded up (token_bucket.lua:60-61), is neither
\* too short nor a tick too long, until the clock is set back and also when the
\* key has expired meanwhile.
THEOREM BucketRetryExact == Spec => []RetryExact
BY RetryFromInv, BucketInvariant, PTL

-------------------------------------------------------------------------------
(* The script implements the quota. *)

LEMMA QuotaOperators ==
  /\ \A s, d : Quota!Refill(s, d) = Refill(s, d)
  /\ \A s : /\ Quota!HasToken(s) = HasToken(s) /\ Quota!Spend(s) = Spend(s)
            /\ Quota!Remaining(s) = Remaining(s)
  /\ \A a, b : Quota!Remember(a, b) = Remember(a, b)
  /\ \A a : Quota!GrowOlder(a) = GrowOlder(a) /\ Quota!Older(a) = Older(a)
  /\ Quota!NoAdmissions = NoAdmissions /\ Quota!Capacity = Capacity
BY DEF Quota!Refill, Refill, Quota!HasToken, HasToken, Quota!Spend, Spend, Quota!Remaining,
       Remaining, Quota!Remember, Remember, Quota!GrowOlder, GrowOlder, Quota!Older, Older,
       Quota!NoAdmissions, NoAdmissions, Quota!Capacity, Capacity, Quota!Remembered, Remembered

LEMMA ScriptRefines ==
  ASSUME BucketInv, script
  PROVE  Quota!Allow \/ Quota!Deny
<1>1. TypeOK
  BY DEF BucketInv
<1>2. /\ Refilled \in 0 .. Capacity /\ Left \in 0 .. Capacity /\ Refilled' = Left
      /\ now' = now /\ since' = 0
  BY <1>1, ScriptEffect
<1>3. CASE HasToken(Refilled)
  <2>1. /\ Left = Spend(Refilled) /\ ages' = Remember(ages, TRUE)
        /\ decision'.allowed = TRUE /\ decision'.remaining = Remaining(Left)
    BY <1>1, <1>3, ScriptAllows
  <2> QED
    BY <1>2, <1>3, <2>1, QuotaOperators DEF Quota!Allow
<1>4. CASE ~HasToken(Refilled)
  <2>1. /\ Left = Refilled /\ ages' = ages /\ Refilled < Window - Epsilon
        /\ decision'.allowed = FALSE /\ decision'.remaining = Remaining(Left)
    BY <1>1, <1>4, ScriptDenies
  <2>2. Remaining(Left) = 0
    BY <1>2, <2>1, RemainingBounds, TokenSize, CapacityHoldsToken
  <2> QED
    BY <1>2, <1>4, <2>1, <2>2, QuotaOperators DEF Quota!Deny
<1> QED
  BY <1>3, <1>4

\* The redis token_bucket, which refills when it is asked and forgets a full
\* bucket (token_bucket.lua:17-57), makes the decisions of a bucket that really
\* refills, until the clock is set back.
THEOREM BucketImplementsQuota == Spec => ImplementsQuota
<1>1. Init => Quota!Init
  BY QuotaOperators DEF Init, Quota!Init, Refilled, Absent, NoDecision
<1>2. BucketInv /\ [Next]_vars => [steps' = 0 => Quota!Next]_(Quota!vars)
  <2> SUFFICES ASSUME BucketInv, [Next]_vars
               PROVE  [steps' = 0 => Quota!Next]_(Quota!vars)
    OBVIOUS
  <2>1. CASE script
    BY <2>1, ScriptRefines DEF Quota!Next
  <2>2. CASE Expire
    <3>1. steps' = steps /\ UNCHANGED <<now, decision, since, ages>>
      BY <2>2 DEF Expire
    <3> QED
      BY <2>2, <3>1, ExpireKeeps DEF Quota!vars
  <2>3. CASE Tick
    <3>1. /\ steps' = steps /\ now < MaxTime /\ now' = now + 1 /\ since' = Older(since)
          /\ ages' = GrowOlder(ages) /\ decision' = decision
      BY <2>3 DEF Tick
    <3>2. steps = 0 => Refilled' = Refill(Refilled, 1)
      BY <2>3, TickKeeps
    <3> QED
      BY <3>1, <3>2, QuotaOperators DEF Quota!Next, Quota!Tick
  <2>4. CASE StepBack
    BY <2>4, StepBackKeeps
  <2>5. CASE UNCHANGED vars
    BY <2>5 DEF vars, Quota!vars, Refilled
  <2> QED
    BY <2>1, <2>2, <2>3, <2>4, <2>5 DEF Next
<1> QED
  BY <1>1, <1>2, BucketInvariant, PTL DEF Spec, ImplementsQuota

-------------------------------------------------------------------------------
(* The two side by side. *)

LEMMA MemOperators ==
  /\ \A s, d : Mem!Refill(s, d) = Refill(s, d)
  /\ \A s : /\ Mem!HasToken(s) = HasToken(s) /\ Mem!Spend(s) = Spend(s)
            /\ Mem!Remaining(s) = Remaining(s)
  /\ \A a, b : Mem!Remember(a, b) = Remember(a, b)
  /\ \A a : Mem!GrowOlder(a) = GrowOlder(a)
  /\ Mem!NoAdmissions = NoAdmissions /\ Mem!Capacity = Capacity /\ Mem!NoDecision = NoDecision
BY DEF Mem!Refill, Refill, Mem!HasToken, HasToken, Mem!Spend, Spend, Mem!Remaining,
       Remaining, Mem!Remember, Remember, Mem!GrowOlder, GrowOlder, Mem!Older, Older,
       Mem!NoAdmissions, NoAdmissions, Mem!Capacity, Capacity, Mem!Remembered, Remembered,
       Mem!NoDecision, NoDecision

\* Until TIME is set back the two clocks agree, and both buckets hold as much.
SameBucket ==
  steps = 0 =>
    /\ mono = now
    /\ shares \in 0 .. Capacity /\ last \in Nat
    /\ ~fresh => last <= mono
    /\ Mem!Refilled = Refilled

BothInv == BucketInv /\ SameBucket /\ SameAnswers

LEMMA BothInitInv == BothInit => BothInv
<1> SUFFICES ASSUME BothInit
             PROVE  BothInv
  OBVIOUS
<1>1. BucketInv
  BY BucketInit DEF BothInit
<1>2. SameBucket
  BY MemOperators, CapacityHoldsToken
     DEF BothInit, Init, Mem!Init, SameBucket, Mem!Refilled, Refilled, Absent
<1>3. SameAnswers
  <2>1. decision = NoDecision /\ memDecision = NoDecision /\ ages = memAges
    BY MemOperators DEF BothInit, Init, Mem!Init
  <2> QED
    BY <2>1 DEF SameAnswers, NoDecision
<1> QED
  BY <1>1, <1>2, <1>3 DEF BothInv

\* Rounding the time until a shortage is refilled, up and down.
LEMMA RoundedTimes ==
  ASSUME NEW short \in Nat
  PROVE  /\ CeilDiv(short, Rate) - Mem!secondsToDuration(short) \in 0 .. 1
         /\ CeilDiv(short, Rate) \in Nat /\ Mem!secondsToDuration(short) \in Nat
<1>1. short \div Rate \in Nat /\ CeilDiv(short, Rate) \in Nat
  BY DivMod, CeilLeast, TokenSize
<1>2. CASE short = 0
  <2>1. CeilDiv(short, Rate) <= 0
    BY <1>2, CeilLeast, TokenSize
  <2> QED
    BY <1>1, <1>2, <2>1 DEF Mem!secondsToDuration
<1>3. CASE short # 0
  <2>1. Mem!secondsToDuration(short) = short \div Rate
    BY <1>3 DEF Mem!secondsToDuration
  <2> QED
    BY <1>1, <2>1, CeilFloor, TokenSize
<1> QED
  BY <1>2, <1>3

LEMMA SameAsk ==
  ASSUME BothInv, Ask, steps = 0
  PROVE  SameBucket' /\ SameAnswers'
<1>1. /\ TypeOK /\ script /\ Mem!step /\ mono = now /\ now \in Nat /\ shares \in 0 .. Capacity
      /\ last \in Nat /\ (~fresh => last <= mono) /\ Mem!Refilled = Refilled /\ ages = memAges
  BY TokenSize DEF BothInv, BucketInv, TypeOK, SameBucket, SameAnswers, Ask
<1>2. /\ Refilled \in 0 .. Capacity /\ Left \in 0 .. Capacity /\ Refilled' = Left
      /\ now' = now /\ steps' = steps
  BY <1>1, ScriptEffect
<1>3. Capacity - Left \in Nat
  BY <1>2, CapacityHoldsToken
<1>4. /\ fresh' = FALSE /\ mono' = mono /\ shares' = Left
      /\ last' = IF fresh \/ mono > last THEN mono ELSE last
  BY <1>1, MemOperators DEF Mem!step, Left
<1>5. SameBucket'
  <2>1. last' \in Nat /\ last' = mono'
    BY <1>1, <1>4
  <2>2. Mem!Refilled' = shares'
    BY <1>1, <1>4, <2>1 DEF Mem!Refilled
  <2> QED
    BY <1>1, <1>2, <1>4, <2>1, <2>2 DEF SameBucket
<1>6. CASE HasToken(Refilled)
  <2>1. /\ decision'.allowed = TRUE /\ decision'.remaining = Remaining(Left)
        /\ decision'.reset = now + CeilDiv(Capacity - Left, Rate) /\ decision'.retry = 0
        /\ ages' = Remember(ages, TRUE)
    BY <1>1, <1>6, ScriptAllows
  <2>2. HasToken(Refilled) = TRUE
    BY <1>6 DEF HasToken
  <2>3. /\ memDecision'.allowed = TRUE /\ memDecision'.remaining = Remaining(Left)
        /\ memDecision'.reset = now + Mem!secondsToDuration(Capacity - Left)
        /\ memDecision'.retry = 0 /\ memAges' = Remember(ages, TRUE)
    BY <1>1, <2>2, MemOperators DEF Mem!step, Left
  <2>4. decision'.reset - memDecision'.reset \in 0 .. 1
    BY <1>1, <1>3, <2>1, <2>3, RoundedTimes
  <2>5. decision'.retry - memDecision'.retry \in 0 .. 1
    BY <2>1, <2>3
  <2>6. ages' = memAges'
    BY <2>1, <2>3
  <2>7. SameAnswers'
    BY <2>1, <2>3, <2>4, <2>5, <2>6 DEF SameAnswers
  <2> QED
    BY <1>5, <2>7
<1>7. CASE ~HasToken(Refilled)
  <2>1. /\ Left = Refilled /\ Refilled < Window - Epsilon
        /\ decision'.allowed = FALSE /\ decision'.remaining = Remaining(Left)
        /\ decision'.reset = now + CeilDiv(Capacity - Left, Rate)
        /\ decision'.retry = CeilDiv(Window - Left, Rate) /\ ages' = ages
    BY <1>1, <1>7, ScriptDenies DEF RetryOf
  <2>2. HasToken(Refilled) = FALSE
    BY <1>7 DEF HasToken
  <2>3. /\ memDecision'.allowed = FALSE /\ memDecision'.remaining = Remaining(Left)
        /\ memDecision'.reset = now + Mem!secondsToDuration(Capacity - Left)
        /\ memDecision'.retry = Mem!secondsToDuration(Window - Left) /\ memAges' = ages
    BY <1>1, <2>2, MemOperators DEF Mem!step, Left, Remember
  <2>4. Window - Left \in Nat
    BY <1>2, <2>1, TokenSize, CapacityHoldsToken
  <2>5. decision'.reset - memDecision'.reset \in 0 .. 1
    BY <1>1, <1>3, <2>1, <2>3, RoundedTimes
  <2>6. decision'.retry - memDecision'.retry \in 0 .. 1
    BY <2>1, <2>3, <2>4, RoundedTimes
  <2> QED
    BY <1>5, <2>1, <2>3, <2>5, <2>6 DEF SameAnswers
<1> QED
  BY <1>6, <1>7

\* Both buckets refill by as much.
LEMMA SameTick ==
  ASSUME BothInv, BothTick, steps = 0
  PROVE  SameBucket' /\ SameAnswers'
<1>1. /\ Tick /\ Mem!Tick /\ mono = now /\ now \in Nat /\ shares \in 0 .. Capacity
      /\ last \in Nat /\ (~fresh => last <= mono) /\ Mem!Refilled = Refilled /\ ages = memAges
      /\ BucketInv
  BY TokenSize DEF BothInv, BucketInv, TypeOK, SameBucket, SameAnswers, BothTick
<1>2. /\ mono' = mono + 1 /\ now' = now + 1 /\ steps' = steps
      /\ UNCHANGED <<fresh, shares, last, decision, memDecision>>
      /\ ages' = GrowOlder(ages) /\ memAges' = GrowOlder(memAges)
  BY <1>1, MemOperators DEF Tick, Mem!Tick
<1>3. Refilled' = Refill(Refilled, 1)
  BY <1>1, TickKeeps
<1>4. Mem!Refilled' = Refill(Mem!Refilled, 1)
  <2>1. CASE fresh
    <3>1. Refill(Capacity, 1) = Capacity
      BY CapacityHoldsToken, RefillFacts
    <3> QED
      BY <1>2, <2>1, <3>1, MemOperators DEF Mem!Refilled
  <2>2. CASE ~fresh
    <3> DEFINE d == mono - last
    <3>1. d \in Nat /\ mono' - last' = d + 1 /\ mono' > last'
      BY <1>1, <1>2, <2>2
    <3>2. Refill(shares, 0) = shares
      BY <1>1, <3>1, RefillFacts
    <3>3. Mem!Refilled = Refill(shares, d)
      BY <1>1, <2>2, <3>2, MemOperators DEF Mem!Refilled
    <3>4. Mem!Refilled' = Refill(shares, d + 1)
      BY <1>1, <1>2, <2>2, <3>1, MemOperators DEF Mem!Refilled
    <3> HIDE DEF d
    <3>5. Refill(shares, d + 1) = Refill(Refill(shares, d), 1)
      BY <1>1, <3>1, RefillFacts
    <3> QED
      BY <3>3, <3>4, <3>5
  <2> QED
    BY <2>1, <2>2
<1>5. SameBucket'
  BY <1>1, <1>2, <1>3, <1>4 DEF SameBucket
<1>6. SameAnswers'
  BY <1>1, <1>2 DEF SameAnswers, BothInv
<1> QED
  BY <1>5, <1>6

LEMMA BothNextInv == BothInv /\ [BothNext]_<<vars, memVars>> => BothInv'
<1> SUFFICES ASSUME BothInv, [BothNext]_<<vars, memVars>>
             PROVE  BothInv'
  OBVIOUS
<1>1. BucketInv'
  BY BucketNext
     DEF BothInv, BothNext, Ask, BothTick, RedisStepsBack, RedisExpires, Next, vars
<1>2. CASE Ask
  <2>1. steps' = steps
    BY <1>2 DEF Ask, script
  <2> QED
    BY <1>1, <1>2, <2>1, SameAsk DEF BothInv, SameBucket, SameAnswers
<1>3. CASE BothTick
  <2>1. steps' = steps
    BY <1>3 DEF BothTick, Tick
  <2> QED
    BY <1>1, <1>3, <2>1, SameTick DEF BothInv, SameBucket, SameAnswers
<1>4. CASE RedisStepsBack
  <2>1. steps' # 0
    BY <1>4, StepBackKeeps DEF BothInv, RedisStepsBack
  <2> QED
    BY <1>1, <2>1 DEF BothInv, SameBucket, SameAnswers
<1>5. CASE RedisExpires
  <2>1. /\ steps' = steps /\ UNCHANGED <<now, decision, ages>> /\ UNCHANGED memVars
        /\ (steps = 0 => Refilled' = Refilled)
    BY <1>5, ExpireKeeps DEF BothInv, RedisExpires, Expire
  <2>2. Mem!Refilled' = Mem!Refilled
    BY <2>1 DEF memVars, Mem!Refilled
  <2> QED
    BY <1>1, <2>1, <2>2 DEF BothInv, SameBucket, SameAnswers, memVars
<1>6. CASE UNCHANGED <<vars, memVars>>
  <2>1. Mem!Refilled' = Mem!Refilled /\ Refilled' = Refilled
    BY <1>6 DEF vars, memVars, Mem!Refilled, Refilled
  <2> QED
    BY <1>1, <1>6, <2>1 DEF BothInv, SameBucket, SameAnswers, vars, memVars
<1> QED
  BY <1>2, <1>3, <1>4, <1>5, <1>6 DEF BothNext

\* The redis script and the in-memory bucket (token_bucket.lua:10-62,
\* token_bucket.go:25-73), asked the same requests, give the same verdicts and
\* Remaining, and times that rounding alone tells apart, until TIME is set back.
THEOREM TokenBackendsAgree == BothSpec => []SameAnswers
<1>1. BothInv => SameAnswers
  BY DEF BothInv
<1> QED
  BY <1>1, BothInitInv, BothNextInv, PTL DEF BothSpec
================================================================================
