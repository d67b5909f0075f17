---------------------------- MODULE FixedQuotaProofs ----------------------------
(***************************************************************************)
(* The promises of FixedQuota hold for every rate and window.  QuotaInv is *)
(* inductive: an admission shifts the record by one place and counts one   *)
(* more; when the window ends the count drops to zero, and every admission *)
(* in the record beyond the first Rate is then a whole window old.         *)
(***************************************************************************)
EXTENDS FixedQuota, TLAPS

(* The window grid and the record of admissions. *)

\* Remainders are unique.
LEMMA ModUnique ==
  ASSUME NEW W \in Nat \ {0}, NEW q \in Int, NEW r \in 0 .. W - 1,
         NEW x \in Int, x = W * q + r
  PROVE  x % W = r
OBVIOUS

LEMMA DivMod ==
  ASSUME NEW W \in Nat \ {0}, NEW t \in Nat
  PROVE  /\ t % W \in 0 .. W - 1
         /\ t \div W \in Nat
         /\ t = W * (t \div W) + (t % W)
OBVIOUS

\* A time lies in its window.
LEMMA GridBounds ==
  ASSUME NEW t \in Nat
  PROVE  /\ Grid(t) \in Int
         /\ -Anchor <= Grid(t)
         /\ Grid(t) <= t
         /\ t < Grid(t) + Window
<1> DEFINE s == t + Anchor
<1>1. s \in Nat /\ Grid(t) = t - (s % Window)
  BY WindowAssumption DEF Grid
<1>2. s % Window \in 0 .. Window - 1 /\ s % Window <= s
  <2> HIDE DEF s
  <2>1. s % Window \in 0 .. Window - 1 /\ s \div Window \in Nat /\ s = Window * (s \div Window) + (s % Window)
    BY <1>1, DivMod, WindowAssumption
  <2>2. Window * (s \div Window) \in Nat
    BY <2>1, WindowAssumption
  <2> QED
    BY <1>1, <2>1, <2>2, WindowAssumption
<1> QED
  BY <1>1, <1>2, WindowAssumption

\* The next tick is in the same window or at the start of the next one.
LEMMA GridNext ==
  ASSUME NEW t \in Nat
  PROVE  \/ Grid(t + 1) = Grid(t)
         \/ Grid(t + 1) = Grid(t) + Window /\ Grid(t + 1) = t + 1
<1> DEFINE s == t + Anchor
           q == s \div Window
           r == s % Window
<1>s. s \in Nat /\ Grid(t) = t - r /\ Grid(t + 1) = t + 1 - ((s + 1) % Window)
  <2>1. t + 1 + Anchor = s + 1
    BY WindowAssumption
  <2> QED
    BY <2>1, WindowAssumption DEF Grid
<1>1. r \in 0 .. Window - 1 /\ q \in Int /\ s = Window * q + r
  <2> HIDE DEF s
  <2> QED
    BY <1>s, DivMod, WindowAssumption
<1> HIDE DEF s
<1>2. CASE r + 1 < Window
  <2>1. s + 1 = Window * q + (r + 1)
    BY <1>1, WindowAssumption
  <2>2. r + 1 \in 0 .. Window - 1
    BY <1>1, <1>2, WindowAssumption
  <2>3. (s + 1) % Window = r + 1
    <3> HIDE DEF q, r
    <3> QED
      BY <1>s, <1>1, <2>1, <2>2, ModUnique, WindowAssumption
  <2> QED
    BY <1>s, <1>1, <2>3, WindowAssumption
<1>3. CASE r + 1 = Window
  <2>1. s + 1 = Window * (q + 1) + 0
    BY <1>1, <1>3, WindowAssumption
  <2>2. (s + 1) % Window = 0
    <3>1. q + 1 \in Int /\ 0 \in 0 .. Window - 1 /\ s + 1 \in Int
      BY <1>s, <1>1, WindowAssumption
    <3> QED
      BY <2>1, <3>1, ModUnique, WindowAssumption
  <2> QED
    BY <1>s, <1>1, <1>3, <2>2, WindowAssumption
<1>4. r + 1 < Window \/ r + 1 = Window
  <2> HIDE DEF r
  <2> QED
    BY <1>1, WindowAssumption
<1> QED
  BY <1>2, <1>3, <1>4

\* Recording admissions and the passing of time keep ages in range.
LEMMA AgesType ==
  ASSUME NEW a \in Ages, NEW allowed \in BOOLEAN
  PROVE  /\ Remember(a, allowed) \in Ages
         /\ GrowOlder(a) \in Ages
         /\ NoAdmissions \in Ages
BY WindowAssumption DEF Ages, Remember, GrowOlder, NoAdmissions

-------------------------------------------------------------------------------
LEMMA QuotaInit == Init => QuotaInv
<1> SUFFICES ASSUME Init
             PROVE  QuotaInv
  OBVIOUS
<1>1. TypeOK
  BY AgesType, WindowAssumption DEF Init, TypeOK, NoDecision, Decisions, NoAdmissions, Ages
<1>2. AgesCounted
  BY WindowAssumption DEF Init, AgesCounted, NoAdmissions
<1>3. DecisionCurrent
  BY WindowAssumption DEF Init, DecisionCurrent, NoDecision
<1> QED
  BY <1>1, <1>2, <1>3 DEF QuotaInv

LEMMA QuotaAllow == QuotaInv /\ Allow => QuotaInv'
<1> SUFFICES ASSUME QuotaInv, Allow
             PROVE  QuotaInv'
  OBVIOUS
<1>t. /\ now \in Nat /\ now <= MaxTime
      /\ used \in Nat /\ used < Rate
      /\ Grid(now) \in Int /\ Grid(now) <= now /\ now < Grid(now) + Window
      /\ now' = now /\ used' = used + 1 /\ Grid(now)' = Grid(now)
  BY GridBounds, WindowAssumption DEF QuotaInv, TypeOK, Allow, Grid
<1>1. TypeOK'
  <2>1. ages' \in Ages
    BY AgesType DEF Allow, QuotaInv, TypeOK
  <2>2. decision' \in Decisions
    BY <1>t, WindowAssumption DEF Allow, Decisions
  <2> QED
    BY <1>t, <2>1, <2>2, WindowAssumption DEF TypeOK
<1>2. AgesCounted'
  <2> SUFFICES ASSUME NEW i \in 1 .. 2 * Rate + 1
               PROVE  /\ i > used + 1 => ages'[i] > now - Grid(now) \/ ages'[i] = Window
                      /\ i > used + 1 + Rate => ages'[i] = Window
    BY <1>t DEF AgesCounted
  <2>1. CASE i = 1
    BY <2>1, <1>t, WindowAssumption
  <2>2. CASE i # 1
    <3>1. i - 1 \in 1 .. 2 * Rate + 1 /\ ages'[i] = ages[i - 1]
      BY <2>2, WindowAssumption DEF Allow, Remember
    <3>2. /\ i - 1 > used => ages[i - 1] > now - Grid(now) \/ ages[i - 1] = Window
          /\ i - 1 > used + Rate => ages[i - 1] = Window
      BY <3>1 DEF QuotaInv, AgesCounted
    <3> QED
      BY <3>1, <3>2, <1>t, WindowAssumption
  <2> QED
    BY <2>1, <2>2
<1>3. DecisionCurrent'
  BY <1>t, WindowAssumption DEF DecisionCurrent, Allow
<1> QED
  BY <1>1, <1>2, <1>3 DEF QuotaInv

LEMMA QuotaDeny == QuotaInv /\ Deny => QuotaInv'
<1> SUFFICES ASSUME QuotaInv, Deny
             PROVE  QuotaInv'
  OBVIOUS
<1>t. /\ now \in Nat
      /\ Grid(now) \in Int /\ Grid(now) <= now /\ now < Grid(now) + Window
      /\ now' = now /\ used' = used /\ used = Rate /\ ages' = ages /\ Grid(now)' = Grid(now)
  BY GridBounds, WindowAssumption DEF QuotaInv, TypeOK, Deny, Grid
<1>1. TypeOK'
  <2>1. decision' \in Decisions
    BY <1>t, WindowAssumption DEF Deny, Decisions
  <2> QED
    BY <1>t, <2>1 DEF QuotaInv, TypeOK
<1>2. AgesCounted'
  BY <1>t DEF QuotaInv, AgesCounted
<1>3. DecisionCurrent'
  BY <1>t, WindowAssumption DEF DecisionCurrent, Deny
<1> QED
  BY <1>1, <1>2, <1>3 DEF QuotaInv

LEMMA QuotaTick == QuotaInv /\ Tick => QuotaInv'
<1> SUFFICES ASSUME QuotaInv, Tick
             PROVE  QuotaInv'
  OBVIOUS
<1>t. /\ now \in Nat /\ now < MaxTime
      /\ used \in Nat /\ used <= Rate
      /\ Grid(now) \in Int /\ Grid(now) <= now /\ now < Grid(now) + Window
      /\ now' = now + 1 /\ decision' = decision
      /\ Grid(now)' = Grid(now + 1)
  BY GridBounds, WindowAssumption DEF QuotaInv, TypeOK, Tick, Grid
<1>g. \/ Grid(now + 1) = Grid(now) /\ used' = used
      \/ /\ Grid(now + 1) = Grid(now) + Window
         /\ Grid(now + 1) = now + 1
         /\ used' = 0
  BY <1>t, GridNext, WindowAssumption DEF Tick
<1>1. TypeOK'
  <2>1. ages' \in Ages
    BY AgesType DEF Tick, QuotaInv, TypeOK
  <2> QED
    BY <1>t, <1>g, <2>1, WindowAssumption DEF QuotaInv, TypeOK
<1>2. AgesCounted'
  <2> SUFFICES ASSUME NEW i \in 1 .. 2 * Rate + 1
               PROVE  /\ i > used' => ages'[i] > now' - Grid(now)' \/ ages'[i] = Window
                      /\ i > used' + Rate => ages'[i] = Window
    BY DEF AgesCounted
  <2>1. /\ ages[i] \in 0 .. Window
        /\ ages'[i] = IF ages[i] < Window THEN ages[i] + 1 ELSE Window
    BY DEF Tick, GrowOlder, QuotaInv, TypeOK, Ages
  <2>2. /\ i > used => ages[i] > now - Grid(now) \/ ages[i] = Window
        /\ i > used + Rate => ages[i] = Window
    BY DEF QuotaInv, AgesCounted
  <2> QED
    BY <2>1, <2>2, <1>t, <1>g, WindowAssumption
<1>3. DecisionCurrent'
  <2>1. now + 1 \in Nat /\ now + 1 < Grid(now + 1) + Window
    BY <1>t, GridBounds
  <2>2. decision.reset \in Nat
    BY DEF QuotaInv, TypeOK, Decisions
  <2>3. DecisionCurrent
    BY DEF QuotaInv
  <2> QED
    BY <1>t, <1>g, <2>1, <2>2, <2>3, WindowAssumption DEF DecisionCurrent
<1> QED
  BY <1>1, <1>2, <1>3 DEF QuotaInv

LEMMA QuotaNext == QuotaInv /\ [Next]_vars => QuotaInv'
<1> SUFFICES ASSUME QuotaInv, [Next]_vars
             PROVE  QuotaInv'
  OBVIOUS
<1>1. CASE UNCHANGED vars
  BY <1>1 DEF vars, QuotaInv, TypeOK, AgesCounted, DecisionCurrent, Grid
<1> QED
  BY <1>1, QuotaAllow, QuotaDeny, QuotaTick DEF Next

\* QuotaInv holds in every reachable state of the abstract quota.
THEOREM QuotaInvariant == Spec => []QuotaInv
BY QuotaInit, QuotaNext, PTL DEF Spec

\* The three promises follow from QuotaInv.
LEMMA QuotaPromises == QuotaInv => TwiceRate /\ RetryExact /\ RemainingExact
<1> SUFFICES ASSUME QuotaInv
             PROVE  TwiceRate /\ RetryExact /\ RemainingExact
  OBVIOUS
<1>1. TwiceRate
  <2>1. 2 * Rate + 1 \in 1 .. 2 * Rate + 1 /\ 2 * Rate + 1 > used + Rate
    BY WindowAssumption DEF QuotaInv, TypeOK
  <2> QED
    BY <2>1 DEF QuotaInv, AgesCounted, TwiceRate
<1>2. RetryExact
  BY WindowAssumption DEF QuotaInv, TypeOK, DecisionCurrent, RetryExact, Decisions
<1>3. RemainingExact
  BY DEF QuotaInv, DecisionCurrent, RemainingExact
<1> QED
  BY <1>1, <1>2, <1>3

\* At most 2*Rate requests are allowed in any stretch as long as a window, a
\* denied client can rely on Reset, and Remaining is what is left.
THEOREM QuotaKeepsPromises == Spec => [](TwiceRate /\ RetryExact /\ RemainingExact)
BY QuotaInvariant, QuotaPromises, PTL
================================================================================
