-------------------------- MODULE FixedBackendsProofs --------------------------
(***************************************************************************)
(* The two fixed_window backends, for every rate, window and length of a   *)
(* millisecond.                                                            *)
(*                                                                         *)
(* The redis script keeps the promises of fixed_window also on a clock     *)
(* that is set back while the key is stored, and until then implements the *)
(* abstract quota.  The expiry, rounded up to a millisecond, is not before *)
(* the end of the stored window, so redis drops a count only when it no    *)
(* longer matters; a clock set back finds the stored window and its count, *)
(* and what the count leaves out is as old as before.                      *)
(*                                                                         *)
(* The in-memory bucket implements the quota, and keeps its promises,      *)
(* until the clock is set back.  The stored window is then never ahead of  *)
(* the clock, and when the clock leaves it the stored count no longer      *)
(* matters, which is exactly when the quota forgets its count.             *)
(*                                                                         *)
(* Where the two grids coincide, and until the clock is set back, the two  *)
(* give the same answers.  Both start a decision from the same count: the  *)
(* script's, which expiry takes away only when its window is over, and the *)
(* bucket's, which the first request of the next window resets.            *)
(***************************************************************************)
EXTENDS FixedBackends, TLAPS

(* The script's window grid. *)

QuotaP == INSTANCE FixedQuotaProofs WITH used <- Used

LEMMA DivMod ==
  ASSUME NEW W \in Nat \ {0}, NEW t \in Nat
  PROVE  /\ t % W \in 0 .. W - 1
         /\ t \div W \in Nat
         /\ t = W * (t \div W) + (t % W)
BY QuotaP!DivMod, WindowAssumption

\* The script's own form of it.
LEMMA EpochGrid ==
  ASSUME NEW t \in Nat
  PROVE  Grid(t) = t - (t % Window)
<1>1. t + Anchor = t
  BY EpochAssumption
<1> QED
  BY <1>1 DEF Grid

LEMMA GridBounds ==
  ASSUME NEW t \in Nat
  PROVE  /\ Grid(t) \in Nat
         /\ Grid(t) <= t
         /\ t < Grid(t) + Window
BY QuotaP!GridBounds, WindowAssumption, EpochAssumption DEF QuotaP!Grid, Grid

LEMMA GridNext ==
  ASSUME NEW t \in Nat
  PROVE  \/ Grid(t + 1) = Grid(t)
         \/ Grid(t + 1) = Grid(t) + Window /\ Grid(t + 1) = t + 1
BY QuotaP!GridNext, WindowAssumption DEF QuotaP!Grid, Grid

LEMMA AgesType ==
  ASSUME NEW a \in Ages, NEW allowed \in BOOLEAN
  PROVE  /\ Remember(a, allowed) \in Ages
         /\ GrowOlder(a) \in Ages
         /\ NoAdmissions \in Ages
BY QuotaP!AgesType, WindowAssumption
   DEF QuotaP!Ages, QuotaP!Remember, QuotaP!GrowOlder, QuotaP!NoAdmissions, Ages, Remember,
       GrowOlder, NoAdmissions

\* Windows start on the grid.
LEMMA GridOnGrid ==
  ASSUME NEW t \in Nat
  PROVE  Grid(Grid(t)) = Grid(t)
<1> DEFINE b == t \div Window
<1>1. b \in Int /\ Window \in Nat \ {0} /\ 0 \in 0 .. Window - 1
  BY DivMod, WindowAssumption
<1>2. Grid(t) = Window * b + 0 /\ Grid(t) \in Int
  BY DivMod, EpochGrid, WindowAssumption
<1>3. Grid(t) % Window = 0
  <2> HIDE DEF b
  <2> QED
    BY <1>1, <1>2, QuotaP!ModUnique, WindowAssumption
<1>4. Grid(t) \in Nat
  BY GridBounds
<1> HIDE DEF b
<1>5. Grid(Grid(t)) = Grid(t) - (Grid(t) % Window)
  BY <1>4, EpochGrid
<1> QED
  BY <1>3, <1>4, <1>5

\* A time is past the window that starts at a point of the grid exactly when its
\* own window starts later.
LEMMA GridBeyond ==
  ASSUME NEW g \in Nat, Grid(g) = g, NEW t \in Nat
  PROVE  /\ g < Grid(t) <=> g + Window <= t
         /\ g < Grid(t) => g + Window <= Grid(t)
<1> DEFINE a == g \div Window
           b == t \div Window
<1>1. a \in Nat /\ b \in Nat /\ Window \in Nat \ {0}
  BY DivMod, WindowAssumption
<1>2. g = Window * a
  BY DivMod, EpochGrid, WindowAssumption
<1>3. Grid(t) = Window * b
  BY DivMod, EpochGrid, WindowAssumption
<1>4. Grid(t) \in Nat /\ Grid(t) <= t /\ t < Grid(t) + Window
  BY GridBounds
<1>5. ASSUME g < Grid(t)
      PROVE  g + Window <= Grid(t)
  <2> HIDE DEF a, b
  <2>1. a < b
    BY <1>1, <1>2, <1>3, <1>5
  <2>2. a + 1 <= b
    BY <1>1, <2>1
  <2>3. Window * (a + 1) <= Window * b
    BY <1>1, <2>2
  <2>4. Window * (a + 1) = Window * a + Window
    BY <1>1
  <2> QED
    BY <2>3, <2>4, <1>2, <1>3
<1> QED
  BY <1>4, <1>5, WindowAssumption

\* The answers in the two cases, without the clamp.
LEMMA DecisionAllowed ==
  ASSUME NEW u \in 0 .. Rate, u < Rate, NEW ws, NEW t
  PROVE  MakeDecision(TRUE, u + 1, ws, t) =
           [allowed |-> TRUE, remaining |-> Rate - u - 1, reset |-> ws + Window, retry |-> 0]
<1>1. ~(Rate - (u + 1) < 0) /\ Rate - (u + 1) = Rate - u - 1
  BY WindowAssumption
<1>2. (IF Rate - (u + 1) < 0 THEN 0 ELSE Rate - (u + 1)) = Rate - u - 1
  BY <1>1
<1> QED
  BY <1>2 DEF MakeDecision

LEMMA DecisionDenied ==
  ASSUME NEW ws, NEW t
  PROVE  MakeDecision(FALSE, Rate, ws, t) =
           [allowed |-> FALSE, remaining |-> 0, reset |-> ws + Window, retry |-> ws + Window - t]
BY WindowAssumption DEF MakeDecision

-------------------------------------------------------------------------------
(* The redis script. *)

\* Rounding up loses nothing.
LEMMA CeilCovers ==
  ASSUME NEW t \in Nat
  PROVE  CeilMilli(t) \in Nat /\ t <= CeilMilli(t) * Milli
<1> DEFINE s == t + Milli - 1
<1>1. s \in Nat /\ Milli \in Nat \ {0}
  BY RedisAssumption
<1>2. s % Milli \in 0 .. Milli - 1 /\ s \div Milli \in Nat /\ s = Milli * (s \div Milli) + (s % Milli)
  <2> HIDE DEF s
  <2> QED
    BY <1>1, DivMod
<1>3. CeilMilli(t) = s \div Milli
  BY DEF CeilMilli
<1>4. Milli * (s \div Milli) = (s \div Milli) * Milli
  <2> HIDE DEF s
  <2> QED
    BY <1>1, <1>2
<1>5. t <= Milli * (s \div Milli)
  <2> DEFINE p == Milli * (s \div Milli)
  <2>1. p \in Int
    BY <1>1, <1>2
  <2> HIDE DEF p
  <2>2. s = p + (s % Milli)
    BY <1>2 DEF p
  <2>3. t + Milli - 1 = p + (s % Milli) /\ s % Milli <= Milli - 1 /\ s % Milli \in Int
    BY <2>2, <1>2, RedisAssumption
  <2>4. t <= p
    BY <2>1, <2>3, RedisAssumption
  <2> QED
    BY <2>4 DEF p
<1> QED
  BY <1>2, <1>3, <1>4, <1>5

-------------------------------------------------------------------------------
\* The window and the count the script works with.
LEMMA ScriptReads ==
  ASSUME StoredInv
  PROVE  /\ now \in Nat /\ now <= MaxTime
         /\ Grid(now) \in Nat /\ Grid(now) <= now /\ now < Grid(now) + Window
         /\ Used \in 0 .. Rate
         /\ Ws \in 0 .. MaxTime /\ Grid(now) <= Ws /\ now < Ws + Window
         /\ steps = 0 => Ws = Grid(now)
<1>1. now \in Nat /\ now <= MaxTime
  BY WindowAssumption DEF StoredInv, TypeOK
<1>2. Grid(now) \in Nat /\ Grid(now) <= now /\ now < Grid(now) + Window
  BY <1>1, GridBounds
<1>3. Used \in 0 .. Rate
  BY WindowAssumption DEF StoredInv, TypeOK, Hashes, Used
<1>4. Ws \in 0 .. MaxTime /\ Grid(now) <= Ws /\ now < Ws + Window
  <2>1. key.ws \in 0 .. MaxTime
    BY DEF StoredInv, TypeOK, Hashes
  <2> QED
    BY <1>1, <1>2, <2>1, WindowAssumption DEF Adopts, Ws
<1>5. steps = 0 => Ws = Grid(now)
  <2>1. key.ws \in Nat
    BY WindowAssumption DEF StoredInv, TypeOK, Hashes
  <2> QED
    BY <1>2, <2>1 DEF StoredInv, StoredBehind, Adopts, Ws
<1> QED
  BY <1>1, <1>2, <1>3, <1>4, <1>5

\* What an allowing run of the script does.
LEMMA ScriptAllows ==
  ASSUME StoredInv, script, Used < Rate
  PROVE  /\ key' = [exists |-> TRUE, ws |-> Ws, count |-> Used + 1,
                    expireAt |-> CeilMilli(Ws + Window)]
         /\ decision' = [allowed |-> TRUE, remaining |-> Rate - Used - 1,
                         reset |-> Ws + Window, retry |-> 0]
         /\ ages' = Remember(ages, TRUE)
         /\ now' = now
         /\ steps' = steps
<1>1. HasRoom(Used) = TRUE
  BY DEF HasRoom
<1>2. /\ key' = [exists |-> TRUE, ws |-> Ws, count |-> Used + 1,
                 expireAt |-> CeilMilli(Ws + Window)]
      /\ decision' = MakeDecision(TRUE, Used + 1, Ws, now)
      /\ ages' = Remember(ages, TRUE)
      /\ now' = now /\ steps' = steps
  BY <1>1 DEF script
<1> QED
  BY <1>2, ScriptReads, DecisionAllowed

\* What a denying run of the script does: the stored window is then full.
LEMMA ScriptDenies ==
  ASSUME StoredInv, script, Used = Rate
  PROVE  /\ key' = key
         /\ decision' = [allowed |-> FALSE, remaining |-> 0,
                         reset |-> Ws + Window, retry |-> Ws + Window - now]
         /\ ages' = ages
         /\ now' = now
         /\ steps' = steps
         /\ key.exists /\ Ws = key.ws /\ key.count = Rate
<1>1. HasRoom(Used) = FALSE
  BY WindowAssumption DEF HasRoom
<1>2. /\ key' = key
      /\ decision' = MakeDecision(FALSE, Rate, Ws, now)
      /\ ages' = Remember(ages, FALSE)
      /\ now' = now /\ steps' = steps
  BY <1>1 DEF script
<1>3. key.exists /\ Ws = key.ws /\ key.count = Rate
  BY WindowAssumption DEF Used, Ws, Adopts
<1> QED
  BY <1>2, <1>3, DecisionDenied DEF Remember

\* A key that redis drops is one whose window is over.
LEMMA ExpiredIsOver ==
  ASSUME StoredInv, Expire
  PROVE  key.exists /\ key.ws \in Nat /\ key.ws + Window <= now
<1>1. /\ key.ws \in Nat /\ key.expireAt \in Nat
      /\ key.ws + Window <= key.expireAt * Milli
      /\ now >= key.expireAt * Milli
      /\ key.exists
  BY DEF StoredInv, TypeOK, Hashes, ExpiryCoversWindow, Expire
<1> DEFINE p == key.expireAt * Milli
<1>2. p \in Int /\ key.ws + Window <= p /\ now >= p
  BY <1>1, RedisAssumption
<1> HIDE DEF p
<1> QED
  BY <1>1, <1>2, ScriptReads, WindowAssumption

-------------------------------------------------------------------------------
LEMMA StoredInit == Init => StoredInv
<1> SUFFICES ASSUME Init
             PROVE  StoredInv
  OBVIOUS
<1>1. key \in Hashes /\ key.exists = FALSE
  BY WindowAssumption DEF Init, Absent, Hashes
<1>2. decision \in Decisions
  BY WindowAssumption DEF Init, NoDecision, Decisions
<1>3. ages \in Ages
  BY WindowAssumption DEF Init, NoAdmissions, Ages
<1> QED
  BY <1>1, <1>2, <1>3, WindowAssumption
     DEF Init, StoredInv, TypeOK, StoredBehind, ExpiryCoversWindow

LEMMA StoredNext == StoredInv /\ [Next]_vars => StoredInv'
<1> SUFFICES ASSUME StoredInv, [Next]_vars
             PROVE  StoredInv'
  OBVIOUS
<1>t. /\ now \in Nat /\ now <= MaxTime
      /\ Grid(now) \in Nat /\ Grid(now) <= now /\ now < Grid(now) + Window
      /\ Used \in 0 .. Rate
      /\ Ws \in 0 .. MaxTime /\ now < Ws + Window
      /\ steps = 0 => Ws = Grid(now)
  BY ScriptReads
<1>1. CASE script /\ Used < Rate
  <2>1. Ws + Window \in Nat /\ CeilMilli(Ws + Window) \in Nat
        /\ Ws + Window <= CeilMilli(Ws + Window) * Milli
    BY <1>t, CeilCovers, WindowAssumption
  <2>2. key' \in Hashes
    <3>1. key' = [exists |-> TRUE, ws |-> Ws, count |-> Used + 1,
                  expireAt |-> CeilMilli(Ws + Window)]
      BY <1>1, ScriptAllows
    <3>2. Used + 1 \in 0 .. Rate
      BY <1>t, <1>1, WindowAssumption
    <3> QED
      BY <1>t, <2>1, <3>1, <3>2 DEF Hashes
  <2>3. decision' \in Decisions
    <3>1. decision' = [allowed |-> TRUE, remaining |-> Rate - Used - 1,
                       reset |-> Ws + Window, retry |-> 0]
      BY <1>1, ScriptAllows
    <3>2. Rate - Used - 1 \in 0 .. Rate
      BY <1>t, <1>1, WindowAssumption
    <3> QED
      BY <2>1, <3>1, <3>2 DEF Decisions
  <2>4. ages' \in Ages
    BY <1>1, ScriptAllows, AgesType DEF StoredInv, TypeOK
  <2>5. key'.ws = Ws /\ key'.expireAt = CeilMilli(Ws + Window) /\ now' = now
        /\ steps' = steps
    BY <1>1, ScriptAllows
  <2>6. StoredBehind' /\ ExpiryCoversWindow'
    BY <1>t, <2>1, <2>5 DEF StoredBehind, ExpiryCoversWindow
  <2> QED
    BY <2>2, <2>3, <2>4, <2>5, <2>6 DEF StoredInv, TypeOK
<1>2. CASE script /\ Used = Rate
  <2>1. decision' \in Decisions
    <3>1. decision' = [allowed |-> FALSE, remaining |-> 0,
                       reset |-> Ws + Window, retry |-> Ws + Window - now]
      BY <1>2, ScriptDenies
    <3>2. 0 \in 0 .. Rate /\ Ws + Window \in Nat /\ Ws + Window - now \in Nat
      BY <1>t, WindowAssumption
    <3> QED
      BY <3>1, <3>2 DEF Decisions
  <2> QED
    BY <1>2, <2>1, ScriptDenies DEF StoredInv, TypeOK, StoredBehind, ExpiryCoversWindow
<1>3. CASE Expire
  <2>1. key' \in Hashes /\ key'.exists = FALSE
    BY <1>3, WindowAssumption DEF Expire, Absent, Hashes
  <2> QED
    BY <1>3, <2>1 DEF Expire, StoredInv, TypeOK, StoredBehind, ExpiryCoversWindow
<1>4. CASE Tick
  <2>1. Grid(now) <= Grid(now + 1) /\ Grid(now + 1) \in Nat
    BY <1>t, GridNext, GridBounds, WindowAssumption
  <2>2. key' = key /\ now' = now + 1 /\ key.ws \in Nat /\ steps' = steps
    BY <1>4 DEF Tick, StoredInv, TypeOK, Hashes
  <2>3. StoredBehind'
    BY <1>t, <2>1, <2>2 DEF StoredInv, StoredBehind
  <2>4. ages' \in Ages
    BY <1>4, AgesType DEF StoredInv, TypeOK, Tick
  <2>5. ExpiryCoversWindow'
    BY <2>2 DEF StoredInv, ExpiryCoversWindow
  <2> QED
    BY <1>4, <1>t, <2>2, <2>3, <2>4, <2>5, WindowAssumption DEF StoredInv, TypeOK, Tick
<1>5. CASE StepBack
  <2>1. steps' \in 0 .. MaxSteps /\ steps' # 0 /\ now' \in 0 .. MaxTime
    BY <1>5, <1>t, WindowAssumption DEF StepBack, StoredInv, TypeOK
  <2> QED
    BY <1>5, <2>1 DEF StepBack, StoredInv, TypeOK, StoredBehind, ExpiryCoversWindow
<1>6. CASE UNCHANGED vars
  BY <1>6 DEF vars, StoredInv, TypeOK, StoredBehind, ExpiryCoversWindow
<1> QED
  BY <1>1, <1>2, <1>3, <1>4, <1>5, <1>6, <1>t, WindowAssumption DEF Next

-------------------------------------------------------------------------------
LEMMA PromisesInit == Init => OnGrid /\ AgesCounted /\ DecisionStored
<1> SUFFICES ASSUME Init
             PROVE  OnGrid /\ AgesCounted /\ DecisionStored
  OBVIOUS
<1>1. key.exists = FALSE
  BY DEF Init, Absent
<1>2. AgesCounted
  BY <1>1 DEF Init, AgesCounted, NoAdmissions
<1>3. DecisionStored
  BY <1>1, WindowAssumption DEF Init, DecisionStored, NoDecision
<1> QED
  BY <1>1, <1>2, <1>3 DEF OnGrid

\* Once the clock is past the stored window, no admission is in the current
\* one and all but Rate are a window old.
LEMMA WindowOver ==
  ASSUME StoredInv, OnGrid, AgesCounted, key.exists, key.ws < Grid(now),
         NEW i \in 1 .. 2 * Rate + 1
  PROVE  /\ ages[i] > now - Grid(now) \/ ages[i] = Window
         /\ i > Rate => ages[i] = Window
<1>1. /\ key.ws \in Nat /\ key.count \in 0 .. Rate /\ ages[i] \in 0 .. Window
      /\ now \in Nat /\ Grid(now) \in Nat
  BY ScriptReads, WindowAssumption DEF StoredInv, TypeOK, Hashes, Ages
<1>2. key.ws + Window <= Grid(now) /\ key.ws + Window <= now
  BY <1>1, GridBeyond DEF OnGrid
<1>3. /\ ages[i] > now - key.ws - Window \/ ages[i] = Window
      /\ i > key.count => ages[i] > now - key.ws \/ ages[i] = Window
  BY DEF AgesCounted
<1> QED
  BY <1>1, <1>2, <1>3, WindowAssumption

LEMMA PromisesAllow ==
  ASSUME RedisInv, script, Used < Rate
  PROVE  OnGrid' /\ AgesCounted' /\ DecisionStored'
<1>t. /\ now \in Nat /\ Grid(now) \in Nat /\ now < Grid(now) + Window
      /\ Used \in 0 .. Rate /\ Ws \in Nat /\ Grid(now) <= Ws /\ now < Ws + Window
  BY ScriptReads, WindowAssumption DEF RedisInv
<1>k. /\ key'.exists = TRUE /\ key'.ws = Ws /\ key'.count = Used + 1
      /\ ages' = Remember(ages, TRUE) /\ now' = now
      /\ decision'.allowed = TRUE /\ decision'.remaining = Rate - Used - 1
      /\ decision'.reset = Ws + Window
  BY ScriptAllows DEF RedisInv
<1>1. OnGrid'
  BY <1>t, <1>k, GridOnGrid DEF OnGrid, Ws, Adopts, RedisInv
<1>2. AgesCounted'
  <2> SUFFICES ASSUME NEW i \in 1 .. 2 * Rate + 1
               PROVE  /\ ages'[i] > now - Ws - Window \/ ages'[i] = Window
                      /\ i > Used + 1 => ages'[i] > now - Ws \/ ages'[i] = Window
                      /\ i > Used + 1 + Rate => ages'[i] = Window
    BY <1>k DEF AgesCounted
  <2>1. CASE i = 1
    <3>1. ages'[i] = 0
      BY <1>k, <2>1 DEF Remember
    <3> QED
      BY <1>t, <2>1, <3>1, WindowAssumption
  <2>2. CASE i # 1
    <3> DEFINE j == i - 1
    <3>1. j \in 1 .. 2 * Rate + 1 /\ ages'[i] = ages[j] /\ i = j + 1
      BY <1>k, <2>2, WindowAssumption DEF Remember
    <3> HIDE DEF j
    <3>2. ages[j] \in 0 .. Window
      BY <3>1 DEF RedisInv, StoredInv, TypeOK, Ages
    <3>3. CASE Adopts
      <4>1. /\ ages[j] > now - Ws - Window \/ ages[j] = Window
            /\ j > Used => ages[j] > now - Ws \/ ages[j] = Window
            /\ j > Used + Rate => ages[j] = Window
        BY <3>1, <3>3 DEF RedisInv, AgesCounted, Adopts, Ws, Used
      <4> QED
        BY <1>t, <3>1, <3>2, <4>1, WindowAssumption
    <3>4. CASE ~Adopts
      <4>1. Ws = Grid(now) /\ Used = 0
        BY <3>4 DEF Ws, Used
      <4>2. /\ ages[j] > now - Grid(now) \/ ages[j] = Window
            /\ j > Rate => ages[j] = Window
        <5>1. CASE key.exists
          <6>1. key.ws < Grid(now)
            BY <1>t, <3>4, <5>1 DEF Adopts, RedisInv, StoredInv, TypeOK, Hashes
          <6> QED
            BY <3>1, <5>1, <6>1, WindowOver DEF RedisInv
        <5>2. CASE ~key.exists
          BY <3>1, <5>2 DEF RedisInv, AgesCounted
        <5> QED
          BY <5>1, <5>2
      <4> QED
        BY <1>t, <3>1, <3>2, <4>1, <4>2, WindowAssumption
    <3> QED
      BY <3>3, <3>4
  <2> QED
    BY <2>1, <2>2
<1>3. DecisionStored'
  BY <1>t, <1>k, WindowAssumption DEF DecisionStored
<1> QED
  BY <1>1, <1>2, <1>3

LEMMA PromisesDeny ==
  ASSUME RedisInv, script, Used = Rate
  PROVE  OnGrid' /\ AgesCounted' /\ DecisionStored'
<1>1. /\ key' = key /\ ages' = ages /\ now' = now
      /\ key.exists /\ Ws = key.ws /\ key.count = Rate
      /\ decision'.remaining = 0 /\ decision'.reset = Ws + Window
  BY ScriptDenies DEF RedisInv
<1>2. DecisionStored'
  BY <1>1, WindowAssumption DEF DecisionStored
<1>3. AgesCounted'
  BY <1>1 DEF RedisInv, AgesCounted
<1> QED
  BY <1>1, <1>2, <1>3 DEF RedisInv, OnGrid

LEMMA PromisesExpire ==
  ASSUME RedisInv, Expire
  PROVE  OnGrid' /\ AgesCounted' /\ DecisionStored'
<1>1. key.exists /\ key.ws \in Nat /\ key.ws + Window <= now
  BY ExpiredIsOver DEF RedisInv
<1>2. now \in Nat /\ key.ws < Grid(now)
  BY <1>1, ScriptReads, GridBeyond DEF RedisInv, OnGrid
<1>3. key'.exists = FALSE /\ now' = now /\ ages' = ages /\ decision' = decision
  BY DEF Expire, Absent
<1>4. AgesCounted'
  <2>1. \A i \in 1 .. 2 * Rate + 1 :
          /\ ages[i] > now - Grid(now) \/ ages[i] = Window
          /\ i > Rate => ages[i] = Window
    BY <1>1, <1>2, WindowOver DEF RedisInv
  <2> QED
    BY <1>3, <2>1 DEF AgesCounted
<1>5. DecisionStored'
  BY <1>1, <1>3 DEF RedisInv, DecisionStored
<1> QED
  BY <1>3, <1>4, <1>5 DEF OnGrid

LEMMA PromisesTick ==
  ASSUME RedisInv, Tick
  PROVE  OnGrid' /\ AgesCounted' /\ DecisionStored'
<1>t. /\ now \in Nat /\ Grid(now) \in Nat /\ Grid(now) <= now
      /\ key.ws \in Nat /\ key.count \in 0 .. Rate /\ decision.reset \in Nat
  BY ScriptReads DEF RedisInv, StoredInv, TypeOK, Hashes, Decisions
<1>k. key' = key /\ now' = now + 1 /\ ages' = GrowOlder(ages) /\ decision' = decision
  BY DEF Tick
<1>n. Grid(now)' = Grid(now + 1)
  BY <1>k DEF Grid
<1>g. Grid(now + 1) = Grid(now) \/ Grid(now + 1) = now + 1
  BY <1>t, GridNext
<1>1. AgesCounted'
  <2>a. \A i \in 1 .. 2 * Rate + 1 :
          /\ ages[i] \in 0 .. Window
          /\ ages'[i] = IF ages[i] < Window THEN ages[i] + 1 ELSE Window
    BY <1>k DEF GrowOlder, RedisInv, StoredInv, TypeOK, Ages
  <2>1. CASE key.exists
    <3> SUFFICES ASSUME NEW i \in 1 .. 2 * Rate + 1
                 PROVE  /\ ages'[i] > now' - key.ws - Window \/ ages'[i] = Window
                        /\ i > key.count => ages'[i] > now' - key.ws \/ ages'[i] = Window
                        /\ i > key.count + Rate => ages'[i] = Window
      BY <1>k, <2>1 DEF AgesCounted
    <3>1. /\ ages[i] > now - key.ws - Window \/ ages[i] = Window
          /\ i > key.count => ages[i] > now - key.ws \/ ages[i] = Window
          /\ i > key.count + Rate => ages[i] = Window
      BY <2>1 DEF RedisInv, AgesCounted
    <3> QED
      BY <1>t, <1>k, <2>a, <3>1, WindowAssumption
  <2>2. CASE ~key.exists
    <3> SUFFICES ASSUME NEW i \in 1 .. 2 * Rate + 1
                 PROVE  /\ ages'[i] > now' - Grid(now)' \/ ages'[i] = Window
                        /\ i > Rate => ages'[i] = Window
      BY <1>k, <2>2 DEF AgesCounted
    <3>1. /\ ages[i] > now - Grid(now) \/ ages[i] = Window
          /\ i > Rate => ages[i] = Window
      BY <2>2 DEF RedisInv, AgesCounted
    <3> QED
      BY <1>t, <1>k, <1>n, <1>g, <2>a, <3>1, WindowAssumption
  <2> QED
    BY <2>1, <2>2
<1>2. DecisionStored'
  BY <1>t, <1>k DEF RedisInv, DecisionStored
<1> QED
  BY <1>1, <1>2, <1>k DEF RedisInv, OnGrid

LEMMA PromisesStepBack ==
  ASSUME RedisInv, StepBack
  PROVE  OnGrid' /\ AgesCounted' /\ DecisionStored'
<1>1. /\ key' = key /\ key.exists /\ now' \in Int /\ now' < now /\ ages' = ages
      /\ decision' = decision /\ now \in Nat /\ key.ws \in Nat
  BY ScriptReads DEF StepBack, RedisInv, StoredInv, TypeOK, Hashes
<1>2. AgesCounted'
  <2> SUFFICES ASSUME NEW i \in 1 .. 2 * Rate + 1
               PROVE  /\ ages[i] > now' - key.ws - Window \/ ages[i] = Window
                      /\ i > key.count => ages[i] > now' - key.ws \/ ages[i] = Window
                      /\ i > key.count + Rate => ages[i] = Window
    BY <1>1 DEF AgesCounted
  <2>1. ages[i] \in 0 .. Window
    BY DEF RedisInv, StoredInv, TypeOK, Ages
  <2>2. /\ ages[i] > now - key.ws - Window \/ ages[i] = Window
        /\ i > key.count => ages[i] > now - key.ws \/ ages[i] = Window
        /\ i > key.count + Rate => ages[i] = Window
    BY <1>1 DEF RedisInv, AgesCounted
  <2> QED
    BY <1>1, <2>1, <2>2, WindowAssumption
<1> QED
  BY <1>1, <1>2 DEF RedisInv, OnGrid, DecisionStored

LEMMA RedisNext == RedisInv /\ [Next]_vars => RedisInv'
<1> SUFFICES ASSUME RedisInv, [Next]_vars
             PROVE  RedisInv'
  OBVIOUS
<1>1. StoredInv'
  BY StoredNext DEF RedisInv
<1>2. Used < Rate \/ Used = Rate
  BY ScriptReads, WindowAssumption DEF RedisInv
<1>3. OnGrid' /\ AgesCounted' /\ DecisionStored'
  <2>1. CASE UNCHANGED vars
    BY <2>1 DEF vars, RedisInv, OnGrid, AgesCounted, DecisionStored
  <2> QED
    BY <1>2, <2>1, PromisesAllow, PromisesDeny, PromisesExpire, PromisesTick, PromisesStepBack
       DEF Next
<1> QED
  BY <1>1, <1>3 DEF RedisInv

\* The inductive invariant: the stored count accounts for the admissions of its
\* window wherever the clock is set, and expires no earlier than that window.
THEOREM RedisInvariant == Spec => []RedisInv
<1>1. Init => RedisInv
  BY StoredInit, PromisesInit DEF RedisInv
<1> QED
  BY <1>1, RedisNext, PTL DEF Spec

\* At most 2*Rate admissions in any stretch of real time as long as a window,
\* also when TIME steps backward while the key is stored
\* (fixed_window.lua:28-36).
THEOREM RedisTwiceRate == Spec => []TwiceRate
<1>1. RedisInv => TwiceRate
  <2> SUFFICES ASSUME RedisInv
               PROVE  ages[2 * Rate + 1] = Window
    BY DEF TwiceRate, Quota!TwiceRate
  <2>1. /\ 2 * Rate + 1 \in 1 .. 2 * Rate + 1
        /\ key.count \in 0 .. Rate
        /\ 2 * Rate + 1 > key.count + Rate /\ 2 * Rate + 1 > Rate
    BY WindowAssumption DEF RedisInv, StoredInv, TypeOK, Hashes
  <2> QED
    BY <2>1 DEF RedisInv, AgesCounted
<1> QED
  BY <1>1, RedisInvariant, PTL

\* The stored key, or its absence, says what the last answer's headers promised.
LEMMA HeadersExact ==
  ASSUME RedisInv
  PROVE  RetryExact /\ RemainingExact
<1> SUFFICES /\ ~decision.allowed => (Used < Rate <=> now >= decision.reset)
             /\ now < decision.reset => decision.remaining = Rate - Used
  BY DEF RetryExact, RemainingExact, Quota!RetryExact, Quota!RemainingExact
<1>1. /\ now \in Nat /\ Grid(now) \in Nat
      /\ key.ws \in Nat /\ key.count \in 0 .. Rate /\ decision.reset \in Nat
  BY ScriptReads DEF RedisInv, StoredInv, TypeOK, Hashes, Decisions
<1>2. CASE key.exists
  <2>1. key.ws < Grid(now) <=> key.ws + Window <= now
    BY <1>1, <1>2, GridBeyond DEF RedisInv, OnGrid
  <2>2. Used = IF key.ws + Window <= now THEN 0 ELSE key.count
    BY <1>1, <1>2, <2>1 DEF Used, Adopts
  <2>3. /\ decision.reset = key.ws + Window /\ decision.remaining = Rate - key.count
        /\ ~decision.allowed => decision.remaining = 0
    BY <1>2 DEF RedisInv, DecisionStored
  <2> QED
    BY <1>1, <2>2, <2>3, WindowAssumption
<1>3. CASE ~key.exists
  BY <1>1, <1>3, WindowAssumption DEF Used, Adopts, RedisInv, DecisionStored
<1> QED
  BY <1>2, <1>3

\* A denial's Reset is exact, also when TIME steps backward after the answer,
\* while the key is stored (fixed_window.lua:45-54).
THEOREM RedisRetryExact == Spec => []RetryExact
BY HeadersExact, RedisInvariant, PTL

\* So is Remaining, under the same condition (fixed_window.lua:45-54).
THEOREM RedisRemainingExact == Spec => []RemainingExact
BY HeadersExact, RedisInvariant, PTL

-------------------------------------------------------------------------------
LEMMA ScriptRefines ==
  ASSUME StoredInv, script, steps = 0
  PROVE  Quota!Allow \/ Quota!Deny
<1>t. Ws = Grid(now) /\ Used \in 0 .. Rate /\ Grid(now) \in Nat
  BY ScriptReads
<1>1. CASE Used < Rate
  <2>1. Used' = Used + 1
    <3>1. key'.exists = TRUE /\ key'.ws = Grid(now)' /\ key'.count = Used + 1
      BY <1>1, <1>t, ScriptAllows
    <3>2. Adopts'
      BY <1>1, <1>t, <3>1, ScriptAllows DEF Adopts
    <3> QED
      BY <3>1, <3>2 DEF Used
  <2> QED
    BY <1>1, <1>t, <2>1, ScriptAllows DEF Quota!Allow, Quota!Grid, Grid, Quota!Remember, Remember
<1>2. CASE Used = Rate
  <2>1. Used' = Used
    BY <1>2, ScriptDenies DEF Used, Adopts
  <2> QED
    BY <1>2, <1>t, <2>1, ScriptDenies DEF Quota!Deny, Quota!Grid, Grid
<1> QED
  BY <1>1, <1>2, <1>t, WindowAssumption

\* Redis drops only a key whose window is over, which the quota has forgotten.
LEMMA ExpireRefines ==
  ASSUME StoredInv, Expire
  PROVE  UNCHANGED <<now, Used, decision, ages>>
<1>1. key.exists /\ key.ws \in Nat /\ key.ws + Window <= now
  BY ExpiredIsOver
<1>2. ~Adopts
  BY <1>1, ScriptReads, WindowAssumption DEF Adopts
<1>3. ~Adopts'
  BY DEF Adopts, Expire, Absent
<1> QED
  BY <1>2, <1>3 DEF Used, Expire

LEMMA TickRefines ==
  ASSUME StoredInv, Tick, steps = 0
  PROVE  Quota!Tick
<1>1. /\ now \in Nat /\ now' = now + 1 /\ key' = key
      /\ key.ws \in Nat /\ key.exists \in BOOLEAN
      /\ key.exists => key.ws <= Grid(now)
      /\ Grid(now) \in Nat
  BY ScriptReads DEF StoredInv, TypeOK, Hashes, StoredBehind, Tick
<1>2. Used' = IF Grid(now + 1) = Grid(now) THEN Used ELSE 0
  <2>1. CASE Grid(now + 1) = Grid(now)
    BY <1>1, <2>1 DEF Used, Adopts
  <2>2. CASE Grid(now + 1) = Grid(now) + Window
    BY <1>1, <2>2, WindowAssumption DEF Used, Adopts
  <2> QED
    BY <1>1, <2>1, <2>2, GridNext, WindowAssumption
<1> QED
  BY <1>1, <1>2 DEF Tick, Quota!Tick, Quota!Grid, Grid, Quota!GrowOlder, GrowOlder

\* The redis fixed_window (fixed_window.lua:16-54) makes the decisions of the
\* abstract quota until TIME steps backward.
THEOREM RedisImplementsQuota == Spec => ImplementsQuota
<1>1. Init => Quota!Init
  BY DEF Init, Quota!Init, Used, Adopts, Absent, Quota!NoDecision, NoDecision,
         Quota!NoAdmissions, NoAdmissions
<1>2. RedisInv /\ [Next]_vars => [steps' = 0 => Quota!Next]_(Quota!vars)
  <2> SUFFICES ASSUME StoredInv, [Next]_vars, steps' = 0
               PROVE  [Quota!Next]_(Quota!vars)
    BY DEF RedisInv
  <2>1. CASE UNCHANGED vars
    BY <2>1 DEF vars, Quota!vars, Used, Adopts
  <2>2. CASE script
    BY <2>2, ScriptRefines DEF script, Quota!Next
  <2>3. CASE Expire
    BY <2>3, ExpireRefines DEF Quota!vars
  <2>4. CASE Tick
    BY <2>4, TickRefines DEF Tick, Quota!Next
  <2>5. CASE StepBack
    BY <2>5 DEF StepBack, StoredInv, TypeOK
  <2> QED
    BY <2>1, <2>2, <2>3, <2>4, <2>5 DEF Next
<1> QED
  BY <1>1, <1>2, RedisInvariant, PTL DEF Spec, ImplementsQuota

-------------------------------------------------------------------------------
(* The in-memory bucket. *)

MemQuota == INSTANCE FixedQuotaProofs WITH
  Anchor <- ZeroTime, used <- Mem!Used, decision <- memDecision, ages <- memAges

\* Its grid.
LEMMA MemGridBounds ==
  ASSUME NEW t \in Nat
  PROVE  /\ Mem!Grid(t) \in Int
         /\ -ZeroTime <= Mem!Grid(t)
         /\ Mem!Grid(t) <= t
         /\ t < Mem!Grid(t) + Window
BY MemQuota!GridBounds, WindowAssumption, ZeroTimeAssumption DEF MemQuota!Grid, Mem!Grid

LEMMA MemGridNext ==
  ASSUME NEW t \in Nat
  PROVE  \/ Mem!Grid(t + 1) = Mem!Grid(t)
         \/ Mem!Grid(t + 1) = Mem!Grid(t) + Window /\ Mem!Grid(t + 1) = t + 1
BY MemQuota!GridNext, WindowAssumption, ZeroTimeAssumption DEF MemQuota!Grid, Mem!Grid

\* Otherwise both backends use the operators of FixedWindow.
LEMMA SameOperators ==
  /\ Mem!Decisions = Decisions /\ Mem!NoDecision = NoDecision
  /\ Mem!Ages = Ages /\ Mem!NoAdmissions = NoAdmissions
  /\ \A a, allowed : Mem!Remember(a, allowed) = Remember(a, allowed)
  /\ \A a : Mem!GrowOlder(a) = GrowOlder(a)
  /\ \A allowed, count, ws, t :
       Mem!MakeDecision(allowed, count, ws, t) = MakeDecision(allowed, count, ws, t)
BY DEF Mem!Decisions, Decisions, Mem!NoDecision, NoDecision, Mem!Ages, Ages,
       Mem!NoAdmissions, NoAdmissions, Mem!Remember, Remember, Mem!GrowOlder, GrowOlder,
       Mem!MakeDecision, MakeDecision

LEMMA MemoryInit == Mem!Init => Mem!MemoryInv
<1> SUFFICES ASSUME Mem!Init
             PROVE  Mem!MemoryInv
  OBVIOUS
<1>1. now \in Nat /\ Mem!Grid(now) \in Int /\ -ZeroTime <= Mem!Grid(now)
  BY MemGridBounds, WindowAssumption DEF Mem!Init
<1>2. bucket \in [windowStart : -ZeroTime .. MaxTime, count : 0 .. Rate]
  BY WindowAssumption, ZeroTimeAssumption DEF Mem!Init
<1>3. memDecision \in Mem!Decisions
  BY WindowAssumption DEF Mem!Init, Mem!NoDecision, Mem!Decisions
<1> QED
  BY <1>1, <1>2, <1>3, AgesType, SameOperators, WindowAssumption
     DEF Mem!Init, Mem!MemoryInv, Mem!TypeOK, Mem!StoredBehind, Mem!NoAdmissions, Mem!Ages

\* What step does, in terms of the count that matters.
LEMMA MemoryStepEffect ==
  ASSUME Mem!MemoryInv, Mem!step
  PROVE  /\ Mem!Used \in 0 .. Rate
         /\ Mem!Refreshed = [windowStart |-> Mem!Grid(now), count |-> Mem!Used]
         /\ bucket' = [windowStart |-> Mem!Grid(now),
                       count |-> IF Mem!Used < Rate THEN Mem!Used + 1 ELSE Mem!Used]
         /\ now' = now
         /\ Mem!Used' = IF Mem!Used < Rate THEN Mem!Used + 1 ELSE Mem!Used
<1>1. bucket \in [windowStart : -ZeroTime .. MaxTime, count : 0 .. Rate]
  BY DEF Mem!MemoryInv, Mem!TypeOK
<1>2. Mem!Used \in 0 .. Rate
  BY <1>1, WindowAssumption DEF Mem!Used
<1>3. Mem!Refreshed = [windowStart |-> Mem!Grid(now), count |-> Mem!Used]
  BY <1>1 DEF Mem!Refreshed, Mem!Used
<1>4. bucket' = [windowStart |-> Mem!Grid(now),
                 count |-> IF Mem!Used < Rate THEN Mem!Used + 1 ELSE Mem!Used]
  BY <1>2, <1>3, WindowAssumption DEF Mem!step, Mem!HasRoom
<1>5. now' = now
  BY DEF Mem!step
<1>6. Mem!Used' = IF Mem!Used < Rate THEN Mem!Used + 1 ELSE Mem!Used
  BY <1>4, <1>5 DEF Mem!Used
<1> QED
  BY <1>2, <1>3, <1>4, <1>5, <1>6

\* step is a step of the quota.
LEMMA MemoryStepRefines ==
  ASSUME Mem!MemoryInv, Mem!step
  PROVE  Mem!Quota!Allow \/ Mem!Quota!Deny
<1> USE WindowAssumption
<1>1. Mem!Used \in 0 .. Rate /\ Mem!Refreshed.count = Mem!Used /\ now' = now
  BY MemoryStepEffect
<1>2. CASE Mem!Used < Rate
  <2>1. memDecision' = [allowed |-> TRUE, remaining |-> Rate - Mem!Used - 1,
                     reset |-> Mem!Grid(now) + Window, retry |-> 0]
    <3>1. Mem!HasRoom(Mem!Refreshed.count) = TRUE
      BY <1>1, <1>2 DEF Mem!HasRoom
    <3>2. memDecision' = Mem!MakeDecision(TRUE, Mem!Used + 1, Mem!Grid(now), now)
      BY <1>1, <3>1 DEF Mem!step
    <3> QED
      BY <1>1, <1>2, <3>2, DecisionAllowed, SameOperators
  <2>2. memAges' = Mem!Remember(memAges, TRUE)
    BY <1>1, <1>2 DEF Mem!step, Mem!HasRoom, Mem!Remember
  <2>3. Mem!Used' = Mem!Used + 1
    BY <1>2, MemoryStepEffect
  <2> QED
    BY <1>1, <1>2, <2>1, <2>2, <2>3
       DEF Mem!Quota!Allow, Mem!Quota!Grid, Mem!Grid, Mem!Quota!Remember, Mem!Remember
<1>3. CASE Mem!Used = Rate
  <2>1. memDecision' = [allowed |-> FALSE, remaining |-> 0,
                     reset |-> Mem!Grid(now) + Window, retry |-> Mem!Grid(now) + Window - now]
    <3>1. Mem!HasRoom(Mem!Refreshed.count) = FALSE
      BY <1>1, <1>3 DEF Mem!HasRoom
    <3>2. memDecision' = Mem!MakeDecision(FALSE, Rate, Mem!Grid(now), now)
      BY <1>1, <1>3, <3>1 DEF Mem!step
    <3> QED
      BY <3>2, DecisionDenied, SameOperators
  <2>2. memAges' = memAges
    BY <1>1, <1>3 DEF Mem!step, Mem!HasRoom, Mem!Remember
  <2>3. Mem!Used' = Mem!Used
    BY <1>1, <1>3, MemoryStepEffect
  <2> QED
    BY <1>1, <1>3, <2>1, <2>2, <2>3 DEF Mem!Quota!Deny, Mem!Quota!Grid, Mem!Grid
<1> QED
  BY <1>1, <1>2, <1>3

\* A tick of the clock is a tick of the quota.
LEMMA MemoryTickRefines ==
  ASSUME Mem!MemoryInv, Mem!Tick, steps = 0
  PROVE  Mem!Quota!Tick
<1>1. /\ now \in Nat /\ now' = now + 1 /\ bucket' = bucket
      /\ bucket.windowStart \in Int /\ bucket.windowStart <= Mem!Grid(now)
      /\ Mem!Grid(now) \in Int
  BY MemGridBounds, WindowAssumption, ZeroTimeAssumption
     DEF Mem!MemoryInv, Mem!TypeOK, Mem!StoredBehind, Mem!Tick
<1>2. Mem!Used' = IF Mem!Grid(now + 1) = Mem!Grid(now) THEN Mem!Used ELSE 0
  BY <1>1, MemGridNext, WindowAssumption DEF Mem!Used
<1> QED
  BY <1>1, <1>2
     DEF Mem!Tick, Mem!Quota!Tick, Mem!Quota!Grid, Mem!Grid, Mem!Quota!GrowOlder, Mem!GrowOlder

LEMMA MemoryNext == Mem!MemoryInv /\ [Mem!Next]_(Mem!vars) => Mem!MemoryInv'
<1> SUFFICES ASSUME Mem!MemoryInv, [Mem!Next]_(Mem!vars)
             PROVE  Mem!MemoryInv'
  OBVIOUS
<1>t. /\ now \in Nat /\ now <= MaxTime
      /\ Mem!Grid(now) \in Int /\ -ZeroTime <= Mem!Grid(now) /\ Mem!Grid(now) <= now
      /\ now < Mem!Grid(now) + Window
  BY MemGridBounds, WindowAssumption DEF Mem!MemoryInv, Mem!TypeOK
<1>1. CASE Mem!step
  <2>1. /\ Mem!Used \in 0 .. Rate
        /\ bucket' = [windowStart |-> Mem!Grid(now),
                      count |-> IF Mem!Used < Rate THEN Mem!Used + 1 ELSE Mem!Used]
        /\ now' = now
    BY <1>1, MemoryStepEffect
  <2>2. bucket' \in [windowStart : -ZeroTime .. MaxTime, count : 0 .. Rate]
    BY <1>t, <2>1, WindowAssumption, ZeroTimeAssumption
  <2>3. memDecision' \in Mem!Decisions
    <3>1. Mem!Refreshed.count = Mem!Used
      BY <1>1, MemoryStepEffect
    <3> QED
      BY <1>1, <1>t, <2>1, <3>1, WindowAssumption
         DEF Mem!step, Mem!HasRoom, Mem!MakeDecision, Mem!Decisions
  <2>4. memAges' \in Mem!Ages
    <3>1. Mem!HasRoom(Mem!Refreshed.count) \in BOOLEAN
      BY DEF Mem!HasRoom
    <3> QED
      BY <1>1, <3>1, AgesType, SameOperators DEF Mem!step, Mem!MemoryInv, Mem!TypeOK
  <2>5. Mem!StoredBehind'
    BY <1>t, <2>1 DEF Mem!StoredBehind
  <2> QED
    BY <1>1, <2>1, <2>2, <2>3, <2>4, <2>5 DEF Mem!MemoryInv, Mem!TypeOK, Mem!step
<1>2. CASE Mem!Tick
  <2>1. Mem!Grid(now) <= Mem!Grid(now + 1)
    BY <1>t, MemGridNext, WindowAssumption
  <2>2. Mem!StoredBehind'
    <3>1. /\ bucket.windowStart \in Int /\ (steps = 0 => bucket.windowStart <= Mem!Grid(now))
          /\ steps' = steps /\ bucket' = bucket /\ now' = now + 1 /\ Mem!Grid(now + 1) \in Int
      BY <1>2, <1>t, MemGridBounds, ZeroTimeAssumption
         DEF Mem!Tick, Mem!MemoryInv, Mem!TypeOK, Mem!StoredBehind
    <3> QED
      BY <1>t, <2>1, <3>1 DEF Mem!StoredBehind
  <2>3. memAges' \in Mem!Ages
    BY <1>2, AgesType, SameOperators DEF Mem!MemoryInv, Mem!TypeOK, Mem!Tick
  <2> QED
    BY <1>2, <1>t, <2>2, <2>3, WindowAssumption DEF Mem!MemoryInv, Mem!TypeOK, Mem!Tick
<1>3. CASE Mem!StepBack
  <2>1. steps' \in 0 .. MaxSteps /\ steps' # 0 /\ now' \in 0 .. MaxTime
    BY <1>3, <1>t, WindowAssumption DEF Mem!StepBack, Mem!MemoryInv, Mem!TypeOK
  <2> QED
    BY <1>3, <2>1 DEF Mem!StepBack, Mem!MemoryInv, Mem!TypeOK, Mem!StoredBehind
<1>4. CASE UNCHANGED Mem!vars
  BY <1>4 DEF Mem!vars, Mem!MemoryInv, Mem!TypeOK, Mem!StoredBehind
<1> QED
  BY <1>1, <1>2, <1>3, <1>4 DEF Mem!Next

\* The bucket stays well-typed, and its window behind the clock until that is
\* set back.
THEOREM MemoryInvariant == Mem!Spec => []Mem!MemoryInv
BY MemoryInit, MemoryNext, PTL DEF Mem!Spec

LEMMA MemoryInitRefines == Mem!Init => Mem!Quota!Init
BY WindowAssumption
   DEF Mem!Init, Mem!Quota!Init, Mem!Used, Mem!Quota!NoDecision, Mem!NoDecision,
       Mem!Quota!NoAdmissions, Mem!NoAdmissions

\* Every step, until the clock is set back, is a step of the quota.
LEMMA MemoryNextRefines ==
  ASSUME Mem!MemoryInv, [Mem!Next]_(Mem!vars), steps' = 0
  PROVE  steps = 0 /\ [Mem!Quota!Next]_(Mem!Quota!vars)
<1>1. CASE UNCHANGED Mem!vars
  BY <1>1 DEF Mem!vars, Mem!Quota!vars, Mem!Used
<1>2. CASE Mem!step
  BY <1>2, MemoryStepRefines DEF Mem!step, Mem!Quota!Next
<1>3. CASE Mem!Tick
  BY <1>3, MemoryTickRefines DEF Mem!Tick, Mem!Quota!Next
<1>4. CASE Mem!StepBack
  BY <1>4 DEF Mem!StepBack, Mem!MemoryInv, Mem!TypeOK
<1> QED
  BY <1>1, <1>2, <1>3, <1>4 DEF Mem!Next

\* The in-memory fixed_window (fixed_window.go:19-50) makes the decisions of
\* the abstract quota until the clock is set back.
THEOREM MemoryImplementsQuota == Mem!Spec => Mem!ImplementsQuota
<1>1. Mem!MemoryInv /\ [Mem!Next]_(Mem!vars) => [steps' = 0 => Mem!Quota!Next]_(Mem!Quota!vars)
  BY MemoryNextRefines
<1> QED
  BY <1>1, MemoryInitRefines, MemoryInvariant, PTL DEF Mem!Spec, Mem!ImplementsQuota

\* So the in-memory limiter keeps the quota's promises till then: at most
\* 2*Rate admissions in any stretch as long as a window, an exact Reset, an
\* exact Remaining.
THEOREM MemoryKeepsPromises == Mem!Spec => []Mem!KeepsPromises
<1> DEFINE Inv == steps = 0 => MemQuota!QuotaInv
<1>1. Mem!Init => Inv
  <2>1. Mem!Quota!Init => MemQuota!Init
    BY DEF Mem!Quota!Init, MemQuota!Init, Mem!Quota!NoDecision, MemQuota!NoDecision,
           Mem!Quota!NoAdmissions, MemQuota!NoAdmissions
  <2> QED
    BY <2>1, MemoryInitRefines, MemQuota!QuotaInit, WindowAssumption, ZeroTimeAssumption
<1>2. Mem!MemoryInv /\ Inv /\ [Mem!Next]_(Mem!vars) => Inv'
  <2> SUFFICES ASSUME Mem!MemoryInv, Inv, [Mem!Next]_(Mem!vars), steps' = 0
               PROVE  MemQuota!QuotaInv'
    OBVIOUS
  <2>1. steps = 0 /\ [Mem!Quota!Next]_(Mem!Quota!vars)
    BY MemoryNextRefines
  <2>2. [Mem!Quota!Next]_(Mem!Quota!vars) => [MemQuota!Next]_(MemQuota!vars)
    BY
       DEF Mem!Quota!Next, Mem!Quota!Allow, Mem!Quota!Deny, Mem!Quota!Tick, Mem!Quota!vars,
           Mem!Quota!Grid,
           Mem!Quota!Remember, Mem!Quota!GrowOlder,
           MemQuota!Next, MemQuota!Allow, MemQuota!Deny, MemQuota!Tick,
           MemQuota!vars, MemQuota!Grid, MemQuota!Remember, MemQuota!GrowOlder
  <2> QED
    BY <2>1, <2>2, MemQuota!QuotaNext, WindowAssumption, ZeroTimeAssumption
<1>3. Inv => Mem!KeepsPromises
  <2>1. MemQuota!QuotaInv
          => MemQuota!TwiceRate /\ MemQuota!RetryExact /\ MemQuota!RemainingExact
    BY MemQuota!QuotaPromises, WindowAssumption, ZeroTimeAssumption
  <2> QED
    BY <2>1 DEF Mem!KeepsPromises, MemQuota!TwiceRate, MemQuota!RetryExact,
                MemQuota!RemainingExact, Mem!Quota!TwiceRate, Mem!Quota!RetryExact,
                Mem!Quota!RemainingExact
<1> QED
  BY <1>1, <1>2, <1>3, MemoryInvariant, PTL DEF Mem!Spec

-------------------------------------------------------------------------------
(* The two side by side. *)

\* With one grid for both.
LEMMA SameGrid ==
  ASSUME GridsCoincide, NEW t \in Nat
  PROVE  Mem!Grid(t) = Grid(t)
<1> DEFINE r == t % Window
           q == t \div Window
           z == ZeroTime \div Window
<1>1. /\ r \in 0 .. Window - 1 /\ q \in Int /\ t = Window * q + r
      /\ z \in Int /\ ZeroTime = Window * z + 0
  BY DivMod, WindowAssumption, ZeroTimeAssumption DEF GridsCoincide
<1>2. Grid(t) = t - r
  BY EpochGrid
<1> HIDE DEF r, q, z
<1>3. q + z \in Int /\ t + ZeroTime \in Int /\ Window * (q + z) = Window * q + Window * z
  BY <1>1, WindowAssumption, ZeroTimeAssumption
<1>4. t + ZeroTime = Window * (q + z) + r
  <2> DEFINE a == Window * q
             b == Window * z
             c == Window * (q + z)
  <2>1. a \in Int /\ b \in Int /\ c = a + b /\ t = a + r /\ ZeroTime = b
    BY <1>1, <1>3, WindowAssumption
  <2> HIDE DEF a, b, c
  <2>2. t + ZeroTime = c + r
    BY <1>1, <2>1, WindowAssumption
  <2> QED
    BY <2>2 DEF c
<1>5. (t + ZeroTime) % Window = r
  BY <1>1, <1>3, <1>4, QuotaP!ModUnique, WindowAssumption
<1> QED
  BY <1>2, <1>5 DEF Mem!Grid

\* The count that each backend decides from.
Agree ==
  GridsCoincide /\ steps = 0 => Used = Mem!Used /\ decision = memDecision /\ ages = memAges

BothInv == StoredInv /\ Mem!MemoryInv /\ Agree

LEMMA AgreeInit == BothInit => BothInv
<1> SUFFICES ASSUME BothInit
             PROVE  BothInv
  OBVIOUS
<1>1. StoredInv /\ Mem!MemoryInv
  BY StoredInit, MemoryInit, WindowAssumption DEF BothInit
<1>2. Used = 0 /\ decision = NoDecision /\ ages = NoAdmissions
  BY DEF BothInit, Init, Used, Adopts, Absent
<1>3. Mem!Used = 0 /\ memDecision = NoDecision /\ memAges = NoAdmissions
  BY DEF BothInit, Mem!Init, Mem!Used, Mem!NoDecision, NoDecision,
                    Mem!NoAdmissions, NoAdmissions
<1> QED
  BY <1>1, <1>2, <1>3 DEF BothInv, Agree

\* Both backends are asked.
LEMMA AgreeAsk ==
  ASSUME BothInv, script, Mem!step, steps = 0, GridsCoincide
  PROVE  Used' = Mem!Used' /\ decision' = memDecision' /\ ages' = memAges'
<1> USE WindowAssumption
<1>1. /\ Used = Mem!Used /\ ages = memAges /\ Used \in 0 .. Rate /\ Ws = Grid(now)
      /\ Grid(now) \in Nat /\ Mem!Grid(now) = Grid(now)
  BY ScriptReads, SameGrid DEF BothInv, Agree
<1>2. /\ Mem!Refreshed.count = Used
      /\ Mem!Used' = IF Used < Rate THEN Used + 1 ELSE Used
  BY <1>1, MemoryStepEffect DEF BothInv
<1>3. CASE Used < Rate
  <2>1. /\ key'.exists = TRUE /\ key'.ws = Grid(now) /\ key'.count = Used + 1 /\ now' = now
        /\ decision' = [allowed |-> TRUE, remaining |-> Rate - Used - 1,
                        reset |-> Grid(now) + Window, retry |-> 0]
        /\ ages' = Remember(ages, TRUE)
    BY <1>1, <1>3, ScriptAllows DEF BothInv
  <2>2. Used' = Used + 1
    BY <1>1, <2>1 DEF Used, Adopts
  <2>3. Mem!HasRoom(Mem!Refreshed.count) = TRUE
    BY <1>1, <1>2, <1>3 DEF Mem!HasRoom
  <2>4. memDecision' = MakeDecision(TRUE, Used + 1, Grid(now), now)
    BY <1>1, <1>2, <2>3 DEF Mem!step, Mem!MakeDecision, MakeDecision
  <2>5. memAges' = Remember(ages, TRUE)
    BY <1>1, <2>3 DEF Mem!step, Mem!Remember, Remember
  <2> QED
    BY <1>1, <1>2, <1>3, <2>1, <2>2, <2>4, <2>5, DecisionAllowed
<1>4. CASE Used = Rate
  <2>1. /\ key' = key /\ now' = now /\ ages' = ages
        /\ decision' = [allowed |-> FALSE, remaining |-> 0,
                        reset |-> Grid(now) + Window, retry |-> Grid(now) + Window - now]
    BY <1>1, <1>4, ScriptDenies DEF BothInv
  <2>2. Used' = Used
    BY <2>1 DEF Used, Adopts
  <2>3. Mem!HasRoom(Mem!Refreshed.count) = FALSE
    BY <1>1, <1>2, <1>4 DEF Mem!HasRoom
  <2>4. memDecision' = MakeDecision(FALSE, Rate, Grid(now), now)
    BY <1>1, <1>2, <1>4, <2>3 DEF Mem!step, Mem!MakeDecision, MakeDecision
  <2>5. memAges' = ages
    BY <1>1, <2>3 DEF Mem!step, Mem!Remember
  <2>6. decision' = memDecision'
    BY <2>1, <2>4, DecisionDenied
  <2>7. Mem!Used' = Used
    BY <1>1, <1>2, <1>4
  <2> QED
    BY <2>1, <2>2, <2>5, <2>6, <2>7
<1> QED
  BY <1>1, <1>3, <1>4

\* Both forget their counts at the same tick, the end of the window.
LEMMA AgreeTick ==
  ASSUME BothInv, Tick, Mem!Tick, steps = 0, GridsCoincide
  PROVE  Used' = Mem!Used' /\ decision' = memDecision' /\ ages' = memAges'
<1>1. /\ Used = Mem!Used /\ decision = memDecision /\ ages = memAges
      /\ now \in Nat /\ Grid(now) \in Nat /\ now' = now + 1 /\ bucket' = bucket
      /\ bucket.windowStart \in Int /\ bucket.windowStart <= Mem!Grid(now)
  BY ScriptReads, WindowAssumption, ZeroTimeAssumption
     DEF BothInv, Agree, Tick, Mem!Tick, Mem!MemoryInv, Mem!TypeOK, Mem!StoredBehind
<1>g. now + 1 \in Nat /\ Mem!Grid(now) = Grid(now) /\ Mem!Grid(now + 1) = Grid(now + 1)
  BY <1>1, SameGrid
<1>2. Used' = IF Grid(now + 1) = Grid(now) THEN Used ELSE 0
  BY TickRefines DEF BothInv, Quota!Tick, Quota!Grid, Grid
<1>3. Mem!Used' = IF Grid(now + 1) = Grid(now) THEN Mem!Used ELSE 0
  <2>1. Mem!Used = (IF bucket.windowStart = Grid(now) THEN bucket.count ELSE 0)
    BY <1>g DEF Mem!Used
  <2>2. Mem!Used' = (IF bucket.windowStart = Grid(now + 1) THEN bucket.count ELSE 0)
    BY <1>1, <1>g DEF Mem!Used
  <2> QED
    BY <1>1, <1>g, <2>1, <2>2, GridNext, WindowAssumption
<1>4. decision' = decision /\ memDecision' = memDecision
  BY DEF Tick, Mem!Tick
<1>5. ages' = GrowOlder(ages) /\ memAges' = GrowOlder(memAges)
  BY DEF Tick, Mem!Tick, Mem!GrowOlder, GrowOlder
<1> QED
  BY <1>1, <1>2, <1>3, <1>4, <1>5

LEMMA AgreeNext == BothInv /\ [BothNext]_<<vars, bucket, memDecision, memAges>> => BothInv'
<1> SUFFICES ASSUME BothInv, [BothNext]_<<vars, bucket, memDecision, memAges>>
             PROVE  BothInv'
  OBVIOUS
<1>1. CASE Ask
  <2>1. script /\ Mem!step
    BY <1>1 DEF Ask
  <2>2. StoredInv' /\ Mem!MemoryInv'
    BY <2>1, StoredNext, MemoryNext, WindowAssumption DEF BothInv, Next, Mem!Next
  <2>3. steps' = steps
    BY <2>1 DEF script
  <2> QED
    BY <2>1, <2>2, <2>3, AgreeAsk DEF BothInv, Agree, GridsCoincide
<1>2. CASE BothTick
  <2>1. Tick /\ Mem!Tick
    BY <1>2 DEF BothTick
  <2>2. StoredInv' /\ Mem!MemoryInv'
    BY <2>1, StoredNext, MemoryNext, WindowAssumption DEF BothInv, Next, Mem!Next
  <2>3. steps' = steps
    BY <2>1 DEF Tick
  <2> QED
    BY <2>1, <2>2, <2>3, AgreeTick DEF BothInv, Agree, GridsCoincide
<1>3. CASE BothStepBack
  <2>1. StepBack /\ Mem!StepBack
    BY <1>3 DEF BothStepBack
  <2>2. StoredInv' /\ Mem!MemoryInv'
    BY <2>1, StoredNext, MemoryNext, WindowAssumption DEF BothInv, Next, Mem!Next
  <2>3. steps' # 0
    BY <2>1, WindowAssumption DEF StepBack, BothInv, StoredInv, TypeOK
  <2> QED
    BY <2>2, <2>3 DEF BothInv, Agree
<1>4. CASE RedisExpires
  <2>1. StoredInv' /\ Used' = Used /\ decision' = decision /\ ages' = ages
    BY <1>4, StoredNext, ExpireRefines DEF RedisExpires, BothInv, Next
  <2>2. UNCHANGED <<now, steps, bucket, memDecision, memAges>>
    BY <1>4 DEF RedisExpires, Expire
  <2>3. Mem!MemoryInv' /\ Mem!Used' = Mem!Used
    BY <2>2, MemoryNext, WindowAssumption DEF BothInv, Mem!vars, Mem!Used, Mem!Grid
  <2> QED
    BY <2>1, <2>2, <2>3 DEF BothInv, Agree, GridsCoincide
<1>5. CASE UNCHANGED <<vars, bucket, memDecision, memAges>>
  <2>1. StoredInv' /\ Mem!MemoryInv'
    BY <1>5, StoredNext, MemoryNext, WindowAssumption DEF BothInv, vars, Mem!vars
  <2>2. Agree'
    BY <1>5 DEF BothInv, Agree, GridsCoincide, vars, Used, Adopts, Mem!Used, Mem!Grid, Grid
  <2> QED
    BY <2>1, <2>2 DEF BothInv
<1> QED
  BY <1>1, <1>2, <1>3, <1>4, <1>5 DEF BothNext

\* The redis script and the in-memory bucket (fixed_window.lua:16-54,
\* fixed_window.go:19-50), asked the same requests, give the same verdicts and
\* headers until the clock is set back, whatever redis lets expire, if the
\* window divides the time from Go's zero time to the Unix epoch.
THEOREM BackendsAgree == BothSpec => []SameAnswers
<1>1. BothInv => SameAnswers
  BY DEF BothInv, Agree, SameAnswers
<1> QED
  BY <1>1, AgreeInit, AgreeNext, PTL DEF BothSpec
================================================================================
