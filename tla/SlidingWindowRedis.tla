--------------------------- MODULE SlidingWindowRedis ---------------------------
(***************************************************************************)
(* The redis sliding_window script (internal/limiter/scripts/              *)
(* sliding_window.lua) for one key.  Redis runs a script atomically, and   *)
(* the script reads the server's TIME; StepBack is that clock being set    *)
(* back.                                                                   *)
(*                                                                         *)
(* Redis keeps expiry times in whole milliseconds: PEXPIRE adds to the     *)
(* truncated clock, and a key is gone once the truncated clock is past its *)
(* expiry time.  Milli is a millisecond in ticks of the script's clock.    *)
(***************************************************************************)
EXTENDS SlidingWindow, FiniteSets, FiniteSetsExt

CONSTANTS
  Milli,    \* clock ticks in a millisecond
  MaxSteps  \* how often the clock is set back

ASSUME RedisAssumption == Milli \in Nat \ {0} /\ MaxSteps \in Nat

VARIABLES
  now,      \* redis TIME
  zset,     \* the log: members with a score and the nonce in their name
  expireAt, \* the expiry time of the log's key, in milliseconds
  decision, \* the last Decision
  since,    \* history: how long ago it was made in real time, up to Window
  ages,     \* history: when the last requests were allowed, in real time
  steps,    \* how often the clock has been set back
  back      \* history: how far in all

vars == <<now, zset, expireAt, decision, since, ages, steps, back>>

\* Nonces are told apart only while their entries are in the log.
Nonces == 1 .. Rate

TypeOK ==
  /\ now \in 0 .. MaxTime
  /\ zset \subseteq [score : 0 .. MaxTime, nonce : Nonces]
  /\ expireAt \in Nat
  /\ decision \in Decisions
  /\ since \in 0 .. Window
  /\ ages \in Ages
  /\ steps \in 0 .. MaxSteps
  /\ back \in Nat

Init ==
  /\ now \in 0 .. MaxTime
  /\ zset = {}
  /\ expireAt = 0
  /\ decision = NoDecision
  /\ since = 0
  /\ ages = NoAdmissions
  /\ steps = 0
  /\ back = 0

\* math.ceil(t / 1000)
CeilMilli(t) == (t + Milli - 1) \div Milli

mut_NewNonce(entries) == 1

\* A nonce that no entry has: rand.Uint64 does not repeat one in practice.
NewNonce(entries) == CHOOSE n \in Nonces : \A m \in entries : m.nonce # n

\* ZREMRANGEBYSCORE: an entry exactly Window old no longer counts.
Trimmed == {m \in zset : m.score > now - Window}

mut_Expiry == IF Trimmed = {} THEN (now \div Milli) + CeilMilli(Window) ELSE expireAt

\* PEXPIRE, on denials too.
Expiry == (now \div Milli) + CeilMilli(Window)

Scores(entries) == {m.score : m \in entries}

mut_RetryOf(entries) == Max(Scores(entries)) + Window - now

\* The oldest entry frees the next place.
RetryOf(entries) == Min(Scores(entries)) + Window - now

script ==
  LET allowed == HasRoom(Cardinality(Trimmed))
      count == Cardinality(Trimmed) + (IF allowed THEN 1 ELSE 0)
      new == IF allowed THEN Trimmed \cup {[score |-> now, nonce |-> NewNonce(Trimmed)]}
             ELSE Trimmed
  IN  /\ zset' = new
      /\ expireAt' = Expiry
      /\ decision' = [allowed |-> allowed,
                      remaining |-> RemainingOf(count),
                      reset |-> IF new # {} THEN Max(Scores(new)) + Window ELSE now,
                      retry |-> IF ~allowed /\ new # {} THEN RetryOf(new) ELSE 0]
      /\ since' = 0
      /\ ages' = Remember(ages, allowed)
      /\ UNCHANGED <<now, steps, back>>

\* Redis drops a key past its expiry time.
Expire ==
  /\ zset # {}
  /\ now \div Milli > expireAt
  /\ zset' = {}
  /\ UNCHANGED <<now, expireAt, decision, since, ages, steps, back>>

Tick ==
  /\ now < MaxTime
  /\ now' = now + 1
  /\ since' = Older(since)
  /\ ages' = GrowOlder(ages)
  /\ UNCHANGED <<zset, expireAt, decision, steps, back>>

\* The server's clock is set back.
StepBack ==
  /\ steps < MaxSteps
  /\ now' \in 0 .. now - 1
  /\ steps' = steps + 1
  /\ back' = back + now - now'
  /\ UNCHANGED <<zset, expireAt, decision, since, ages>>

Next == script \/ Expire \/ Tick \/ StepBack

Spec == Init /\ [][Next]_vars

-------------------------------------------------------------------------------
Quota == INSTANCE SlidingQuota

\* Until the clock is set back the script implements the quota: neither trimming, nor the expiry in whole
\* milliseconds, nor two requests of the same microsecond lose an entry that
\* still counts (sliding_window.lua:14-49).
ImplementsQuota == Quota!Init /\ [][steps' = 0 => Quota!Next]_(Quota!vars)

\* sliding_window.lua:11-12: "A backward step never over-admits - future-scored
\* entries still count against rate".
RateInAnyWindow == Quota!RateInAnyWindow

\* sliding_window.lua:12-13: a backward step "only inflates Reset/RetryAfter by
\* at most the step".
InflationBounded ==
  [][script =>
       /\ ~decision'.allowed => decision'.retry <= Window - ages'[Rate] + back
       /\ decision'.reset - now <= Window - ages'[1] + back]_vars

-------------------------------------------------------------------------------
\* The newest admission comes first.
AgesSorted == \A i, j \in 1 .. Rate + 1 : i <= j => ages[i] <= ages[j]

\* The last k admissions are in the log as long as they count, by a clock that
\* may have been set back since.
AdmissionsLogged ==
  \A k \in 1 .. Rate + 1 :
    ages[k] < Window => Cardinality({m \in zset : m.score >= now - ages[k]}) >= k

\* And no others: fewer than k entries are later, in real time, than the k-th
\* admission.
EntriesAdmitted ==
  \A k \in 1 .. Rate + 1 : Cardinality({m \in zset : m.score > (now + back) - ages[k]}) < k

\* The log holds no more than the rate.
LogBounded == Cardinality(zset) <= Rate

\* The log's key lives as long as its newest entry counts.
ExpiryCoversLog == ages[1] < Window => now + Window - ages[1] <= (expireAt + 1) * Milli

\* The inductive invariant behind the promises.
LogInv ==
  /\ TypeOK /\ (steps = 0 => back = 0)
  /\ AgesSorted /\ AdmissionsLogged /\ EntriesAdmitted /\ LogBounded /\ ExpiryCoversLog
================================================================================
