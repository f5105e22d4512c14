-------------------------- MODULE RateLimitProofs --------------------------
(***************************************************************************)
(* Theorems about RateLimit, for any number of callers, any messages, any  *)
(* limits, both stores and any delay of the calls of Redis.                *)
(***************************************************************************)
EXTENDS RateLimit, TLAPS, SequenceTheorems, FiniteSetTheorems

(* The limits for which the clause of TokenBucket speaks of bucket k. *)
Bounded(k) == Memory \/ Full(k) <= Rate(k) * (2 * Window - MaxLag)

(* With units left at time t, the takes of bucket k since any of them fit  *)
(* into one burst and the refill since then.                               *)
Covered(k, units, t) ==
  \A i \in DOMAIN granted[k] :
    (Len(granted[k]) - i + 1) * Window + units
      <= Full(k) + Rate(k) * (t - granted[k][i])

TypeOK ==
  /\ cfg \in Configs
  /\ now \in 0..MaxTime
  /\ stored \subseteq Bucket
  /\ tokens \in [Bucket -> Int]
  /\ last \in [Bucket -> 0..MaxTime]
  /\ written \in [Bucket -> 0..MaxTime]
  /\ msg \in [Caller -> Message \cup {NoMessage}]
  /\ rest \in [Caller -> Seq(Bucket)]
  /\ at \in [Caller -> 0..MaxTime \cup {NoTime}]
  /\ granted \in [Bucket -> Seq(0..MaxTime)]

(* A time that was sent to Redis is at most MaxLag old. *)
LagInv ==
  \A c \in Caller : at[c] # NoTime => now - MaxLag <= at[c] /\ at[c] <= now

(* A stored bucket is never above its burst.  A script that runs late may  *)
(* leave it with a debt, which the refill up to its write has paid.        *)
LevelInv ==
  \A k \in stored :
    /\ tokens[k] <= Full(k)
    /\ last[k] <= written[k] /\ written[k] <= now
    /\ tokens[k] + Rate(k) * (written[k] - last[k]) >= 0

(* What a bucket holds is covered.  One that the memory store has removed  *)
(* would have been full again; Redis keeps every bucket that it granted.   *)
PaidInv ==
  \A k \in Bucket :
    /\ k \in stored /\ Bounded(k) => Covered(k, tokens[k], last[k])
    /\ k \notin stored /\ Memory => Covered(k, Full(k), now)
    /\ k \notin stored /\ ~Memory => granted[k] = <<>>

IInv == TypeOK /\ LagInv /\ LevelInv /\ PaidInv /\ TokenBucket

-----------------------------------------------------------------------------
(* Arithmetic *)

LEMMA Adjacent ==
  ASSUME NEW r \in Int, NEW a \in Int, NEW b \in Int, NEW c \in Int
  PROVE  r * (a - b) + r * (b - c) = r * (a - c)
OBVIOUS

LEMMA Product == \A a, b \in Int : a * b \in Int
OBVIOUS

LEMMA Monotone ==
  ASSUME NEW r \in Nat, NEW a \in Int, NEW b \in Int, a <= b
  PROVE  r * a <= r * b
<1>1. r * (b - a) \in Nat
  OBVIOUS
<1>2. r * (b - a) = r * b - r * a
  OBVIOUS
<1> QED
  BY <1>1, <1>2

-----------------------------------------------------------------------------
(* Limits and buckets *)

LEMMA Bounds ==
  /\ Window \in Nat \ {0} /\ CleanupInterval \in Nat \ {0}
  /\ MaxLag \in Nat /\ MaxTime \in Nat
  /\ NoTime \notin 0..MaxTime /\ NoMessage \notin Message
BY LimitAssumption

LEMMA LevelType == \A k : Level(k) \in Levels
BY DEF Level, Levels

LEMMA LimitTypes ==
  ASSUME cfg \in Configs, NEW k
  PROVE  /\ Rate(k) \in Nat /\ Full(k) \in Nat
         /\ Rate(k) * (2 * Window - MaxLag) \in Int
<1>1. Level(k) \in Levels
  BY LevelType
<1>2. cfg.requests[Level(k)] \in Nat /\ cfg.burst[Level(k)] \in Nat
  BY <1>1, LimitAssumption
<1>3. EffectiveBurst(Level(k)) \in Nat
  BY <1>2 DEF EffectiveBurst
<1> QED
  BY <1>2, <1>3, LimitAssumption DEF Rate, Full

LEMMA ChecksType == ASSUME NEW m \in Message PROVE BuildLimitChecks(m) \in Seq(Bucket)
<1>1. /\ m \in Bucket /\ UserKey(m) \in Bucket /\ TenantKey(m) \in Bucket
      /\ GlobalKey \in Bucket
  BY DEF Bucket
<1>2. ASSUME NEW k \in Bucket, NEW b PROVE Check(b, k) \in Seq(Bucket)
  BY DEF Check
<1> HIDE DEF Bucket
<1> QED
  BY <1>1, <1>2, ConcatProperties DEF BuildLimitChecks

LEMMA LimitsKept ==
  ASSUME UNCHANGED cfg, NEW k
  PROVE  /\ Full(k)' = Full(k) /\ Rate(k)' = Rate(k)
         /\ Memory' = Memory /\ Bounded(k)' = Bounded(k)
<1>1. EffectiveBurst(Level(k))' = EffectiveBurst(Level(k))
  BY DEF EffectiveBurst, Level
<1>2. Full(k)' = Full(k) /\ Rate(k)' = Rate(k)
  BY <1>1 DEF Full, Rate, Level
<1> QED
  BY <1>2 DEF Memory, Bounded

-----------------------------------------------------------------------------
(* A take *)

(* The times at which a bucket may be refilled now. *)
Timely(t) == /\ t \in 0..MaxTime /\ now - MaxLag <= t /\ t <= now
             /\ Memory => t = now

LEMMA ClockTimely ==
  ASSUME IInv, NEW c \in Caller, Called(c)
  PROVE  Timely(Clock(c)) /\ Head(rest[c]) \in Bucket
<1>1. Head(rest[c]) \in Bucket
  BY HeadTailProperties DEF IInv, TypeOK, Called
<1>2. Timely(Clock(c))
  BY Bounds DEF IInv, TypeOK, LagInv, Called, Timely, Clock
<1> QED
  BY <1>1, <1>2

(* The refilled level is at most the burst; a debt is less than what is    *)
(* refilled between the time of the script and now.                        *)
LEMMA RefillLevel ==
  ASSUME IInv, NEW k \in Bucket, NEW t, Timely(t)
  PROVE  /\ Refilled(k, t) \in Int /\ Refilled(k, t) <= Full(k)
         /\ Refilled(k, t) + Rate(k) * (now - t) >= 0
<1> DEFINE r == Rate(k)
           sum == tokens[k] + r * (t - last[k])
<1>1. /\ r \in Nat /\ Full(k) \in Nat /\ t \in Int /\ now \in Int
      /\ tokens[k] \in Int /\ last[k] \in Int /\ written[k] \in Int
      /\ t <= now
  BY LimitTypes DEF IInv, TypeOK, Timely
<1> HIDE DEF r
<1>2. sum \in Int
  BY <1>1
<1>3. r * (now - t) \in Nat
  BY <1>1
<1>4. CASE Exists(k)
  <2>1. tokens[k] + r * (written[k] - last[k]) >= 0 /\ written[k] <= now
    BY <1>4 DEF IInv, LevelInv, Exists, r
  <2>2. r * (written[k] - last[k]) <= r * (now - last[k])
    BY <1>1, <2>1, Monotone
  <2>3. r * (now - t) + r * (t - last[k]) = r * (now - last[k])
    BY <1>1, Adjacent
  <2>4. /\ r * (written[k] - last[k]) \in Int /\ r * (now - last[k]) \in Int
        /\ r * (t - last[k]) \in Int
    BY <1>1
  <2>5. sum + r * (now - t) >= 0
    BY <1>1, <1>3, <2>1, <2>2, <2>3, <2>4
  <2>6. Refilled(k, t) = IF sum < Full(k) THEN sum ELSE Full(k)
    BY <1>4 DEF Refilled, r
  <2> HIDE DEF sum
  <2> QED
    BY <1>1, <1>2, <1>3, <2>5, <2>6 DEF r
<1>5. CASE ~Exists(k)
  BY <1>1, <1>3, <1>5 DEF Refilled, r
<1> QED
  BY <1>4, <1>5

(* A bucket that is refilled to time t is covered, whether it was stored,  *)
(* removed when it was full again, or has expired after two windows.       *)
LEMMA RefillCovered ==
  ASSUME IInv, NEW k \in Bucket, NEW t, Timely(t), Bounded(k)
  PROVE  Covered(k, Refilled(k, t), t)
<1> DEFINE r == Rate(k)
           n == Len(granted[k])
<1>1. /\ r \in Nat /\ Full(k) \in Nat /\ t \in Int /\ now \in Int
      /\ tokens[k] \in Int /\ last[k] \in Int /\ written[k] \in Int
      /\ t <= now /\ now - MaxLag <= t /\ (Memory => t = now)
      /\ Window \in Nat /\ MaxLag \in Nat
  BY LimitTypes, Bounds DEF IInv, TypeOK, Timely
<1>2. n \in Nat /\ DOMAIN granted[k] = 1..n
  BY DEF IInv, TypeOK
<1>3. \A i \in 1..n : granted[k][i] \in Int
  <2>1. granted[k] \in Seq(0..MaxTime)
    BY DEF IInv, TypeOK
  <2>2. \A i \in 1..n : granted[k][i] \in 0..MaxTime
    BY <2>1, ElementOfSeq
  <2> QED
    BY <2>2, Bounds
<1> HIDE DEF r, n
<1> SUFFICES ASSUME NEW i \in 1..n
             PROVE  (n - i + 1) * Window + Refilled(k, t)
                      <= Full(k) + r * (t - granted[k][i])
  BY <1>2 DEF Covered, r, n
<1> DEFINE g == granted[k][i]
           own == (n - i + 1) * Window
<1>4. own \in Int /\ g \in Int
  BY <1>1, <1>2, <1>3
<1> HIDE DEF own, g
<1>5. \A a, b \in Int : r * (a - b) \in Int
  BY <1>1
<1>6. CASE Exists(k)
  <2>1. own + tokens[k] <= Full(k) + r * (last[k] - g)
    BY <1>2, <1>6 DEF IInv, PaidInv, Exists, Covered, own, g, r, n
  <2>2. r * (t - last[k]) + r * (last[k] - g) = r * (t - g)
    BY <1>1, <1>4, Adjacent
  <2>3. Refilled(k, t) <= tokens[k] + r * (t - last[k])
    <3>1. tokens[k] + r * (t - last[k]) \in Int
      BY <1>1, <1>5
    <3> QED
      BY <1>1, <1>6, <3>1 DEF Refilled, r
  <2>4. own + Refilled(k, t) <= Full(k) + r * (t - g)
    <3>1. Refilled(k, t) \in Int
      BY RefillLevel
    <3> QED
      BY <3>1, <1>1, <1>4, <1>5, <2>1, <2>2, <2>3
  <2> QED
    BY <2>4 DEF own, g
<1>7. CASE ~Exists(k) /\ Memory
  <2>1. Covered(k, Full(k), now)
    BY <1>7 DEF IInv, PaidInv, Exists
  <2> QED
    BY <1>1, <1>2, <1>7, <2>1 DEF Covered, Refilled, r, n
<1>8. CASE ~Exists(k) /\ ~Memory /\ k \in stored
  <2>1. now >= written[k] + 2 * Window
    BY <1>1, <1>8 DEF Exists
  <2>2. own + tokens[k] <= Full(k) + r * (last[k] - g)
    BY <1>2, <1>8 DEF IInv, PaidInv, Covered, own, g, r, n
  <2>3. tokens[k] + r * (written[k] - last[k]) >= 0
    BY <1>8 DEF IInv, LevelInv, r
  <2>4. Full(k) <= r * (2 * Window - MaxLag)
    BY <1>8 DEF Bounded, r
  <2>5. r * (written[k] - last[k]) + r * (last[k] - g) = r * (written[k] - g)
    BY <1>1, <1>4, Adjacent
  <2>6. r * (written[k] - g) + r * (2 * Window - MaxLag) <= r * (t - g)
    <3>1. (written[k] - g) + (2 * Window - MaxLag) <= t - g
      BY <1>1, <1>4, <2>1
    <3>2. r * ((written[k] - g) + (2 * Window - MaxLag)) <= r * (t - g)
      BY <1>1, <1>4, <3>1, Monotone
    <3>3. ASSUME NEW a \in Int, NEW b \in Int
          PROVE  r * (a + b) = r * a + r * b
      BY <1>1
    <3> QED
      BY <1>1, <1>4, <3>2, <3>3
  <2>7. own <= r * (t - g)
    <3> DEFINE debt == r * (written[k] - last[k])
               before == r * (last[k] - g)
               since == r * (written[k] - g)
               idle == r * (2 * Window - MaxLag)
               all == r * (t - g)
    <3>1. /\ debt \in Int /\ before \in Int /\ since \in Int /\ idle \in Int
          /\ all \in Int
      BY <1>1, <1>4, <1>5
    <3>2. /\ own + tokens[k] <= Full(k) + before /\ tokens[k] + debt >= 0
          /\ Full(k) <= idle /\ debt + before = since /\ since + idle <= all
      BY <2>2, <2>3, <2>4, <2>5, <2>6
    <3> HIDE DEF debt, before, since, idle, all
    <3>3. own <= all
      BY <1>1, <1>4, <3>1, <3>2
    <3> QED
      BY <3>3 DEF all
  <2>8. Refilled(k, t) = Full(k)
    BY <1>8 DEF Refilled
  <2>9. own + Full(k) <= Full(k) + r * (t - g)
    BY <1>1, <1>4, <1>5, <2>7
  <2> QED
    BY <2>8, <2>9 DEF own, g
<1>9. CASE ~Exists(k) /\ ~Memory /\ k \notin stored
  BY <1>2, <1>9 DEF IInv, PaidInv, n
<1> QED
  BY <1>6, <1>7, <1>8, <1>9

(* What a take does to the bucket that it writes. *)
LEMMA PutLevel ==
  ASSUME IInv, UNCHANGED <<cfg, now>>, NEW k \in Bucket, NEW t, Timely(t),
         NEW units \in Int, Put(k, t, units), units <= Full(k),
         units + Rate(k) * (now - t) >= 0
  PROVE  /\ stored' \subseteq Bucket
         /\ tokens' \in [Bucket -> Int]
         /\ last' \in [Bucket -> 0..MaxTime]
         /\ written' \in [Bucket -> 0..MaxTime]
         /\ LevelInv'
<1>1. /\ stored' = stored \cup {k}
      /\ tokens' = [tokens EXCEPT ![k] = units]
      /\ last' = [last EXCEPT ![k] = t]
      /\ written' = [written EXCEPT ![k] = now]
  BY DEF Put
<1>2. /\ stored \subseteq Bucket /\ tokens \in [Bucket -> Int]
      /\ last \in [Bucket -> 0..MaxTime] /\ written \in [Bucket -> 0..MaxTime]
      /\ now \in 0..MaxTime /\ t \in 0..MaxTime /\ t <= now
  BY DEF IInv, TypeOK, Timely
<1>3. ASSUME NEW j \in stored'
      PROVE  /\ tokens'[j] <= Full(j)'
             /\ last'[j] <= written'[j] /\ written'[j] <= now'
             /\ tokens'[j] + Rate(j)' * (written'[j] - last'[j]) >= 0
  <2>1. Full(j)' = Full(j) /\ Rate(j)' = Rate(j)
    BY LimitsKept
  <2>2. CASE j = k
    BY <1>1, <1>2, <2>1, <2>2
  <2>3. CASE j # k
    <3>1. /\ j \in stored /\ tokens'[j] = tokens[j] /\ last'[j] = last[j]
          /\ written'[j] = written[j]
      BY <1>1, <1>2, <1>3, <2>3
    <3> QED
      BY <2>1, <3>1 DEF IInv, LevelInv
  <2> QED
    BY <2>2, <2>3
<1> QED
  BY <1>1, <1>2, <1>3 DEF LevelInv

LEMMA PutOthers ==
  ASSUME IInv, UNCHANGED <<cfg, now>>, NEW k \in Bucket, NEW t,
         NEW units, Put(k, t, units), NEW j \in Bucket, j # k,
         granted'[j] = granted[j]
  PROVE  /\ j \in stored' /\ Bounded(j)' => Covered(j, tokens[j], last[j])'
         /\ j \notin stored' /\ Memory' => Covered(j, Full(j), now)'
         /\ j \notin stored' /\ ~Memory' => granted'[j] = <<>>
         /\ Bounded(j)' => Conforms(j)'
<1>1. /\ j \in stored' <=> j \in stored
      /\ tokens'[j] = tokens[j] /\ last'[j] = last[j]
  BY DEF Put, IInv, TypeOK
<1>2. /\ Full(j)' = Full(j) /\ Rate(j)' = Rate(j)
      /\ Memory' = Memory /\ Bounded(j)' = Bounded(j)
  BY LimitsKept
<1>3. Bounded(j) => Conforms(j)
  BY DEF IInv, TokenBucket, Bounded
<1> QED
  BY <1>1, <1>2, <1>3 DEF IInv, PaidInv, Covered, Conforms

(* A granted take pays one token: the takes since any earlier one are      *)
(* still covered, and the new one fits into the burst.                     *)
LEMMA GrantKeeps ==
  ASSUME IInv, UNCHANGED <<cfg, now>>, NEW k \in Bucket, NEW t, Timely(t),
         Grant(k, t)
  PROVE  /\ LevelInv' /\ PaidInv' /\ TokenBucket'
         /\ stored' \subseteq Bucket
         /\ tokens' \in [Bucket -> Int]
         /\ last' \in [Bucket -> 0..MaxTime]
         /\ written' \in [Bucket -> 0..MaxTime]
         /\ granted' \in [Bucket -> Seq(0..MaxTime)]
<1> DEFINE level == Refilled(k, t)
           n == Len(granted[k])
<1>1. /\ level \in Int /\ level <= Full(k) /\ level >= Window
      /\ Window \in Nat /\ Full(k) \in Nat /\ Rate(k) \in Nat
      /\ t \in 0..MaxTime /\ t <= now /\ now \in Int /\ t \in Int
  <2>1. level \in Int /\ level <= Full(k)
    BY RefillLevel
  <2>2. Full(k) \in Nat /\ Rate(k) \in Nat
    BY LimitTypes DEF IInv, TypeOK
  <2> QED
    BY <2>1, <2>2, Bounds DEF Grant, IInv, TypeOK, Timely
<1>2. Put(k, t, level - Window) /\ granted' = [granted EXCEPT ![k] = Append(@, t)]
  BY DEF Grant
<1> HIDE DEF level
<1>3. level - Window \in Int /\ level - Window <= Full(k)
      /\ level - Window + Rate(k) * (now - t) >= 0
  <2>1. Rate(k) * (now - t) \in Nat
    BY <1>1
  <2> QED
    BY <1>1, <2>1
<1>4. /\ LevelInv' /\ stored' \subseteq Bucket
      /\ tokens' \in [Bucket -> Int]
      /\ last' \in [Bucket -> 0..MaxTime]
      /\ written' \in [Bucket -> 0..MaxTime]
  BY <1>2, <1>3, PutLevel
<1>5. /\ granted \in [Bucket -> Seq(0..MaxTime)]
      /\ granted[k] \in Seq(0..MaxTime) /\ n \in Nat
      /\ DOMAIN granted[k] = 1..n
  BY DEF IInv, TypeOK
<1>6. /\ granted'[k] \in Seq(0..MaxTime)
      /\ Len(granted'[k]) = n + 1 /\ DOMAIN granted'[k] = 1..(n + 1)
      /\ granted'[k][n + 1] = t
      /\ \A i \in 1..n : granted'[k][i] = granted[k][i]
  BY <1>1, <1>2, <1>5, AppendProperties
<1>7. granted' \in [Bucket -> Seq(0..MaxTime)]
  BY <1>2, <1>5, <1>6
<1>8. /\ k \in stored' /\ tokens'[k] = level - Window /\ last'[k] = t
  BY <1>2 DEF Put, IInv, TypeOK
<1>9. /\ Full(k)' = Full(k) /\ Rate(k)' = Rate(k) /\ Bounded(k)' = Bounded(k)
  BY LimitsKept
<1>10. \A i \in 1..n : granted[k][i] \in 0..MaxTime
  BY <1>5, ElementOfSeq
<1> HIDE DEF n
<1>11. ASSUME Bounded(k), NEW i \in 1..(n + 1)
       PROVE  /\ (n + 1 - i + 1) * Window + (level - Window)
                   <= Full(k) + Rate(k) * (t - granted'[k][i])
              /\ (n + 1 - i + 1) * Window
                   <= Full(k) + Rate(k) * (t - granted'[k][i])
  <2> DEFINE own == (n + 1 - i + 1) * Window
             refill == Rate(k) * (t - granted'[k][i])
  <2>1. own \in Int /\ refill \in Int
    <3>1. granted'[k][i] \in 0..MaxTime
      BY <1>6, ElementOfSeq
    <3>2. t - granted'[k][i] \in Int /\ n + 1 - i + 1 \in Int
      <4>1. n \in Int /\ i \in Int
        BY <1>5
      <4>2. \A a, b \in 0..MaxTime : a - b \in Int
        BY Bounds
      <4> QED
        BY <1>1, <3>1, <4>1, <4>2
    <3>3. Rate(k) \in Int /\ Window \in Int
      BY <1>1
    <3> QED
      BY <3>2, <3>3, Product
  <2>2. own + (level - Window) <= Full(k) + refill
    <3>1. CASE i = n + 1
      <4>1. t - granted'[k][i] = 0
        BY <1>1, <1>6, <3>1
      <4>2. own = Window
        BY <1>1, <1>5, <3>1
      <4>3. refill = 0
        BY <1>1, <4>1
      <4> HIDE DEF own, refill
      <4> QED
        BY <1>1, <4>2, <4>3
    <3>2. CASE i \in 1..n
      <4>1. Covered(k, level, t)
        BY <1>11, RefillCovered DEF level
      <4>2. (n - i + 1) * Window + level <= Full(k) + refill
        BY <1>5, <1>6, <3>2, <4>1 DEF Covered, n
      <4>3. own = (n - i + 1) * Window + Window
        BY <1>1, <1>5, <3>2
      <4>4. (n - i + 1) * Window \in Int
        BY <1>1, <1>5, <3>2
      <4> HIDE DEF own, refill
      <4> QED
        BY <1>1, <2>1, <4>2, <4>3, <4>4
    <3> QED
      BY <1>5, <3>1, <3>2
  <2> HIDE DEF own, refill
  <2>3. own <= Full(k) + refill
    BY <1>1, <2>1, <2>2
  <2> QED
    BY <2>2, <2>3 DEF own, refill
<1>12. ASSUME Bounded(k) PROVE Covered(k, tokens[k], last[k])'
  <2> SUFFICES ASSUME NEW i \in DOMAIN granted'[k]
               PROVE  (Len(granted'[k]) - i + 1) * Window + tokens'[k]
                        <= Full(k)' + Rate(k)' * (last'[k] - granted'[k][i])
    BY DEF Covered
  <2>1. i \in 1..(n + 1)
    BY <1>6
  <2>2. (n + 1 - i + 1) * Window + (level - Window)
          <= Full(k) + Rate(k) * (t - granted'[k][i])
    BY <1>11, <1>12, <2>1, Zenon
  <2>3. granted'[k][i] \in Int
    BY <1>6, <2>1, ElementOfSeq, Bounds
  <2> QED
    BY <1>1, <1>5, <1>6, <1>8, <1>9, <2>1, <2>2, <2>3
<1>13. ASSUME Bounded(k) PROVE Conforms(k)'
  <2> SUFFICES ASSUME NEW i \in 1..(n + 1), NEW j \in 1..(n + 1), i <= j
               PROVE  (j - i + 1) * Window
                        <= Full(k) + Rate(k) * (granted'[k][j] - granted'[k][i])
    BY <1>6, <1>9 DEF Conforms
  <2>1. CASE j = n + 1
    <3>1. (n + 1 - i + 1) * Window
            <= Full(k) + Rate(k) * (t - granted'[k][i])
      BY <1>11, <1>13, Zenon
    <3>2. granted'[k][j] = t
      BY <1>6, <2>1
    <3> QED
      BY <1>1, <1>5, <2>1, <3>1, <3>2
  <2>2. CASE j \in 1..n
    <3>1. i \in 1..n
      BY <1>5, <2>2
    <3> QED
      BY <1>5, <1>6, <1>13, <2>2, <3>1
      DEF IInv, TokenBucket, Bounded, Conforms, n
  <2> QED
    BY <1>5, <2>1, <2>2
<1>14. ASSUME NEW j \in Bucket, j # k
       PROVE  /\ j \in stored' /\ Bounded(j)' => Covered(j, tokens[j], last[j])'
              /\ j \notin stored' /\ Memory' => Covered(j, Full(j), now)'
              /\ j \notin stored' /\ ~Memory' => granted'[j] = <<>>
              /\ Bounded(j)' => Conforms(j)'
  <2>1. granted'[j] = granted[j]
    BY <1>2, <1>5, <1>14
  <2> QED
    BY <1>2, <1>14, <2>1, PutOthers
<1>15. PaidInv'
  BY <1>8, <1>9, <1>12, <1>14 DEF PaidInv
<1>16. TokenBucket'
  <2>1. \A j \in Bucket : Bounded(j)' => Conforms(j)'
    BY <1>9, <1>13, <1>14
  <2> QED
    BY <2>1 DEF TokenBucket, Bounded
<1> QED
  BY <1>4, <1>7, <1>15, <1>16

(* A refused take only brings the bucket up to date. *)
LEMMA RefuseKeeps ==
  ASSUME IInv, UNCHANGED <<cfg, now>>, NEW k \in Bucket, NEW t, Timely(t),
         Refuse(k, t)
  PROVE  /\ LevelInv' /\ PaidInv' /\ TokenBucket'
         /\ stored' \subseteq Bucket
         /\ tokens' \in [Bucket -> Int]
         /\ last' \in [Bucket -> 0..MaxTime]
         /\ written' \in [Bucket -> 0..MaxTime]
         /\ granted' \in [Bucket -> Seq(0..MaxTime)]
<1> DEFINE level == Refilled(k, t)
<1>1. /\ level \in Int /\ level <= Full(k)
      /\ level + Rate(k) * (now - t) >= 0
  BY RefillLevel
<1>2. Put(k, t, level) /\ granted' = granted
  BY DEF Refuse
<1> HIDE DEF level
<1>3. /\ LevelInv' /\ stored' \subseteq Bucket
      /\ tokens' \in [Bucket -> Int]
      /\ last' \in [Bucket -> 0..MaxTime]
      /\ written' \in [Bucket -> 0..MaxTime]
  BY <1>1, <1>2, PutLevel
<1>4. k \in stored' /\ tokens'[k] = level /\ last'[k] = t
  BY <1>2 DEF Put, IInv, TypeOK
<1>5. /\ Full(k)' = Full(k) /\ Rate(k)' = Rate(k) /\ Bounded(k)' = Bounded(k)
  BY LimitsKept
<1>6. ASSUME Bounded(k)
      PROVE  Covered(k, tokens[k], last[k])' /\ Conforms(k)'
  <2>1. Covered(k, level, t)
    BY <1>6, RefillCovered DEF level
  <2>2. Conforms(k)
    BY <1>6 DEF IInv, TokenBucket, Bounded
  <2> QED
    BY <1>2, <1>4, <1>5, <2>1, <2>2 DEF Covered, Conforms
<1>7. ASSUME NEW j \in Bucket, j # k
      PROVE  /\ j \in stored' /\ Bounded(j)' => Covered(j, tokens[j], last[j])'
             /\ j \notin stored' /\ Memory' => Covered(j, Full(j), now)'
             /\ j \notin stored' /\ ~Memory' => granted'[j] = <<>>
             /\ Bounded(j)' => Conforms(j)'
  BY <1>2, <1>7, PutOthers
<1>8. PaidInv'
  BY <1>4, <1>5, <1>6, <1>7 DEF PaidInv
<1>9. TokenBucket'
  <2>1. \A j \in Bucket : Bounded(j)' => Conforms(j)'
    BY <1>5, <1>6, <1>7
  <2> QED
    BY <2>1 DEF TokenBucket, Bounded
<1>10. granted' \in [Bucket -> Seq(0..MaxTime)]
  BY <1>2 DEF IInv, TypeOK
<1> QED
  BY <1>3, <1>8, <1>9, <1>10

-----------------------------------------------------------------------------
(* The inductive invariant *)

LEMMA InitHolds == Init => IInv
<1> SUFFICES ASSUME Init PROVE IInv
  OBVIOUS
<1>1. TypeOK
  BY Bounds DEF Init, TypeOK
<1>2. LagInv /\ LevelInv
  BY DEF Init, LagInv, LevelInv
<1>3. \A k \in Bucket : granted[k] = <<>> /\ DOMAIN granted[k] = {}
  BY DEF Init
<1>4. PaidInv
  BY <1>3 DEF Init, PaidInv, Covered
<1>5. TokenBucket
  BY <1>3 DEF TokenBucket, Conforms
<1> QED
  BY <1>1, <1>2, <1>4, <1>5 DEF IInv

(* Steps that leave the buckets and the clock alone. *)
LEMMA BucketsUntouched ==
  ASSUME IInv, UNCHANGED <<cfg, now, storeVars, granted>>
  PROVE  LevelInv' /\ PaidInv' /\ TokenBucket'
<1>1. \A k : Full(k)' = Full(k) /\ Rate(k)' = Rate(k)
             /\ Memory' = Memory /\ Bounded(k)' = Bounded(k)
  BY LimitsKept
<1>2. LevelInv'
  BY <1>1 DEF IInv, LevelInv, storeVars
<1>3. PaidInv'
  BY <1>1 DEF IInv, PaidInv, Covered, storeVars
<1>4. TokenBucket'
  <2>1. \A k \in Bucket : Bounded(k) => Conforms(k)
    BY DEF IInv, TokenBucket, Bounded
  <2>2. \A k \in Bucket : Bounded(k)' => Conforms(k)'
    BY <1>1, <2>1 DEF Conforms
  <2> QED
    BY <2>2 DEF TokenBucket, Bounded
<1> QED
  BY <1>2, <1>3, <1>4

LEMMA BeginKeeps ==
  ASSUME IInv, NEW c \in Caller, NEW m \in Message, Begin(c, m) PROVE IInv'
<1>1. LevelInv' /\ PaidInv' /\ TokenBucket'
  BY BucketsUntouched DEF Begin
<1>2. TypeOK'
  BY ChecksType DEF Begin, IInv, TypeOK, storeVars
<1>3. LagInv'
  BY DEF Begin, IInv, LagInv
<1> QED
  BY <1>1, <1>2, <1>3 DEF IInv

LEMMA ReadClockKeeps ==
  ASSUME IInv, NEW c \in Caller, ReadClock(c) PROVE IInv'
<1>1. LevelInv' /\ PaidInv' /\ TokenBucket'
  BY BucketsUntouched DEF ReadClock
<1>2. TypeOK'
  BY DEF ReadClock, IInv, TypeOK, storeVars
<1>3. LagInv'
  BY Bounds DEF ReadClock, IInv, TypeOK, LagInv
<1> QED
  BY <1>1, <1>2, <1>3 DEF IInv

(* The caller's own variables after a take. *)
LEMMA CallerKept ==
  ASSUME IInv, NEW c \in Caller, Called(c), UNCHANGED now,
         \/ Pass(c)
         \/ /\ msg' = [msg EXCEPT ![c] = NoMessage]
            /\ rest' = [rest EXCEPT ![c] = <<>>]
            /\ at' = [at EXCEPT ![c] = NoTime]
  PROVE  /\ msg' \in [Caller -> Message \cup {NoMessage}]
         /\ rest' \in [Caller -> Seq(Bucket)]
         /\ at' \in [Caller -> 0..MaxTime \cup {NoTime}]
         /\ LagInv'
<1>1. Tail(rest[c]) \in Seq(Bucket)
  BY HeadTailProperties DEF IInv, TypeOK, Called
<1>2. at' = [at EXCEPT ![c] = NoTime]
  BY DEF Pass
<1>3. rest' \in [Caller -> Seq(Bucket)]
  <2>1. rest' = [rest EXCEPT ![c] = Tail(@)] \/ rest' = [rest EXCEPT ![c] = <<>>]
    BY DEF Pass
  <2>2. <<>> \in Seq(Bucket)
    OBVIOUS
  <2> QED
    BY <1>1, <2>1, <2>2 DEF IInv, TypeOK
<1>4. msg' \in [Caller -> Message \cup {NoMessage}]
  BY DEF Pass, IInv, TypeOK
<1> QED
  BY <1>2, <1>3, <1>4 DEF IInv, TypeOK, LagInv

LEMMA TakeKeeps ==
  ASSUME IInv, NEW c \in Caller,
         TakeGranted(c) \/ TakeRefused(c) \/ TakeError(c)
  PROVE  IInv'
<1>1. Called(c) /\ UNCHANGED <<cfg, now>>
  BY DEF TakeGranted, TakeRefused, TakeError
<1>2. /\ msg' \in [Caller -> Message \cup {NoMessage}]
      /\ rest' \in [Caller -> Seq(Bucket)]
      /\ at' \in [Caller -> 0..MaxTime \cup {NoTime}]
      /\ LagInv'
  BY <1>1, CallerKept DEF TakeGranted, TakeRefused, TakeError
<1>3. Timely(Clock(c)) /\ Head(rest[c]) \in Bucket
  BY <1>1, ClockTimely
<1>4. \/ UNCHANGED <<storeVars, granted>>
      \/ \E k \in Bucket, t \in 0..MaxTime :
           Timely(t) /\ (Grant(k, t) \/ Refuse(k, t))
  <2>1. Clock(c) \in 0..MaxTime
    BY <1>3 DEF Timely
  <2> QED
    BY <1>3, <2>1 DEF TakeGranted, TakeRefused, TakeError, Clock
<1>5. /\ LevelInv' /\ PaidInv' /\ TokenBucket'
      /\ stored' \subseteq Bucket
      /\ tokens' \in [Bucket -> Int]
      /\ last' \in [Bucket -> 0..MaxTime]
      /\ written' \in [Bucket -> 0..MaxTime]
      /\ granted' \in [Bucket -> Seq(0..MaxTime)]
  <2>1. CASE UNCHANGED <<storeVars, granted>>
    BY <1>1, <2>1, BucketsUntouched DEF storeVars, IInv, TypeOK
  <2>2. ASSUME NEW k \in Bucket, NEW t \in 0..MaxTime, Timely(t),
               Grant(k, t) \/ Refuse(k, t)
        PROVE  /\ LevelInv' /\ PaidInv' /\ TokenBucket'
               /\ stored' \subseteq Bucket
               /\ tokens' \in [Bucket -> Int]
               /\ last' \in [Bucket -> 0..MaxTime]
               /\ written' \in [Bucket -> 0..MaxTime]
               /\ granted' \in [Bucket -> Seq(0..MaxTime)]
    BY <1>1, <2>2, GrantKeeps, RefuseKeeps
  <2> QED
    BY <1>4, <2>1, <2>2
<1>6. cfg' \in Configs /\ now' \in 0..MaxTime
  BY <1>1 DEF IInv, TypeOK
<1> QED
  BY <1>2, <1>5, <1>6 DEF IInv, TypeOK

(* The memory store forgets a bucket only when it would be full again. *)
LEMMA CleanupKeeps == ASSUME IInv, Cleanup PROVE IInv'
<1>1. /\ UNCHANGED <<cfg, now, tokens, last, written, granted, msg, rest, at>>
      /\ stored' \subseteq stored /\ Memory
  BY DEF Cleanup
<1>2. \A k : Full(k)' = Full(k) /\ Rate(k)' = Rate(k)
             /\ Memory' = Memory /\ Bounded(k)' = Bounded(k)
  BY <1>1, LimitsKept
<1>3. TypeOK' /\ LagInv'
  BY <1>1 DEF IInv, TypeOK, LagInv
<1>4. LevelInv'
  BY <1>1, <1>2 DEF IInv, LevelInv
<1>5. ASSUME NEW k \in Bucket, k \in stored, k \notin stored'
      PROVE  Covered(k, Full(k), now)
  <2>1. tokens[k] + Rate(k) * (now - last[k]) >= Full(k)
    BY <1>5 DEF Cleanup
  <2>2. Covered(k, tokens[k], last[k])
    BY <1>1, <1>5 DEF IInv, PaidInv, Bounded
  <2>3. /\ Rate(k) \in Nat /\ Full(k) \in Nat /\ Window \in Nat
        /\ now \in Int /\ last[k] \in Int /\ tokens[k] \in Int
    BY LimitTypes, Bounds DEF IInv, TypeOK
  <2> SUFFICES ASSUME NEW i \in DOMAIN granted[k]
               PROVE  (Len(granted[k]) - i + 1) * Window + Full(k)
                        <= Full(k) + Rate(k) * (now - granted[k][i])
    BY DEF Covered
  <2> DEFINE own == (Len(granted[k]) - i + 1) * Window
             before == Rate(k) * (last[k] - granted[k][i])
             idle == Rate(k) * (now - last[k])
             all == Rate(k) * (now - granted[k][i])
  <2>4. granted[k] \in Seq(0..MaxTime)
    BY DEF IInv, TypeOK
  <2>5. /\ Len(granted[k]) \in Nat /\ i \in Int /\ i \in 1..Len(granted[k])
        /\ granted[k][i] \in Int
    BY <2>4, ElementOfSeq, Bounds
  <2>6. own \in Int /\ before \in Int /\ idle \in Int /\ all \in Int
    <3>1. /\ Len(granted[k]) - i + 1 \in Int /\ last[k] - granted[k][i] \in Int
          /\ now - last[k] \in Int /\ now - granted[k][i] \in Int
          /\ Window \in Int /\ Rate(k) \in Int
      BY <2>3, <2>5
    <3> QED
      BY <3>1, Product
  <2>7. own + tokens[k] <= Full(k) + before
    BY <2>2 DEF Covered
  <2>8. idle + before = all
    BY <2>3, <2>5, Adjacent
  <2>9. tokens[k] + idle >= Full(k)
    BY <2>1
  <2> HIDE DEF own, before, idle, all
  <2>10. own + Full(k) <= Full(k) + all
    BY <2>3, <2>6, <2>7, <2>8, <2>9
  <2> QED
    BY <2>10 DEF own, all
<1>6. PaidInv'
  <2>1. ASSUME NEW k \in Bucket
        PROVE  /\ k \in stored' => Covered(k, tokens[k], last[k])
               /\ k \notin stored' => Covered(k, Full(k), now)
    BY <1>1, <1>5 DEF IInv, PaidInv, Bounded
  <2> QED
    BY <1>1, <1>2, <2>1 DEF PaidInv, Covered
<1>7. TokenBucket'
  <2>1. \A k \in Bucket : Bounded(k) => Conforms(k)
    BY DEF IInv, TokenBucket, Bounded
  <2>2. \A k \in Bucket : Bounded(k)' => Conforms(k)'
    BY <1>1, <1>2, <2>1 DEF Conforms
  <2> QED
    BY <2>2 DEF TokenBucket, Bounded
<1> QED
  BY <1>3, <1>4, <1>6, <1>7 DEF IInv

LEMMA TickKeeps == ASSUME IInv, Tick PROVE IInv'
<1>1. /\ UNCHANGED <<cfg, stored, tokens, last, written, granted, msg, rest, at>>
      /\ now' = now + 1 /\ now < MaxTime /\ now \in Nat
  BY Bounds DEF Tick, storeVars, IInv, TypeOK
<1>2. \A k : Full(k)' = Full(k) /\ Rate(k)' = Rate(k)
             /\ Memory' = Memory /\ Bounded(k)' = Bounded(k)
  BY <1>1, LimitsKept
<1>3. TypeOK'
  BY <1>1, Bounds DEF IInv, TypeOK
<1>4. LagInv'
  BY <1>1, Bounds DEF Tick, IInv, TypeOK, LagInv
<1>5. LevelInv'
  <2>1. \A k \in stored : written[k] <= now => written[k] <= now + 1
    BY <1>1, Bounds DEF IInv, TypeOK
  <2> QED
    BY <1>1, <1>2, <2>1 DEF IInv, LevelInv
<1>6. ASSUME NEW k \in Bucket, Covered(k, Full(k), now)
      PROVE  Covered(k, Full(k), now)'
  <2> SUFFICES ASSUME NEW i \in DOMAIN granted[k]
               PROVE  (Len(granted[k]) - i + 1) * Window + Full(k)
                        <= Full(k) + Rate(k) * (now' - granted[k][i])
    BY <1>1, <1>2 DEF Covered
  <2> DEFINE own == (Len(granted[k]) - i + 1) * Window
             before == Rate(k) * (now - granted[k][i])
             all == Rate(k) * (now' - granted[k][i])
  <2>1. Rate(k) \in Nat /\ Full(k) \in Nat /\ Window \in Nat
    BY LimitTypes, Bounds DEF IInv, TypeOK
  <2>2. granted[k] \in Seq(0..MaxTime)
    BY DEF IInv, TypeOK
  <2>3. /\ Len(granted[k]) \in Nat /\ i \in Int /\ i \in 1..Len(granted[k])
        /\ granted[k][i] \in Int
    BY <2>2, ElementOfSeq, Bounds
  <2>4. own \in Int /\ before \in Int /\ all \in Int
    <3>1. /\ Len(granted[k]) - i + 1 \in Int /\ now - granted[k][i] \in Int
          /\ now' - granted[k][i] \in Int
          /\ Window \in Int /\ Rate(k) \in Int
      BY <1>1, <2>1, <2>3
    <3> QED
      BY <3>1, Product
  <2>5. own + Full(k) <= Full(k) + before
    BY <1>6 DEF Covered
  <2>6. before <= all
    BY <1>1, <2>1, <2>3, Monotone
  <2> HIDE DEF own, before, all
  <2>7. own + Full(k) <= Full(k) + all
    BY <2>1, <2>4, <2>5, <2>6
  <2> QED
    BY <2>7 DEF own, all
<1>7. PaidInv'
  BY <1>1, <1>2, <1>6 DEF IInv, PaidInv, Covered
<1>8. TokenBucket'
  <2>1. \A k \in Bucket : Bounded(k) => Conforms(k)
    BY DEF IInv, TokenBucket, Bounded
  <2>2. \A k \in Bucket : Bounded(k)' => Conforms(k)'
    BY <1>1, <1>2, <2>1 DEF Conforms
  <2> QED
    BY <2>2 DEF TokenBucket, Bounded
<1> QED
  BY <1>3, <1>4, <1>5, <1>7, <1>8 DEF IInv

LEMMA IInvHolds == Spec => []IInv
<1>1. ASSUME IInv, [Next]_vars PROVE IInv'
  <2>1. CASE UNCHANGED vars
    <3>1. LevelInv' /\ PaidInv' /\ TokenBucket'
      BY <1>1, <2>1, BucketsUntouched DEF vars
    <3>2. TypeOK' /\ LagInv'
      BY <1>1, <2>1 DEF vars, storeVars, IInv, TypeOK, LagInv
    <3> QED
      BY <3>1, <3>2 DEF IInv
  <2>2. CASE Next
    BY <1>1, <2>2, BeginKeeps, ReadClockKeeps, TakeKeeps, CleanupKeeps,
       TickKeeps
    DEF Next
  <2> QED
    BY <1>1, <2>1, <2>2
<1> QED
  BY InitHolds, <1>1, PTL DEF Spec

(* TokenBucketHolds: in any interval no bucket grants more than its burst  *)
(* and the refill of that interval, for the memory store with its cleanup  *)
(* and for Redis scripts that run late, out of order or without an answer, *)
(* for every limit, window and delay.                                      *)
THEOREM TokenBucketHolds == Spec => []TokenBucket
<1>1. IInv => TokenBucket
  BY DEF IInv
<1> QED
  BY IInvHolds, <1>1, PTL

(* DebtBounded: a Redis script that runs late never leaves a bucket deeper *)
(* in debt than what was refilled between its clock and its write.         *)
THEOREM DebtBounded ==
  Spec => [](\A k \in stored :
               tokens[k] + Rate(k) * (written[k] - last[k]) >= 0)
<1>1. IInv => \A k \in stored :
                tokens[k] + Rate(k) * (written[k] - last[k]) >= 0
  BY DEF IInv, LevelInv
<1> QED
  BY IInvHolds, <1>1, PTL

-----------------------------------------------------------------------------
(* What is admitted is paid for. *)

(* Bucket k is among the checks s. *)
Among(k, s) == \E i \in 1..Len(s) : s[i] = k

(* Callers whose message has taken, or skipped, its token of bucket k. *)
Past(k) == {c \in Caller : /\ rest[c] # <<>>
                           /\ Applies(k, msg[c])
                           /\ ~Among(k, rest[c])}

(* A caller at work has a message.  Messages that are past a bucket count  *)
(* like those that were allowed.                                           *)
PayInv ==
  /\ failed \in [Bucket -> Nat] /\ admitted \in [Message -> Nat]
  /\ \A c \in Caller : rest[c] # <<>> => msg[c] \in Message
  /\ \A k \in Bucket :
       /\ IsFiniteSet(Admissions(k))
       /\ Cardinality(Admissions(k)) + Cardinality(Past(k))
            <= Len(granted[k]) + failed[k]

(* A key is a record of its three fields. *)
LEMMA KeyForm ==
  ASSUME NEW k \in Bucket
  PROVE  k = [tenant |-> k.tenant, user |-> k.user, tool |-> k.tool]
<1>1. ASSUME NEW m \in Message
      PROVE  /\ m = [tenant |-> m.tenant, user |-> m.user, tool |-> m.tool]
             /\ UserKey(m) =
                  [tenant |-> m.tenant, user |-> m.user, tool |-> NoName]
             /\ TenantKey(m) =
                  [tenant |-> m.tenant, user |-> NoName, tool |-> NoName]
  <2>1. m = [tenant |-> m.tenant, user |-> m.user, tool |-> m.tool]
    BY LimitAssumption
  <2> QED
    BY <2>1 DEF UserKey, TenantKey, GlobalKey
<1>2. GlobalKey = [tenant |-> NoName, user |-> NoName, tool |-> NoName]
  BY DEF GlobalKey
<1>3. CASE k \in Message
  BY <1>1, <1>3
<1>4. CASE \E m \in Message : k = UserKey(m)
  BY <1>1, <1>4
<1>5. CASE \E m \in Message : k = TenantKey(m)
  BY <1>1, <1>5
<1>6. CASE k = GlobalKey
  BY <1>2, <1>6
<1> QED
  BY <1>3, <1>4, <1>5, <1>6 DEF Bucket

LEMMA FieldsOf ==
  /\ Fields["tool"] = {"tenant", "user", "tool"}
  /\ Fields["user"] = {"tenant", "user"}
  /\ Fields["tenant"] = {"tenant"}
BY DEF Fields

LEMMA AmongConcat ==
  ASSUME NEW S, NEW s \in Seq(S), NEW t \in Seq(S), NEW k,
         Among(k, s) \/ Among(k, t)
  PROVE  Among(k, s \o t)
<1>1. /\ s \o t \in Seq(S) /\ Len(s \o t) = Len(s) + Len(t)
      /\ \A i \in 1..Len(s) + Len(t) :
           (s \o t)[i] = IF i <= Len(s) THEN s[i] ELSE t[i - Len(s)]
  BY ConcatProperties
<1>2. Len(s) \in Nat /\ Len(t) \in Nat
  OBVIOUS
<1>3. CASE Among(k, s)
  <2>1. PICK i \in 1..Len(s) : s[i] = k
    BY <1>3 DEF Among
  <2>2. i \in 1..Len(s) + Len(t) /\ (s \o t)[i] = k
    BY <1>1, <1>2, <2>1
  <2> QED
    BY <1>1, <2>2 DEF Among
<1>4. CASE Among(k, t)
  <2>1. PICK i \in 1..Len(t) : t[i] = k
    BY <1>4 DEF Among
  <2>2. i + Len(s) \in 1..Len(s) + Len(t) /\ (s \o t)[i + Len(s)] = k
    BY <1>1, <1>2, <2>1
  <2> QED
    BY <1>1, <2>2 DEF Among
<1> QED
  BY <1>3, <1>4

LEMMA AmongTail ==
  ASSUME NEW S, NEW s \in Seq(S), s # <<>>, NEW k, k # Head(s), Among(k, s)
  PROVE  Among(k, Tail(s))
<1>1. PICK i \in 1..Len(s) : s[i] = k
  BY DEF Among
<1>2. Head(s) = s[1] /\ Len(Tail(s)) = Len(s) - 1
      /\ \A j \in 1..Len(Tail(s)) : Tail(s)[j] = s[j + 1]
  BY HeadTailProperties
<1>3. Len(s) \in Nat /\ i # 1
  BY <1>1, <1>2
<1>4. i - 1 \in 1..Len(Tail(s)) /\ Tail(s)[i - 1] = k
  BY <1>1, <1>2, <1>3
<1> QED
  BY <1>4 DEF Among

(* buildLimitChecks leaves out no limit that applies to the message. *)
LEMMA ChecksComplete ==
  ASSUME NEW m \in Message, NEW k \in Bucket, Applies(k, m)
  PROVE  Among(k, BuildLimitChecks(m))
<1> DEFINE c1 == Check(m.tool # NoName, m)
           c2 == Check(m.user # NoName, UserKey(m))
           c3 == Check(m.tenant # NoName, TenantKey(m))
           c4 == Check(TRUE, GlobalKey)
<1>1. /\ m \in Bucket /\ UserKey(m) \in Bucket /\ TenantKey(m) \in Bucket
      /\ GlobalKey \in Bucket
  BY DEF Bucket
<1>2. /\ c1 \in Seq(Bucket) /\ c2 \in Seq(Bucket)
      /\ c3 \in Seq(Bucket) /\ c4 \in Seq(Bucket)
  <2>1. ASSUME NEW x \in Bucket, NEW b PROVE Check(b, x) \in Seq(Bucket)
    BY DEF Check
  <2> HIDE DEF Bucket
  <2> QED
    BY <1>1, <2>1
<1>3. ASSUME NEW x \in Bucket, NEW b, b, cfg.requests[Level(x)] > 0
      PROVE  Among(x, Check(b, x))
  <2>1. Check(b, x) = <<x>>
    BY <1>3 DEF Check
  <2>2. 1 \in 1..Len(<<x>>) /\ <<x>>[1] = x
    OBVIOUS
  <2> QED
    BY <2>1, <2>2 DEF Among
<1>4. /\ k = [tenant |-> k.tenant, user |-> k.user, tool |-> k.tool]
      /\ m = [tenant |-> m.tenant, user |-> m.user, tool |-> m.tool]
  BY <1>1, KeyForm
<1>5. /\ UserKey(m) = [tenant |-> m.tenant, user |-> m.user, tool |-> NoName]
      /\ TenantKey(m) =
           [tenant |-> m.tenant, user |-> NoName, tool |-> NoName]
      /\ GlobalKey = [tenant |-> NoName, user |-> NoName, tool |-> NoName]
  BY <1>4 DEF UserKey, TenantKey, GlobalKey
<1>6. /\ cfg.requests[Level(k)] > 0
      /\ \A f \in Fields[Level(k)] : k[f] = m[f]
  BY DEF Applies
<1>7. \/ Among(k, c1) \/ Among(k, c2) \/ Among(k, c3) \/ Among(k, c4)
  <2>1. CASE k.tool # NoName
    <3>1. Level(k) = "tool"
      BY <2>1 DEF Level
    <3>2. k.tenant = m.tenant /\ k.user = m.user /\ k.tool = m.tool
      BY <1>6, <3>1, FieldsOf
    <3>3. k = m
      BY <1>4, <3>2
    <3> QED
      BY <1>1, <1>3, <1>6, <2>1, <3>3
  <2>2. CASE k.tool = NoName /\ k.user # NoName
    <3>1. Level(k) = "user"
      BY <2>2 DEF Level
    <3>2. k.tenant = m.tenant /\ k.user = m.user
      BY <1>6, <3>1, FieldsOf
    <3>3. k = UserKey(m)
      BY <1>4, <1>5, <2>2, <3>2
    <3> QED
      BY <1>1, <1>3, <1>6, <2>2, <3>2, <3>3
  <2>3. CASE k.tool = NoName /\ k.user = NoName /\ k.tenant # NoName
    <3>1. Level(k) = "tenant"
      BY <2>3 DEF Level
    <3>2. k.tenant = m.tenant
      BY <1>6, <3>1, FieldsOf
    <3>3. k = TenantKey(m)
      BY <1>4, <1>5, <2>3, <3>2
    <3> QED
      BY <1>1, <1>3, <1>6, <2>3, <3>2, <3>3
  <2>4. CASE k.tool = NoName /\ k.user = NoName /\ k.tenant = NoName
    <3>1. k = GlobalKey
      BY <1>4, <1>5, <2>4
    <3> QED
      BY <1>1, <1>3, <1>6, <3>1
  <2> QED
    BY <2>1, <2>2, <2>3, <2>4
<1>8. BuildLimitChecks(m) = ((c1 \o c2) \o c3) \o c4
  BY DEF BuildLimitChecks
<1> HIDE DEF c1, c2, c3, c4
<1>9. c1 \o c2 \in Seq(Bucket) /\ (c1 \o c2) \o c3 \in Seq(Bucket)
  BY <1>2, ConcatProperties
<1>10. Among(k, c1) \/ Among(k, c2) => Among(k, c1 \o c2)
  BY <1>2, AmongConcat
<1>11. Among(k, c1 \o c2) \/ Among(k, c3) => Among(k, (c1 \o c2) \o c3)
  BY <1>2, <1>9, AmongConcat
<1>12. Among(k, (c1 \o c2) \o c3) \/ Among(k, c4)
         => Among(k, ((c1 \o c2) \o c3) \o c4)
  BY <1>2, <1>9, AmongConcat
<1> QED
  BY <1>7, <1>8, <1>10, <1>11, <1>12

(* Only an allowed message to which the limit of k applies adds to the     *)
(* admissions of k, and it adds one.                                       *)
LEMMA AdmissionsGrow ==
  ASSUME admitted \in [Message -> Nat], NEW m \in Message, NEW k,
         cfg' = cfg, admitted' = [admitted EXCEPT ![m] = @ + 1],
         IsFiniteSet(Admissions(k))
  PROVE  /\ IsFiniteSet(Admissions(k)')
         /\ Cardinality(Admissions(k)) \in Nat
         /\ Cardinality(Admissions(k)') =
              Cardinality(Admissions(k)) + IF Applies(k, m) THEN 1 ELSE 0
<1> DEFINE n == admitted[m] + 1
           new == <<m, n>>
<1>1. /\ \A x \in Message : x # m => admitted'[x] = admitted[x]
      /\ admitted'[m] = n /\ admitted[m] \in Nat
  OBVIOUS
<1>2. \A x : Applies(k, x)' <=> Applies(k, x)
  BY DEF Applies, Level
<1>3. 1..n = (1..admitted[m]) \cup {n} /\ n \notin 1..admitted[m]
  BY <1>1
<1>4. Cardinality(Admissions(k)) \in Nat
  BY FS_CardinalityType
<1>5. CASE ~Applies(k, m)
  <2>1. Admissions(k)' = Admissions(k)
    BY <1>1, <1>2, <1>5 DEF Admissions
  <2> QED
    BY <1>4, <1>5, <2>1
<1>6. CASE Applies(k, m)
  <2>1. new \notin Admissions(k)
    BY <1>3 DEF Admissions
  <2>2. ASSUME NEW y \in Admissions(k)' PROVE y \in Admissions(k) \cup {new}
    <3>1. PICK x \in Message :
            Applies(k, x) /\ y \in {<<x, i>> : i \in 1..admitted'[x]}
      BY <1>2 DEF Admissions
    <3>2. CASE x = m
      <4>1. PICK i \in 1..n : y = <<m, i>>
        BY <1>1, <3>1, <3>2
      <4>2. i = n \/ i \in 1..admitted[m]
        BY <1>3
      <4> QED
        BY <1>6, <4>1, <4>2 DEF Admissions
    <3>3. CASE x # m
      BY <1>1, <3>1, <3>3 DEF Admissions
    <3> QED
      BY <3>2, <3>3
  <2>3. new \in Admissions(k)'
    <3>1. new \in {<<m, i>> : i \in 1..admitted'[m]}
      BY <1>1, <1>3
    <3> QED
      BY <1>2, <1>6, <3>1 DEF Admissions
  <2>4. ASSUME NEW y \in Admissions(k) PROVE y \in Admissions(k)'
    <3>1. PICK x \in Message :
            Applies(k, x) /\ y \in {<<x, i>> : i \in 1..admitted[x]}
      BY DEF Admissions
    <3>2. 1..admitted[x] \subseteq 1..admitted'[x]
      BY <1>1, <1>3
    <3>3. y \in {<<x, i>> : i \in 1..admitted'[x]}
      BY <3>1, <3>2
    <3> QED
      BY <1>2, <3>1, <3>3 DEF Admissions
  <2>5. Admissions(k)' = Admissions(k) \cup {new}
    BY <2>2, <2>3, <2>4
  <2> HIDE DEF new
  <2>6. IsFiniteSet(Admissions(k)')
        /\ Cardinality(Admissions(k)') = Cardinality(Admissions(k)) + 1
    BY <2>1, <2>5, FS_AddElement
  <2> QED
    BY <1>4, <1>6, <2>6
<1> QED
  BY <1>5, <1>6

LEMMA AdmissionsSame ==
  ASSUME NEW k, cfg' = cfg, admitted' = admitted
  PROVE  Admissions(k)' = Admissions(k)
<1>1. \A x : Applies(k, x)' <=> Applies(k, x)
  BY DEF Applies, Level
<1> QED
  BY <1>1 DEF Admissions

LEMMA PastFinite ==
  ASSUME NEW k
  PROVE  /\ IsFiniteSet(Past(k)) /\ Cardinality(Past(k)) \in Nat
         /\ IsFiniteSet(Past(k)') /\ Cardinality(Past(k)') \in Nat
<1>1. IsFiniteSet(Caller) /\ Past(k) \subseteq Caller /\ Past(k)' \subseteq Caller
  BY LimitAssumption DEF Past
<1>2. IsFiniteSet(Past(k)) /\ IsFiniteSet(Past(k)')
  BY <1>1, FS_Subset
<1> QED
  BY <1>2, FS_CardinalityType

(* A step of one caller leaves the others where they are. *)
LEMMA PastOthers ==
  ASSUME NEW c \in Caller, NEW k, cfg' = cfg,
         \A b \in Caller \ {c} : rest'[b] = rest[b] /\ msg'[b] = msg[b]
  PROVE  \A b \in Caller \ {c} : b \in Past(k)' <=> b \in Past(k)
<1> TAKE b \in Caller \ {c}
<1>1. rest'[b] = rest[b] /\ msg'[b] = msg[b]
  OBVIOUS
<1>2. Applies(k, msg[b])' <=> Applies(k, msg[b])
  BY <1>1 DEF Applies, Level
<1> QED
  BY <1>1, <1>2 DEF Past, Among

(* A caller that gives up, or has not come past bucket k, counts no more.  *)
LEMMA PastShrinks ==
  ASSUME NEW c \in Caller, NEW k, cfg' = cfg, c \notin Past(k)',
         \A b \in Caller \ {c} : rest'[b] = rest[b] /\ msg'[b] = msg[b]
  PROVE  Cardinality(Past(k)') =
           Cardinality(Past(k)) - IF c \in Past(k) THEN 1 ELSE 0
<1>1. \A b \in Caller \ {c} : b \in Past(k)' <=> b \in Past(k)
  BY PastOthers
<1>2. Past(k) \subseteq Caller /\ Past(k)' \subseteq Caller
  BY DEF Past
<1>3. Past(k)' = Past(k) \ {c}
  BY <1>1, <1>2
<1>4. CASE c \in Past(k)
  BY <1>3, <1>4, PastFinite, FS_RemoveElement
<1>5. CASE c \notin Past(k)
  <2>1. Past(k)' = Past(k)
    BY <1>3, <1>5
  <2> QED
    BY <1>5, <2>1, PastFinite
<1> QED
  BY <1>4, <1>5

LEMMA PastGrows ==
  ASSUME NEW c \in Caller, NEW k, cfg' = cfg,
         \A b \in Caller \ {c} : rest'[b] = rest[b] /\ msg'[b] = msg[b]
  PROVE  Cardinality(Past(k)') <= Cardinality(Past(k)) + 1
<1>1. \A b \in Caller \ {c} : b \in Past(k)' <=> b \in Past(k)
  BY PastOthers
<1>2. Past(k) \subseteq Caller /\ Past(k)' \subseteq Caller
  BY DEF Past
<1>3. Past(k)' \subseteq Past(k) \cup {c}
  BY <1>1, <1>2
<1>4. IsFiniteSet(Past(k) \cup {c})
      /\ Cardinality(Past(k) \cup {c}) \in Nat
      /\ Cardinality(Past(k) \cup {c}) <= Cardinality(Past(k)) + 1
  <2>1. IsFiniteSet(Past(k)) /\ Cardinality(Past(k)) \in Nat
    BY PastFinite
  <2>2. /\ IsFiniteSet(Past(k) \cup {c})
        /\ Cardinality(Past(k) \cup {c}) =
             IF c \in Past(k) THEN Cardinality(Past(k))
                             ELSE Cardinality(Past(k)) + 1
    BY <2>1, FS_AddElement
  <2> QED
    BY <2>1, <2>2
<1>5. Cardinality(Past(k)') <= Cardinality(Past(k) \cup {c})
  BY <1>3, <1>4, FS_Subset
<1> QED
  BY <1>4, <1>5, PastFinite

(* A check that is passed pays: of what Pass(c) adds to the messages past  *)
(* a bucket and to the admissions, only the first of rest[c] is new.       *)
LEMMA PassPays ==
  ASSUME TypeOK, PayInv, NEW c \in Caller, Called(c), Pass(c), cfg' = cfg,
         failed' \in [Bucket -> Nat],
         \A k \in Bucket :
           /\ Len(granted'[k]) \in Nat
           /\ Len(granted'[k]) + failed'[k] >=
                Len(granted[k]) + failed[k]
                  + (IF k = Head(rest[c]) THEN 1 ELSE 0)
  PROVE  PayInv'
<1>1. /\ rest \in [Caller -> Seq(Bucket)]
      /\ msg \in [Caller -> Message \cup {NoMessage}]
      /\ granted \in [Bucket -> Seq(0..MaxTime)]
  BY DEF TypeOK
<1>2. /\ failed \in [Bucket -> Nat] /\ admitted \in [Message -> Nat]
      /\ \A b \in Caller : rest[b] # <<>> => msg[b] \in Message
      /\ \A k \in Bucket :
           /\ IsFiniteSet(Admissions(k))
           /\ Cardinality(Admissions(k)) + Cardinality(Past(k))
                <= Len(granted[k]) + failed[k]
  BY DEF PayInv
<1>3. rest[c] \in Seq(Bucket) /\ rest[c] # <<>> /\ msg[c] \in Message
  BY <1>1, <1>2 DEF Called
<1>4. PICK m \in Message : msg[c] = m
  BY <1>3
<1>5. \A b \in Caller \ {c} : rest'[b] = rest[b] /\ msg'[b] = msg[b]
  BY <1>1 DEF Pass
<1>6. /\ rest'[c] = Tail(rest[c]) /\ Tail(rest[c]) \in Seq(Bucket)
      /\ Len(Tail(rest[c])) = Len(rest[c]) - 1
  BY <1>1, <1>3, HeadTailProperties DEF Pass
<1>7. /\ admitted' \in [Message -> Nat]
      /\ \A b \in Caller : rest'[b] # <<>> => msg'[b] \in Message
  <2>1. CASE Len(rest[c]) = 1
    <3>1. rest'[c] = <<>>
      <4>1. Len(Tail(rest[c])) = 0
        BY <1>6, <2>1
      <4> QED
        BY <1>6, <4>1, EmptySeq
    <3>2. admitted' = [admitted EXCEPT ![m] = @ + 1]
      BY <1>4, <2>1 DEF Pass
    <3> QED
      BY <1>2, <1>5, <3>1, <3>2
  <2>2. CASE Len(rest[c]) # 1
    <3>1. admitted' = admitted /\ msg' = msg
      BY <2>2 DEF Pass
    <3> QED
      BY <1>2, <1>3, <1>5, <3>1
  <2> QED
    BY <2>1, <2>2
<1>8. ASSUME NEW k \in Bucket
      PROVE  /\ IsFiniteSet(Admissions(k)')
             /\ Cardinality(Admissions(k)') + Cardinality(Past(k)')
                  <= Len(granted'[k]) + failed'[k]
  <2> DEFINE paid == Len(granted[k]) + failed[k]
             paidNext == Len(granted'[k]) + failed'[k]
  <2>1. /\ paid \in Nat /\ paidNext \in Nat
        /\ paidNext >= paid + (IF k = Head(rest[c]) THEN 1 ELSE 0)
    <3>1. granted[k] \in Seq(0..MaxTime) /\ failed[k] \in Nat
          /\ failed'[k] \in Nat /\ Len(granted'[k]) \in Nat
      BY <1>1, <1>2
    <3>2. Len(granted[k]) \in Nat
      BY <3>1, LenProperties
    <3>3. paid \in Nat /\ paidNext \in Nat
      <4>1. \A a, b \in Nat : a + b \in Nat
        OBVIOUS
      <4> QED
        BY <3>1, <3>2, <4>1, Zenon
    <3> QED
      BY <3>3
  <2>2. /\ IsFiniteSet(Admissions(k)) /\ Cardinality(Admissions(k)) \in Nat
        /\ Cardinality(Admissions(k)) + Cardinality(Past(k)) <= paid
    BY <1>2, FS_CardinalityType
  <2>3. Cardinality(Past(k)) \in Nat /\ Cardinality(Past(k)') \in Nat
    BY PastFinite
  <2> HIDE DEF paid, paidNext
  <2>4. CASE Len(rest[c]) # 1
    <3>1. admitted' = admitted /\ msg' = msg
      BY <2>4 DEF Pass
    <3>2. Admissions(k)' = Admissions(k)
      BY <3>1, AdmissionsSame
    <3>3. CASE k = Head(rest[c])
      <4>1. Cardinality(Past(k)') <= Cardinality(Past(k)) + 1
        BY <1>5, PastGrows
      <4>2. Cardinality(Admissions(k)') + Cardinality(Past(k)') <= paidNext
        BY <2>1, <2>2, <2>3, <3>2, <3>3, <4>1
      <4> QED
        BY <2>2, <3>2, <4>2 DEF paidNext
    <3>4. CASE k # Head(rest[c])
      <4>1. c \in Past(k)' => c \in Past(k)
        <5>1. Among(k, rest[c]) => Among(k, Tail(rest[c]))
          BY <1>3, <3>4, AmongTail
        <5>2. Applies(k, msg[c])' => Applies(k, msg[c])
          BY <3>1 DEF Applies, Level
        <5>3. Among(k, rest[c])' <=> Among(k, Tail(rest[c]))
          BY <1>6 DEF Among
        <5> QED
          BY <1>3, <5>1, <5>2, <5>3 DEF Past
      <4>2. Past(k)' \subseteq Past(k)
        <5>1. \A b \in Caller \ {c} : b \in Past(k)' <=> b \in Past(k)
          BY <1>5, PastOthers
        <5>2. Past(k)' \subseteq Caller
          BY DEF Past
        <5> QED
          BY <4>1, <5>1, <5>2
      <4>3. Cardinality(Past(k)') <= Cardinality(Past(k))
        BY <4>2, PastFinite, FS_Subset
      <4>4. Cardinality(Admissions(k)') + Cardinality(Past(k)') <= paidNext
        BY <2>1, <2>2, <2>3, <3>2, <3>4, <4>3
      <4> QED
        BY <2>2, <3>2, <4>4 DEF paidNext
    <3> QED
      BY <3>3, <3>4
  <2>5. CASE Len(rest[c]) = 1
    <3>1. admitted' = [admitted EXCEPT ![m] = @ + 1]
      BY <1>4, <2>5 DEF Pass
    <3>2. /\ IsFiniteSet(Admissions(k)')
          /\ Cardinality(Admissions(k)') =
               Cardinality(Admissions(k)) + IF Applies(k, m) THEN 1 ELSE 0
      BY <1>2, <2>2, <3>1, AdmissionsGrow
    <3>3. c \notin Past(k)'
      <4>1. rest'[c] = <<>>
        <5>1. Len(Tail(rest[c])) = 0
          BY <1>6, <2>5
        <5> QED
          BY <1>6, <5>1, EmptySeq
      <4> QED
        BY <4>1 DEF Past
    <3>4. Cardinality(Past(k)') =
            Cardinality(Past(k)) - IF c \in Past(k) THEN 1 ELSE 0
      BY <1>5, <3>3, PastShrinks
    <3>5. k # Head(rest[c]) /\ Applies(k, m) => c \in Past(k)
      <4> SUFFICES ASSUME k # Head(rest[c]), Applies(k, m)
                   PROVE  c \in Past(k)
        OBVIOUS
      <4>1. Head(rest[c]) = rest[c][1]
        BY <1>3, HeadTailProperties
      <4>2. ~Among(k, rest[c])
        BY <2>5, <4>1 DEF Among
      <4> QED
        BY <1>3, <1>4, <4>2 DEF Past
    <3>6. Cardinality(Admissions(k)') + Cardinality(Past(k)') <= paidNext
      <4>1. CASE k = Head(rest[c])
        BY <2>1, <2>2, <2>3, <3>2, <3>4, <4>1
      <4>2. CASE k # Head(rest[c]) /\ ~Applies(k, m)
        BY <2>1, <2>2, <2>3, <3>2, <3>4, <4>2
      <4>3. CASE k # Head(rest[c]) /\ Applies(k, m)
        BY <2>1, <2>2, <2>3, <3>2, <3>4, <3>5, <4>3
      <4> QED
        BY <4>1, <4>2, <4>3
    <3> QED
      BY <3>2, <3>6 DEF paidNext
  <2> QED
    BY <2>4, <2>5
<1> QED
  BY <1>7, <1>8 DEF PayInv

(* A step that pays and allows nothing, and brings nobody past a bucket.   *)
LEMMA NobodyPast ==
  ASSUME PayInv, cfg' = cfg,
         UNCHANGED <<granted, failed, admitted>>,
         \A b \in Caller : rest'[b] # <<>> => msg'[b] \in Message,
         \A k \in Bucket : Past(k)' \subseteq Past(k)
  PROVE  PayInv'
<1>1. ASSUME NEW k \in Bucket
      PROVE  /\ IsFiniteSet(Admissions(k)')
             /\ Cardinality(Admissions(k)') + Cardinality(Past(k)')
                  <= Len(granted[k]) + failed[k]
  <2>1. Admissions(k)' = Admissions(k)
    BY AdmissionsSame
  <2>2. Cardinality(Past(k)') <= Cardinality(Past(k))
    BY PastFinite, FS_Subset
  <2>3. IsFiniteSet(Admissions(k))
    BY DEF PayInv
  <2> QED
    <3>1. Cardinality(Admissions(k)) \in Nat
      BY <2>3, FS_CardinalityType
    <3>2. Cardinality(Admissions(k)') + Cardinality(Past(k)')
            <= Cardinality(Admissions(k)) + Cardinality(Past(k))
      BY <2>1, <2>2, <3>1, PastFinite
    <3> QED
      BY <2>1, <2>2, <2>3, <3>1, PastFinite DEF PayInv
<1> QED
  BY <1>1 DEF PayInv

LEMMA InitPay == Init => PayInv
<1> SUFFICES ASSUME Init PROVE PayInv
  OBVIOUS
<1>1. /\ failed = [k \in Bucket |-> 0] /\ admitted = [m \in Message |-> 0]
      /\ granted = [k \in Bucket |-> <<>>]
      /\ \A c \in Caller : rest[c] = <<>>
  BY DEF Init
<1>2. ASSUME NEW k \in Bucket
      PROVE  /\ IsFiniteSet(Admissions(k))
             /\ Cardinality(Admissions(k)) + Cardinality(Past(k))
                  <= Len(granted[k]) + failed[k]
  <2>1. Admissions(k) = {}
    <3>1. \A m \in Message : 1..admitted[m] = {}
      BY <1>1
    <3> QED
      BY <3>1 DEF Admissions
  <2>2. Past(k) = {}
    BY <1>1 DEF Past
  <2>3. granted[k] = <<>> /\ failed[k] = 0
    BY <1>1
  <2>4. IsFiniteSet({}) /\ Cardinality({}) = 0
    BY FS_EmptySet
  <2>5. Len(granted[k]) = 0
    BY <2>3
  <2> QED
    BY <2>1, <2>2, <2>3, <2>4, <2>5
<1> QED
  BY <1>1, <1>2 DEF PayInv

LEMMA BeginPays ==
  ASSUME TypeOK, PayInv, NEW c \in Caller, NEW m \in Message, Begin(c, m)
  PROVE  PayInv'
<1>1. /\ rest \in [Caller -> Seq(Bucket)]
      /\ msg \in [Caller -> Message \cup {NoMessage}]
  BY DEF TypeOK
<1>2. /\ \A b \in Caller \ {c} : rest'[b] = rest[b] /\ msg'[b] = msg[b]
      /\ rest'[c] = BuildLimitChecks(m) /\ msg'[c] = m
      /\ cfg' = cfg /\ UNCHANGED <<granted, failed, admitted>>
  BY <1>1 DEF Begin
<1>3. \A b \in Caller : rest'[b] # <<>> => msg'[b] \in Message
  BY <1>2 DEF PayInv
<1>4. ASSUME NEW k \in Bucket PROVE Past(k)' \subseteq Past(k)
  <2>1. \A b \in Caller \ {c} : b \in Past(k)' <=> b \in Past(k)
    BY <1>2, PastOthers
  <2>2. Applies(k, msg[c])' => Applies(k, m)
    BY <1>2 DEF Applies, Level
  <2>3. Applies(k, m) => Among(k, BuildLimitChecks(m))
    BY ChecksComplete
  <2>4. Among(k, BuildLimitChecks(m)) => Among(k, rest[c])'
    BY <1>2 DEF Among
  <2>5. c \notin Past(k)'
    BY <2>2, <2>3, <2>4 DEF Past
  <2>6. Past(k)' \subseteq Caller
    BY DEF Past
  <2> QED
    BY <2>1, <2>5, <2>6
<1> QED
  BY <1>2, <1>3, <1>4, NobodyPast

LEMMA RefusedPays ==
  ASSUME TypeOK, PayInv, NEW c \in Caller, TakeRefused(c)
  PROVE  PayInv'
<1>1. /\ rest \in [Caller -> Seq(Bucket)]
      /\ msg \in [Caller -> Message \cup {NoMessage}]
  BY DEF TypeOK
<1>2. /\ \A b \in Caller \ {c} : rest'[b] = rest[b] /\ msg'[b] = msg[b]
      /\ rest'[c] = <<>>
      /\ cfg' = cfg /\ UNCHANGED <<granted, failed, admitted>>
  BY <1>1 DEF TakeRefused, Refuse
<1>3. \A b \in Caller : rest'[b] # <<>> => msg'[b] \in Message
  BY <1>2 DEF PayInv
<1>4. ASSUME NEW k \in Bucket PROVE Past(k)' \subseteq Past(k)
  <2>1. \A b \in Caller \ {c} : b \in Past(k)' <=> b \in Past(k)
    BY <1>2, PastOthers
  <2>2. c \notin Past(k)' /\ Past(k)' \subseteq Caller
    BY <1>2 DEF Past
  <2> QED
    BY <2>1, <2>2
<1> QED
  BY <1>2, <1>3, <1>4, NobodyPast

(* A granted take appends to the takes of its bucket. *)
LEMMA GrantAppends ==
  ASSUME TypeOK, NEW h \in Bucket, NEW t, Grant(h, t), NEW k \in Bucket
  PROVE  /\ Len(granted[k]) \in Nat
         /\ Len(granted'[k]) =
              Len(granted[k]) + (IF k = h THEN 1 ELSE 0)
<1>1. granted \in [Bucket -> Seq(0..MaxTime)]
  BY DEF TypeOK
<1>2. granted[k] \in Seq(0..MaxTime) /\ Len(granted[k]) \in Nat
  BY <1>1, LenProperties
<1>3. granted' = [granted EXCEPT ![h] = Append(@, t)]
  BY DEF Grant
<1>4. CASE k = h
  <2>1. granted'[k] = Append(granted[k], t)
    BY <1>1, <1>3, <1>4
  <2>2. Len(Append(granted[k], t)) = Len(granted[k]) + 1
    BY <1>2
  <2> QED
    BY <1>2, <1>4, <2>1, <2>2
<1>5. CASE k # h
  <2>1. granted'[k] = granted[k]
    BY <1>1, <1>3, <1>5
  <2> QED
    BY <1>2, <1>5, <2>1
<1> QED
  BY <1>4, <1>5

LEMMA GrantedPays ==
  ASSUME TypeOK, PayInv, NEW c \in Caller, TakeGranted(c)
  PROVE  PayInv'
<1>1. /\ Called(c) /\ Pass(c) /\ Grant(Head(rest[c]), Clock(c))
      /\ cfg' = cfg /\ failed' = failed
  BY DEF TakeGranted
<1>2. PICK h \in Bucket : Head(rest[c]) = h
  <2>1. rest[c] \in Seq(Bucket) /\ rest[c] # <<>>
    BY <1>1 DEF TypeOK, Called
  <2> QED
    BY <2>1, HeadTailProperties
<1>3. failed \in [Bucket -> Nat]
  BY DEF PayInv
<1>4. ASSUME NEW k \in Bucket
      PROVE  /\ Len(granted'[k]) \in Nat
             /\ Len(granted'[k]) + failed'[k] >=
                  Len(granted[k]) + failed[k]
                    + (IF k = Head(rest[c]) THEN 1 ELSE 0)
  <2>1. /\ Len(granted[k]) \in Nat
        /\ Len(granted'[k]) = Len(granted[k]) + (IF k = h THEN 1 ELSE 0)
    BY <1>1, <1>2, GrantAppends
  <2>2. failed[k] \in Nat /\ failed'[k] = failed[k]
    BY <1>1, <1>3
  <2> DEFINE before == Len(granted[k])
             after == Len(granted'[k])
             one == IF k = h THEN 1 ELSE 0
  <2>3. before \in Nat /\ one \in Nat /\ after = before + one
    BY <2>1
  <2> HIDE DEF before, after, one
  <2>4. after \in Nat /\ after + failed'[k] >= before + failed[k] + one
    BY <2>2, <2>3
  <2> QED
    BY <1>2, <2>4 DEF before, after, one
<1> QED
  BY <1>1, <1>3, <1>4, PassPays

LEMMA ErrorPays ==
  ASSUME TypeOK, PayInv, NEW c \in Caller, TakeError(c)
  PROVE  PayInv'
<1>1. PICK h \in Bucket : Head(rest[c]) = h
  <2>1. rest[c] \in Seq(Bucket) /\ rest[c] # <<>>
    BY DEF TypeOK, Called, TakeError
  <2> QED
    BY <2>1, HeadTailProperties
<1>2. /\ Called(c) /\ Pass(c) /\ cfg' = cfg
      /\ failed' = [failed EXCEPT ![h] = @ + 1]
      /\ \/ granted' = granted \/ Grant(h, at[c])
  BY <1>1 DEF TakeError, Refuse
<1>3. failed \in [Bucket -> Nat] /\ failed' \in [Bucket -> Nat]
  BY <1>2 DEF PayInv
<1>4. ASSUME NEW k \in Bucket
      PROVE  /\ Len(granted'[k]) \in Nat
             /\ Len(granted'[k]) + failed'[k] >=
                  Len(granted[k]) + failed[k]
                    + (IF k = Head(rest[c]) THEN 1 ELSE 0)
  <2>1. failed[k] \in Nat
        /\ failed'[k] = failed[k] + (IF k = h THEN 1 ELSE 0)
    BY <1>2, <1>3
  <2>2. /\ Len(granted[k]) \in Nat /\ Len(granted'[k]) \in Nat
        /\ Len(granted'[k]) >= Len(granted[k])
    <3>1. CASE granted' = granted
      <4>1. granted[k] \in Seq(0..MaxTime)
        BY DEF TypeOK
      <4>2. Len(granted[k]) \in Nat
        BY <4>1, LenProperties
      <4> QED
        BY <3>1, <4>2
    <3>2. CASE Grant(h, at[c])
      <4> DEFINE before == Len(granted[k])
                 after == Len(granted'[k])
                 one == IF k = h THEN 1 ELSE 0
      <4>1. before \in Nat /\ one \in Nat /\ after = before + one
        BY <3>2, GrantAppends
      <4> HIDE DEF before, after, one
      <4>2. before \in Nat /\ after \in Nat /\ after >= before
        BY <4>1
      <4> QED
        BY <4>2 DEF before, after
    <3> QED
      BY <1>2, <3>1, <3>2
  <2> DEFINE before == Len(granted[k])
             after == Len(granted'[k])
             one == IF k = h THEN 1 ELSE 0
  <2>3. /\ before \in Nat /\ after \in Nat /\ one \in Nat
        /\ after >= before /\ failed'[k] = failed[k] + one
    BY <2>1, <2>2
  <2> HIDE DEF before, after, one
  <2>4. after \in Nat /\ after + failed'[k] >= before + failed[k] + one
    BY <2>1, <2>3
  <2> QED
    BY <1>1, <2>4 DEF before, after, one
<1> QED
  BY <1>2, <1>3, <1>4, PassPays

LEMMA StepPays == ASSUME TypeOK, PayInv, [Next]_vars PROVE PayInv'
<1>1. ASSUME UNCHANGED <<cfg, msg, rest, granted, failed, admitted>>
      PROVE  PayInv'
  <2>1. \A b \in Caller : rest'[b] # <<>> => msg'[b] \in Message
    BY <1>1 DEF PayInv
  <2>2. ASSUME NEW k \in Bucket PROVE Past(k)' \subseteq Past(k)
    BY <1>1 DEF Past, Among, Applies, Level
  <2> QED
    BY <1>1, <2>1, <2>2, NobodyPast
<1>2. ASSUME NEW c \in Caller, NEW m \in Message, Begin(c, m) PROVE PayInv'
  BY <1>2, BeginPays
<1>3. ASSUME NEW c \in Caller, ReadClock(c) PROVE PayInv'
  BY <1>1, <1>3 DEF ReadClock
<1>4. ASSUME NEW c \in Caller, TakeGranted(c) PROVE PayInv'
  BY <1>4, GrantedPays
<1>5. ASSUME NEW c \in Caller, TakeRefused(c) PROVE PayInv'
  BY <1>5, RefusedPays
<1>6. ASSUME NEW c \in Caller, TakeError(c) PROVE PayInv'
  BY <1>6, ErrorPays
<1>7. CASE Cleanup
  BY <1>1, <1>7 DEF Cleanup
<1>8. CASE Tick
  BY <1>1, <1>8 DEF Tick
<1>9. CASE UNCHANGED vars
  BY <1>1, <1>9 DEF vars
<1> QED
  BY <1>2, <1>3, <1>4, <1>5, <1>6, <1>7, <1>8, <1>9 DEF Next

(* AdmittedPaid for any number of callers and messages: whatever order the *)
(* callers of AllowN take their tokens in, an allowed message has taken    *)
(* (or, the store failing, skipped) one token of each limit that applies.  *)
THEOREM AdmittedPaidHolds == Spec => []AdmittedPaid
<1>1. TypeOK /\ PayInv => AdmittedPaid
  <2> SUFFICES ASSUME TypeOK, PayInv, NEW k \in Bucket
               PROVE  Cardinality(Admissions(k)) <= Len(granted[k]) + failed[k]
    BY DEF AdmittedPaid
  <2>1. /\ IsFiniteSet(Admissions(k))
        /\ Cardinality(Admissions(k)) + Cardinality(Past(k))
             <= Len(granted[k]) + failed[k]
    BY DEF PayInv
  <2>2. Cardinality(Admissions(k)) \in Nat /\ Cardinality(Past(k)) \in Nat
    BY <2>1, PastFinite, FS_CardinalityType
  <2>3. granted[k] \in Seq(0..MaxTime) /\ failed[k] \in Nat
    BY DEF TypeOK, PayInv
  <2>4. Len(granted[k]) \in Nat
    BY <2>3, LenProperties
  <2> DEFINE paid == Len(granted[k]) + failed[k]
  <2>5. paid \in Nat
    <3>1. \A a, b \in Nat : a + b \in Nat
      OBVIOUS
    <3> QED
      BY <2>3, <2>4, <3>1, Zenon
  <2>6. Cardinality(Admissions(k)) + Cardinality(Past(k)) <= paid
    BY <2>1
  <2> HIDE DEF paid
  <2>7. Cardinality(Admissions(k)) <= paid
    BY <2>2, <2>5, <2>6
  <2> QED
    BY <2>7 DEF paid
<1>2. Spec => []TypeOK
  <2>1. IInv => TypeOK
    BY DEF IInv
  <2> QED
    BY <2>1, IInvHolds, PTL
<1>3. TypeOK /\ PayInv /\ [Next]_vars => PayInv'
  BY StepPays
<1> QED
  BY <1>1, <1>2, <1>3, InitPay, PTL DEF Spec

=============================================================================
