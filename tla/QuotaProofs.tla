---------------------------- MODULE QuotaProofs ----------------------------
(***************************************************************************)
(* Proofs about the quota manager: for any number of users and goroutines, *)
(* every limit, every length of the periods and every default.             *)
(***************************************************************************)
EXTENDS Quota, TLAPS, FiniteSetTheorems

TypeInv ==
  /\ today \in Day
  /\ quotas \in [Holder -> StoredQuota \cup {NoQuota}]
  /\ usage \in [User -> [Day -> Nat]]
  /\ pc \in [Caller -> {"idle", "check", "call", "increment"}]
  /\ user \in [Caller -> User \cup {NoUser}]
  /\ quota \in [Caller -> QuotaDef \cup {NoQuota}]
  /\ edits \in Nat /\ failures \in Nat

(* A goroutine at work has a subject and a quota. *)
ActiveInv ==
  \A c \in Caller : pc[c] # "idle" => user[c] \in User /\ quota[c] \in QuotaDef

(* No counter exists of a period that has not begun. *)
FutureInv ==
  \A u \in User : \A d \in Day : d > today => usage[u][d] = 0

(* The store has always answered and the quotas are those of the start. *)
Calm == failures = 0 /\ edits = 0

(* Then a goroutine works with the quota that its subject has. *)
SettledInv ==
  Calm => \A c \in Caller : pc[c] # "idle" => quota[c] = EffectiveQuota(user[c])

(* The goroutines that handle a call of u that has passed Check. *)
Passed(u) == {c \in Caller : pc[c] \in {"call", "increment"} /\ user[c] = u}

(* The counter of u's own quota at this moment. *)
CurrentOf(u) == usage[u][PeriodStart(EffectiveQuota(u).period)]

(* The strengthening of Overshoot: calls past Check count like the ones in *)
(* the current counter, and there are none when the limit is 0, so that    *)
(* the next period begins no worse.                                        *)
PassedInv ==
  EnforceHard /\ Calm =>
    \A u \in User :
      /\ Passed(u) # {} => EffectiveQuota(u).limit > 0
      /\ CurrentOf(u) + Cardinality(Passed(u))
           <= EffectiveQuota(u).limit + Cardinality(Caller) - 1

IInv == /\ TypeInv /\ ActiveInv /\ FutureInv /\ SettledInv /\ PassedInv
        /\ Overshoot /\ NoFalseAlarm

-----------------------------------------------------------------------------
(* The day on which the period of length P that holds day t began. *)
StartOf(t, P) == t - (t % P)

LEMMA StartBounds ==
  ASSUME NEW P \in Nat \ {0}, NEW t \in Nat
  PROVE StartOf(t, P) \in 0..t
<1>1. t % P \in 0..t
  BY SMTT(30)
<1> QED BY <1>1 DEF StartOf

(* The next day belongs to the same period or begins one. *)
LEMMA StartNext ==
  ASSUME NEW P \in Nat \ {0}, NEW t \in Nat
  PROVE StartOf(t + 1, P) \in {StartOf(t, P), t + 1}
<1> DEFINE q == t \div P  r == t % P  q1 == (t + 1) \div P  r1 == (t + 1) % P
<1>1. t = P * q + r /\ r \in 0..(P - 1) /\ q \in Int
  BY SMTT(30)
<1>2. t + 1 = P * q1 + r1 /\ r1 \in 0..(P - 1) /\ q1 \in Int
  <2>1. t + 1 \in Nat
    OBVIOUS
  <2>2. \A n \in Nat : n = P * (n \div P) + (n % P) /\ n % P \in 0..(P - 1)
                       /\ n \div P \in Int
    BY SMTT(30)
  <2> QED BY <2>1, <2>2
<1> HIDE DEF q, r, q1, r1
<1>3. P * (q1 - q) = P * q1 - P * q
  BY <1>1, <1>2
<1>4. /\ q1 - q >= 2 => P * (q1 - q) >= 2 * P
      /\ q1 - q <= -1 => P * (q1 - q) <= -P
      /\ q1 - q = 1 => P * (q1 - q) = P
      /\ q1 - q = 0 => P * (q1 - q) = 0
  BY <1>1, <1>2
<1>5. P * (q1 - q) = 1 + r - r1
  <2> DEFINE a == P * q  b == P * q1
  <2>1. a \in Int /\ b \in Int
    BY <1>1, <1>2
  <2>2. t = a + r /\ t + 1 = b + r1 /\ P * (q1 - q) = b - a
    BY <1>1, <1>2, <1>3
  <2> HIDE DEF a, b
  <2> QED BY <2>1, <2>2, <1>1, <1>2
<1>6. q1 - q \in {0, 1}
  BY <1>1, <1>2, <1>4, <1>5
<1>7. r1 = r + 1 \/ r1 = 0
  BY <1>1, <1>2, <1>4, <1>5, <1>6
<1> QED
  BY <1>1, <1>2, <1>7 DEF StartOf, r, r1

(* A user always has a quota. *)
LEMMA EffectiveType ==
  ASSUME TypeInv, NEW u \in User
  PROVE EffectiveQuota(u) \in QuotaDef
<1>1. StoredQuota \subseteq QuotaDef
  BY QuotaAssumption DEF StoredQuota, QuotaDef
<1>2. DefaultQuota \in QuotaDef
  BY QuotaAssumption DEF DefaultQuota, QuotaDef
<1>3. quotas[u] \in StoredQuota \cup {NoQuota}
      /\ quotas[Tenant] \in StoredQuota \cup {NoQuota}
  BY DEF TypeInv, Holder
<1> QED BY <1>1, <1>2, <1>3 DEF EffectiveQuota

(* A period that has begun has a counter. *)
LEMMA PeriodStartType ==
  ASSUME TypeInv, NEW p \in Period
  PROVE PeriodStart(p) \in Day /\ PeriodStart(p) <= today
<1>1. PeriodDays[p] \in Nat \ {0} /\ today \in Nat /\ today <= MaxDay
  BY QuotaAssumption DEF TypeInv, Day
<1>2. StartOf(today, PeriodDays[p]) \in 0..today
  BY <1>1, StartBounds
<1> QED BY <1>1, <1>2, QuotaAssumption DEF PeriodStart, StartOf, Day

LEMMA PassedFinite ==
  ASSUME NEW u
  PROVE /\ IsFiniteSet(Passed(u)) /\ Cardinality(Passed(u)) \in Nat
        /\ Cardinality(Passed(u)) <= Cardinality(Caller)
        /\ Cardinality(Caller) \in Nat /\ Cardinality(Caller) >= 1
  BY FS_Subset, FS_CardinalityType, FS_EmptySet, QuotaAssumption DEF Passed

-----------------------------------------------------------------------------
LEMMA InitIInv == Init => IInv
<1> SUFFICES ASSUME Init PROVE IInv
  OBVIOUS
<1>1. TypeInv
  BY QuotaAssumption DEF Init, TypeInv, Day
<1>2. ActiveInv /\ FutureInv /\ SettledInv /\ NoFalseAlarm
  BY DEF Init, ActiveInv, FutureInv, SettledInv, NoFalseAlarm
<1>3. \A u \in User : \A d \in Day : usage[u][d] = 0
  BY DEF Init
<1>4. ASSUME NEW u \in User
      PROVE /\ CurrentOf(u) = 0 /\ Passed(u) = {}
            /\ EffectiveQuota(u).limit \in Nat
  <2>1. EffectiveQuota(u) \in QuotaDef
    BY <1>1, EffectiveType
  <2>2. PeriodStart(EffectiveQuota(u).period) \in Day
    BY <1>1, <2>1, PeriodStartType DEF QuotaDef
  <2> QED BY <1>3, <2>1, <2>2 DEF CurrentOf, Passed, Init, QuotaDef
<1>5. PassedInv
  BY <1>4, PassedFinite, FS_EmptySet DEF PassedInv
<1>6. Overshoot
  BY <1>3, <1>4, PassedFinite DEF Overshoot
<1> QED BY <1>1, <1>2, <1>5, <1>6 DEF IInv

(* The types and the subject of a goroutine at work, in every step. *)
LEMMA StepType == IInv /\ [Next]_vars => TypeInv' /\ ActiveInv'
<1> SUFFICES ASSUME TypeInv, ActiveInv, [Next]_vars PROVE TypeInv' /\ ActiveInv'
  BY DEF IInv
<1> USE DEF TypeInv, ActiveInv
<1>0. StoredQuota \subseteq QuotaDef /\ DefaultQuota \in QuotaDef
      /\ Tenant \in Holder /\ User \subseteq Holder
  BY QuotaAssumption DEF StoredQuota, QuotaDef, DefaultQuota, Holder
<1>l. ASSUME NEW c \in Caller, NEW u \in User, Lookup(c, u)
      PROVE \E q \in QuotaDef : quota' = [quota EXCEPT ![c] = q]
                                /\ failures' \in Nat
  <2>1. EffectiveQuota(u) \in QuotaDef
    BY EffectiveType
  <2>2. {quotas[Tenant], DefaultQuota} \ {NoQuota} \subseteq QuotaDef
    BY <1>0
  <2> QED BY <1>l, <2>1, <2>2 DEF Lookup, Fail
<1>1. ASSUME NEW c \in Caller, CallStep(c)
      PROVE TypeInv' /\ ActiveInv'
  <2>1. CASE CheckBegin(c)
    <3>1. PICK u \in User : user' = [user EXCEPT ![c] = u] /\ Lookup(c, u)
      BY <2>1 DEF CheckBegin
    <3> QED
      BY <2>1, <3>1, <1>l DEF CheckBegin, Goto, storeVars
  <2>2. CASE CallAccepted(c)
    <3>1. Lookup(c, user[c]) /\ user[c] \in User
      BY <2>2 DEF CallAccepted
    <3> QED
      BY <2>2, <3>1, <1>l DEF CallAccepted, Goto, storeVars
  <2>3. CASE CheckAllow(c) \/ CheckDeny(c) \/ CheckError(c) \/ CallFailed(c)
             \/ IncrementError(c)
    BY <2>3 DEF CheckAllow, CheckDeny, CheckError, CallFailed, IncrementError,
                Fail, Goto, Return, storeVars
  <2>4. CASE Increment(c)
    <3>1. PeriodStart(quota[c].period) \in Day /\ user[c] \in User
      BY <2>4, PeriodStartType DEF Increment, QuotaDef
    <3>2. usage' \in [User -> [Day -> Nat]]
      BY <2>4, <3>1 DEF Increment
    <3> QED
      BY <2>4, <3>2 DEF Increment, Return, Goto, storeVars
  <2> QED BY <1>1, <2>1, <2>2, <2>3, <2>4 DEF CallStep
<1>2. ASSUME NEW h \in Holder, SetQuota(h)
      PROVE TypeInv' /\ ActiveInv'
  BY <1>2 DEF SetQuota, callVars
<1>3. CASE NextDay
  BY <1>3, QuotaAssumption DEF NextDay, Day, storeVars, callVars
<1>4. CASE UNCHANGED vars
  BY <1>4 DEF vars, storeVars, callVars
<1> QED BY <1>1, <1>2, <1>3, <1>4 DEF Next

(* After a failure or a change of quotas nothing is claimed. *)
LEMMA NotCalm ==
  ASSUME ~Calm'
  PROVE SettledInv' /\ PassedInv' /\ Overshoot' /\ NoFalseAlarm'
  BY DEF Calm, SettledInv, PassedInv, Overshoot, NoFalseAlarm

LEMMA StepFuture == IInv /\ [Next]_vars => FutureInv'
<1> SUFFICES ASSUME TypeInv, ActiveInv, FutureInv, [Next]_vars PROVE FutureInv'
  BY DEF IInv
<1>1. CASE \E c \in Caller : Increment(c)
  <2>1. PICK c \in Caller : Increment(c)
    BY <1>1
  <2>2. /\ user[c] \in User /\ PeriodStart(quota[c].period) \in Day
        /\ PeriodStart(quota[c].period) <= today
    BY <2>1, PeriodStartType DEF Increment, ActiveInv, QuotaDef
  <2>3. \A u \in User : \A d \in Day :
          d # PeriodStart(quota[c].period) => usage'[u][d] = usage[u][d]
    BY <2>1, <2>2 DEF Increment, TypeInv
  <2>4. today' = today /\ today \in Int /\ Day \subseteq Int
    BY <2>1 DEF Increment, TypeInv, Day
  <2>5. PICK s \in Day : PeriodStart(quota[c].period) = s
    BY <2>2
  <2>6. ASSUME NEW u \in User, NEW d \in Day, d > today' PROVE usage'[u][d] = 0
    <3>1. d > today /\ d # s
      BY <2>2, <2>4, <2>5, <2>6
    <3> QED BY <2>3, <2>5, <3>1 DEF FutureInv
  <2> QED BY <2>6 DEF FutureInv
<1>2. CASE ~\E c \in Caller : Increment(c)
  <2>1. usage' = usage /\ (today' = today \/ today' = today + 1)
    BY <1>2 DEF Next, CallStep, CheckBegin, CheckAllow, CheckDeny, CheckError,
       CallFailed, CallAccepted, IncrementError, SetQuota, NextDay, vars,
       storeVars
  <2>2. today \in Int /\ \A d \in Day : d \in Int
    BY DEF TypeInv, Day
  <2>3. \A d \in Day : d > today' => d > today
    BY <2>1, <2>2
  <2> QED BY <2>1, <2>3 DEF FutureInv
<1> QED BY <1>1, <1>2

(* While the store answers and the quotas stay, so does everyone's quota. *)
LEMMA CalmBefore ==
  ASSUME IInv, [Next]_vars, Calm'
  PROVE /\ Calm /\ UNCHANGED <<quotas, failures, edits>>
        /\ \A u \in User : EffectiveQuota(u)' = EffectiveQuota(u)
        /\ \A c \in Caller : ~CheckError(c) /\ ~IncrementError(c)
<1>1. failures \in Nat /\ edits \in Nat
  BY DEF IInv, TypeInv
<1>2. ASSUME NEW h \in Holder, SetQuota(h) PROVE FALSE
  BY <1>1, <1>2 DEF SetQuota, Calm
<1>3. ~Fail
  BY <1>1 DEF Fail, Calm
<1>4. UNCHANGED <<quotas, failures, edits>>
  BY <1>2, <1>3 DEF Next, CallStep, CheckBegin, CheckAllow, CheckDeny,
     CheckError, CallFailed, CallAccepted, Increment, IncrementError, Lookup,
     NextDay, vars, storeVars
<1>5. \A u \in User : EffectiveQuota(u)' = EffectiveQuota(u)
  BY <1>4 DEF EffectiveQuota
<1>6. \A c \in Caller : ~CheckError(c) /\ ~IncrementError(c)
  BY <1>3 DEF CheckError, IncrementError
<1> QED BY <1>4, <1>5, <1>6 DEF Calm

LEMMA StepSettled ==
  ASSUME IInv, [Next]_vars, Calm'
  PROVE SettledInv'
<1> USE CalmBefore
<1>0. ActiveInv /\ SettledInv /\ pc \in [Caller -> {"idle", "check", "call", "increment"}]
      /\ user \in [Caller -> User \cup {NoUser}]
      /\ quota \in [Caller -> QuotaDef \cup {NoQuota}]
  BY DEF IInv, TypeInv
<1>1. ~Fail
  <2>1. failures \in Nat
    BY DEF IInv, TypeInv
  <2> QED BY <2>1 DEF Fail, Calm
<1> SUFFICES ASSUME NEW k \in Caller, pc'[k] # "idle"
             PROVE quota'[k] = EffectiveQuota(user'[k])
  <2>1. \A k \in Caller :
          (EffectiveQuota(user[k]))' = EffectiveQuota(user'[k])
    BY DEF EffectiveQuota
  <2> QED BY <2>1 DEF SettledInv
<1>2. CASE UNCHANGED <<pc[k], user[k], quota[k]>>
  BY <1>2, <1>0 DEF SettledInv
<1>3. CASE \E c \in Caller : CallStep(c)
  <2>1. PICK c \in Caller : CallStep(c)
    BY <1>3
  <2>2. CASE k # c
    <3>1. UNCHANGED <<pc[k], user[k], quota[k]>>
      BY <2>1, <2>2, <1>0, <1>1 DEF CallStep, CheckBegin, CheckAllow, CheckDeny,
         CheckError, CallFailed, CallAccepted, Increment, IncrementError, Lookup,
         Goto, Return
    <3> QED BY <3>1, <1>2
  <2>3. CASE k = c
    <3>1. CASE CheckBegin(c)
      <4>1. PICK u \in User : user' = [user EXCEPT ![c] = u] /\ Lookup(c, u)
        BY <3>1 DEF CheckBegin
      <4>2. user'[c] = u /\ quota'[c] = EffectiveQuota(u)
        BY <4>1, <1>0, <1>1 DEF Lookup
      <4> QED BY <4>2, <2>3
    <3>2. CASE CallAccepted(c)
      <4>1. user[c] \in User /\ user' = user
        BY <3>2, <1>0 DEF CallAccepted, ActiveInv
      <4>2. quota'[c] = EffectiveQuota(user[c])
        BY <3>2, <1>0, <1>1 DEF CallAccepted, Lookup
      <4> QED BY <4>1, <4>2, <2>3
    <3>3. CASE CheckAllow(c)
      <4>1. user[c] \in User /\ user' = user /\ quota' = quota /\ pc[c] # "idle"
        BY <3>3, <1>0 DEF CheckAllow, ActiveInv
      <4> QED BY <4>1, <2>3, <1>0 DEF SettledInv
    <3>4. CASE CheckDeny(c) \/ CallFailed(c) \/ Increment(c)
      <4>1. pc'[c] = "idle"
        BY <3>4, <1>0 DEF CheckDeny, CallFailed, Increment, Return, Goto
      <4> QED BY <4>1, <2>3
    <3> QED BY <2>1, <3>1, <3>2, <3>3, <3>4 DEF CallStep
  <2> QED BY <2>2, <2>3
<1>4. CASE ~\E c \in Caller : CallStep(c)
  <2>1. UNCHANGED <<pc, user, quota>>
    BY <1>4 DEF Next, SetQuota, NextDay, vars, callVars
  <2> QED BY <2>1, <1>2
<1> QED BY <1>3, <1>4

(* What a step that leaves the counters alone keeps, unless it lets a call *)
(* pass Check or sends an event.                                           *)
LEMMA QuietStep ==
  ASSUME IInv, [Next]_vars, Calm', UNCHANGED <<usage, today>>,
         \A u \in User : Passed(u)' \subseteq Passed(u)
  PROVE PassedInv' /\ Overshoot'
<1> USE CalmBefore
<1>1. \A u \in User : CurrentOf(u)' = CurrentOf(u)
  BY DEF CurrentOf, PeriodStart
<1>2. ASSUME NEW u \in User, NEW S, S \subseteq Passed(u)
      PROVE Cardinality(S) \in Nat /\ Cardinality(S) <= Cardinality(Passed(u))
            /\ Cardinality(Passed(u)) \in Nat
  BY <1>2, PassedFinite, FS_Subset, FS_CardinalityType
<1>3. ASSUME EnforceHard, NEW u \in User
      PROVE /\ Passed(u)' # {} => EffectiveQuota(u)'.limit > 0
            /\ CurrentOf(u)' + Cardinality(Passed(u)')
                 <= EffectiveQuota(u)'.limit + Cardinality(Caller) - 1
  <2>1. /\ Passed(u) # {} => EffectiveQuota(u).limit > 0
        /\ CurrentOf(u) + Cardinality(Passed(u))
             <= EffectiveQuota(u).limit + Cardinality(Caller) - 1
    BY <1>3 DEF IInv, PassedInv
  <2>2. CurrentOf(u) \in Nat /\ EffectiveQuota(u).limit \in Nat
    <3>1. EffectiveQuota(u) \in QuotaDef /\ TypeInv
      BY EffectiveType DEF IInv
    <3>2. PeriodStart(EffectiveQuota(u).period) \in Day
      BY <3>1, PeriodStartType DEF QuotaDef
    <3> QED BY <3>1, <3>2 DEF CurrentOf, TypeInv, QuotaDef
  <2>3. EffectiveQuota(u)' = EffectiveQuota(u) /\ CurrentOf(u)' = CurrentOf(u)
        /\ Passed(u)' \subseteq Passed(u)
    BY <1>1
  <2>4. Cardinality(Passed(u)') \in Nat
        /\ Cardinality(Passed(u)') <= Cardinality(Passed(u))
        /\ Cardinality(Passed(u)) \in Nat /\ Cardinality(Caller) \in Nat
    BY <2>3, <1>2, PassedFinite
  <2> QED BY <2>1, <2>2, <2>3, <2>4
<1>4. PassedInv'
  BY <1>3 DEF PassedInv
<1>5. Overshoot'
  BY DEF IInv, Overshoot, Calm
<1> QED BY <1>4, <1>5

(* Counters only grow: an event that was justified stays so. *)
LEMMA AlarmKept ==
  ASSUME IInv, [Next]_vars, Calm', events' = events,
         \A u \in User : \A d \in Day : usage'[u][d] >= usage[u][d]
                                        /\ usage'[u][d] \in Nat
  PROVE NoFalseAlarm'
<1> USE CalmBefore
<1>1. \A u \in User : \A d \in Day : usage[u][d] \in Nat
  BY DEF IInv, TypeInv
<1>2. \A u \in User : EffectiveQuota(u).limit \in Nat
                      /\ EffectiveQuota(u).soft \in Nat
  BY EffectiveType DEF IInv, QuotaDef
<1>3. NoFalseAlarm /\ Calm
  BY DEF IInv
<1>4. "exceeded" \in events' =>
        \E u \in User : \E d \in Day : usage'[u][d] >= EffectiveQuota(u)'.limit
  <2> SUFFICES ASSUME "exceeded" \in events'
               PROVE \E u \in User : \E d \in Day :
                       usage'[u][d] >= EffectiveQuota(u)'.limit
    OBVIOUS
  <2>1. PICK u \in User, d \in Day : usage[u][d] >= EffectiveQuota(u).limit
    BY <1>3 DEF NoFalseAlarm, Calm
  <2>2. usage'[u][d] >= EffectiveQuota(u).limit
    BY <2>1, <1>1, <1>2
  <2> QED BY <2>2
<1>5. "warning" \in events' =>
        \E u \in User : \E d \in Day : usage'[u][d] >= EffectiveQuota(u)'.soft
  <2> SUFFICES ASSUME "warning" \in events'
               PROVE \E u \in User : \E d \in Day :
                       usage'[u][d] >= EffectiveQuota(u)'.soft
    OBVIOUS
  <2>1. PICK u \in User, d \in Day : usage[u][d] >= EffectiveQuota(u).soft
    BY <1>3 DEF NoFalseAlarm, Calm
  <2>2. usage'[u][d] >= EffectiveQuota(u).soft
    BY <2>1, <1>1, <1>2
  <2> QED BY <2>2
<1> QED BY <1>4, <1>5 DEF NoFalseAlarm

(* Notify reports a limit that the caller's own counter has reached. *)
LEMMA AlarmRaised ==
  ASSUME IInv, [Next]_vars, Calm', NEW c \in Caller, pc[c] = "check",
         Notify(c), usage' = usage
  PROVE NoFalseAlarm'
<1> USE CalmBefore
<1> DEFINE u == user[c]
           d == PeriodStart(quota[c].period)
<1>1. u \in User /\ quota[c] = EffectiveQuota(u) /\ quota[c] \in QuotaDef
  BY DEF IInv, ActiveInv, SettledInv
<1>2. d \in Day /\ TypeInv
  BY <1>1, PeriodStartType DEF IInv, QuotaDef
<1>3. usage[u][d] \in Nat /\ Current(c) = usage[u][d]
      /\ EffectiveQuota(u).limit \in Nat /\ EffectiveQuota(u).soft \in Nat
  BY <1>1, <1>2 DEF TypeInv, Current, QuotaDef
<1> HIDE DEF u, d
<1>4. OverLimit(c) => usage[u][d] >= EffectiveQuota(u).limit
  BY <1>1, <1>3 DEF OverLimit
<1>5. OverSoft(c) => usage[u][d] >= EffectiveQuota(u).soft
  BY <1>1, <1>3 DEF OverSoft
<1>6. /\ "exceeded" \in events' => "exceeded" \in events \/ OverLimit(c)
      /\ "warning" \in events' => "warning" \in events \/ OverSoft(c)
  BY DEF Notify
<1>7. NoFalseAlarm /\ Calm
  BY DEF IInv
<1>8. "exceeded" \in events' =>
        \E v \in User : \E e \in Day : usage'[v][e] >= EffectiveQuota(v)'.limit
  BY <1>1, <1>2, <1>4, <1>6, <1>7 DEF NoFalseAlarm, Calm
<1>9. "warning" \in events' =>
        \E v \in User : \E e \in Day : usage'[v][e] >= EffectiveQuota(v)'.soft
  BY <1>1, <1>2, <1>5, <1>6, <1>7 DEF NoFalseAlarm, Calm
<1> QED BY <1>8, <1>9 DEF NoFalseAlarm

(* Types of the numbers that PassedInv compares. *)
LEMMA NumberTypes ==
  ASSUME TypeInv, NEW u \in User
  PROVE /\ CurrentOf(u) \in Nat /\ EffectiveQuota(u).limit \in Nat
        /\ PeriodStart(EffectiveQuota(u).period) \in Day
        /\ EffectiveQuota(u).period \in Period
<1>1. EffectiveQuota(u) \in QuotaDef
  BY EffectiveType
<1>2. PeriodStart(EffectiveQuota(u).period) \in Day
  BY <1>1, PeriodStartType DEF QuotaDef
<1> QED BY <1>1, <1>2 DEF CurrentOf, TypeInv, QuotaDef

(* A call passes Check: its own cost was still within the limit. *)
LEMMA AllowStep ==
  ASSUME IInv, [Next]_vars, Calm', NEW c \in Caller, CheckAllow(c)
  PROVE PassedInv' /\ Overshoot' /\ NoFalseAlarm'
<1> USE CalmBefore
<1>1. pc[c] = "check" /\ Notify(c)
      /\ UNCHANGED <<today, usage, quotas, user, quota>>
      /\ pc' = [pc EXCEPT ![c] = "call"]
  BY DEF CheckAllow, Goto, storeVars
<1>2. NoFalseAlarm'
  BY <1>1, AlarmRaised
<1>3. Overshoot'
  BY <1>1 DEF IInv, Overshoot, Calm
<1>4. ASSUME EnforceHard, NEW u \in User
      PROVE /\ Passed(u)' # {} => EffectiveQuota(u)'.limit > 0
            /\ CurrentOf(u)' + Cardinality(Passed(u)')
                 <= EffectiveQuota(u)'.limit + Cardinality(Caller) - 1
  <2>1. EffectiveQuota(u)' = EffectiveQuota(u) /\ CurrentOf(u)' = CurrentOf(u)
        /\ CurrentOf(u) \in Nat /\ EffectiveQuota(u).limit \in Nat
    BY <1>1, NumberTypes DEF CurrentOf, PeriodStart, IInv
  <2>2. CASE u = user[c]
    <3>1. quota[c] = EffectiveQuota(u)
      BY <1>1, <2>2 DEF IInv, SettledInv
    <3>2. Current(c) = CurrentOf(u)
      BY <3>1, <2>2 DEF Current, CurrentOf
    <3>3. CurrentOf(u) + 1 <= EffectiveQuota(u).limit
      BY <1>4, <2>1, <3>1, <3>2 DEF CheckAllow, OverLimit
    <3>4. Cardinality(Passed(u)') \in Nat
          /\ Cardinality(Passed(u)') <= Cardinality(Caller)
          /\ Cardinality(Caller) \in Nat
      <4>1. Passed(u)' \subseteq Caller
        BY DEF Passed
      <4> QED BY <4>1, FS_Subset, FS_CardinalityType, QuotaAssumption
    <3> QED BY <2>1, <3>3, <3>4
  <2>3. CASE u # user[c]
    <3>1. Passed(u)' = Passed(u)
      BY <1>1, <2>3 DEF Passed, IInv, TypeInv
    <3> QED BY <1>4, <2>1, <3>1 DEF IInv, PassedInv
  <2> QED BY <2>2, <2>3
<1>5. PassedInv'
  BY <1>4 DEF PassedInv
<1> QED BY <1>2, <1>3, <1>5

(* A call is counted: it moves from the calls past Check to the counter. *)
LEMMA IncrementStep ==
  ASSUME IInv, [Next]_vars, Calm', NEW c \in Caller, Increment(c)
  PROVE PassedInv' /\ Overshoot' /\ NoFalseAlarm'
<1> USE CalmBefore
<1> DEFINE v == user[c]
           s == PeriodStart(quota[c].period)
<1>1. v \in User /\ quota[c] = EffectiveQuota(v) /\ pc[c] = "increment"
  BY DEF IInv, ActiveInv, SettledInv, Increment
<1>2. s \in Day /\ TypeInv
  BY <1>1, NumberTypes DEF IInv
<1>3. /\ usage' = [usage EXCEPT ![v][s] = @ + 1]
      /\ pc' = [pc EXCEPT ![c] = "idle"] /\ user' = [user EXCEPT ![c] = NoUser]
      /\ UNCHANGED <<today, events>>
  BY DEF Increment, Return, Goto
<1>4. CurrentOf(v) = usage[v][s]
  BY <1>1 DEF CurrentOf
<1>h. v = user[c]
  OBVIOUS
<1> HIDE DEF v, s
<1>5. \A u \in User : \A d \in Day :
        usage'[u][d] = IF u = v /\ d = s THEN usage[u][d] + 1 ELSE usage[u][d]
  BY <1>1, <1>2, <1>3 DEF TypeInv
<1>6. \A u \in User : \A d \in Day : usage[u][d] \in Nat
  BY <1>2 DEF TypeInv
<1>7. NoFalseAlarm'
  <2>1. \A u \in User : \A d \in Day : usage'[u][d] >= usage[u][d]
                                       /\ usage'[u][d] \in Nat
    BY <1>5, <1>6
  <2> QED BY <2>1, <1>3, AlarmKept
<1>8. ASSUME NEW u \in User
      PROVE CurrentOf(u)' = IF u = v THEN CurrentOf(u) + 1 ELSE CurrentOf(u)
  <2>1. PeriodStart(EffectiveQuota(u).period)' = PeriodStart(EffectiveQuota(u).period)
    BY <1>3 DEF PeriodStart
  <2>2. PeriodStart(EffectiveQuota(u).period) \in Day
    BY <1>2, NumberTypes
  <2>3. u = v => PeriodStart(EffectiveQuota(u).period) = s
    BY <1>1 DEF s
  <2> QED BY <1>5, <2>1, <2>2, <2>3 DEF CurrentOf
<1>9. ASSUME NEW u \in User
      PROVE Passed(u)' = IF u = v THEN Passed(u) \ {c} ELSE Passed(u)
  BY <1>1, <1>2, <1>3, <1>h, QuotaAssumption DEF Passed, TypeInv
<1>10. c \in Passed(v)
  BY <1>1, <1>h DEF Passed
<1>11. ASSUME EnforceHard, NEW u \in User
       PROVE /\ Passed(u)' # {} => EffectiveQuota(u)'.limit > 0
             /\ CurrentOf(u)' + Cardinality(Passed(u)')
                  <= EffectiveQuota(u)'.limit + Cardinality(Caller) - 1
             /\ Cardinality(Passed(u)') \in Nat
  <2>1. /\ Passed(u) # {} => EffectiveQuota(u).limit > 0
        /\ CurrentOf(u) + Cardinality(Passed(u))
             <= EffectiveQuota(u).limit + Cardinality(Caller) - 1
    BY <1>11 DEF IInv, PassedInv
  <2>2. CurrentOf(u) \in Nat /\ EffectiveQuota(u).limit \in Nat
    BY <1>2, NumberTypes
  <2>3. IsFiniteSet(Passed(u)) /\ Cardinality(Passed(u)) \in Nat
        /\ Cardinality(Caller) \in Nat
    BY PassedFinite
  <2>4. CASE u = v
    <3>1. Cardinality(Passed(u) \ {c}) = Cardinality(Passed(u)) - 1
      BY <2>3, <2>4, <1>10, FS_RemoveElement
    <3>2. Cardinality(Passed(u) \ {c}) \in Nat
      BY <2>3, FS_RemoveElement, FS_CardinalityType
    <3> QED BY <2>1, <2>2, <2>3, <2>4, <3>1, <3>2, <1>8, <1>9, <1>10
  <2>5. CASE u # v
    BY <2>1, <2>3, <2>5, <1>8, <1>9
  <2> QED BY <2>4, <2>5
<1>12. PassedInv'
  BY <1>11 DEF PassedInv
<1>13. Overshoot'
  <2> SUFFICES ASSUME EnforceHard, NEW u \in User, NEW d \in Day
               PROVE usage'[u][d] <= EffectiveQuota(u)'.limit + Cardinality(Caller) - 1
    BY DEF Overshoot
  <2>1. CASE u = v /\ d = s
    <3>1. CurrentOf(u)' = usage'[u][d]
      BY <2>1, <1>4, <1>5, <1>8
    <3>2. EffectiveQuota(u)'.limit \in Nat /\ usage'[u][d] \in Nat
          /\ Cardinality(Caller) \in Nat
      BY <1>2, <1>5, <1>6, NumberTypes, PassedFinite
    <3> QED BY <3>1, <3>2, <1>11
  <2>2. CASE ~(u = v /\ d = s)
    BY <2>2, <1>5 DEF IInv, Overshoot, Calm
  <2> QED BY <2>1, <2>2
<1> QED BY <1>7, <1>12, <1>13

(* The next day: a period that begins has no counter yet, and as many      *)
(* calls past Check as there are goroutines.                               *)
LEMMA DayStep ==
  ASSUME IInv, [Next]_vars, Calm', NextDay
  PROVE PassedInv' /\ Overshoot' /\ NoFalseAlarm'
<1> USE CalmBefore
<1>1. /\ today' = today + 1 /\ UNCHANGED <<usage, pc, user, events>>
      /\ TypeInv /\ today \in Nat /\ today + 1 \in Day
  BY QuotaAssumption DEF NextDay, storeVars, callVars, IInv, TypeInv, Day
<1>2. NoFalseAlarm'
  <2>1. \A u \in User : \A d \in Day : usage'[u][d] >= usage[u][d]
                                       /\ usage'[u][d] \in Nat
    BY <1>1 DEF TypeInv
  <2> QED BY <2>1, <1>1, AlarmKept
<1>3. Overshoot'
  BY <1>1 DEF IInv, Overshoot, Calm
<1>4. ASSUME EnforceHard, NEW u \in User
      PROVE /\ Passed(u)' # {} => EffectiveQuota(u)'.limit > 0
            /\ CurrentOf(u)' + Cardinality(Passed(u)')
                 <= EffectiveQuota(u)'.limit + Cardinality(Caller) - 1
  <2> DEFINE p == EffectiveQuota(u).period
  <2>1. /\ Passed(u) # {} => EffectiveQuota(u).limit > 0
        /\ CurrentOf(u) + Cardinality(Passed(u))
             <= EffectiveQuota(u).limit + Cardinality(Caller) - 1
    BY <1>4 DEF IInv, PassedInv
  <2>2. /\ CurrentOf(u) \in Nat /\ EffectiveQuota(u).limit \in Nat /\ p \in Period
        /\ Cardinality(Passed(u)) \in Nat /\ Cardinality(Caller) \in Nat
        /\ Cardinality(Passed(u)) <= Cardinality(Caller) /\ Cardinality(Caller) >= 1
        /\ Passed(u) = {} => Cardinality(Passed(u)) = 0
    BY <1>1, NumberTypes, PassedFinite, FS_EmptySet
  <2>3. Passed(u)' = Passed(u) /\ EffectiveQuota(u)' = EffectiveQuota(u)
    BY <1>1 DEF Passed
  <2>4. StartOf(today + 1, PeriodDays[p]) \in {StartOf(today, PeriodDays[p]), today + 1}
    BY <1>1, <2>2, StartNext, QuotaAssumption
  <2>5. CurrentOf(u)' = usage[u][StartOf(today + 1, PeriodDays[p])]
        /\ CurrentOf(u) = usage[u][StartOf(today, PeriodDays[p])]
    BY <1>1, <2>3 DEF CurrentOf, PeriodStart, StartOf
  <2>6. usage[u][today + 1] = 0
    BY <1>1 DEF IInv, FutureInv
  <2>7. CurrentOf(u)' \in {CurrentOf(u), 0}
    BY <2>4, <2>5, <2>6
  <2> QED BY <2>1, <2>2, <2>3, <2>7
<1>5. PassedInv'
  BY <1>4 DEF PassedInv
<1> QED BY <1>2, <1>3, <1>5

LEMMA StepIInv == IInv /\ [Next]_vars => IInv'
<1> SUFFICES ASSUME IInv, [Next]_vars PROVE IInv'
  OBVIOUS
<1>1. TypeInv' /\ ActiveInv' /\ FutureInv'
  BY StepType, StepFuture
<1>2. CASE ~Calm'
  BY <1>1, <1>2, NotCalm DEF IInv
<1>3. CASE Calm'
  <2>1. SettledInv'
    BY <1>3, StepSettled
  <2>2. CASE \E c \in Caller : CheckAllow(c)
    BY <1>1, <1>3, <2>1, <2>2, AllowStep DEF IInv
  <2>3. CASE \E c \in Caller : Increment(c)
    BY <1>1, <1>3, <2>1, <2>3, IncrementStep DEF IInv
  <2>4. CASE NextDay
    BY <1>1, <1>3, <2>1, <2>4, DayStep DEF IInv
  <2>5. ASSUME UNCHANGED <<usage, today>>,
               \A u \in User : Passed(u)' \subseteq Passed(u), NoFalseAlarm'
        PROVE IInv'
    BY <1>1, <1>3, <2>1, <2>5, QuietStep DEF IInv
  <2>6. events' = events /\ UNCHANGED usage => NoFalseAlarm'
    <3>1. \A u \in User : \A d \in Day : usage[u][d] >= usage[u][d]
                                         /\ usage[u][d] \in Nat
      BY DEF IInv, TypeInv
    <3> QED BY <3>1, <1>3, AlarmKept
  <2>7. ASSUME NEW c \in Caller, CheckBegin(c) \/ CallAccepted(c) \/ CallFailed(c)
        PROVE IInv'
    <3>1. UNCHANGED <<usage, today, events>>
      BY <2>7 DEF CheckBegin, CallAccepted, CallFailed, storeVars
    <3>2. \A u \in User : Passed(u)' \subseteq Passed(u)
      BY <2>7, QuotaAssumption DEF CheckBegin, CallAccepted, CallFailed, Goto,
         Return, Passed, IInv, TypeInv
    <3> QED BY <3>1, <3>2, <2>5, <2>6
  <2>8. ASSUME NEW c \in Caller, CheckDeny(c)
        PROVE IInv'
    <3>1. UNCHANGED <<usage, today>> /\ pc[c] = "check" /\ Notify(c)
      BY <2>8 DEF CheckDeny, storeVars
    <3>2. \A u \in User : Passed(u)' \subseteq Passed(u)
      BY <2>8, QuotaAssumption DEF CheckDeny, Goto, Return, Passed, IInv, TypeInv
    <3> QED BY <3>1, <3>2, <2>5, <1>3, AlarmRaised
  <2>9. CASE UNCHANGED vars
    <3>1. UNCHANGED <<usage, today, events, pc, user>>
      BY <2>9 DEF vars, storeVars, callVars
    <3>2. \A u \in User : Passed(u)' \subseteq Passed(u)
      BY <3>1 DEF Passed
    <3> QED BY <3>1, <3>2, <2>5, <2>6
  <2>10. ~\E h \in Holder : SetQuota(h)
    <3>1. edits' = edits /\ edits \in Nat
      BY <1>3, CalmBefore DEF IInv, TypeInv
    <3> QED BY <3>1 DEF SetQuota
  <2> QED
    BY <1>3, CalmBefore, <2>2, <2>3, <2>4, <2>7, <2>8, <2>9, <2>10
       DEF Next, CallStep
<1> QED BY <1>2, <1>3

LEMMA IInvHolds == Spec => []IInv
  BY InitIInv, StepIInv, PTL DEF Spec

(* The read of the usage in Check and its increment are two accesses, so   *)
(* that concurrent calls can exceed the limit of a period; they do so by   *)
(* at most one less than the number of goroutines, for every limit, 0      *)
(* included, and across the end of a period (manager.go, Check).           *)
THEOREM OvershootHolds == Spec => []Overshoot
<1>1. IInv => Overshoot
  BY DEF IInv
<1> QED BY IInvHolds, <1>1, PTL

(* A billing event about a quota names a limit that some user has used up  *)
(* (manager.go, sendWebhook).                                              *)
THEOREM NoFalseAlarmHolds == Spec => []NoFalseAlarm
<1>1. IInv => NoFalseAlarm
  BY DEF IInv
<1> QED BY IInvHolds, <1>1, PTL

-----------------------------------------------------------------------------
(* Conservation is inductive with the types of its counters and with the   *)
(* finiteness of the set of calls counted.                                 *)
CountInv ==
  /\ accepted \in [User -> Nat] /\ uncounted \in [User -> Nat]
  /\ \A u \in User : IsFiniteSet(Counted(u))
  /\ Conservation

LEMMA PendingFinite ==
  ASSUME NEW u
  PROVE  /\ IsFiniteSet(Pending(u)) /\ Cardinality(Pending(u)) \in Nat
         /\ IsFiniteSet(Pending(u)') /\ Cardinality(Pending(u)') \in Nat
<1>1. Pending(u) \subseteq Caller /\ Pending(u)' \subseteq Caller
  BY DEF Pending
<1> QED BY <1>1, FS_Subset, FS_CardinalityType, QuotaAssumption

LEMMA InitCount == Init => CountInv
<1> SUFFICES ASSUME Init PROVE CountInv
  OBVIOUS
<1>1. accepted \in [User -> Nat] /\ uncounted \in [User -> Nat]
  BY DEF Init
<1>2. ASSUME NEW u \in User
      PROVE  Counted(u) = {} /\ Pending(u) = {}
             /\ accepted[u] = 0 /\ uncounted[u] = 0
  <2>1. \A d \in Day : usage[u][d] = 0
    BY DEF Init
  <2>2. Counted(u) = {}
    BY <2>1 DEF Counted
  <2>3. Pending(u) = {} /\ accepted[u] = 0 /\ uncounted[u] = 0
    BY DEF Init, Pending
  <2> QED BY <2>2, <2>3
<1>3. Conservation
  BY <1>2, FS_EmptySet DEF Conservation
<1> QED BY <1>1, <1>2, <1>3, FS_EmptySet DEF CountInv

(* Steps that neither begin nor end an increment. *)
LEMMA CountKept ==
  ASSUME CountInv, UNCHANGED <<usage, accepted, uncounted>>,
         \A u \in User : Pending(u)' = Pending(u)
  PROVE  CountInv'
<1>1. \A u \in User : Counted(u)' = Counted(u)
  BY DEF Counted
<1> QED BY <1>1 DEF CountInv, Conservation

(* A step of caller c that changes Pending, for a call of v. *)
LEMMA PendingMoves ==
  ASSUME TypeInv, NEW c \in Caller, NEW v \in User, user[c] = v,
         \A b \in Caller : b # c => pc'[b] = pc[b] /\ user'[b] = user[b]
  PROVE  /\ \A u \in User : u # v /\ (user'[c] = v \/ pc'[c] # "increment")
              => Pending(u)' = Pending(u)
         /\ pc[c] # "increment" /\ pc'[c] = "increment" /\ user'[c] = v =>
              Cardinality(Pending(v)') = Cardinality(Pending(v)) + 1
         /\ pc[c] = "increment" /\ pc'[c] # "increment" =>
              Cardinality(Pending(v)) = Cardinality(Pending(v)') + 1
<1>1. \A u \in User : u # v /\ (user'[c] = v \/ pc'[c] # "increment")
        => Pending(u)' = Pending(u)
  BY DEF Pending
<1>2. ASSUME pc[c] # "increment", pc'[c] = "increment", user'[c] = v
      PROVE  Cardinality(Pending(v)') = Cardinality(Pending(v)) + 1
  <2>1. Pending(v)' = Pending(v) \cup {c} /\ c \notin Pending(v)
    BY <1>2 DEF Pending
  <2> QED BY <2>1, PendingFinite, FS_AddElement
<1>3. ASSUME pc[c] = "increment", pc'[c] # "increment"
      PROVE  Cardinality(Pending(v)) = Cardinality(Pending(v)') + 1
  <2>1. Pending(v)' = Pending(v) \ {c} /\ c \in Pending(v)
    BY <1>3 DEF Pending
  <2>2. Cardinality(Pending(v)') = Cardinality(Pending(v)) - 1
    BY <2>1, PendingFinite, FS_RemoveElement
  <2> QED BY <2>2, PendingFinite
<1> QED BY <1>1, <1>2, <1>3

(* Increment adds one call to one counter. *)
LEMMA CountedGrows ==
  ASSUME TypeInv, NEW v \in User, NEW s \in Day,
         usage' = [usage EXCEPT ![v][s] = @ + 1],
         IsFiniteSet(Counted(v))
  PROVE  /\ \A u \in User : u # v => Counted(u)' = Counted(u)
         /\ IsFiniteSet(Counted(v)')
         /\ Cardinality(Counted(v)') = Cardinality(Counted(v)) + 1
<1> DEFINE n == usage[v][s] + 1
           new == <<s, n>>
<1>1. /\ \A u \in User : u # v => usage'[u] = usage[u]
      /\ \A d \in Day : d # s => usage'[v][d] = usage[v][d]
      /\ usage'[v][s] = n /\ usage[v][s] \in Nat
  BY DEF TypeInv
<1>2. \A u \in User : u # v => Counted(u)' = Counted(u)
  BY <1>1 DEF Counted
<1>3. 1..n = (1..usage[v][s]) \cup {n} /\ n \notin 1..usage[v][s]
  BY <1>1
<1>4. new \notin Counted(v)
  BY <1>3 DEF Counted
<1>5. Counted(v)' = Counted(v) \cup {new}
  <2>1. ASSUME NEW x \in Counted(v)' PROVE x \in Counted(v) \cup {new}
    <3>1. PICK d \in Day : x \in {<<d, i>> : i \in 1..usage'[v][d]}
      BY DEF Counted
    <3>2. CASE d = s
      <4>1. PICK i \in 1..n : x = <<s, i>>
        BY <1>1, <3>1, <3>2
      <4>2. i = n \/ i \in 1..usage[v][s]
        BY <1>3
      <4> QED BY <4>1, <4>2 DEF Counted
    <3>3. CASE d # s
      BY <1>1, <3>1, <3>3 DEF Counted
    <3> QED BY <3>2, <3>3
  <2>2. new \in Counted(v)'
    <3>1. new \in {<<s, i>> : i \in 1..usage'[v][s]}
      BY <1>1, <1>3
    <3> QED BY <3>1 DEF Counted
  <2>3. ASSUME NEW x \in Counted(v) PROVE x \in Counted(v)'
    <3>1. PICK d \in Day : x \in {<<d, i>> : i \in 1..usage[v][d]}
      BY DEF Counted
    <3>2. 1..usage[v][d] \subseteq 1..usage'[v][d]
      BY <1>1, <1>3
    <3>3. x \in {<<d, i>> : i \in 1..usage'[v][d]}
      BY <3>1, <3>2
    <3> QED BY <3>3 DEF Counted
  <2> QED BY <2>1, <2>2, <2>3
<1> HIDE DEF new
<1>6. IsFiniteSet(Counted(v)') /\ Cardinality(Counted(v)') = Cardinality(Counted(v)) + 1
  BY <1>4, <1>5, FS_AddElement
<1> QED BY <1>2, <1>6

LEMMA StepCount == ASSUME IInv, CountInv, [Next]_vars PROVE CountInv'
<1>1. TypeInv /\ ActiveInv
  BY DEF IInv
<1>2. ASSUME NEW c \in Caller,
             CallAccepted(c) \/ Increment(c) \/ IncrementError(c)
      PROVE  CountInv'
  <2>0. PICK v \in User : user[c] = v /\ quota[c] \in QuotaDef
    BY <1>1, <1>2 DEF CallAccepted, Increment, IncrementError, ActiveInv
  <2>1. \A b \in Caller : b # c => pc'[b] = pc[b] /\ user'[b] = user[b]
    BY <1>1, <1>2 DEF CallAccepted, Increment, IncrementError, Goto, Return,
       TypeInv
  <2>2. /\ \A u \in User : Cardinality(Counted(u)) \in Nat
        /\ \A u \in User : Cardinality(Pending(u)) \in Nat
        /\ \A u \in User : Cardinality(Pending(u)') \in Nat
    BY PendingFinite, FS_CardinalityType DEF CountInv
  <2>3. CASE CallAccepted(c)
    <3>1. /\ usage' = usage /\ uncounted' = uncounted
          /\ accepted' = [accepted EXCEPT ![v] = @ + 1]
          /\ pc[c] = "call" /\ pc'[c] = "increment" /\ user'[c] = v
      BY <1>1, <2>0, <2>3 DEF CallAccepted, Goto, TypeInv, storeVars
    <3>2. \A u \in User : Counted(u)' = Counted(u)
      BY <3>1 DEF Counted
    <3>3. /\ \A u \in User : u # v => Pending(u)' = Pending(u)
          /\ Cardinality(Pending(v)') = Cardinality(Pending(v)) + 1
      BY <1>1, <2>0, <2>1, <3>1, PendingMoves
    <3>4. Conservation'
      BY <2>0, <2>1, <2>2, <3>1, <3>2, <3>3 DEF CountInv, Conservation
    <3> QED BY <2>0, <2>1, <3>1, <3>2, <3>4 DEF CountInv
  <2>4. CASE IncrementError(c)
    <3>1. /\ usage' = usage /\ accepted' = accepted
          /\ uncounted' = [uncounted EXCEPT ![v] = @ + 1]
          /\ pc[c] = "increment" /\ pc'[c] = "idle"
      BY <1>1, <2>0, <2>4 DEF IncrementError, Goto, Return, TypeInv, storeVars
    <3>2. \A u \in User : Counted(u)' = Counted(u)
      BY <3>1 DEF Counted
    <3>3. /\ \A u \in User : u # v => Pending(u)' = Pending(u)
          /\ Cardinality(Pending(v)) = Cardinality(Pending(v)') + 1
      BY <1>1, <2>0, <2>1, <3>1, PendingMoves
    <3>4. Conservation'
      <4>1. ASSUME NEW u \in User
            PROVE  /\ accepted'[u] = accepted[u]
                   /\ Cardinality(Counted(u)') + Cardinality(Pending(u)')
                        + uncounted'[u]
                      = Cardinality(Counted(u)) + Cardinality(Pending(u))
                          + uncounted[u]
        <5>1. uncounted[u] \in Nat
          BY DEF CountInv
        <5>2. CASE u = v
          BY <2>0, <2>2, <3>1, <3>2, <3>3, <5>1, <5>2 DEF CountInv
        <5>3. CASE u # v
          BY <2>0, <2>2, <3>1, <3>2, <3>3, <5>1, <5>3 DEF CountInv
        <5> QED BY <5>2, <5>3
      <4> QED BY <4>1 DEF CountInv, Conservation
    <3> QED BY <2>0, <2>1, <3>1, <3>2, <3>4 DEF CountInv
  <2>5. CASE Increment(c)
    <3> DEFINE s == PeriodStart(quota[c].period)
    <3>1. /\ usage' = [usage EXCEPT ![v][s] = @ + 1]
          /\ accepted' = accepted /\ uncounted' = uncounted
          /\ pc[c] = "increment" /\ pc'[c] = "idle"
      BY <1>1, <2>0, <2>5 DEF Increment, Goto, Return, TypeInv
    <3>2. s \in Day
      BY <1>1, <2>0, <2>1, PeriodStartType DEF QuotaDef
    <3>3. /\ \A u \in User : u # v => Pending(u)' = Pending(u)
          /\ Cardinality(Pending(v)) = Cardinality(Pending(v)') + 1
      BY <1>1, <2>0, <2>1, <3>1, PendingMoves
    <3> HIDE DEF s
    <3>4. IsFiniteSet(Counted(v))
      BY <2>0 DEF CountInv
    <3>5. /\ \A u \in User : u # v => Counted(u)' = Counted(u)
          /\ IsFiniteSet(Counted(v)')
          /\ Cardinality(Counted(v)') = Cardinality(Counted(v)) + 1
      BY <1>1, <2>0, <2>1, <3>1, <3>2, <3>4, CountedGrows
    <3>6. Conservation'
      <4>1. ASSUME NEW u \in User
            PROVE  /\ accepted'[u] = accepted[u]
                   /\ Cardinality(Counted(u)') + Cardinality(Pending(u)')
                        + uncounted'[u]
                      = Cardinality(Counted(u)) + Cardinality(Pending(u))
                          + uncounted[u]
        <5>1. uncounted[u] \in Nat
          BY DEF CountInv
        <5>2. CASE u = v
          BY <2>0, <2>2, <3>1, <3>3, <3>5, <5>1, <5>2 DEF CountInv
        <5>3. CASE u # v
          BY <2>0, <2>2, <3>1, <3>3, <3>5, <5>1, <5>3 DEF CountInv
        <5> QED BY <5>2, <5>3
      <4> QED BY <4>1 DEF CountInv, Conservation
    <3>7. \A u \in User : IsFiniteSet(Counted(u)')
      BY <3>5 DEF CountInv
    <3> QED BY <3>1, <3>6, <3>7 DEF CountInv
  <2> QED BY <1>2, <2>3, <2>4, <2>5
<1>3. ASSUME NEW c \in Caller, CheckBegin(c) \/ CheckAllow(c) \/ CheckDeny(c)
                               \/ CheckError(c) \/ CallFailed(c)
      PROVE  CountInv'
  <2>1. UNCHANGED <<usage, accepted, uncounted>>
    BY <1>3 DEF CheckBegin, CheckAllow, CheckDeny, CheckError, CallFailed,
       storeVars
  <2>2. \A u \in User : Pending(u)' = Pending(u)
    <3>1. /\ pc[c] # "increment" /\ pc'[c] # "increment"
          /\ \A b \in Caller : b # c => pc'[b] = pc[b] /\ user'[b] = user[b]
      BY <1>1, <1>3 DEF CheckBegin, CheckAllow, CheckDeny, CheckError,
         CallFailed, Goto, Return, TypeInv
    <3> QED BY <3>1 DEF Pending
  <2> QED BY <2>1, <2>2, CountKept
<1>4. CASE NextDay \/ (\E h \in Holder : SetQuota(h)) \/ UNCHANGED vars
  <2>1. UNCHANGED <<usage, accepted, uncounted, pc, user>>
    BY <1>4 DEF NextDay, SetQuota, vars, storeVars, callVars
  <2>2. \A u \in User : Pending(u)' = Pending(u)
    BY <2>1 DEF Pending
  <2> QED BY <2>1, <2>2, CountKept
<1> QED BY <1>2, <1>3, <1>4 DEF Next, CallStep

(* Every call that a backend accepted is counted exactly once, in one      *)
(* period, unless its increment failed, however Check, the call and        *)
(* Increment interleave with the end of periods and changed quotas         *)
(* (manager.go, Increment).                                                *)
THEOREM ConservationHolds == Spec => []Conservation
<1>1. CountInv => Conservation
  BY DEF CountInv
<1>2. IInv /\ CountInv /\ [Next]_vars => CountInv'
  BY StepCount
<1> QED BY InitCount, IInvHolds, <1>1, <1>2, PTL DEF Spec

=============================================================================
