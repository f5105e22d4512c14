------------------------------- MODULE Quota -------------------------------
(***************************************************************************)
(* The quota manager (internal/quota) as a session uses it: Check before a *)
(* tools/call, Increment after the backend has accepted it                 *)
(* (internal/mcpws/mcpws.go, handleMessage).  One tenant and one quota     *)
(* type.  The usage counter of a user is kept per start day of a period.   *)
(* PeriodBounds and the access to the counter are one step: an access that *)
(* comes after the end of its period commutes with that end.               *)
(***************************************************************************)
EXTENDS Integers, FiniteSets

CONSTANTS
  User,         \* subjects of the tenant
  Caller,       \* goroutines that handle a tools/call
  Limits,       \* hard limits a quota may have
  SoftLimit,    \* the soft limit of every stored quota, 0 for none
  DefaultDaily, \* cfg.DefaultDailyRequests
  DefaultMonthly, \* cfg.DefaultMonthlyRequests
  EnforceHard,  \* cfg.EnforceHard
  PeriodDays,   \* length in days of each period
  MaxDay,       \* bound on the clock, in days
  MaxAccepted,  \* bound on the calls accepted per user
  MaxEdits,     \* bound on the number of changed quotas
  MaxFailures,  \* bound on failing calls of the store (Postgres)
  Tenant,       \* the empty user ID: the quota of the whole tenant
  NoQuota,      \* no quota is defined
  NoUser        \* a goroutine that handles no call

Day == 0..MaxDay
Holder == User \cup {Tenant}
Period == DOMAIN PeriodDays
QuotaDef == [limit : Nat, soft : Nat, period : Period]

ASSUME QuotaAssumption ==
  /\ IsFiniteSet(Caller) /\ Caller # {}
  /\ Limits \subseteq Nat /\ SoftLimit \in Nat
  /\ DefaultDaily \in Nat /\ DefaultMonthly \in Nat
  /\ EnforceHard \in BOOLEAN /\ MaxFailures \in Nat
  /\ {"daily", "monthly"} \subseteq Period
  /\ PeriodDays \in [Period -> Nat \ {0}]
  /\ MaxDay \in Nat /\ MaxAccepted \in Nat /\ MaxEdits \in Nat
  /\ Tenant \notin User /\ NoQuota \notin QuotaDef /\ NoUser \notin User

VARIABLES
  today,     \* the clock
  quotas,    \* the store: quota of each user and of the tenant
  usage,     \* the store: per user and start day, Usage.Current
  pc, user,  \* per caller: control state and subject of its call
  quota,     \* per caller: the quota that Check or Increment works with
  edits,     \* number of quotas changed since the start
  accepted,  \* per user: calls a backend has accepted
  uncounted, \* per user: increments that failed
  failures,  \* number of calls of the store that have failed
  events     \* kinds of billing events sent ("warning", "exceeded")

callVars == <<pc, user, quota>>
storeVars == <<quotas, usage, edits>>
vars == <<today, storeVars, callVars, accepted, uncounted, failures, events>>

(* The quotas that may be in the store. *)
StoredQuota == [limit : Limits, soft : {SoftLimit}, period : Period]

Init ==
  /\ today = 0
  /\ quotas \in [Holder -> StoredQuota \cup {NoQuota}]
  /\ usage = [u \in User |-> [d \in Day |-> 0]]
  /\ pc = [c \in Caller |-> "idle"]
  /\ user = [c \in Caller |-> NoUser]
  /\ quota = [c \in Caller |-> NoQuota]
  /\ edits = 0 /\ failures = 0
  /\ accepted = [u \in User |-> 0]
  /\ uncounted = [u \in User |-> 0]
  /\ events = {}

-----------------------------------------------------------------------------
(* PeriodBounds: the day on which the current period began.  Day 0 begins  *)
(* a week and a month, and months are equally long.                        *)
PeriodStart(period) == today - (today % PeriodDays[period])

DefaultQuota ==
  IF DefaultMonthly > 0 /\ DefaultDaily = 0
    THEN [limit |-> DefaultMonthly, soft |-> 0, period |-> "monthly"]
    ELSE [limit |-> DefaultDaily, soft |-> 0, period |-> "daily"]

(* getEffectiveQuota and defaultQuota: the first of the user's quota, the  *)
(* tenant's and the default.                                               *)
EffectiveQuota(u) ==
  IF quotas[u] # NoQuota THEN quotas[u]
  ELSE IF quotas[Tenant] # NoQuota THEN quotas[Tenant] ELSE DefaultQuota

Fail == failures < MaxFailures /\ failures' = failures + 1

(* Caller c looks up the quota of u.  An error of the store counts as "not *)
(* found".                                                                 *)
Lookup(c, u) ==
  \/ /\ quota' = [quota EXCEPT ![c] = EffectiveQuota(u)]
     /\ UNCHANGED failures
  \/ /\ Fail
     /\ \E q \in {quotas[Tenant], DefaultQuota} \ {NoQuota} :
          quota' = [quota EXCEPT ![c] = q]

(* The counter that belongs to caller c's quota at this moment. *)
Current(c) == usage[user[c]][PeriodStart(quota[c].period)]

Goto(c, state) == pc' = [pc EXCEPT ![c] = state]

Return(c) ==
  /\ Goto(c, "idle")
  /\ user' = [user EXCEPT ![c] = NoUser]
  /\ quota' = [quota EXCEPT ![c] = NoQuota]

-----------------------------------------------------------------------------
(* Check *)

CheckBegin(c) ==
  /\ pc[c] = "idle"
  /\ \E u \in User : user' = [user EXCEPT ![c] = u] /\ Lookup(c, u)
  /\ Goto(c, "check")
  /\ UNCHANGED <<today, storeVars, accepted, uncounted, events>>

(* Mutant: the cost of the call itself is not counted. *)
OverLimit_NoCost(c) == Current(c) > quota[c].limit

(* newUsage > quota.Limit *)
OverLimit(c) == Current(c) + 1 > quota[c].limit

(* Mutant: reaching the soft limit counts as exceeding it. *)
OverSoft_Reached(c) == quota[c].soft > 0 /\ Current(c) + 1 >= quota[c].soft

(* newUsage > quota.SoftLimit, when there is one. *)
OverSoft(c) == quota[c].soft > 0 /\ Current(c) + 1 > quota[c].soft

(* sendWebhook for the limits the call would exceed. *)
Notify(c) ==
  events' = events \cup {e \in {"warning", "exceeded"} :
                           \/ e = "warning" /\ OverSoft(c)
                           \/ e = "exceeded" /\ OverLimit(c)}

(* GetUsage succeeds and the call may go on. *)
CheckAllow(c) ==
  /\ pc[c] = "check"
  /\ OverLimit(c) => ~EnforceHard
  /\ Notify(c)
  /\ Goto(c, "call")
  /\ UNCHANGED <<today, storeVars, user, quota, accepted, uncounted, failures>>

(* ErrQuotaExceeded *)
CheckDeny(c) ==
  /\ pc[c] = "check"
  /\ OverLimit(c) /\ EnforceHard
  /\ Notify(c)
  /\ Return(c)
  /\ UNCHANGED <<today, storeVars, accepted, uncounted, failures>>

(* GetUsage fails: the call is allowed. *)
CheckError(c) ==
  /\ pc[c] = "check" /\ Fail
  /\ Goto(c, "call")
  /\ UNCHANGED <<today, storeVars, user, quota, accepted, uncounted, events>>

-----------------------------------------------------------------------------
(* The call, and Increment once a backend has accepted it. *)

(* Mutant: a failed call is counted like any other. *)
CallFailed_Counted(c) ==
  /\ pc[c] = "call"
  /\ Lookup(c, user[c])
  /\ Goto(c, "increment")
  /\ UNCHANGED <<today, storeVars, user, accepted, uncounted, events>>

(* The policy refuses, or no backend takes the message. *)
CallFailed(c) ==
  /\ pc[c] = "call"
  /\ Return(c)
  /\ UNCHANGED <<today, storeVars, accepted, uncounted, failures, events>>

(* The message is written; Increment looks up the quota again. *)
CallAccepted(c) ==
  /\ pc[c] = "call" /\ accepted[user[c]] < MaxAccepted
  /\ accepted' = [accepted EXCEPT ![user[c]] = @ + 1]
  /\ Lookup(c, user[c])
  /\ Goto(c, "increment")
  /\ UNCHANGED <<today, storeVars, user, uncounted, events>>

(* IncrementUsage, atomic in both stores. *)
Increment(c) ==
  /\ pc[c] = "increment"
  /\ usage' = [usage EXCEPT ![user[c]][PeriodStart(quota[c].period)] = @ + 1]
  /\ Return(c)
  /\ UNCHANGED <<today, quotas, edits, accepted, uncounted, failures, events>>

(* The increment fails; the session logs it. *)
IncrementError(c) ==
  /\ pc[c] = "increment" /\ Fail
  /\ uncounted' = [uncounted EXCEPT ![user[c]] = @ + 1]
  /\ Return(c)
  /\ UNCHANGED <<today, storeVars, accepted, events>>

-----------------------------------------------------------------------------
(* SetQuota, or an administrator's change of the quotas table. *)
SetQuota(h) ==
  /\ edits < MaxEdits
  /\ edits' = edits + 1
  /\ \E q \in StoredQuota : quotas' = [quotas EXCEPT ![h] = q]
  /\ UNCHANGED <<today, usage, callVars, accepted, uncounted, failures, events>>

NextDay ==
  /\ today < MaxDay
  /\ today' = today + 1
  /\ UNCHANGED <<storeVars, callVars, accepted, uncounted, failures, events>>

CallStep(c) ==
  \/ CheckBegin(c) \/ CheckAllow(c) \/ CheckDeny(c) \/ CheckError(c)
  \/ CallFailed(c) \/ CallAccepted(c) \/ Increment(c) \/ IncrementError(c)

Next ==
  \/ \E c \in Caller : CallStep(c)
  \/ \E h \in Holder : SetQuota(h)
  \/ NextDay

Spec == Init /\ [][Next]_vars

-----------------------------------------------------------------------------
(* Properties *)

(* Calls of u that a backend has accepted and Increment has not counted. *)
Pending(u) == {c \in Caller : pc[c] = "increment" /\ user[c] = u}

(* Calls of u that were counted, each by its day and its number there. *)
Counted(u) == UNION {{<<d, n>> : n \in 1..usage[u][d]} : d \in Day}

(* Conservation: every call a backend accepted is counted in exactly one   *)
(* period or its increment failed, across concurrent calls, the end of a   *)
(* period and changed quotas.                                              *)
Conservation ==
  \A u \in User :
    accepted[u] = Cardinality(Counted(u)) + Cardinality(Pending(u))
                    + uncounted[u]

(* Overshoot: with hard enforcement, a store that answers and quotas that  *)
(* do not change, the calls that pass Check before the others are counted  *)
(* can exceed the limit of a period, but only by one less than the number  *)
(* of goroutines.                                                          *)
Overshoot ==
  EnforceHard /\ failures = 0 /\ edits = 0 =>
    \A u \in User : \A d \in Day :
      usage[u][d] <= EffectiveQuota(u).limit + Cardinality(Caller) - 1

(* NoFalseAlarm: under the same conditions a billing event says that some  *)
(* user has used up the limit it names, at the latest in this period.      *)
NoFalseAlarm ==
  failures = 0 /\ edits = 0 =>
    /\ "exceeded" \in events =>
         \E u \in User : \E d \in Day : usage[u][d] >= EffectiveQuota(u).limit
    /\ "warning" \in events =>
         \E u \in User : \E d \in Day : usage[u][d] >= EffectiveQuota(u).soft
=============================================================================
