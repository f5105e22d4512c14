----------------------------- MODULE RateLimit -----------------------------
(***************************************************************************)
(* The hierarchical rate limiter (internal/ratelimit): AllowN takes one    *)
(* token from the bucket of every limit that applies to a message, in the  *)
(* order tool, user, tenant, global, from the memory store or from Redis.  *)
(*                                                                         *)
(* A token is Window units, so that Requests tokens per window are         *)
(* Requests units per tick of the clock.  The memory store reads the clock *)
(* under its mutex.  With Redis the gateway reads its clock before it      *)
(* sends the script, and the scripts of several callers may run in another *)
(* order; an idle bucket expires after two windows.                        *)
(***************************************************************************)
EXTENDS Integers, Sequences, FiniteSets, FiniteSetsExt

CONSTANTS
  Message,    \* keys of the messages: records of tenant, user and tool
  NoName,     \* an empty field of a key
  Caller,     \* goroutines (of all gateways) that check a message
  Configs,    \* configurations: the store ("memory" or "redis"), and per
              \* level requests per window (0: no limit) and burst (0: requests)
  Window,     \* ticks per window
  CleanupInterval, \* ticks between two cleanups of the memory store
  MaxLag,     \* ticks a call of Redis takes at most
  MaxTime,    \* bound on the clock
  MaxFailed,  \* bound on failed calls of the store
  NoTime, NoMessage

Levels == {"tool", "user", "tenant", "global"}

ASSUME LimitAssumption ==
  /\ Configs \subseteq [store : {"memory", "redis"},
                       requests : [Levels -> Nat], burst : [Levels -> Nat]]
  /\ Window \in Nat \ {0} /\ CleanupInterval \in Nat \ {0}
  /\ MaxLag \in Nat /\ MaxTime \in Nat /\ MaxFailed \in Nat
  /\ NoTime \notin 0..MaxTime /\ NoMessage \notin Message
  /\ \A m \in Message :
       m = [tenant |-> m.tenant, user |-> m.user, tool |-> m.tool]
  /\ IsFiniteSet(Caller)

-----------------------------------------------------------------------------
VARIABLES
  cfg,      \* the configuration of the gateway
  now,      \* the clock
  stored,   \* buckets that have been stored
  tokens,   \* per bucket: its units
  last,     \* per bucket: lastUpdate
  written,  \* per bucket: time of the last write, from which Redis expires
  msg,      \* per caller: the message that it checks
  rest,     \* per caller: the checks left
  at,       \* per caller: the time that it has sent to Redis
  granted,  \* per bucket: lastUpdate of each Take that got its token
  failed,   \* per bucket: calls of the store that failed
  admitted  \* per message: times it was allowed

storeVars == <<stored, tokens, last, written>>
vars == <<cfg, now, storeVars, msg, rest, at, granted, failed, admitted>>

(* cfg.Store = "memory" *)
Memory == cfg.store = "memory"

-----------------------------------------------------------------------------
(* Keys and limits *)

GlobalKey == [tenant |-> NoName, user |-> NoName, tool |-> NoName]
TenantKey(m) == [GlobalKey EXCEPT !.tenant = m.tenant]
UserKey(m) == [m EXCEPT !.tool = NoName]

(* Buckets are kept by the record.  The stores keep them by Key.String,    *)
(* which maps two keys to one text when a name contains the marks that     *)
(* separate the parts; such names are left out.                            *)
Bucket == Message \cup {UserKey(m) : m \in Message}
                  \cup {TenantKey(m) : m \in Message} \cup {GlobalKey}

Level(k) ==
  CASE k.tool # NoName   -> "tool"
    [] k.tool = NoName /\ k.user # NoName -> "user"
    [] k.tool = NoName /\ k.user = NoName /\ k.tenant # NoName -> "tenant"
    [] OTHER -> "global"

EffectiveBurst(l) == IF cfg.burst[l] > 0 THEN cfg.burst[l] ELSE cfg.requests[l]

(* Units a full bucket holds, and units it gains in a tick. *)
Full(k) == EffectiveBurst(Level(k)) * Window
Rate(k) == cfg.requests[Level(k)]

Check(applies, k) ==
  IF applies /\ cfg.requests[Level(k)] > 0 THEN <<k>> ELSE <<>>

(* Mutant: a tool limit replaces the limit of the user. *)
BuildLimitChecks_Else(m) ==
  Check(m.tool # NoName, m)
    \o Check(m.tool = NoName /\ m.user # NoName, UserKey(m))
    \o Check(m.tenant # NoName, TenantKey(m)) \o Check(TRUE, GlobalKey)

(* The buckets to check, most specific first. *)
BuildLimitChecks(m) ==
  Check(m.tool # NoName, m) \o Check(m.user # NoName, UserKey(m))
    \o Check(m.tenant # NoName, TenantKey(m)) \o Check(TRUE, GlobalKey)

-----------------------------------------------------------------------------
Init ==
  /\ cfg \in Configs
  /\ now = 0
  /\ stored = {}
  /\ tokens = [k \in Bucket |-> 0]
  /\ last = [k \in Bucket |-> 0]
  /\ written = [k \in Bucket |-> 0]
  /\ msg = [c \in Caller |-> NoMessage]
  /\ rest = [c \in Caller |-> <<>>]
  /\ at = [c \in Caller |-> NoTime]
  /\ granted = [k \in Bucket |-> <<>>]
  /\ failed = [k \in Bucket |-> 0]
  /\ admitted = [m \in Message |-> 0]

(* The bucket exists; the key in Redis lives for two windows. *)
Exists(k) == k \in stored /\ (Memory \/ now < written[k] + 2 * Window)

(* The units of bucket k at time t; a bucket that does not exist is full.  *)
Refilled(k, t) ==
  IF Exists(k)
    THEN LET sum == tokens[k] + Rate(k) * (t - last[k])
         IN  IF sum < Full(k) THEN sum ELSE Full(k)
    ELSE Full(k)

-----------------------------------------------------------------------------
(* AllowN *)

(* CheckMessage: without a limit that applies the message is allowed.      *)
Begin(c, m) ==
  LET checks == BuildLimitChecks(m) IN
  /\ msg[c] = NoMessage
  /\ checks # <<>>
  /\ msg' = [msg EXCEPT ![c] = m]
  /\ rest' = [rest EXCEPT ![c] = checks]
  /\ UNCHANGED <<cfg, now, storeVars, at, granted, failed, admitted>>

(* RedisStore.Take reads the clock of its gateway. *)
ReadClock(c) ==
  /\ ~Memory
  /\ rest[c] # <<>> /\ at[c] = NoTime
  /\ at' = [at EXCEPT ![c] = now]
  /\ UNCHANGED <<cfg, now, storeVars, msg, rest, granted, failed, admitted>>

Called(c) == rest[c] # <<>> /\ (Memory \/ at[c] # NoTime)
Clock(c) == IF Memory THEN now ELSE at[c]

Put(k, t, units) ==
  /\ stored' = stored \cup {k}
  /\ tokens' = [tokens EXCEPT ![k] = units]
  /\ last' = [last EXCEPT ![k] = t]
  /\ written' = [written EXCEPT ![k] = now]

(* Go on with the next check; after the last one the message is allowed.   *)
Pass(c) ==
  /\ at' = [at EXCEPT ![c] = NoTime]
  /\ rest' = [rest EXCEPT ![c] = Tail(@)]
  /\ IF Len(rest[c]) = 1
       THEN /\ admitted' = [admitted EXCEPT ![msg[c]] = @ + 1]
            /\ msg' = [msg EXCEPT ![c] = NoMessage]
       ELSE UNCHANGED <<admitted, msg>>

Grant(k, t) ==
  /\ Refilled(k, t) >= Window
  /\ Put(k, t, Refilled(k, t) - Window)
  /\ granted' = [granted EXCEPT ![k] = Append(@, t)]

Refuse(k, t) ==
  /\ Refilled(k, t) < Window
  /\ Put(k, t, Refilled(k, t))
  /\ UNCHANGED granted

TakeGranted(c) ==
  /\ Called(c)
  /\ Grant(Head(rest[c]), Clock(c))
  /\ Pass(c)
  /\ UNCHANGED <<cfg, now, failed>>

(* ErrRateLimited *)
TakeRefused(c) ==
  /\ Called(c)
  /\ Refuse(Head(rest[c]), Clock(c))
  /\ msg' = [msg EXCEPT ![c] = NoMessage]
  /\ rest' = [rest EXCEPT ![c] = <<>>]
  /\ at' = [at EXCEPT ![c] = NoTime]
  /\ UNCHANGED <<cfg, now, failed, admitted>>

(* The store fails and the limit is skipped; a Redis script may have run.  *)
TakeError(c) ==
  LET k == Head(rest[c]) IN
  /\ Called(c)
  /\ MapThenSumSet(LAMBDA b : failed[b], Bucket) < MaxFailed
  /\ failed' = [failed EXCEPT ![k] = @ + 1]
  /\ \/ UNCHANGED <<storeVars, granted>>
     \/ ~Memory /\ (Grant(k, at[c]) \/ Refuse(k, at[c]))
  /\ Pass(c)
  /\ UNCHANGED <<cfg, now>>

-----------------------------------------------------------------------------
(* Mutant: a bucket is removed although it is not full again. *)
Cleanup_NotFull ==
  LET old == {k \in stored : now - last[k] > 2 * CleanupInterval} IN
  /\ Memory /\ old # {}
  /\ stored' = stored \ old
  /\ UNCHANGED <<cfg, now, tokens, last, written, msg, rest, at, granted,
                 failed, admitted>>

(* cleanup of the memory store *)
Cleanup ==
  LET old == {k \in stored :
                /\ now - last[k] > 2 * CleanupInterval
                /\ Rate(k) > 0
                /\ tokens[k] + Rate(k) * (now - last[k]) >= Full(k)} IN
  /\ Memory /\ old # {}
  /\ stored' = stored \ old
  /\ UNCHANGED <<cfg, now, tokens, last, written, msg, rest, at, granted,
                 failed, admitted>>

(* CheckMessage gives a call of the store 100 ms. *)
Tick ==
  /\ now < MaxTime
  /\ \A c \in Caller : at[c] # NoTime => now < at[c] + MaxLag
  /\ now' = now + 1
  /\ UNCHANGED <<cfg, storeVars, msg, rest, at, granted, failed, admitted>>

Next ==
  \/ \E c \in Caller : \/ \E m \in Message : Begin(c, m)
                       \/ ReadClock(c) \/ TakeGranted(c)
                       \/ TakeRefused(c) \/ TakeError(c)
  \/ Cleanup
  \/ Tick

Spec == Init /\ [][Next]_vars

-----------------------------------------------------------------------------
(* Properties *)

(* The takes of bucket k from the i-th to the j-th fit into one burst and  *)
(* what is refilled between their times.                                   *)
Conforms(k) ==
  \A i, j \in DOMAIN granted[k] : i <= j =>
    (j - i + 1) * Window <= Full(k) + Rate(k) * (granted[k][j] - granted[k][i])

(* TokenBucket: in any interval no bucket grants more than its burst and   *)
(* the refill of that interval, although idle buckets are removed, Redis   *)
(* scripts run in another order than their clocks were read and answers    *)
(* are lost.  Redis forgets a bucket two windows after its last use, so    *)
(* there a burst must be refilled by then, less the time a call may take.  *)
TokenBucket ==
  \A k \in Bucket :
    Memory \/ Full(k) <= Rate(k) * (2 * Window - MaxLag) => Conforms(k)

(* The fields in which a message agrees with the buckets of a level. *)
Fields == [tool |-> {"tenant", "user", "tool"}, user |-> {"tenant", "user"},
           tenant |-> {"tenant"}, global |-> {}]

Applies(k, m) ==
  /\ cfg.requests[Level(k)] > 0
  /\ \A f \in Fields[Level(k)] : k[f] = m[f]

(* Each time a message was allowed to which the limit of k applies. *)
Admissions(k) ==
  UNION {{<<m, n>> : n \in 1..admitted[m]} :
           m \in {x \in Message : Applies(k, x)}}

(* AdmittedPaid: every message that was allowed took a token of every      *)
(* configured limit that applies to it, unless the store failed.           *)
AdmittedPaid ==
  \A k \in Bucket :
    Cardinality(Admissions(k)) <= Len(granted[k]) + failed[k]
=============================================================================
