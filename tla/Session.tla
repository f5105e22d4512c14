------------------------------ MODULE Session ------------------------------
(***************************************************************************)
(* One WebSocket session of the gateway (internal/mcpws/mcpws.go): the     *)
(* reader goroutine of HandleWS/Run, one handler goroutine per request,    *)
(* the cache of backend connections with the pool behind it, one pump      *)
(* goroutine per connection, the idle reaper, and Close.                   *)
(*                                                                         *)
(* A handler is identified with the message it handles: message i is the   *)
(* i-th message read from the client.  Steps are split wherever the code   *)
(* takes or releases backendsMu or calls something that can block (dial,   *)
(* read, write), because another goroutine may run there.                  *)
(***************************************************************************)
EXTENDS Integers, FiniteSets

CONSTANTS
  Server,       \* backend names that occur in routing decisions
  Deployable,   \* those the registry knows and that are not local-only
  Bound,        \* ?server=..., the session's bound server
  Tool,         \* tool names that occur in tools/call
  Resolve,      \* external: router.ResolveServer, NoServer when no route
  Message,      \* the messages the client may send
  Conn,         \* backend connections (bounds the number of dials)
  MaxMsg,       \* bound on the number of messages read
  MaxOpen,      \* pool.Config.MaxOpen
  Capacity,     \* size of the concurrency channel (10 in newSession)
  IdleTimeoutOn,\* BackendIdleTimeout > 0
  PoolMayInvalidate, \* external: may the pool clear Healthy on its own?
  NoServer, NoTool, NoConn, NoMsg

MsgId == 1..MaxMsg

(* A message as far as Run and routeMessage look into it. *)
MessageType == [kind : {"request", "notification", "invalid"},
                call : BOOLEAN,
                tool : Tool \cup {NoTool}]

ASSUME SessionAssumption ==
  /\ Deployable \subseteq Server
  /\ Bound \in Deployable
  /\ Resolve \in [Tool -> Server \cup {NoServer}]
  /\ Message \subseteq MessageType
  /\ MaxMsg \in Nat /\ MaxOpen \in Nat /\ Capacity \in Nat \ {0}
  /\ IdleTimeoutOn \in BOOLEAN /\ PoolMayInvalidate \in BOOLEAN
  /\ IsFiniteSet(Conn)
  /\ NoServer \notin Server /\ NoTool \notin Tool
  /\ NoConn \notin Conn /\ NoMsg \notin Message

VARIABLES
  client,    \* the client WebSocket: "up", "gone" (lost), "closed" (by Close)
  rd,        \* control state of the goroutine that runs HandleWS
  toClose,   \* Close's snapshot of the cached connections, still to close
  nread,     \* number of messages read
  msg,       \* the messages read
  hp, hc,    \* per message: handler control state, and the connection it
             \* works on or, once it is done, has tried to write to
  replies,   \* per message: answers written to the client
  sent,      \* messages written to a backend
  usage,     \* per message: usage event tracked ("none", "ok", "failed")
  backends,  \* the session's cache, at most one connection per server
  drop,      \* per goroutine: connection it has unlinked but not yet Put
  cstate,    \* per connection: "fresh", "up", "broken" (peer), "closed" (us)
  srv,       \* per connection: the server it was dialled for
  healthy,   \* connections whose pool.Conn.Healthy is true
  idle,      \* connections not touched for longer than the idle timeout
  puts,      \* per connection: number of times it was given to pool.Put
  open,      \* the pool's count of open connections
  inflight,  \* per connection: requests written and not answered
  pump,      \* per connection: its pump's control state
  late,      \* connections installed after Close took its snapshot
  reapSet    \* the reaper's toDrop list

clientVars  == <<client, rd, toClose>>
msgVars     == <<nread, msg, replies, sent, usage>>
handlerVars == <<hp, hc>>
cacheVars   == <<backends, drop, late>>
connVars    == <<cstate, srv, healthy, puts, open>>
pumpVars    == <<inflight, pump>>
vars == <<clientVars, msgVars, handlerVars, cacheVars, connVars, pumpVars,
          idle, reapSet>>

(* The goroutines that may hold a connection they have unlinked. *)
HandlerOf(i) == <<"handler", i>>
PumpOf(c)    == <<"pump", c>>
Reaper       == <<"reaper", 0>>
Proc == {HandlerOf(i) : i \in MsgId} \cup {PumpOf(c) : c \in Conn}
          \cup {Reaper}

ReaderStates  == {"read", "sem", "notify", "snapshot", "closing", "client",
                  "wait", "untrack", "done"}
HandlerStates == {"idle", "route", "dial", "install", "touch",
                  "write", "account", "drop", "fail", "done"}

(***************************************************************************)
(* routeMessage: a method other than tools/call, or a call without a name, *)
(* goes to the bound server; a named tool goes where the router says, and  *)
(* to the bound server if the router has no route for it.                  *)
(***************************************************************************)
Route(m) ==
  IF m.call /\ m.tool # NoTool /\ Resolve[m.tool] # NoServer
    THEN Resolve[m.tool]
    ELSE Bound

(* Requests whose handler goroutine is counted in wg and in concurrency. *)
Active == {i \in MsgId : /\ hp[i] \notin {"idle", "done"}
                         /\ msg[i].kind = "request"}

(* Close has passed pool.Close, after which pool.Get fails. *)
PoolClosed == rd \in {"client", "wait", "untrack", "done"}

(* ctx is cancelled by HandleWS's last deferred call. *)
CtxDone == rd = "done"

Cached == {backends[s] : s \in Server} \ {NoConn}

Init ==
  /\ client = "up" /\ rd = "read" /\ toClose = {}
  /\ nread = 0
  /\ msg = [i \in MsgId |-> NoMsg]
  /\ hp = [i \in MsgId |-> "idle"]
  /\ hc = [i \in MsgId |-> NoConn]
  /\ replies = [i \in MsgId |-> 0]
  /\ sent = {}
  /\ usage = [i \in MsgId |-> "none"]
  /\ backends = [s \in Server |-> NoConn]
  /\ drop = [p \in Proc |-> NoConn]
  /\ cstate = [c \in Conn |-> "fresh"]
  /\ srv = [c \in Conn |-> NoServer]
  /\ healthy = {} /\ idle = {}
  /\ puts = [c \in Conn |-> 0]
  /\ open = 0
  /\ inflight = [c \in Conn |-> {}]
  /\ pump = [c \in Conn |-> "none"]
  /\ late = {}
  /\ reapSet = {}

-----------------------------------------------------------------------------
(* The environment. *)

(* The client disconnects or its connection is lost. *)
ClientGone ==
  /\ client = "up"
  /\ client' = "gone"
  /\ UNCHANGED <<rd, toClose, msgVars, handlerVars, cacheVars, connVars,
                 pumpVars, idle, reapSet>>

(* The backend closes connection c, or the network loses it. *)
BackendLost(c) ==
  /\ cstate[c] = "up"
  /\ cstate' = [cstate EXCEPT ![c] = "broken"]
  /\ UNCHANGED <<clientVars, msgVars, handlerVars, cacheVars, srv, healthy,
                 puts, open, pumpVars, idle, reapSet>>

(* Time passes: c has not been touched for longer than the idle timeout. *)
GoIdle(c) ==
  /\ IdleTimeoutOn
  /\ c \in Cached \ idle
  /\ idle' = idle \cup {c}
  /\ UNCHANGED <<clientVars, msgVars, handlerVars, cacheVars, connVars,
                 pumpVars, reapSet>>

(* External: the pool marks a connection it has handed out as unhealthy. *)
PoolInvalidate(c) ==
  /\ PoolMayInvalidate
  /\ c \in Cached \cap healthy
  /\ healthy' = healthy \ {c}
  /\ UNCHANGED <<clientVars, msgVars, handlerVars, cacheVars, cstate, srv,
                 puts, open, pumpVars, idle, reapSet>>

-----------------------------------------------------------------------------
(* Removing a connection: the locked half and the unlocked half. *)

(* Mutant: dropBackend without delete(s.backends, serverName). *)
Take_KeepsEntry(p, s) ==
  /\ drop' = [drop EXCEPT ![p] = backends[s]]
  /\ UNCHANGED backends

(* dropBackend under backendsMu: p unlinks whatever s is mapped to. *)
Take(p, s) ==
  /\ drop' = [drop EXCEPT ![p] = backends[s]]
  /\ backends' = [backends EXCEPT ![s] = NoConn]

(* After the unlock: Healthy = false, tr.Close and pool.Put, which closes  *)
(* an unhealthy connection and gives its slot back.  What was in flight on *)
(* it will never be answered.                                              *)
Dispose(p) ==
  LET c == drop[p] IN
  /\ c # NoConn
  /\ cstate' = [cstate EXCEPT ![c] = "closed"]
  /\ healthy' = healthy \ {c}
  /\ puts' = [puts EXCEPT ![c] = @ + 1]
  /\ open' = open - 1
  /\ drop' = [drop EXCEPT ![p] = NoConn]
  /\ inflight' = [inflight EXCEPT ![c] = {}]
  /\ idle' = idle \ {c}
  /\ UNCHANGED <<clientVars, msgVars, handlerVars, backends, late, srv,
                 pump, reapSet>>

-----------------------------------------------------------------------------
(* handleMessage(i), run by a goroutine of its own for a request and by    *)
(* the reader itself for a notification.                                   *)

Reply(i) == replies' = [replies EXCEPT ![i] = @ + 1]
Goto(i, state) == hp' = [hp EXCEPT ![i] = state]

(* handleMessage returns. *)
Return(i) == Goto(i, "done") /\ UNCHANGED hc

(* Mutant: the return after the error reply is missing. *)
Reject_NoReturn(i) ==
  /\ hp[i] = "route"
  /\ Reply(i)
  /\ Goto(i, "dial")
  /\ UNCHANGED <<clientVars, nread, msg, sent, usage, hc, cacheVars,
                 connVars, pumpVars, idle, reapSet>>

(* routeMessage or serverExistsAndHubDeployable fails, or the rate         *)
(* limiter, the quota manager or the policy refuses: an error is sent.     *)
Reject(i) ==
  /\ hp[i] = "route"
  /\ Reply(i)
  /\ Return(i)
  /\ UNCHANGED <<clientVars, nread, msg, sent, usage, cacheVars,
                 connVars, pumpVars, idle, reapSet>>

(* Every check before getBackend passes.  The limiter, the quota manager   *)
(* and the policy may refuse any message (Reject) and may admit any other. *)
Admitted(i) == hp[i] = "route" /\ Route(msg[i]) \in Deployable

(* Mutant: the cache is asked for the bound server instead of the routed   *)
(* one.                                                                    *)
LookupHit_Bound(i) ==
  LET c == backends[Bound] IN
  /\ Admitted(i)
  /\ c \in healthy
  /\ hc' = [hc EXCEPT ![i] = c]
  /\ Goto(i, "touch")
  /\ UNCHANGED <<clientVars, msgVars, cacheVars, connVars, pumpVars, idle,
                 reapSet>>

(* getBackend, first critical section, a healthy connection is cached. *)
LookupHit(i) ==
  LET c == backends[Route(msg[i])] IN
  /\ Admitted(i)
  /\ c \in healthy
  /\ hc' = [hc EXCEPT ![i] = c]
  /\ Goto(i, "touch")
  /\ UNCHANGED <<clientVars, msgVars, cacheVars, connVars, pumpVars, idle,
                 reapSet>>

(* getBackend, first critical section, nothing or an unhealthy connection  *)
(* is cached; the latter is unlinked and disposed of before the dial.      *)
LookupMiss(i) ==
  LET s == Route(msg[i]) IN
  /\ Admitted(i)
  /\ backends[s] \notin healthy
  /\ Take(HandlerOf(i), s)
  /\ Goto(i, "dial")
  /\ UNCHANGED <<clientVars, msgVars, hc, late, connVars, pumpVars, idle,
                 reapSet>>

(* pool.Get (external) dials a new connection.  It never finds an idle one *)
(* to reuse: every Put in this package is of an unhealthy connection.      *)
Dial(i) ==
  /\ hp[i] = "dial"
  /\ drop[HandlerOf(i)] = NoConn
  /\ ~PoolClosed /\ open < MaxOpen
  /\ \E c \in Conn :
       /\ cstate[c] = "fresh"
       /\ cstate' = [cstate EXCEPT ![c] = "up"]
       /\ srv' = [srv EXCEPT ![c] = Route(msg[i])]
       /\ healthy' = healthy \cup {c}
       /\ hc' = [hc EXCEPT ![i] = c]
  /\ open' = open + 1
  /\ Goto(i, "install")
  /\ UNCHANGED <<clientVars, msgVars, cacheVars, puts, pumpVars, idle,
                 reapSet>>

(* Mutant: a failed getBackend is not reported to the client. *)
DialFail_Silent(i) ==
  /\ hp[i] = "dial"
  /\ drop[HandlerOf(i)] = NoConn
  /\ Return(i)
  /\ UNCHANGED <<clientVars, msgVars, cacheVars, connVars, pumpVars, idle,
                 reapSet>>

(* pool.Get fails: dial error, limit reached or pool closed. *)
DialFail(i) ==
  /\ hp[i] = "dial"
  /\ drop[HandlerOf(i)] = NoConn
  /\ Reply(i)
  /\ Return(i)
  /\ UNCHANGED <<clientVars, nread, msg, sent, usage, cacheVars,
                 connVars, pumpVars, idle, reapSet>>

(* Mutant: the pump is not started. *)
Install_NoPump(i) ==
  LET s == Route(msg[i]) IN
  /\ hp[i] = "install"
  /\ backends[s] = NoConn
  /\ backends' = [backends EXCEPT ![s] = hc[i]]
  /\ late' = IF rd \in {"read", "sem", "notify", "snapshot"}
               THEN late ELSE late \cup {hc[i]}
  /\ Goto(i, "touch")
  /\ UNCHANGED <<clientVars, msgVars, hc, drop, connVars, pumpVars, idle,
                 reapSet>>

(* getBackend, second critical section: nobody was faster, so the new      *)
(* connection is cached and its pump is started.                           *)
Install(i) ==
  LET s == Route(msg[i]) IN
  /\ hp[i] = "install"
  /\ backends[s] = NoConn
  /\ backends' = [backends EXCEPT ![s] = hc[i]]
  /\ pump' = [pump EXCEPT ![hc[i]] = "read"]
  /\ late' = IF rd \in {"read", "sem", "notify", "snapshot"}
               THEN late ELSE late \cup {hc[i]}
  /\ Goto(i, "touch")
  /\ UNCHANGED <<clientVars, msgVars, hc, drop, connVars, inflight, idle,
                 reapSet>>

(* getBackend, second critical section: another handler was faster; use    *)
(* its connection and return the new one to the pool as unhealthy.         *)
InstallLost(i) ==
  LET prev == backends[Route(msg[i])] IN
  /\ hp[i] = "install"
  /\ prev # NoConn
  /\ drop' = [drop EXCEPT ![HandlerOf(i)] = hc[i]]
  /\ hc' = [hc EXCEPT ![i] = prev]
  /\ Goto(i, "touch")
  /\ UNCHANGED <<clientVars, msgVars, backends, late, connVars, pumpVars,
                 idle, reapSet>>

(* b.touch() before the write. *)
Touch(i) ==
  /\ hp[i] = "touch"
  /\ drop[HandlerOf(i)] = NoConn
  /\ idle' = idle \ {hc[i]}
  /\ Goto(i, "write")
  /\ UNCHANGED <<clientVars, msgVars, hc, cacheVars, connVars, pumpVars,
                 reapSet>>

(* The write succeeds.  On a connection the peer has lost the bytes may    *)
(* still be accepted, but nobody answers.                                  *)
WriteOk(i) ==
  LET c == hc[i] IN
  /\ hp[i] = "write"
  /\ cstate[c] \in {"up", "broken"}
  /\ sent' = sent \cup {i}
  /\ inflight' = IF msg[i].kind = "request" /\ cstate[c] = "up"
                   THEN [inflight EXCEPT ![c] = @ \cup {i}] ELSE inflight
  /\ Goto(i, "account")
  /\ UNCHANGED <<clientVars, nread, msg, replies, usage, hc, cacheVars,
                 connVars, pump, idle, reapSet>>

(* Quota increment and trackUsage(success) after the write. *)
Account(i) ==
  /\ hp[i] = "account"
  /\ usage' = [usage EXCEPT ![i] = IF msg[i].call THEN "ok" ELSE @]
  /\ Return(i)
  /\ UNCHANGED <<clientVars, nread, msg, replies, sent, cacheVars,
                 connVars, pumpVars, idle, reapSet>>

(* Mutant: the failed connection is closed before it is unlinked. *)
WriteFail_ClosesFirst(i) ==
  /\ hp[i] = "write"
  /\ cstate[hc[i]] \in {"broken", "closed"}
  /\ cstate' = [cstate EXCEPT ![hc[i]] = "closed"]
  /\ Goto(i, "drop")
  /\ UNCHANGED <<clientVars, msgVars, hc, cacheVars, srv, healthy, puts, open,
                 pumpVars, idle, reapSet>>

(* The write fails; dropBackend is called with the server's name. *)
WriteFail(i) ==
  /\ hp[i] = "write"
  /\ cstate[hc[i]] \in {"broken", "closed"}
  /\ Goto(i, "drop")
  /\ UNCHANGED <<clientVars, msgVars, hc, cacheVars, connVars, pumpVars,
                 idle, reapSet>>

HandlerDrop(i) ==
  /\ hp[i] = "drop"
  /\ Take(HandlerOf(i), Route(msg[i]))
  /\ Goto(i, "fail")
  /\ UNCHANGED <<clientVars, msgVars, hc, late, connVars, pumpVars, idle,
                 reapSet>>

(* Mutant: the failed call is reported but not tracked. *)
Fail_Untracked(i) ==
  /\ hp[i] = "fail"
  /\ drop[HandlerOf(i)] = NoConn
  /\ Reply(i)
  /\ Return(i)
  /\ UNCHANGED <<clientVars, nread, msg, sent, usage, cacheVars, connVars,
                 pumpVars, idle, reapSet>>

(* The error reply and trackUsage(failure). *)
Fail(i) ==
  /\ hp[i] = "fail"
  /\ drop[HandlerOf(i)] = NoConn
  /\ Reply(i)
  /\ usage' = [usage EXCEPT ![i] = IF msg[i].call THEN "failed" ELSE @]
  /\ Return(i)
  /\ UNCHANGED <<clientVars, nread, msg, sent, cacheVars, connVars,
                 pumpVars, idle, reapSet>>

-----------------------------------------------------------------------------
(* Run: the reader. *)

Read(m, state) ==
  /\ rd = "read" /\ client = "up" /\ nread < MaxMsg
  /\ nread' = nread + 1
  /\ msg' = [msg EXCEPT ![nread + 1] = m]
  /\ rd' = state

(* A message that is not JSON is answered with an error at once. *)
ReadInvalid(m) ==
  /\ m.kind = "invalid"
  /\ Read(m, "read")
  /\ Reply(nread + 1)
  /\ Goto(nread + 1, "done")
  /\ UNCHANGED <<client, toClose, sent, usage, hc, cacheVars, connVars,
                 pumpVars, idle, reapSet>>

(* Mutant: a notification gets a goroutine of its own, like a request. *)
ReadNotification_Async(m) ==
  /\ m.kind = "notification"
  /\ Read(m, "read")
  /\ Goto(nread + 1, "route")
  /\ UNCHANGED <<client, toClose, replies, sent, usage, hc, cacheVars,
                 connVars, pumpVars, idle, reapSet>>

(* A notification is handled by the reader itself. *)
ReadNotification(m) ==
  /\ m.kind = "notification"
  /\ Read(m, "notify")
  /\ Goto(nread + 1, "route")
  /\ UNCHANGED <<client, toClose, replies, sent, usage, hc, cacheVars,
                 connVars, pumpVars, idle, reapSet>>

NotificationHandled ==
  /\ rd = "notify" /\ hp[nread] = "done"
  /\ rd' = "read"
  /\ UNCHANGED <<client, toClose, msgVars, handlerVars, cacheVars, connVars,
                 pumpVars, idle, reapSet>>

(* A request waits for a slot in the concurrency channel ... *)
ReadRequest(m) ==
  /\ m.kind = "request"
  /\ Read(m, "sem")
  /\ UNCHANGED <<client, toClose, replies, sent, usage, handlerVars,
                 cacheVars, connVars, pumpVars, idle, reapSet>>

(* ... and is then handled by a new goroutine. *)
Spawn ==
  /\ rd = "sem"
  /\ Cardinality(Active) < Capacity
  /\ Goto(nread, "route")
  /\ rd' = "read"
  /\ UNCHANGED <<client, toClose, msgVars, hc, cacheVars, connVars, pumpVars,
                 idle, reapSet>>

(* ReadMessage fails: Run returns and the deferred calls begin. *)
ReadError ==
  /\ rd = "read" /\ client # "up"
  /\ rd' = "snapshot"
  /\ UNCHANGED <<client, toClose, msgVars, handlerVars, cacheVars, connVars,
                 pumpVars, idle, reapSet>>

-----------------------------------------------------------------------------
(* Close, untrackSession and cancel, in the order the defers run. *)

(* Mutant: only idle connections are snapshotted. *)
CloseSnapshot_IdleOnly ==
  /\ rd = "snapshot"
  /\ toClose' = Cached \cap idle
  /\ rd' = "closing"
  /\ UNCHANGED <<client, msgVars, handlerVars, cacheVars, connVars, pumpVars,
                 idle, reapSet>>

CloseSnapshot ==
  /\ rd = "snapshot"
  /\ toClose' = Cached
  /\ rd' = "closing"
  /\ UNCHANGED <<client, msgVars, handlerVars, cacheVars, connVars, pumpVars,
                 idle, reapSet>>

(* b.tr.Close() for one connection of the snapshot; no Put, no unlink. *)
CloseBackend(c) ==
  /\ rd = "closing" /\ c \in toClose
  /\ cstate' = [cstate EXCEPT ![c] = "closed"]
  /\ toClose' = toClose \ {c}
  /\ inflight' = [inflight EXCEPT ![c] = {}]
  /\ UNCHANGED <<client, rd, msgVars, handlerVars, cacheVars, srv, healthy,
                 puts, open, pump, idle, reapSet>>

(* pool.Close (external): later Gets fail; it has no idle connections.     *)
ClosePool ==
  /\ rd = "closing" /\ toClose = {}
  /\ rd' = "client"
  /\ UNCHANGED <<client, toClose, msgVars, handlerVars, cacheVars, connVars,
                 pumpVars, idle, reapSet>>

CloseClient ==
  /\ rd = "client"
  /\ client' = "closed"
  /\ rd' = "wait"
  /\ UNCHANGED <<toClose, msgVars, handlerVars, cacheVars, connVars,
                 pumpVars, idle, reapSet>>

(* Mutant: wg.Wait is missing. *)
WaitHandlers_NoWait ==
  /\ rd = "wait"
  /\ rd' = "untrack"
  /\ UNCHANGED <<client, toClose, msgVars, handlerVars, cacheVars, connVars,
                 pumpVars, idle, reapSet>>

(* wg.Wait() *)
WaitHandlers ==
  /\ rd = "wait" /\ Active = {}
  /\ rd' = "untrack"
  /\ UNCHANGED <<client, toClose, msgVars, handlerVars, cacheVars, connVars,
                 pumpVars, idle, reapSet>>

(* untrackSession, then cancel. *)
Finish ==
  /\ rd = "untrack"
  /\ rd' = "done"
  /\ UNCHANGED <<client, toClose, msgVars, handlerVars, cacheVars, connVars,
                 pumpVars, idle, reapSet>>

-----------------------------------------------------------------------------
(* pumpBackendToClient, one goroutine per installed connection. *)

(* A message of the backend is relayed: the answer to request i, or, for   *)
(* i = 0, a message of the backend's own.                                  *)
PumpRelay(c) ==
  /\ pump[c] = "read" /\ cstate[c] # "closed"
  /\ client = "up"
  /\ \E i \in inflight[c] \cup {0} :
       /\ inflight' = [inflight EXCEPT ![c] = @ \ {i}]
       /\ replies' = [k \in MsgId |->
                        IF k = i THEN replies[k] + 1 ELSE replies[k]]
  /\ idle' = idle \ {c}
  /\ UNCHANGED <<clientVars, nread, msg, sent, usage, handlerVars,
                 cacheVars, connVars, pump, reapSet>>

(* A message arrives but writing it to the client fails: the pump returns  *)
(* and leaves the connection cached.                                       *)
PumpClientFail(c) ==
  /\ pump[c] = "read" /\ cstate[c] # "closed"
  /\ client # "up"
  /\ pump' = [pump EXCEPT ![c] = "done"]
  /\ \E i \in inflight[c] \cup {0} :
       inflight' = [inflight EXCEPT ![c] = @ \ {i}]
  /\ idle' = idle \ {c}
  /\ UNCHANGED <<clientVars, msgVars, handlerVars, cacheVars, connVars,
                 reapSet>>

(* ReadMessage fails: the pump will drop its server's entry and return. *)
PumpReadFail(c) ==
  /\ pump[c] = "read"
  /\ cstate[c] \in {"broken", "closed"}
  /\ pump' = [pump EXCEPT ![c] = "drop"]
  /\ UNCHANGED <<clientVars, msgVars, handlerVars, cacheVars, connVars,
                 inflight, idle, reapSet>>

(* Mutant: the pump deletes the entry itself and closes nothing. *)
PumpDrop_UnlinkOnly(c) ==
  /\ pump[c] = "drop"
  /\ backends' = [backends EXCEPT ![srv[c]] = NoConn]
  /\ pump' = [pump EXCEPT ![c] = "done"]
  /\ UNCHANGED <<clientVars, msgVars, handlerVars, drop, late, connVars,
                 inflight, idle, reapSet>>

PumpDrop(c) ==
  /\ pump[c] = "drop"
  /\ Take(PumpOf(c), srv[c])
  /\ pump' = [pump EXCEPT ![c] = "done"]
  /\ UNCHANGED <<clientVars, msgVars, handlerVars, late, connVars, inflight,
                 idle, reapSet>>

(* ctx.Done() is seen at the top of the loop. *)
PumpCtxDone(c) ==
  /\ pump[c] = "read" /\ CtxDone
  /\ pump' = [pump EXCEPT ![c] = "done"]
  /\ UNCHANGED <<clientVars, msgVars, handlerVars, cacheVars, connVars,
                 inflight, idle, reapSet>>

-----------------------------------------------------------------------------
(* reapBackendsLoop *)

(* Mutant: the entries are collected instead of their names. *)
ReapScan_Entries ==
  /\ IdleTimeoutOn /\ ~CtxDone
  /\ reapSet = {} /\ drop[Reaper] = NoConn
  /\ reapSet' = Cached \cap idle
  /\ reapSet' # {}
  /\ UNCHANGED <<clientVars, msgVars, handlerVars, cacheVars, connVars,
                 pumpVars, idle>>

(* Mutant: the test of idleTimeout is inverted, so nothing is ever reaped. *)
ReapScan_Off ==
  /\ ~IdleTimeoutOn /\ ~CtxDone
  /\ reapSet = {} /\ drop[Reaper] = NoConn
  /\ reapSet' = {s \in Server : backends[s] \in idle}
  /\ reapSet' # {}
  /\ UNCHANGED <<clientVars, msgVars, handlerVars, cacheVars, connVars,
                 pumpVars, idle>>

(* A tick: the names of the idle entries are collected under the lock. *)
ReapScan ==
  /\ IdleTimeoutOn /\ ~CtxDone
  /\ reapSet = {} /\ drop[Reaper] = NoConn
  /\ reapSet' = {s \in Server : backends[s] \in idle}
  /\ reapSet' # {}
  /\ UNCHANGED <<clientVars, msgVars, handlerVars, cacheVars, connVars,
                 pumpVars, idle>>

(* The lock was released; the names are dropped one after the other. *)
ReapDrop(s) ==
  /\ s \in reapSet /\ drop[Reaper] = NoConn
  /\ Take(Reaper, s)
  /\ reapSet' = reapSet \ {s}
  /\ UNCHANGED <<clientVars, msgVars, handlerVars, late, connVars, pumpVars,
                 idle>>

-----------------------------------------------------------------------------
(* The session is over. *)
Terminated == rd = "done" /\ UNCHANGED vars

HandlerStep(i) ==
  \/ Reject(i) \/ LookupHit(i) \/ LookupMiss(i)
  \/ Dial(i) \/ DialFail(i) \/ Install(i) \/ InstallLost(i)
  \/ Touch(i) \/ WriteOk(i) \/ Account(i)
  \/ WriteFail(i) \/ HandlerDrop(i) \/ Fail(i)

ReaderStep ==
  \/ \E m \in Message :
        ReadInvalid(m) \/ ReadNotification(m) \/ ReadRequest(m)
  \/ NotificationHandled \/ Spawn \/ ReadError
  \/ CloseSnapshot \/ (\E c \in Conn : CloseBackend(c)) \/ ClosePool
  \/ CloseClient \/ WaitHandlers \/ Finish

PumpStep(c) ==
  \/ PumpRelay(c) \/ PumpClientFail(c) \/ PumpReadFail(c)
  \/ PumpDrop(c) \/ PumpCtxDone(c)

ReaperStep == ReapScan \/ \E s \in Server : ReapDrop(s)

EnvStep ==
  \/ ClientGone
  \/ \E c \in Conn : BackendLost(c) \/ GoIdle(c) \/ PoolInvalidate(c)

Next ==
  \/ ReaderStep
  \/ \E i \in MsgId : HandlerStep(i)
  \/ \E c \in Conn : PumpStep(c)
  \/ ReaperStep
  \/ \E p \in Proc : Dispose(p)
  \/ EnvStep
  \/ Terminated

Spec == Init /\ [][Next]_vars

(***************************************************************************)
(* Fairness: runnable goroutines run, and time passes.  WriteOk is not     *)
(* fair: the code sets no write deadline, so a write to a backend that has *)
(* stopped reading may block for as long as the connection stays open.     *)
(* Nothing is assumed of the client, of the backends or of Read.           *)
(***************************************************************************)
ReaderProgress ==
  \/ NotificationHandled \/ Spawn \/ ReadError
  \/ CloseSnapshot \/ (\E c \in Conn : CloseBackend(c)) \/ ClosePool
  \/ CloseClient \/ WaitHandlers \/ Finish

HandlerProgress(i) ==
  \/ Reject(i) \/ LookupHit(i) \/ LookupMiss(i)
  \/ Dial(i) \/ DialFail(i) \/ Install(i) \/ InstallLost(i)
  \/ Touch(i) \/ Account(i)
  \/ WriteFail(i) \/ HandlerDrop(i) \/ Fail(i)

Fairness ==
  /\ WF_vars(ReaderProgress)
  /\ \A i \in MsgId : WF_vars(HandlerProgress(i))
  /\ \A p \in Proc : WF_vars(Dispose(p))
  /\ \A c \in Conn : WF_vars(PumpReadFail(c) \/ PumpDrop(c))
  /\ \A c \in Conn : WF_vars(GoIdle(c))
  /\ WF_vars(ReaperStep)

FairSpec == Spec /\ Fairness

-----------------------------------------------------------------------------
(* Properties *)

(* The values every variable may take. *)
TypeOK ==
  /\ client \in {"up", "gone", "closed"}
  /\ rd \in ReaderStates
  /\ toClose \subseteq Conn
  /\ nread \in 0..MaxMsg
  /\ msg \in [MsgId -> Message \cup {NoMsg}]
  /\ hp \in [MsgId -> HandlerStates]
  /\ hc \in [MsgId -> Conn \cup {NoConn}]
  /\ replies \in [MsgId -> Nat]
  /\ sent \subseteq MsgId
  /\ usage \in [MsgId -> {"none", "ok", "failed"}]
  /\ backends \in [Server -> Conn \cup {NoConn}]
  /\ drop \in [Proc -> Conn \cup {NoConn}]
  /\ cstate \in [Conn -> {"fresh", "up", "broken", "closed"}]
  /\ srv \in [Conn -> Server \cup {NoServer}]
  /\ healthy \subseteq Conn /\ idle \subseteq Conn /\ late \subseteq Conn
  /\ puts \in [Conn -> Nat]
  /\ open \in Int
  /\ inflight \in [Conn -> SUBSET MsgId]
  /\ pump \in [Conn -> {"none", "read", "drop", "done"}]
  /\ reapSet \subseteq Server

(***************************************************************************)
(* Everywhere a connection that has been dialled can be: in the hands of   *)
(* the handler that dialled it, in the cache, or in the hands of the       *)
(* goroutine that unlinked it.                                             *)
(***************************************************************************)
Holders(c) ==
  {<<"dialler", i>> : i \in {j \in MsgId : hp[j] = "install" /\ hc[j] = c}}
    \cup {<<"cache", s>> : s \in {t \in Server : backends[t] = c}}
    \cup {p \in Proc : drop[p] = c}

(* Ownership: from the dial on, a backend connection has exactly one       *)
(* holder until it is given to pool.Put, exactly once, after which nobody  *)
(* holds it; so no interleaving of handlers, pumps, reaper and Close       *)
(* returns a connection twice or loses track of one.                       *)
Ownership ==
  \A c \in Conn :
    \/ cstate[c] = "fresh" /\ puts[c] = 0 /\ Holders(c) = {}
    \/ cstate[c] # "fresh" /\ puts[c] = 0 /\ \E h \in Holders(c) : Holders(c) = {h}
    \/ cstate[c] # "fresh" /\ puts[c] = 1 /\ Holders(c) = {}

(* NoneForgotten: while the client is connected, a request whose handler   *)
(* has returned is settled in one of three ways: it has been answered, it  *)
(* is in flight on the connection its handler wrote it to, or that         *)
(* connection has failed or been closed since.  A failed pool.Get, a lost  *)
(* dial race or a failed write never drops a request in silence.           *)
NoneForgotten ==
  \A i \in MsgId :
    /\ client = "up" /\ hp[i] = "done"
    /\ msg[i].kind = "request" /\ replies[i] = 0
    => i \in sent /\ (i \in inflight[hc[i]] \/ cstate[hc[i]] # "up")

(* CachedIsOpen: the gateway closes the transport of a connection that is  *)
(* still cached only in session.Close; at any other time it unlinks first, *)
(* so getBackend never hands out a connection the gateway has closed.      *)
CachedIsOpen ==
  \A c \in Cached : cstate[c] = "closed" =>
                      rd \notin {"read", "sem", "notify", "snapshot"}

(* AnswersHaveReader: while the client is connected, a connection that     *)
(* carries unanswered requests and has not failed has a running pump.      *)
AnswersHaveReader ==
  \A c \in Conn :
    client = "up" /\ cstate[c] = "up" /\ inflight[c] # {} => pump[c] = "read"

(* Delivery: a request travels only on a connection dialled for the server *)
(* that routeMessage chose for it.                                         *)
Delivery ==
  \A c \in Conn : \A i \in inflight[c] :
    i \in sent /\ Route(msg[i]) = srv[c]

(* AtMostOneReply: no message is answered twice: not by two error paths,   *)
(* nor by an error of the gateway and an answer of the backend.            *)
AtMostOneReply == \A i \in MsgId : replies[i] <= 1

(* What trackUsage is to have recorded of message i: nothing, unless it is *)
(* a call whose handler got a connection; then whether the write succeeded.*)
Outcome(i) ==
  IF hc[i] = NoConn \/ ~msg[i].call THEN "none"
  ELSE IF i \in sent THEN "ok" ELSE "failed"

(* UsageSettled: once the session is untracked no handler runs any more    *)
(* and the usage events are complete: a tools/call that was written to a   *)
(* backend has its success event, one whose write failed its failure       *)
(* event, and nothing else has one.  Close waits for the handlers.         *)
UsageSettled ==
  rd \in {"untrack", "done"} =>
    \A i \in MsgId : hp[i] \in {"idle", "done"} /\ usage[i] = Outcome(i)

(* LeakOnlyLate: when the session is over every connection it dialled is   *)
(* closed or about to be, except one that a handler installed after Close  *)
(* had taken its snapshot of the cache.                                    *)
LeakOnlyLate ==
  rd = "done" =>
    \A c \in Conn : \/ cstate[c] \in {"fresh", "closed"}
                    \/ \E p \in Proc : drop[p] = c
                    \/ c \in late

(* NotificationOrder: the reader handles a notification itself, so nothing *)
(* that the client sent after a notification is written to a backend       *)
(* before the handling of that notification is over; notifications keep    *)
(* their order, and no later request overtakes one.  An earlier request    *)
(* has a goroutine of its own and may be overtaken.                        *)
NotificationOrder ==
  [][\A i \in sent' \ sent : \A j \in 1..(i - 1) :
       msg[j].kind = "notification" => hp[j] = "done"]_vars

(* LiveConnReused: with no idle timeout, a cached connection stays cached  *)
(* until it fails or the session is closed.                                *)
LiveConnReused ==
  [][\A s \in Server : backends[s] # NoConn /\ backends'[s] # backends[s]
       => cstate[backends[s]] # "up"]_vars

(* SessionEnds: once the client is gone the session's goroutine runs       *)
(* Close to its end, even if a backend has stopped reading.                *)
SessionEnds == client # "up" ~> rd = "done"

(* BrokenClosed: a connection the peer has lost is closed by the gateway,  *)
(* unless the session ends first.                                          *)
BrokenClosed ==
  \A c \in Conn : cstate[c] = "broken" ~> cstate[c] = "closed" \/ rd = "done"
=============================================================================
