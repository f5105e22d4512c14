------------------------------ MODULE Gateway ------------------------------
(***************************************************************************)
(* The gateway around its sessions: HandleWS admits a client and registers *)
(* its session, handleMessage takes each message through routing, rate     *)
(* limit, quota and policy to a backend, and what was written is charged   *)
(* to the quota of the user and handed to the usage tracker, from which    *)
(* the usage API answers.                                                  *)
(*                                                                         *)
(* The parts stand for the modules that treat them in detail: Auth and     *)
(* Policy as they are, the tracker by UsageLedger, which UsageTracker      *)
(* implements, the rate limiter by its verdict, the quota by the counter   *)
(* of one period, a backend by whether it takes the message, the store of  *)
(* the tracker by the table of Postgres.                                   *)
(*                                                                         *)
(* The clock has the resolution of UnixNano, from which sessions and usage *)
(* events get their ids, so that two of them may read the same time.       *)
(***************************************************************************)
EXTENDS Auth, Policy

CONSTANTS
  Client,     \* clients, each with one connection at a time
  Call,       \* messages they send
  Requests,   \* upgrade requests
  Messages,   \* messages: method and tool
  Routes,     \* per tool: its server, NoName for none, "error"
  Pol,        \* the policy
  Configs,    \* configurations of the authenticator
  QuotaLimit, \* tool calls a user may make
  Day, DefaultLimit, MaxLimit, BreakdownLimit,  \* see UsageQuery
  NoClient, NoMessage,
  MaxTime,    \* bound on the clock
  MaxSessions, \* bound on the sessions opened
  MaxFailed   \* bound on the failures of the quota store

ASSUME GatewayAssumption ==
  /\ {MaxTime, MaxSessions, MaxFailed, QuotaLimit} \subseteq Nat
  /\ MaxTime > 0
  /\ Day \in Nat
  /\ {DefaultLimit, MaxLimit, BreakdownLimit} \subseteq Nat \ {0}
  /\ IsFiniteSet(Client) /\ IsFiniteSet(Call)
  /\ Configs \subseteq AuthConfig
  /\ NoClient \notin Client /\ NoMessage \notin Messages
  /\ NoTime \notin Int

(* An Authorization header has one of three forms, and no credential is    *)
(* the missing one.                                                        *)
ASSUME RequestAssumption ==
  /\ NoName \notin Token /\ NoName \notin DOMAIN KeyOwner
  /\ \A r \in Requests :
       LET h == r.authorization IN
       /\ h.scheme \in {"Bearer x", "Bearerx", "other"}
       /\ h = [scheme |-> h.scheme, cred |-> h.cred]

VARIABLES
  cfg,       \* the authenticator
  now,       \* the clock
  sess,      \* per client: its session
  sessions,  \* g.sessions: id -> client
  active,    \* SessionsActive
  byTenant,  \* SessionsActiveByTenant
  opened,    \* number of sessions opened
  clash,     \* tenants of sessions that had the id of another at the same time
  call,      \* per call: its handler, and who owned the session it came by
  count,     \* quota: tool calls counted per user
  failed,    \* per user: increments that failed
  evt,       \* per call: its usage event, and the owner of the call
  open, stored, reported,  \* the ledger of the tracker, see UsageLedger
  rows       \* calls whose event is in the usage table

sessionVars == <<sess, sessions, active, byTenant, opened, clash>>
quotaVars   == <<count, failed>>
ledgerVars  == <<open, stored, reported>>
usageVars   == <<evt, ledgerVars, rows>>
vars == <<cfg, now, sessionVars, call, quotaVars, usageVars>>

Ledger == INSTANCE UsageLedger WITH Event <- Call
Usage == INSTANCE UsageQuery

(* Everybody a request of the model can name, and their tenants. *)
Users == {Anonymous}
           \cup {Principal(tok.sub, tok.tenant) : tok \in Token}
           \cup {Principal(KeyOwner[k].sub, KeyOwner[k].tenant) :
                     k \in DOMAIN KeyOwner}
Tenants == {u.tenant : u \in Users} \ {NoName}
Times == 1..MaxTime

NoSession == [open |-> FALSE, at |-> 0, server |-> NoName, who |-> Anonymous]
NoCall == [pc |-> "idle", by |-> NoClient, owner |-> Anonymous,
           msg |-> NoMessage, server |-> NoName, start |-> 0]
NoEvent == [id |-> 0]

Init ==
  /\ cfg \in Configs
  /\ now = 1
  /\ sess = [c \in Client |-> NoSession]
  /\ sessions = [i \in Times |-> NoClient]
  /\ active = 0 /\ byTenant = [t \in Tenants |-> 0]
  /\ opened = 0 /\ clash = {}
  /\ call = [k \in Call |-> NoCall]
  /\ count = [u \in Users |-> 0] /\ failed = [u \in Users |-> 0]
  /\ evt = [k \in Call |-> NoEvent]
  /\ Ledger!LedgerInit
  /\ rows = {}

Tick ==
  /\ now < MaxTime
  /\ now' = now + 1
  /\ UNCHANGED <<cfg, sessionVars, call, quotaVars, usageVars>>

-----------------------------------------------------------------------------
(* HandleWS *)

ServerExistsAndHubDeployable(server) == server \in Server \ LocalOnly

(* What the client gets: 401 for Authenticate's error, 400 for a server    *)
(* that cannot be bound, or the session.                                   *)
Answer(r) ==
  CASE Authenticate(cfg, r, now) = Unauthorized -> 401
    [] /\ Authenticate(cfg, r, now) # Unauthorized
       /\ ~ServerExistsAndHubDeployable(r.server) -> 400
    [] OTHER -> 101

Bump(gauge, tenant, d) ==
  IF tenant = NoName THEN gauge ELSE [gauge EXCEPT ![tenant] = @ + d]

(* Upgrade, newSession and trackSession: the id is the time. *)
Open(c, r) ==
  LET who == Authenticate(cfg, r, now)
      same == {d \in Client : sess[d].open /\ sess[d].at = now}
  IN
  /\ ~sess[c].open
  /\ Answer(r) = 101
  /\ opened < MaxSessions
  /\ opened' = opened + 1
  /\ sess' = [sess EXCEPT ![c] =
                [open |-> TRUE, at |-> now, server |-> r.server, who |-> who]]
  /\ sessions' = [sessions EXCEPT ![now] = c]
  /\ clash' = IF same = {} THEN clash
              ELSE clash \cup {who.tenant}
                         \cup {sess[d].who.tenant : d \in same}
  /\ active' = active + 1
  /\ byTenant' = Bump(byTenant, who.tenant, 1)
  /\ UNCHANGED <<cfg, now, call, quotaVars, usageVars>>

(* Mutant: the entry is deleted before its tenant is looked up. *)
UntrackSession_DeleteFirst(id) ==
  /\ sessions' = [sessions EXCEPT ![id] = NoClient]
  /\ byTenant' = byTenant
  /\ active' = active - 1

(* untrackSession: the tenant is that of the entry found under the id. *)
UntrackSession(id) ==
  /\ byTenant' = IF sessions[id] = NoClient THEN byTenant
                 ELSE Bump(byTenant, sess[sessions[id]].who.tenant, -1)
  /\ sessions' = [sessions EXCEPT ![id] = NoClient]
  /\ active' = active - 1

(* The client is gone: Run returns, Close waits for the handlers, and the  *)
(* session is forgotten.  (A client that is gone while handlers still run  *)
(* is one that sends nothing more.)                                        *)
End(c) ==
  /\ sess[c].open
  /\ \A k \in Call : call[k].by # c
  /\ UntrackSession(sess[c].at)
  /\ sess' = [sess EXCEPT ![c] = NoSession]
  /\ UNCHANGED <<cfg, now, opened, clash, call, quotaVars, usageVars>>

-----------------------------------------------------------------------------
(* handleMessage *)

Who(k) == sess[call[k].by].who

IsToolCall(k) == call[k].msg.method = ToolsCall

Goto(k, pc) == call' = [call EXCEPT ![k].pc = pc]

(* The handler returns; a call that left no event is as good as not made. *)
Return(k) == call' = [call EXCEPT ![k] = NoCall]

(* routeMessage: the server of the tool, or the one the session is bound   *)
(* to; NoName when there is none.                                          *)
RouteMessage(m, bound) ==
  IF m.method # ToolsCall \/ m.tool = <<>> THEN bound
  ELSE CASE Routes[m.tool] = "error" -> NoName
         [] Routes[m.tool] \in Server -> Routes[m.tool]
         [] Routes[m.tool] = NoName -> bound

Failures == FoldFunction(+, 0, failed)

(* Check with cost 1, for tool calls only. *)
HasQuota(m, who) == m.method = ToolsCall => count[who] + 1 <= QuotaLimit

(* A message is routed and passes the rate limiter (which lets it pass     *)
(* when it fails or panics), the quota (which lets it pass when its store  *)
(* fails) and the policy.  The only thing read here that others change is  *)
(* the count.  A message that is refused, for want of a server deployed in *)
(* the hub or by one of the three, gets an error and changes nothing here. *)
Arrive(k, c, m) ==
  LET server == RouteMessage(m, sess[c].server) IN
  /\ call[k].pc = "idle"
  /\ sess[c].open
  /\ ServerExistsAndHubDeployable(server)
  /\ HasQuota(m, sess[c].who) \/ Failures < MaxFailed
  /\ Authorize(Pol, m.method, m.tool)
  /\ call' = [call EXCEPT ![k] =
       [pc |-> "write", by |-> c, owner |-> sess[c].who, msg |-> m,
        server |-> server, start |-> 0]]
  /\ UNCHANGED <<cfg, now, sessionVars, quotaVars, usageVars>>

(* getBackend fails. *)
NoBackend(k) ==
  /\ call[k].pc = "write"
  /\ Return(k)
  /\ UNCHANGED <<cfg, now, sessionVars, quotaVars, usageVars>>

(* The backend takes the message. *)
Write(k) ==
  /\ call[k].pc = "write"
  /\ IF IsToolCall(k)
       THEN call' = [call EXCEPT ![k].pc = "charge", ![k].start = now]
       ELSE Return(k)
  /\ UNCHANGED <<cfg, now, sessionVars, quotaVars, usageVars>>

(* Mutant: a failed write goes on to Increment as well. *)
WriteFail_Charged(k) ==
  /\ call[k].pc = "write"
  /\ IF IsToolCall(k)
       THEN call' = [call EXCEPT ![k].pc = "trackFailure", ![k].start = now]
       ELSE Return(k)
  /\ count' = [count EXCEPT ![Who(k)] = @ + 1]
  /\ UNCHANGED <<cfg, now, sessionVars, failed, usageVars>>

WriteFail(k) ==
  /\ call[k].pc = "write"
  /\ IF IsToolCall(k)
       THEN call' = [call EXCEPT ![k].pc = "trackFailure", ![k].start = now]
       ELSE Return(k)
  /\ UNCHANGED <<cfg, now, sessionVars, quotaVars, usageVars>>

(* Increment.  An error is logged; the store may have counted all the same *)
Charge(k) ==
  /\ call[k].pc = "charge"
  /\ \/ /\ count' = [count EXCEPT ![Who(k)] = @ + 1]
        /\ UNCHANGED failed
     \/ /\ Failures < MaxFailed
        /\ failed' = [failed EXCEPT ![Who(k)] = @ + 1]
        /\ count' \in {count, [count EXCEPT ![Who(k)] = @ + 1]}
  /\ Goto(k, "track")
  /\ UNCHANGED <<cfg, now, sessionVars, usageVars>>

NewEvent(k) ==
  [id |-> now, ts |-> call[k].start, tenant |-> Who(k).tenant,
   user |-> Who(k).sub, tool |-> call[k].msg.tool, server |-> call[k].server,
   success |-> call[k].pc = "track", owner |-> call[k].owner]

(* trackUsage: the id is the time. *)
TrackUsage(k) ==
  /\ call[k].pc \in {"track", "trackFailure"}
  /\ evt' = [evt EXCEPT ![k] = NewEvent(k)]
  /\ Ledger!Accept(k)
  /\ call' = [call EXCEPT ![k] = [NoCall EXCEPT !.pc = "done"]]
  /\ UNCHANGED <<cfg, now, sessionVars, quotaVars, rows>>

-----------------------------------------------------------------------------
(* The tracker and its store *)

(* ON CONFLICT (id) DO NOTHING: of the events with the same id the first   *)
(* one inserted stays.                                                     *)
Inserted(S) ==
  {N \in SUBSET S :
     \A k \in S :
       k \in N <=> \A j \in rows \cup (N \ {k}) : evt[j].id # evt[k].id}

Commit(S) ==
  /\ S # {}
  /\ Ledger!Commit(S) \/ Ledger!CommitUnknown(S)
  /\ \E N \in Inserted(S) : rows' = rows \cup N
  /\ UNCHANGED <<cfg, now, sessionVars, call, quotaVars, evt>>

GiveUp(S) ==
  /\ S # {}
  /\ Ledger!GiveUp(S)
  /\ UNCHANGED <<cfg, now, sessionVars, call, quotaVars, evt, rows>>

Next ==
  \/ Tick
  \/ \E c \in Client : \/ \E r \in Requests : Open(c, r)
                       \/ End(c)
  \/ \E k \in Call :
       \/ \E c \in Client, m \in Messages : Arrive(k, c, m)
       \/ NoBackend(k) \/ Write(k) \/ WriteFail(k)
       \/ Charge(k) \/ TrackUsage(k)
  \/ \E S \in SUBSET open : Commit(S) \/ GiveUp(S)

Spec == Init /\ [][Next]_vars

-----------------------------------------------------------------------------
(* Properties *)

(* WhoItSays: a session is opened for somebody for whom a credential of    *)
(* the upgrade request vouches at that time, or for nobody; nobody is let  *)
(* in without a name who could have got one, or where one is demanded, and *)
(* nobody is turned away with 401 who could have got one (HandleWS and     *)
(* Authenticate, whatever the methods and their order).  The HTTP API      *)
(* serves those, and only those, who can get a name (requireAuth).         *)
WhoItSays ==
  [][sess' # sess => \A r \in Requests :
       LET vouched == Vouched(cfg, r, now) IN
       /\ Answer(r) = 401 => vouched = {} /\ Mandatory(cfg)
       /\ RequireAuth(cfg, r, now) <=> vouched # {}
       /\ \A c \in Client : Open(c, r) =>
            IF sess'[c].who = Anonymous THEN vouched = {} /\ ~Mandatory(cfg)
                                        ELSE sess'[c].who \in vouched]_vars

(* GaugesExact: the session gauges, which trackSession raises and          *)
(* untrackSession lowers, count the connected clients.  Of a tenant this   *)
(* holds unless one of its sessions shared its id with another that was    *)
(* opened at the same instant.                                             *)
GaugesExact ==
  /\ active = Cardinality({c \in Client : sess[c].open})
  /\ \A t \in Tenants \ clash :
       byTenant[t] =
         Cardinality({c \in Client : sess[c].open /\ sess[c].who.tenant = t})

(* Users whose reports are about one user of one tenant. *)
Identified == {u \in Users : u.sub # NoName /\ u.tenant # NoName}

Rows == {evt[k] : k \in rows}

(* The events of a table that are of u's own calls in a window. *)
OwnEvents(u, from, to, table) ==
  {e \in table : e.owner = u /\ from <= e.ts /\ e.ts <= to}

(* A summary whose totals were read when the table was first, and whose    *)
(* breakdown was read now: all of u's calls are in the totals, and each    *)
(* entry of the breakdown counts all of u's calls of that tool, however    *)
(* many entries there are.                                                 *)
OwnSummary(u, from, to, first, summary) ==
  LET then == OwnEvents(u, from, to, first)
      own == OwnEvents(u, from, to, Rows)
  IN  /\ summary.totals.total = Cardinality(then)
      /\ summary.totals.success = Cardinality({e \in then : e.success})
      /\ \A x \in DOMAIN summary.tools :
           /\ summary.tools[x] > 0
           /\ summary.tools[x] = Cardinality({e \in own : e.tool = x})

(* An export: u's newest calls, all of them or as many as the limit.       *)
OwnExport(u, from, to, limit, R) ==
  LET own == OwnEvents(u, from, to, Rows)
  IN  /\ R \subseteq own
      /\ R = own \/ Cardinality(R) = Usage!ExportLimit(limit)
      /\ \A e \in R, f \in own \ R : e.ts >= f.ts

(* What the usage API tells u when it is asked at some time for a window,  *)
(* given or by default, and an export of the same window with a limit.     *)
(* The first query of the summary saw any part of the table of now, since  *)
(* rows are only added.                                                    *)
OwnReport(u, start, end, asked, limit) ==
  LET from == IF start = NoTime THEN asked - Day ELSE start
      to == IF end = NoTime THEN asked ELSE end
  IN  /\ \A first \in SUBSET Rows :
           \A s \in Usage!HandleGetUsage(first, Rows, u, start, end, asked) :
             OwnSummary(u, from, to, first, s)
      /\ \A R \in Usage!HandleExportUsage(Rows, u, from, to, limit) :
           OwnExport(u, from, to, limit, R)

(* ReportsOwn: what the usage API tells a user is of the user's own calls, *)
(* never of a call of another tenant or another user: the summary          *)
(* (handleGetUsage), although other events are stored between its two      *)
(* queries and its breakdown may be cut or lost, and the export            *)
(* (handleExportUsage).  Asked for are the default window, and one with an *)
(* end given so that calls lie at it and beyond it.                        *)
ReportsOwn ==
  \A u \in Identified :
    /\ OwnReport(u, NoTime, NoTime, now, 0)
    /\ OwnReport(u, now, NoTime, now, 1)
    /\ OwnReport(u, NoTime, now - 1, now, 1)

(* Events of calls that the tracker has not stored, or has only reported,  *)
(* or whose id another event had taken.                                    *)
Absent(u) == {k \in (open \cup reported \cup stored) \ rows :
                evt[k].success /\ evt[k].owner = u}

(* Reconciled: what the quota counted and what the usage report shows as   *)
(* successful calls of a user differ only by increments that failed, calls *)
(* between Increment and Track, and events that are on their way, were     *)
(* reported, or lost their id to another event of the same instant         *)
(* (handleMessage, trackUsage and ON CONFLICT DO NOTHING).                 *)
Reconciled ==
  /\ \A u \in Identified :
       LET own == Usage!Found(Rows, u.tenant, u.sub, NoTime, NoTime)
           shown == Usage!Totals(own).success
           between == {k \in Call : call[k].pc = "track" /\ call[k].owner = u}
       IN  /\ shown <= count[u] + failed[u]
           /\ count[u] <= shown + Cardinality(between) + Cardinality(Absent(u))
  /\ \A k \in stored \ rows : \E j \in rows : evt[j].id = evt[k].id
=============================================================================
