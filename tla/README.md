# fi-mcp-gateway: specifications

TLA+ modules for the gateway that multiplexes MCP clients over WebSocket
backends. Every module is a translation of the Go source; `PROJECT.json` maps
each definition to the lines it models. TLC checks small instances (the `MC*`
modules and the `.cfg` files), TLAPS proves the theorems of the `*Proofs` modules
for every value of the constants.

    tlc -config MCSession_churn.cfg MCSession
    tlc -config UsageTracker.cfg UsageTracker
    tlapm SessionProofs.tla

## The system

| Part | Source | State | Operations | Module |
|---|---|---|---|---|
| WebSocket session | `internal/mcpws/mcpws.go` | cache of backend connections, pool count, messages in flight, client connection | read, route, dial, install, write, relay, reap, Close | `Session` |
| One-shot tool call | `internal/mcpws/oneshot.go`, `internal/httpapi/tools.go` | one transport, the context, the handshake | admit, dial, initialize, call, receive, time out | `OneShot` |
| Usage tracker | `internal/usage` | buffer, batches in flight, store, dead letter file | Track, flush, retry, Query, Close | `UsageTracker`, abstractly `UsageLedger` |
| Usage reports | `internal/usage/memory.go`, `postgres.go`, `exporter.go`, usage handlers of `internal/httpapi/server.go` | none | Query, GetSummary, the two handlers | `UsageQuery` (operators), used by `Gateway` |
| Admission and accounting | `HandleWS`, `trackSession`, `handleMessage` of `internal/mcpws/mcpws.go` | registry of sessions, gauges, the accounts of quota and usage | open, end, route, check, write, charge, track | `Gateway` |
| Authentication | `internal/auth` | configuration | Authenticate, Build, requireAuth | `Auth` (operators), used by `Gateway` |
| API keys | `internal/apikeys`, `internal/auth/apikey.go`, key handlers of `internal/httpapi/server.go` | stored keys, copies held by goroutines | create, revoke, rotate, authenticate, record use | `ApiKeys` |
| Quotas | `internal/quota` | quota definitions, usage counters per period | Check, Increment, SetQuota | `Quota` |
| Rate limiting | `internal/ratelimit` | token buckets in memory or Redis | AllowN, cleanup, expiry | `RateLimit` |
| Billing webhooks | `internal/billing/webhook.go` | event channel, event in retry | SendAsync, worker, Close | `Webhook` |
| Policy | `internal/policy/policy.go` | configuration | Authorize | `Policy` (operators), used by `OneShot` and `Gateway` |
| Tenant resolution | `internal/tenant` | none | pure decisions, no caller | no |
| Storage, metrics, logging, configuration, main | `internal/storage`, `internal/metrics`, `internal/logger`, `cmd` | - | I/O and wiring | no |

How they interact: `HandleWS` authenticates a client and runs a session. For
every message the session asks the rate limiter (`CheckMessage`), the quota
manager (`Check`) and the policy, writes the message to a backend, then calls
`Increment` and `Track`. The quota manager hands billing events to the webhook
sender. The REST handlers manage API keys and make one-shot tool calls over the
same dial path. The parts share no state except through these calls, so each
has a module of its own whose environment takes every step the callers can.
`Gateway` puts them together: what one message does to the quota, to the usage
table and to the report of its user.

What is hard: goroutines that act on what they read before an unlock (drops by
server name, the reaper's list, read-modify-write of API keys, check then
increment); the order of notifications and requests; Close against everything
that is still running; stores that fail or commit without an answer; clocks
that are read before a script runs; periods that end in the middle of a call.
The list, each at its line and with the properties that watch it, is under
`hazards` in `PROJECT.json`.

## The modules

**Session.** A handler is identified with the message it handles. Steps are
split where the code takes or releases `backendsMu` or may block. `rd` is the
goroutine of `HandleWS`: it reads messages, waits for the semaphore, handles
notifications itself and runs `Close` (`CloseSnapshot`, `CloseBackend`,
`ClosePool`, `CloseClient`, `WaitHandlers`, `Finish`). `hp[i]` is the handler of
message `i` (`LookupHit/LookupMiss`, `Dial`, `Install`, `Touch`, `WriteOk`,
`Account`, or the error path). `dropBackend` is two steps, `Take` under the lock
and `Dispose` after it, because another goroutine can run in between. Policy,
quota and rate limit refusals are the choice of `Reject`. The go-mcp pool and
the WebSocket peers are external and modelled from how the code uses them.

**UsageTracker.** A flusher is any goroutine in `flush`: the worker, a query or
Close. Storing succeeds, fails, or commits and loses the answer. Postgres
ignores a known ID, the memory store appends.

`UsageLedger` is what callers of the tracker rely on: an event given to `Track`
is open until it is committed or reported, and never comes back. The refinement
mapping takes `open` to the buffer and the batches in flight, `stored` to the
store and `reported` to the dead letter file and the log. A commit whose answer
is lost is a step of its own (`CommitUnknown`): the code goes on as if nothing
had been stored, so that an event can be stored and reported as well.

**Auth.** The authenticators as operators on a request, a configuration and a
time; a token is a record of its claims. `ParseWithClaims` is the JWT library,
which checks signature and times. `Vouched` and `Mandatory` say independently
whom the credentials of a request can name and whether a name is demanded.
`main` builds the JWT authenticator or none; the composite and the API key
authenticator are complete in the repository and reached only by its tests.

**UsageQuery.** The filters and `Query`, which the two stores share, `GetSummary`
of Postgres, and what the two handlers ask for. `GetSummary` makes two queries: the
totals are of the table as the first one sees it, the breakdown by tool is of the
table as the second one sees it, cut to the `BreakdownLimit` (100 in the code) most
used tools, with rows missing that could not be read, or empty when the query fails.
It is therefore a set, the summaries that may be returned. A query that sorts equal
times or equal counts returns any of the possible answers. The memory store counts
totals and breakdown under one lock and returns all tools; its summary is the case
of the two tables being equal and nothing being cut.

**Gateway.** Several clients, their sessions and their calls. `Open` is the part
of `HandleWS` that registers a session under its id, `End` the deferred
`untrackSession`. The early returns of `handleMessage` change nothing that the
module keeps, so `Arrive` is the way to the backend and its guard the conjunction
of their negations; it is one step because all it reads of what others change is
the quota's count. `Write`, `WriteFail`, `Charge` and `TrackUsage` are steps of
their own, since other calls run in between. Ids of sessions and events are the
clock's reading, and the clock need not move between two readings. The tracker is
`UsageLedger`, by instantiation; the quota is one counter per user (`Quota` treats
periods and limits), the rate limiter a refusal that may always happen.

**ApiKeys.** Each call of the store is one step; the manager keeps a copy of the
key between its read and its write. A user stands for a tenant and a subject.
`APIKeyAuthenticator` is not constructed by `main` today; `KeyAuth` says whether
it is in use.

**Quota.** One tenant and one quota type. Counters are kept per user and start
day, as the stores' keys do. Day 0 begins a month and months are equally long.
A failing lookup falls through to the next quota, as in the code; at most
`MaxFailures` calls of the store fail. The program
has no caller of `SetQuota`; it stands for an administrator's change.

**RateLimit.** The configuration, with the store, is a variable that never
changes, so that one run covers both stores. A token is `Window` units, so
refills are integers. The memory store reads its clock under the mutex; with Redis the caller's clock is read
first (`ReadClock`) and the script runs up to `MaxLag` later, in any order.
`granted` records the clock of every take that got its token. A message to
which no limit applies is allowed without any step.

**Webhook.** The endpoint answers, refuses, or accepts a post whose answer is
lost; the context may expire at any point of `Send`.

**OneShot.** The backend answers each request once or never and may send
requests with the same ids, responses to nobody and text that is no JSON; it may
stall or disappear. The handler's early returns are one function of the request
and of the policy.

**Policy.** `Authorize`, the patterns and the registry's `always_allow` lists as
operators. A name is a sequence of fragments, so that a prefix or a suffix is
one of sequences; `Glob` says position by position what a pattern stands for, and
`OnlyAllowed` compares the calls that reach a backend with it.

Definitions called `X_Y` with the comment "Mutant" are variants of `X` with a
plausible mistake. Replacing `X` by one of them makes TLC report the property
that `mutants` in `PROJECT.json` names.

## Runs

| Run | Instance | Shows |
|---|---|---|
| `session_churn` | 1 server, 2 connections, 2 calls | `TypeOK`, `Ownership`, `CachedIsOpen`, `AnswersHaveReader`, `AtMostOneReply`, `UsageSettled`, `LeakOnlyLate` |
| `session_two` | 3 servers (one local-only), 2 messages of every kind, a pool with one slot that invalidates connections | `NoneForgotten`, `Delivery`, `NotificationOrder` |
| `session_live` | 2 calls, one slot for handlers, 2 connections of which one may be open at a time, a backend that may stall, fairness | `SessionEnds`, `BrokenClosed` |
| `session_stale` | violation | `LiveConnReused`: the pump of a failed connection closes the one that replaced it |
| `tracker_live` | 2 events, buffer of 2, one retry, fairness | `TypeOK`, `StoredOnce`, `FlushRequested`, `QueryMissesOnlyInFlight`, `CloseDrains`, `Settles`, and `KeepsLedger`: the tracker implements `UsageLedger` |
| `keys_use` | 3 keys, 2 users, 2 goroutines, limit 1, failing store | `TypeOK`, `LimitOvershoot`, `RevocationSettles`, `OwnerOnly` |
| `keys_revive` | violation | `RevokedForGood`: recording a use overwrites a revocation |
| `quota_calls` | 3 goroutines, every initial combination of quotas, 3 days, one failure, one change | `Conservation`, `Overshoot`, `NoFalseAlarm` |
| `rate` | memory: tool and user limit, cleanup, a failing call; Redis: one limit, window of 2 ticks, lag of 1, expiry, lost answers | `TokenBucket`, `AdmittedPaid` |
| `webhook` | 3 events, channel of 1, one retry, fairness | `InOrder`, `Accounted`, `CloseDrains`, `Settled` |
| `oneshot` | every request under nine policies, 2 unrelated messages, fairness | `AnswerIsResult`, `Handshake`, `OnlyAllowed`, `CallEnds` |
| `gateway` | 2 clients, 2 calls, 2 sessions, 2 clock readings, 2 authenticators, a token that expires, one for another gateway, a key of a user with the same name in another tenant, one failure of the quota store, 2 tools, a breakdown of at most 1 | `WhoItSays`, `GaugesExact`, `ReportsOwn`, `Reconciled` |

The two violations are described under `findings` in `PROJECT.json`.

What the models also make visible, and the properties allow for:

- The reaper drops by name what it found idle earlier, so that a connection used
  in between is closed with its request in flight.
- Nothing that was read after a notification reaches a backend before it
  (`NotificationOrder`), but a notification can overtake a request that was read
  before it and has a goroutine of its own (`mcpws.go:488`).
- A query misses events that another goroutine has taken and not yet stored, and
  nothing else (`QueryMissesOnlyInFlight`). Close does not wait for such a query:
  its batch may still be in memory when Close returns (`CloseDrains` names it).
- The tools of a usage summary need not add up to its total: events are stored
  between the two queries, and the breakdown is cut to 100 tools, skips rows that
  cannot be read, and is empty without an error when its query fails
  (`postgres.go:261`). `ReportsOwn` claims no completeness of it.
- Check-then-act on keys and quotas exceeds the limit by at most the number of
  goroutines less one (`LimitOvershoot`, `Overshoot`).
- A tenant-level quota is compared with the counter of each user.
- Rotating an expired key yields a key without expiry, and a failed revocation
  of the old key is only logged.
- Redis forgets a bucket after two windows, which restores a burst above two
  windows' requests; `TokenBucket` excludes such bursts.
- A message that a general limit refuses has already paid the specific ones.
- Quota and usage of a user agree except for failed increments, events on their
  way or given up, and events that got the id of another event of the same
  nanosecond, which the insert drops (`Reconciled` names each gap).
- Sessions opened in the same nanosecond share an entry of the registry, and the
  gauges of their tenants may be wrong from then on; the total stays right.
- `ClockSkew` widens nothing: the JWT parser has rejected the token before.
- `Build` ignores `Required` when there is only one method, and an invalid
  `X-API-Key` hides a valid key in `Authorization`.
- Usage queries of a principal without a tenant or a subject are not filtered by
  it; the program relies on the issuer to put both into a token.
- `GetSummary` of Postgres scans `AVG(duration_ns)`, a numeric, into an int64,
  which the driver refuses for a fraction; durations are not modelled.
- `envIntDefault` of `apikeys.go` returns 0 for every value that is set, which
  lifts the limit of keys per user; `ApiKeys` takes the limit as it was loaded.
- A user with the maximal number of keys cannot rotate one: the new key is
  created, and counted against the limit, before the old one is revoked.
- Webhook events queued after Close stay in the channel; usage events tracked
  after Close stay in the buffer.

Bounds. Two connections and two handlers are the least with which one goroutine
can act on a connection that another has replaced, and every two-party race of
the session needs no more. With one slot in the pool (`session_two`) every way in
which `pool.Get` fails occurs; in `session_live` too a connection that was dropped
is replaced by the other one before its pump has ended. `session_churn` leaves out
that the pool marks a cached connection unhealthy (`PoolMayInvalidate`), which
`session_two` includes. With two events the tracker's buffer fills and is
taken by one flusher while another finds it empty; the theorems cover any
number. Two requests for keys, and three calls against quotas up to two, let
the overshoot reach its bound. The rate limiter's clock runs long enough for an
emptied bucket to be removed and refilled. The webhook channel can be full with
an event in retry. Two sessions, two calls and two clock readings are the least
with which ids collide and with which they do not, and calls of two users, or of
one user against a quota of one, meet; two tools are the least with which a
breakdown of one is cut. Counters that would grow without end (`MaxAccepted`,
`MaxFailures`, `MaxFailed`, `MaxEdits`, `MaxUnrelated`, `MaxTime`, `MaxDay`,
`MaxMsg`, `MaxSessions`) are bounded in guards. Symmetry is used for connections,
goroutines, users, keys, clients and calls, never in a run with liveness. `gateway`
does not check for deadlock: when the clock, the sessions and the calls of the
instance are used up it has nothing left to do.

Fairness. A goroutine that can run does run (Go's scheduler), a started timer
fires, and a read or write on a closed connection returns. Nothing is assumed
of clients, backends or the billing endpoint: a backend may stop reading for
ever. Individual assumptions stand beside each `FairSpec`.

## Proofs

Every safety property that a passing run checks is also a theorem, for every
value of the constants. The proofs have the same plan: an inductive invariant
that the module's own properties are not strong enough to be, one lemma per
action or group of actions, and a last temporal step. Each invariant was checked
by TLC on the instance of its run before it was proved.

| Module | Theorems |
|---|---|
| `SessionProofs` | `TypeCorrect`, `OwnershipHolds`, `NoneForgottenHolds`, `CachedIsOpenHolds`, `AnswersHaveReaderHolds`, `DeliveryHolds`, `AtMostOneReplyHolds`, `UsageSettledHolds`, `LeakOnlyLateHolds`, `NotificationOrderHolds` |
| `UsageTrackerProofs` | `TrackerTypeCorrect`, `StoredOnceHolds`, `NoSilentLossHolds`, `HeldOnceHolds`, `FlushRequestedHolds`, `QueryMissesHolds`, `CloseDrainsHolds`, `TrackerKeepsLedger` |
| `ApiKeysProofs` | `KeysTypeCorrect`, `OwnerOnlyHolds`, `RevocationSettlesHolds`, `LimitOvershootHolds` |
| `QuotaProofs` | `OvershootHolds`, `NoFalseAlarmHolds`, `ConservationHolds` |
| `RateLimitProofs` | `TokenBucketHolds`, `AdmittedPaidHolds`, `DebtBounded` |
| `WebhookProofs` | `InOrderHolds`, `AccountedHolds`, `CloseDrainsHolds` |
| `OneShotProofs` | `AnswerIsResultHolds`, `HandshakeHolds`, `OnlyAllowedHolds`, `ContactAuthorized` |
| `GatewayProofs` | `GaugesExactHolds`, `WhoItSaysHolds`, `ReconciledHolds`, `ReportsOwnHolds`, `OwnOnlyHolds` |

**Session.** `Ownership` counts holders, and a step moves a connection from one
holder to another. `OwnInv` says what each holder relies on: whatever is held is
live (`HeldLive`), two holders never hold the same connection (`HeldOnce`), and
every live connection is held (`LiveHeld`), with the control facts that tie a
goroutine's state to what it holds. On it rests `SessInv`, the invariant of the
whole session: connections that can carry a request have a pump, which stops only
with the client (`PumpedInv`); a request is in flight on one connection, of its
server, and unanswered (`FlightInv`); which messages have a handler, and that none
has one once the session is untracked (`KindInv`); a handler has a connection from
its lookup or dial on and leaves, when it is done, the event of its outcome
(`TrackInv`); from its write on an unanswered request is in flight unless its
connection has failed or been closed (`ForgotInv`); and what Close has closed, listed
or missed (`CloseInv`). `Delivery` and `AtMostOneReply` need `FlightInv` because an
answer removes a request from one connection only, and `NoneForgotten` needs it for
the same reason: the answer that takes a request off its connection is its reply.

**UsageTracker.** The invariant adds that only a flusher between taking and
finishing holds events (`ControlInv`), that an unwritten event is not in the
memory store (`FreshInv`: the store does not look for duplicates), and that a
query and Close past their swap have left nothing they need in the buffer
(`QueryInv`, `CloseInv`); `ControlInv` also says that the worker has stopped when Close
is past its wait, so that of the batches only those of queries can outlive Close. On it rests `TrackerKeepsLedger` (`Spec => KeepsLedger`),
the refinement. Each action is a step of the ledger or leaves its variables alone:
`Track` is `Accept`, since a fresh event is nowhere yet; taking the buffer moves
events within `open` (`LedgerTake`); an acknowledged write is `Commit`, a lost
answer `CommitUnknown` (`LedgerInsert`), and `sendToDLQ` is `GiveUp`
(`LedgerRelease`). The last two need that a batch is with one flusher only, for
else its events would stay open (`HeldOnce`). `NoSilentLoss` and `HeldOnce` are
proved and for that reason not part of a run.

**ApiKeys.** The key a goroutine works with exists (`TargetInv`), belongs to the
user of its request (`OwnerInv`), and the copy it will write back is a key of the
same user (`CopyInv`); without the last a write could replace the owner after the
handler has compared it. `LimitOvershoot` counts a request that has passed the
count as if it had its key (`CreateInv`), and needs that a write of
`UpdateLastUsed` makes no key count again except a reported one (`MarkInv`).

**Quota.** `PassedInv` counts calls past Check like calls already in the current
counter, and says that a limit of 0 lets none past, so that the next period
begins no worse; the lemmas `StartBounds` and `StartNext` say how the start of a
period moves with the days. `Conservation` compares the accepted calls with a set
that has one element per unit of each counter (`Counted`), so that an increment
adds one element.

**RateLimit.** `PaidInv` is the potential argument: the takes of a bucket since any
of them, with the units left, fit into one burst and the refill since then. For
the memory store it holds of removed buckets as if they were full (`Cleanup` has
checked it); for Redis a bucket that has expired had two windows to refill, less
the delay of a call (`LagInv`), and a late script leaves a debt that the refill up
to its write has paid (`LevelInv`). `PayInv` counts a message that is past a bucket
(`Past`) like one that was allowed; `ChecksComplete` proves that
`BuildLimitChecks` leaves out no limit that applies.

**Webhook.** The channel holds the events queued last and the worker the last one
it took (`ChannelInv`), so that the position of an event among those queued orders
the posts (`PostedInv`); an event that the worker has let go of has one fate
(`FateInv`), and what the worker leaves behind was queued after Close (`DrainInv`).

**OneShot.** What the backend has read and what is on its way are the messages of
the call in order, as many as its stage says (`WireInv`), the later ones only after
an accepted initialization (`InitInv`); a response with one of the call's ids is
the backend's answer to it (`ReplyInv`). `MatchIsGlob` proves `MatchPattern`, by
prefixes and suffixes, equal to what a pattern stands for, position by position
(`Glob`), for every name and pattern; with it `ContactAuthorized` gives
`OnlyAllowed`.

**Gateway.** Entries of the registry are open sessions with that id (`EntryInv`),
and a session that is not found under its id is of a tenant that has clashed
(`ClashInv`); a handler's session is open and its owner's (`HandlerInv`).
`Reconciled` needs that handlers are done exactly when their event is with the
tracker (`EventInv`), that the count lies within the charged calls and the failed
increments (`ChargeInv`), and that the table has one row for each stored id
(`RowInv`). `OwnOnly` is `ReportsOwn` for every window, time of asking and limit. It rests on
`FoundOwn`, that what the filter finds in any part of the table are the user's own
events in the window; the counts of a summary follow for both of its queries, for an
entry of the breakdown whichever entries are left, and the newest of them are the
export (`QueryNewest`). `WhoItSays` rests on the cases of `Authenticate` alone.

The only assumptions are the named `ASSUME`s on the constants, which TLC evaluates
in every run: bounds are natural numbers, windows, limits of exports and buffers
are positive, the sets whose members are counted are finite, markers such as
`NoTime` are no values, and keys, requests and policies have the form of the Go
types they stand for.

Only model-checked: liveness under fairness (`SessionEnds`, `BrokenClosed`,
`Settles`, `Settled`, `CallEnds`), which the prover does not treat; and that the
two violations are reachable.

## Not modelled

Contents of messages, hashing, signatures, SQL, metrics and logs; the layout of
exports, durations and token counts; loading of configuration from the
environment; tenant resolution, which nothing calls; `Delete` of API keys,
`DeleteOlderThan` of usage events, and `Peek` and `Reset` of the limiter, which
only tests call; the HTTP rate limit middleware, for which `main` sets no
limiter; the listing and quota handlers, which only read; the refresh of the JWKS, which the library does. Process exit:
`main` ends in `log.Fatalf` or by a signal, so that its deferred `Close` calls do
not run and what is in the tracker's buffer is gone; the models treat `Close` as
the code offers it. Redis scripts that run after
their caller has given up are folded into the failing call. Two conversions are
simplified: `idMatches` also takes an id as a string and truncates a fraction
(`oneshot.go:118`), which is equality in `OneShot`; and `Key.String`
(`ratelimit.go:32`) maps two keys to one text when a tenant, user or tool contains
its marks (`:u:`, `:tl:`), while `RateLimit` keeps buckets by the key itself.

## Plan

Modelled, in this order: the session, the usage tracker, API keys, quotas, rate
limits, webhooks, the one-shot call, the policy, authentication, the ledger that
the tracker implements, usage reports, and the composition in `Gateway`. Proved:
the safety properties of all of them. What could be added:

1. The ledger inside `Gateway` and the tracker side by side: that `Gateway` with
   `UsageTracker` in place of `UsageLedger` keeps `Reconciled`, which now follows
   from the refinement by reading.
2. Lemmas about `Query` with an offset, which no handler uses.
3. What Rotate promises when the old key has expired or its revocation fails; the
   behaviour is in the model (see the list above), no property is about it.
