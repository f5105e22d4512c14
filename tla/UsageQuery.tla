----------------------------- MODULE UsageQuery -----------------------------
(***************************************************************************)
(* What the usage stores answer and what the handlers of /api/v1/usage ask *)
(* them for.  Query and the filters are those of both stores               *)
(* (internal/usage/memory.go and postgres.go); GetSummary is that of       *)
(* Postgres, which makes two queries and may return half an answer, while  *)
(* the memory store counts everything under one lock.  An event is a       *)
(* record of id, ts, tenant, user, tool, server and success; durations,    *)
(* token counts and the layout of the exports are left out.                *)
(***************************************************************************)
EXTENDS Integers, FiniteSets, FiniteSetsExt

CONSTANTS
  NoName,        \* an empty tenant or user
  NoTime,        \* the zero time
  Day,           \* the default window of the summary
  DefaultLimit,  \* events of an export without a limit
  MaxLimit,      \* the largest limit a client may ask for
  BreakdownLimit \* LIMIT of the query for the breakdown by tool

(* The filter of Query. *)
Matches(e, p) ==
  /\ p.tenant # NoName => e.tenant = p.tenant
  /\ p.user # NoName => e.user = p.user
  /\ p.tool # <<>> => e.tool = p.tool
  /\ p.start # NoTime => e.ts >= p.start
  /\ p.end # NoTime => e.ts <= p.end

(* The ways to pick the n newest of a set of events: equal times are       *)
(* sorted in any order.                                                    *)
Newest(events, n) ==
  {R \in kSubset(n, events) : \A e \in R, f \in events \ R : e.ts >= f.ts}

(* Query: the newest matching events, skipping offset and at most limit.   *)
Query(events, p) ==
  LET found == {e \in events : Matches(e, p)}
      n == Cardinality(found)
      first == IF p.offset < n THEN p.offset ELSE n
      last == IF p.limit > 0 /\ first + p.limit < n THEN first + p.limit ELSE n
  IN  UNION {{b \ a : a \in Newest(found, first) \cap SUBSET b} :
               b \in Newest(found, last)}

(* Mutant: the same user id counts in every tenant. *)
InSummary_UserOnly(e, tenant, user, start, end) ==
  /\ user \in {NoName, e.user}
  /\ start = NoTime \/ start <= e.ts
  /\ end = NoTime \/ e.ts <= end

(* The filter of GetSummary, the same in both stores and both queries. *)
InSummary(e, tenant, user, start, end) ==
  /\ tenant \in {NoName, e.tenant}
  /\ user \in {NoName, e.user}
  /\ start = NoTime \/ start <= e.ts
  /\ end = NoTime \/ e.ts <= end

Found(events, tenant, user, start, end) ==
  {e \in events : InSummary(e, tenant, user, start, end)}

(* The first query: the totals. *)
Totals(found) ==
  [total   |-> Cardinality(found),
   success |-> Cardinality({e \in found : e.success}),
   errors  |-> Cardinality({e \in found : ~e.success})]

(* The second query: the calls of each named tool. *)
Tools(found) == {e.tool : e \in found} \ {<<>>}
Calls(found, x) == Cardinality({e \in found : e.tool = x})

(* ORDER BY count DESC LIMIT: all the tools, or as many of the most used   *)
(* ones as the limit allows; equal counts are sorted in any order.         *)
Busiest(found) ==
  {T \in SUBSET Tools(found) :
     /\ Cardinality(T) <= BreakdownLimit
     /\ T = Tools(found) \/ Cardinality(T) = BreakdownLimit
     /\ \A x \in T, y \in Tools(found) \ T : Calls(found, x) >= Calls(found, y)}

(* A row that cannot be read is skipped, and if the query fails the        *)
(* breakdown is empty; neither is an error to the caller.                  *)
Breakdowns(found) ==
  {[x \in L |-> Calls(found, x)] : L \in UNION {SUBSET T : T \in Busiest(found)}}

(* PostgresStore.GetSummary: the summaries it may return when the first    *)
(* query sees the table as it is in events and the second as in later.  An *)
(* error of the first query is returned instead.                           *)
GetSummary(events, later, tenant, user, start, end) ==
  {[totals |-> Totals(Found(events, tenant, user, start, end)), tools |-> b] :
     b \in Breakdowns(Found(later, tenant, user, start, end))}

-----------------------------------------------------------------------------
(* handleGetUsage, asked at time now by principal who. *)
HandleGetUsage(events, later, who, start, end, now) ==
  GetSummary(events, later, who.tenant, who.sub,
             IF start = NoTime THEN now - Day ELSE start,
             IF end = NoTime THEN now ELSE end)

(* The digits of the limit parameter, when they are in range. *)
ExportLimit(n) == IF n > 0 /\ n <= MaxLimit THEN n ELSE DefaultLimit

(* handleExportUsage *)
HandleExportUsage(events, who, start, end, limit) ==
  Query(events, [tenant |-> who.tenant, user |-> who.sub, tool |-> <<>>,
                 start |-> start, end |-> end,
                 offset |-> 0, limit |-> ExportLimit(limit)])
=============================================================================
