------------------------------ MODULE OneShot ------------------------------
(***************************************************************************)
(* POST /api/v1/tools/{server}/{tool}: the REST handler                    *)
(* (internal/httpapi/tools.go) and the one-shot call that it makes         *)
(* (internal/mcpws/oneshot.go): dial, initialize, tools/call, close, with  *)
(* a goroutine that closes the transport when the context is done.         *)
(*                                                                         *)
(* The backend answers each request once or never, in order, and may send  *)
(* messages of its own: notifications, requests that carry the same ids,   *)
(* and responses to nobody.                                                *)
(***************************************************************************)
EXTENDS Policy

CONSTANTS
  ServerName,   \* names a client may put into the path
  Tool,         \* tools a client may ask for
  Policies,     \* configurations of the gateway's policy
  MaxUnrelated  \* bound on the messages the backend sends on its own

ASSUME OneShotAssumption ==
  /\ MaxUnrelated \in Nat
  /\ \A p \in Policies :
       p \in PatternPolicy(p.allowTools \cup p.denyTools,
                          p.allowMethods \cup p.denyMethods)
  /\ Tool \subseteq Seq(STRING)
  /\ \A p \in Policies :
       /\ p.allowTools \cup p.denyTools \subseteq Seq(STRING)
       /\ p.allowMethods \cup p.denyMethods \subseteq Seq(STRING)

InitID == 1  \* oneshotInitializeID
CallID == 2  \* oneshotCallToolID

Request == [server : ServerName, tool : Tool, args : BOOLEAN]

VARIABLES
  pol,        \* the policy of the gateway
  req,        \* the request; args: is its body an object of arguments?
  cp,         \* the handler: what it is about to do
  answer,     \* what the client gets, "none" until then
  expired,    \* is the context of the call done?
  conn,       \* the transport: "none", "open", "broken" or "closed"
  done,       \* is the channel done closed?
  watch,      \* the goroutine that waits for the context
  toBackend,  \* messages on their way to the backend
  toClient,   \* messages on their way from the backend
  got,        \* messages the backend has read
  replied,    \* the backend's answers: id -> "none", "ok" or "error"
  unrelated,  \* number of messages the backend has sent on its own
  stalled     \* does the backend no longer read?

callVars == <<pol, req, cp, answer>>
connVars == <<conn, done, watch>>
backendVars == <<got, replied, unrelated, stalled>>
vars == <<callVars, expired, connVars, toBackend, toClient, backendVars>>

Init ==
  /\ pol \in Policies /\ req \in Request
  /\ cp = "handle" /\ answer = "none"
  /\ expired = FALSE
  /\ conn = "none" /\ done = FALSE /\ watch = "none"
  /\ toBackend = <<>> /\ toClient = <<>>
  /\ got = <<>> /\ unrelated = 0 /\ stalled = FALSE
  /\ replied = [id \in {InitID, CallID} |-> "none"]

-----------------------------------------------------------------------------
(* The handler *)

(* The early returns of handleInvokeTool, in their order. *)
Refusal(r) ==
  CASE r.server \notin Server \ LocalOnly -> "notFound"
    [] /\ r.server \in Server \ LocalOnly
       /\ ~IsToolAlwaysAllowed(r.server, r.tool) ->
         IF StaticTools[r.server] # {} /\ r.tool \notin StaticTools[r.server]
           THEN "notFound" ELSE "forbidden"
    [] /\ r.server \in Server \ LocalOnly
       /\ IsToolAlwaysAllowed(r.server, r.tool)
       /\ ~Authorize(pol, ToolsCall, r.tool) -> "forbidden"
    [] /\ r.server \in Server \ LocalOnly
       /\ IsToolAlwaysAllowed(r.server, r.tool)
       /\ Authorize(pol, ToolsCall, r.tool) /\ ~r.args -> "badRequest"
    [] OTHER -> "none"

Refuse ==
  /\ cp = "handle" /\ Refusal(req) # "none"
  /\ answer' = Refusal(req)
  /\ cp' = "answered"
  /\ UNCHANGED <<pol, req, expired, connVars, toBackend, toClient,
                 backendVars>>

Accept ==
  /\ cp = "handle" /\ Refusal(req) = "none"
  /\ cp' = "dial"
  /\ UNCHANGED <<pol, req, answer, expired, connVars, toBackend, toClient,
                 backendVars>>

(* CallTool returns: close(done), tr.Close, and cancel in the handler.     *)
Return(result) ==
  /\ answer' = result
  /\ cp' = "answered"
  /\ done' = TRUE
  /\ conn' = "closed"
  /\ expired' = TRUE

Abort ==
  /\ Return("badGateway")
  /\ UNCHANGED <<pol, req, watch, toBackend, toClient, backendVars>>

-----------------------------------------------------------------------------
(* CallTool *)

Dial ==
  /\ cp = "dial" /\ ~expired
  /\ conn' = "open" /\ watch' = "waiting"
  /\ cp' = "sendInit"
  /\ UNCHANGED <<pol, req, answer, expired, done, toBackend, toClient,
                 backendVars>>

DialFail ==
  /\ cp = "dial"
  /\ answer' = "badGateway" /\ cp' = "answered" /\ expired' = TRUE
  /\ UNCHANGED <<pol, req, connVars, toBackend, toClient, backendVars>>

(* A write to a backend that does not read may block. *)
Send(state, m, next) ==
  /\ cp = state /\ conn = "open" /\ ~stalled
  /\ toBackend' = Append(toBackend, m)
  /\ cp' = next
  /\ UNCHANGED <<pol, req, answer, expired, connVars, toClient, backendVars>>

SendInitialize == Send("sendInit", "initialize", "initHead")
SendInitialized == Send("notify", "initialized", "sendCall")
SendCall == Send("sendCall", "tools/call", "callHead")

SendFail ==
  /\ cp \in {"sendInit", "notify", "sendCall"} /\ conn # "open"
  /\ Abort

(* recvResponse: the context is looked at before every read. *)
RecvNext ==
  /\ cp \in {"initHead", "callHead"} /\ ~expired
  /\ cp' = IF cp = "initHead" THEN "initRead" ELSE "callRead"
  /\ UNCHANGED <<pol, req, answer, expired, connVars, toBackend, toClient,
                 backendVars>>

RecvContextDone ==
  /\ cp \in {"initHead", "callHead"} /\ expired
  /\ Abort

Reading == cp \in {"initRead", "callRead"}
WantID == IF cp = "initRead" THEN InitID ELSE CallID
Readable == Reading /\ conn \in {"open", "broken"} /\ toClient # <<>>

(* IsResponse and idMatches.  The lenience of idMatches, which also takes   *)
(* the id as a string and truncates a fraction, is modelled as equality:   *)
(* an id stands for all its spellings.                                     *)
Matches(m) == m.kind = "response" /\ m.id = WantID

RecvSkip ==
  /\ Readable
  /\ ~Matches(Head(toClient)) /\ Head(toClient).kind # "garbage"
  /\ toClient' = Tail(toClient)
  /\ cp' = IF cp = "initRead" THEN "initHead" ELSE "callHead"
  /\ UNCHANGED <<pol, req, answer, expired, connVars, toBackend, backendVars>>

(* Mutant: the handshake goes on whatever the backend answers. *)
RecvInit_IgnoreError ==
  /\ Readable /\ cp = "initRead" /\ Matches(Head(toClient))
  /\ toClient' = Tail(toClient)
  /\ cp' = "notify"
  /\ UNCHANGED <<pol, req, answer, expired, connVars, toBackend, backendVars>>

RecvInit ==
  /\ Readable /\ cp = "initRead" /\ Matches(Head(toClient))
  /\ Head(toClient).body # "error"
  /\ toClient' = Tail(toClient)
  /\ cp' = "notify"
  /\ UNCHANGED <<pol, req, answer, expired, connVars, toBackend, backendVars>>

(* Mutant: the first response is taken for the answer, whatever its id. *)
RecvResult_AnyId ==
  /\ Readable /\ cp = "callRead" /\ Head(toClient).kind = "response"
  /\ Head(toClient).body # "error"
  /\ toClient' = Tail(toClient)
  /\ Return("ok")
  /\ UNCHANGED <<pol, req, watch, toBackend, backendVars>>

RecvResult ==
  /\ Readable /\ cp = "callRead" /\ Matches(Head(toClient))
  /\ Head(toClient).body # "error"
  /\ toClient' = Tail(toClient)
  /\ Return("ok")
  /\ UNCHANGED <<pol, req, watch, toBackend, backendVars>>

(* An error response, a result that reports an error, or no JSON. *)
RecvError ==
  /\ Readable
  /\ \/ Matches(Head(toClient)) /\ Head(toClient).body = "error"
     \/ Head(toClient).kind = "garbage"
  /\ Abort

(* The read fails: the transport was closed here, or the peer is gone. *)
RecvFail ==
  /\ Reading
  /\ \/ conn = "closed"
     \/ conn = "broken" /\ toClient = <<>>
  /\ Abort

-----------------------------------------------------------------------------
(* The context and the goroutine that watches it *)

(* The timeout of the call passes or the client disconnects. *)
Expire ==
  /\ cp \notin {"handle", "answered"} /\ ~expired
  /\ expired' = TRUE
  /\ UNCHANGED <<callVars, connVars, toBackend, toClient, backendVars>>

(* Mutant: the transport stays open when the context is done. *)
WatchContext_NoClose ==
  /\ watch = "waiting" /\ expired
  /\ watch' = "exit"
  /\ UNCHANGED <<callVars, expired, conn, done, toBackend, toClient,
                 backendVars>>

WatchContext ==
  /\ watch = "waiting" /\ expired
  /\ watch' = "exit"
  /\ conn' = "closed"
  /\ UNCHANGED <<callVars, expired, done, toBackend, toClient, backendVars>>

WatchDone ==
  /\ watch = "waiting" /\ done
  /\ watch' = "exit"
  /\ UNCHANGED <<callVars, expired, conn, done, toBackend, toClient,
                 backendVars>>

-----------------------------------------------------------------------------
(* The backend *)

Reply(id, body) ==
  /\ replied[id] = "none"
  /\ toClient' = Append(toClient, [kind |-> "response", id |-> id,
                                   body |-> body])
  /\ replied' = [replied EXCEPT ![id] = body]
  /\ UNCHANGED <<got, unrelated, stalled>>

BackendRead ==
  /\ conn = "open" /\ ~stalled /\ toBackend # <<>>
  /\ got' = Append(got, Head(toBackend))
  /\ toBackend' = Tail(toBackend)
  /\ UNCHANGED <<callVars, expired, connVars, toClient, replied, unrelated,
                 stalled>>

BackendReply ==
  /\ conn = "open"
  /\ \E body \in {"ok", "error"} :
       \/ Contains(got, "initialize") /\ Reply(InitID, body)
       \/ Contains(got, "tools/call") /\ Reply(CallID, body)
  /\ UNCHANGED <<callVars, expired, connVars, toBackend>>

BackendUnrelated ==
  /\ conn = "open" /\ unrelated < MaxUnrelated
  /\ unrelated' = unrelated + 1
  /\ \E m \in [kind : {"request"}, id : {1, 2}, body : {"none"}]
                \cup [kind : {"notification", "garbage", "response"},
                      id : {0}, body : {"none"}] :
       toClient' = Append(toClient, m)
  /\ UNCHANGED <<callVars, expired, connVars, toBackend, got, replied,
                 stalled>>

BackendStall ==
  /\ conn = "open" /\ ~stalled
  /\ stalled' = TRUE
  /\ UNCHANGED <<callVars, expired, connVars, toBackend, toClient, got,
                 replied, unrelated>>

BackendGone ==
  /\ conn = "open"
  /\ conn' = "broken"
  /\ UNCHANGED <<callVars, expired, done, watch, toBackend, toClient,
                 backendVars>>

-----------------------------------------------------------------------------
Call ==
  \/ Refuse \/ Accept \/ Dial \/ DialFail
  \/ SendInitialize \/ SendInitialized \/ SendCall \/ SendFail
  \/ RecvNext \/ RecvContextDone \/ RecvSkip \/ RecvInit \/ RecvResult
  \/ RecvError \/ RecvFail

Watch == WatchContext \/ WatchDone

Backend ==
  \/ BackendRead \/ BackendReply \/ BackendUnrelated
  \/ BackendStall \/ BackendGone

Finished ==
  /\ cp = "answered" /\ watch \in {"none", "exit"}
  /\ UNCHANGED vars

Next == Call \/ Watch \/ Expire \/ Backend \/ Finished

Spec == Init /\ [][Next]_vars

(* Goroutines run and the timer of the context fires; nothing is assumed   *)
(* of the backend.                                                         *)
FairSpec == Spec /\ WF_vars(Call) /\ WF_vars(Watch) /\ WF_vars(Expire)

-----------------------------------------------------------------------------
(* Properties *)

(* AnswerIsResult: the client gets 200 only with what the backend answered *)
(* to tools/call, whatever else the backend sends with the same id and     *)
(* however late the answer is.                                             *)
AnswerIsResult == answer = "ok" => replied[CallID] = "ok"

(* Handshake: the backend reads tools/call only after it has accepted the  *)
(* initialization and read the notification that ends it.                  *)
Handshake ==
  Contains(got, "tools/call") =>
    /\ replied[InitID] = "ok"
    /\ got = <<"initialize", "initialized", "tools/call">>

(* OnlyAllowed: a backend is contacted only for a tool that is listed for  *)
(* that very server, that no pattern of the deny lists stands for, and     *)
(* that, unless the policy respects the registry, the allow list or the    *)
(* default admits (README, "Policy": deny wins).                           *)
OnlyAllowed ==
  conn # "none" =>
    /\ req.server \in Server \ LocalOnly
    /\ req.tool \in AlwaysAllow[req.server]
    /\ ~Lists(pol.denyTools, req.tool) /\ ~Lists(pol.denyMethods, ToolsCall)
    /\ pol.allowMethods = {} \/ Lists(pol.allowMethods, ToolsCall)
    /\ \/ pol.respect
       \/ Lists(pol.allowTools, req.tool)
       \/ pol.allowTools = {} /\ pol.defaultAllow

(* CallEnds: the client gets an answer, no goroutine is left and the       *)
(* transport is closed, although the backend may stop reading or answering *)
(* at any point.                                                           *)
CallEnds ==
  <>[](/\ cp = "answered" /\ watch \in {"none", "exit"}
       /\ conn \in {"none", "closed"})
=============================================================================
