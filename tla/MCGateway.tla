----------------------------- MODULE MCGateway -----------------------------
(* An instance of Gateway for TLC. *)
EXTENDS Gateway, TLC

CONSTANTS ann, t1, t2, key1, junk, hub, other, pods, logs

(* The token of ann is good until time 2; one token is meant for another   *)
(* gateway; the API key belongs to another ann, of another tenant.         *)
AnnToken == [signed |-> TRUE, iss |-> hub, aud |-> {hub}, exp |-> 2,
             nbf |-> NoTime, sub |-> ann, tenant |-> t1]
OtherToken == [AnnToken EXCEPT !.aud = {other}, !.exp = NoTime]
MCTokens == {AnnToken, OtherToken}
MCKeyOwner == key1 :> [sub |-> ann, tenant |-> t2]

Bearer(cred) == [scheme |-> "Bearer x", cred |-> cred]
NoHeader == [scheme |-> "other", cred |-> NoName]

Plain(authorization, apiKey) ==
  [authorization |-> authorization, apiKey |-> apiKey, server |-> "k8s"]

(* A token, a key in either header, a token with a key, a token for        *)
(* another gateway, nothing, and a server that is local-only.              *)
MCRequests ==
  {Plain(Bearer(AnnToken), NoName), Plain(Bearer(key1), NoName),
   Plain(Bearer(AnnToken), key1), Plain(Bearer(OtherToken), junk),
   Plain(NoHeader, NoName),
   [Plain(NoHeader, key1) EXCEPT !.server = "git"]}

(* Both methods with a name demanded, and tokens alone without; there the  *)
(* builder's own flag is set and has no effect.                            *)
Both == [jwt |-> TRUE, apiKey |-> TRUE, jwtRequired |-> FALSE,
         keyRequired |-> FALSE, required |-> TRUE]
MCConfigs == {Both, [Both EXCEPT !.apiKey = FALSE]}

GetPods == <<"get", pods>>
GetLogs == <<"get", logs>>
Drain   == <<"drain">>
MCMessages == {[method |-> ToolsCall, tool |-> GetPods],
               [method |-> ToolsCall, tool |-> GetLogs],
               [method |-> ToolsCall, tool |-> Drain],
               [method |-> <<"tools/", "list">>, tool |-> <<>>]}
MCRoutes == GetPods :> "k8s" @@ GetLogs :> "k8s" @@ Drain :> "error"
MCAlwaysAllow == [k8s |-> {GetPods, GetLogs}, git |-> {}]
MCStaticTools == [k8s |-> {}, git |-> {}]
MCPol == [defaultAllow |-> TRUE, respect |-> TRUE, allowTools |-> {},
          denyTools |-> {}, allowMethods |-> {}, denyMethods |-> {}]

GatewaySymmetry ==
  {p @@ q @@ r : p \in Permutations(Call), q \in Permutations(Client),
                 r \in Permutations({pods, logs})}
=============================================================================
