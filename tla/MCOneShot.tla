----------------------------- MODULE MCOneShot -----------------------------
(* Instances of OneShot for TLC. *)
EXTENDS OneShot

GetPods == <<"get", "Pods">>
DelPods == <<"delete", "Pods">>
GetLogs == <<"get", "Logs">>

MCTools == {GetPods, DelPods, GetLogs}

(* The registry: "git" is local-only and lists a tool that "k8s" does not. *)
MCAlwaysAllow == [k8s |-> {GetPods, DelPods}, git |-> {GetLogs}]
MCStaticTools == [k8s |-> {GetPods, DelPods}, git |-> {}]

(* One policy of each kind: the default, and a prefix, a suffix, a name or *)
(* a star in each of the lists.                                            *)
Default == [defaultAllow |-> TRUE, respect |-> TRUE, allowTools |-> {},
            denyTools |-> {}, allowMethods |-> {}, denyMethods |-> {}]
MCPolicies ==
  {Default,
   [Default EXCEPT !.denyTools = {<<"delete", "*">>}],
   [Default EXCEPT !.denyTools = {<<"*", "Pods">>}],
   [Default EXCEPT !.respect = FALSE, !.allowTools = {<<"get", "*">>}],
   [Default EXCEPT !.respect = FALSE, !.defaultAllow = FALSE],
   [Default EXCEPT !.defaultAllow = FALSE, !.denyTools = {GetPods}],
   [Default EXCEPT !.denyMethods = {<<"*">>}],
   [Default EXCEPT !.allowMethods = {<<"tools/", "*">>}],
   [Default EXCEPT !.allowMethods = {<<"*", "list">>}]}
=============================================================================
