------------------------------- MODULE Policy -------------------------------
(***************************************************************************)
(* The pattern policy (internal/policy/policy.go) and the always_allow     *)
(* lists of the registry that it consults, as operators.                   *)
(*                                                                         *)
(* A name or a pattern is a sequence of fragments, without the surrounding *)
(* space that the code trims; "*" is the star of a pattern.                *)
(***************************************************************************)
EXTENDS Naturals, Sequences, SequencesExt

CONSTANTS
  Server,      \* servers of the registry
  LocalOnly,   \* those that are not deployed in the hub
  AlwaysAllow, \* per server: its always_allow list in the profile asked for
  StaticTools  \* per server: the tools it declares, {} for no declaration

ASSUME RegistryAssumption ==
  /\ LocalOnly \subseteq Server
  /\ DOMAIN AlwaysAllow = Server /\ DOMAIN StaticTools = Server

(* Config of a policy whose lists are drawn from the given patterns. *)
PatternPolicy(tools, methods) ==
  [defaultAllow : BOOLEAN, respect : BOOLEAN,
   allowTools : SUBSET tools, denyTools : SUBSET tools,
   allowMethods : SUBSET methods, denyMethods : SUBSET methods]

ToolsCall == <<"tools/", "call">>

(* "*", a prefix before a star, a suffix after one, or the name itself. *)
MatchPattern(value, pattern) ==
  /\ value # <<>> /\ pattern # <<>>
  /\ \/ pattern = <<"*">>
     \/ Len(pattern) > 1 /\ Last(pattern) = "*"
          /\ IsPrefix(Front(pattern), value)
     \/ Len(pattern) > 1 /\ Last(pattern) # "*" /\ Head(pattern) = "*"
          /\ IsSuffix(Tail(pattern), value)
     \/ Last(pattern) # "*" /\ Head(pattern) # "*" /\ value = pattern

MatchAny(value, patterns) == \E p \in patterns : MatchPattern(value, p)

IsToolAlwaysAllowed(server, tool) ==
  server \in Server /\ tool \in AlwaysAllow[server]

IsRegistryAlwaysAllow(tool) ==
  \E s \in Server \ LocalOnly : IsToolAlwaysAllowed(s, tool)

(* Mutant: always_allow is looked at before the deny list. *)
Authorize_AllowFirst(p, method, tool) ==
  /\ method # <<>>
  /\ ~MatchAny(method, p.denyMethods)
  /\ p.allowMethods # {} => MatchAny(method, p.allowMethods)
  /\ method = ToolsCall =>
       /\ tool # <<>>
       /\ \/ p.respect /\ IsRegistryAlwaysAllow(tool)
          \/ /\ ~MatchAny(tool, p.denyTools)
             /\ IF p.allowTools # {} THEN MatchAny(tool, p.allowTools)
                                     ELSE p.defaultAllow

(* Authorize: the methods first, then for tools/call the deny list, the    *)
(* registry, the allow list and the default.                               *)
Authorize(p, method, tool) ==
  /\ method # <<>>
  /\ ~MatchAny(method, p.denyMethods)
  /\ p.allowMethods # {} => MatchAny(method, p.allowMethods)
  /\ method = ToolsCall =>
       /\ tool # <<>>
       /\ ~MatchAny(tool, p.denyTools)
       /\ \/ p.respect /\ IsRegistryAlwaysAllow(tool)
          \/ IF p.allowTools # {} THEN MatchAny(tool, p.allowTools)
                                  ELSE p.defaultAllow

-----------------------------------------------------------------------------
(* What a pattern stands for: the fragments before its star begin the name *)
(* and those after it end the name.  A star counts at the end or, if there *)
(* is none, at the start; a pattern without one stands for itself.         *)
Glob(pattern, value) ==
  LET n == Len(pattern)
      Star(i) == i \in 1..n /\ pattern[i] = "*"
      Fits(i) == /\ n <= Len(value) + 1
                 /\ \A j \in 1..n \ {i} :
                      pattern[j] = value[IF j < i THEN j ELSE Len(value) + j - n]
  IN  \/ Star(n) /\ Fits(n)
      \/ ~Star(n) /\ Star(1) /\ Fits(1)
      \/ ~Star(n) /\ ~Star(1) /\ value = pattern

Lists(patterns, value) == \E p \in patterns : Glob(p, value)
=============================================================================
