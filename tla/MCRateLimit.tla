---------------------------- MODULE MCRateLimit ----------------------------
(* An instance of RateLimit for TLC. *)
EXTENDS RateLimit, TLC

CONSTANTS t1, u1, x1

ToolCall == [tenant |-> t1, user |-> u1, tool |-> x1]
UserCall == [tenant |-> t1, user |-> u1, tool |-> NoName]

ToolAndUser == {ToolCall, UserCall}

Levels4(tool, user, tenant, global) ==
  [tool |-> tool, user |-> user, tenant |-> tenant, global |-> global]

(* A tool and a user limit in memory; a limit for everybody in Redis. *)
TwoConfigs ==
  {[store |-> "memory", requests |-> Levels4(1, 1, 0, 0),
                        burst |-> Levels4(0, 3, 0, 0)],
   [store |-> "redis",  requests |-> Levels4(0, 0, 0, 2),
                        burst |-> Levels4(0, 0, 0, 3)]}

CallerSymmetry == Permutations(Caller)
=============================================================================
