------------------------------ MODULE MCQuota ------------------------------
(* Instances of Quota for TLC. *)
EXTENDS Quota, TLC

MCPeriods == [daily |-> 1, monthly |-> 2]
QuotaSymmetry == Permutations(User) \cup Permutations(Caller)
=============================================================================
