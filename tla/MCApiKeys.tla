----------------------------- MODULE MCApiKeys -----------------------------
(* Instances of ApiKeys for TLC. *)
EXTENDS ApiKeys, TLC

KeySymmetry == Permutations(Key) \cup Permutations(Proc)
=============================================================================
