----------------------------- MODULE MCExecutor -----------------------------
(* Executor with two concurrent calls to one endpoint, for TLC. *)
EXTENDS Executor, TLC

CONSTANTS c1, c2

MCCalls == {c1, c2}
Symmetry == Permutations(MCCalls)
=============================================================================
