-------------------------- MODULE MCRegistryClient --------------------------
(* Both clients of a breaker with two concurrent calls, for TLC. *)
EXTENDS RegistryClient, TLC

CONSTANTS c1, c2

MCCalls == {c1, c2}
=============================================================================
