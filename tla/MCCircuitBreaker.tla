-------------------------- MODULE MCCircuitBreaker --------------------------
(***************************************************************************)
(* Instances of the circuit breaker for TLC.                               *)
(***************************************************************************)
EXTENDS CircuitHistory

CONSTANTS c1, c2, c3

MCCalls == {c1, c2, c3}
=============================================================================
