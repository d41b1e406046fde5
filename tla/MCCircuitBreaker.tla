-------------------------- MODULE MCCircuitBreaker --------------------------
(* Small instances of CircuitBreaker. *)
EXTENDS CircuitBreaker

CONSTANTS t1, t2, t3
=============================================================================
