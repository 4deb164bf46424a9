-------------------------- MODULE MCCircuitBreaker --------------------------
(* TLC instances of CircuitBreaker.  Their runs check liveness, so none of them uses *)
(* symmetry. *)
EXTENDS CircuitBreaker, TLC
=============================================================================
