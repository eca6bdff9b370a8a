--------------------------- MODULE MCCircuitBreaker ---------------------------
(* Model-checking instance of CircuitBreaker; the values are in the cfg.     *)
EXTENDS CircuitBreaker
=============================================================================
