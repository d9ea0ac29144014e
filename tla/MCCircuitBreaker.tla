--------------------------- MODULE MCCircuitBreaker ---------------------------
(* CircuitBreaker on a small instance.  The callers are interchangeable: no *)
(* action or property tells one from another.                              *)
EXTENDS CircuitBreaker, TLC

CallerSymmetry == Permutations(Callers)
=============================================================================
