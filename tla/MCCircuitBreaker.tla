-------------------------- MODULE MCCircuitBreaker --------------------------
(* Instances of CircuitBreaker for TLC: the circuits of distinct deployments *)
(* do not influence each other, so two show every interaction there is.      *)
EXTENDS CircuitBreaker

CONSTANTS d1, d2

MCDeployments == {d1, d2}
=============================================================================
