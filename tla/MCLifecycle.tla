------------------------------ MODULE MCLifecycle ------------------------------
(* Lifecycle with two agents and up to two shutdown requests.              *)
EXTENDS Lifecycle

CONSTANTS a1, a2, s1, s2

=============================================================================
