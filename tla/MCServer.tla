------------------------------ MODULE MCServer -------------------------------
(* Model checking of Server on small instances.                              *)
EXTENDS Server, TLC

\* No action tells two streams apart.
StreamSymmetry == Permutations(Consumers)
=============================================================================
