----------------------------- MODULE MCCollector -----------------------------
(* Model checking of Collector on small instances.                           *)
EXTENDS Collector

\* No action tells two collectors, or two stream identities, apart.
Symmetry == Permutations(Collectors) \cup Permutations(Consumers)
=============================================================================
