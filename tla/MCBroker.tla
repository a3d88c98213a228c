------------------------------ MODULE MCBroker -------------------------------
(* Model checking of Broker on small instances.                              *)
EXTENDS Broker, TLC

\* No action tells two consumers apart.
ConsumerSymmetry == Permutations(Consumers)
=============================================================================
