-------------------------------- MODULE Totals --------------------------------
(***************************************************************************)
(* Totals of natural-valued functions, as cardinalities: what is counted   *)
(* are the units themselves, so that facts about finite sets apply.        *)
(***************************************************************************)
EXTENDS Integers, FiniteSets

\* The units of f: those of each element of its domain, numbered.
Units(f) == UNION {{x} \X (1..f[x]) : x \in DOMAIN f}

\* The sum of the values of f.
Total(f) == Cardinality(Units(f))
=============================================================================
