------------------------------ MODULE MCGateway ------------------------------
(***************************************************************************)
(* Instances of Gateway, with the partitioned table, for TLC.              *)
(***************************************************************************)
EXTENDS Gateway

\* Only end_time is given.  The days in the window are live, late and, in the end,
\* old; those after it are for the partitions alone.
UpToFirstDay == {<<0, FirstDay>>}

TwoMetrics == {1, 2}
=============================================================================
