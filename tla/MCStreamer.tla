------------------------------ MODULE MCStreamer -----------------------------
(***************************************************************************)
(* Instance of Streamer, with the MQ process, for TLC.                     *)
(***************************************************************************)
EXTENDS Streamer

\* Row 2 of the CSV cannot be parsed.
SecondRow == {2}
=============================================================================
