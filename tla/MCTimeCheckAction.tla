------------------------- MODULE MCTimeCheckAction -------------------------
(* A day of 24 units with the meeting at 14 for TLC.                       *)
EXTENDS TimeCheckAction
=============================================================================
