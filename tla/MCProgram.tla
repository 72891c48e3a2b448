----------------------------- MODULE MCProgram -----------------------------
(* Small instances of Program for TLC: a build check that ignores network  *)
(* errors and a heartbeat check that does not.                             *)
EXTENDS Program, TLC

MCFailAtNetworkException == {2}
MCDuration == <<2, 1>>
=============================================================================
