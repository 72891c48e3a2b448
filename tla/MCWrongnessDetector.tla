------------------------ MODULE MCWrongnessDetector ------------------------
(* Three monitors (build, heartbeat, standup) and two alerts (light, sound) *)
(* for TLC, of which only the heartbeat counts a WebException as a failure *)
(* and only the sound may throw.                                           *)
EXTENDS WrongnessDetector

MCFailAtNetworkException == {2}
MCThrowing == {2}
=============================================================================
