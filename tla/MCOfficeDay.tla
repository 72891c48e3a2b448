---------------------------- MODULE MCOfficeDay ----------------------------
(* A short day for TLC, with two other monitors, in units of 5 seconds.    *)
EXTENDS OfficeDay

MCDuration == <<9, 4, 4>>

ASSUME DayFits == EndsInTime /\ WindowIsMet
=============================================================================
