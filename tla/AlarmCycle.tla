----------------------------- MODULE AlarmCycle -----------------------------
(***************************************************************************)
(* What the light alarm promises to the rest of the program, with no       *)
(* threads, locks or processes: an alarm is raised for a time fixed when   *)
(* it is raised, and then it is cleared, before that time only if the      *)
(* program asks for it.  Requests to raise it again meanwhile change       *)
(* nothing.                                                                *)
(***************************************************************************)
EXTENDS Naturals

CONSTANT Durations

VARIABLES
  phase,      \* "quiet", "raising", "raised", "cancelling" or "expiring"
  remaining   \* the time the alarm has yet to last

cycleVars == <<phase, remaining>>

CycleInit == phase = "quiet" /\ remaining = 0

Raise(d) ==
  /\ phase = "quiet"
  /\ phase' = "raising"
  /\ remaining' = d

Raised ==
  /\ phase = "raising"
  /\ phase' = "raised"
  /\ UNCHANGED remaining

(* The program asks for the end of the alarm.                              *)
Cancel ==
  /\ phase = "raised"
  /\ phase' = "cancelling"
  /\ remaining' = 0

(* The alarm ends by itself: never before its time.                        *)
Expire ==
  /\ phase = "raised"
  /\ remaining = 0
  /\ phase' = "expiring"
  /\ UNCHANGED remaining

Cleared ==
  /\ phase \in {"cancelling", "expiring"}
  /\ phase' = "quiet"
  /\ UNCHANGED remaining

Elapse ==
  /\ remaining > 0
  /\ remaining' = remaining - 1
  /\ UNCHANGED phase

(* The program is started anew: it knows of no alarm.                      *)
Forget == phase' = "quiet" /\ remaining' = 0

CycleNext ==
  \/ \E d \in Durations : Raise(d)
  \/ Raised
  \/ Cancel
  \/ Expire
  \/ Cleared
  \/ Elapse
  \/ Forget

Cycle == CycleInit /\ [][CycleNext]_cycleVars

(* Every alarm ends.                                                       *)
AlarmEnds == (phase # "quiet") ~> (phase = "quiet")
=============================================================================
