-------------------------- MODULE WrongnessDetector --------------------------
(***************************************************************************)
(* The detector: CheckAll calls GetStatus of every monitor in turn, calls  *)
(* Start of every alert when a monitor fails for the first time, and after *)
(* a round in which every monitor passed it stops the alerts that run.     *)
(*                                                                         *)
(* Calls of GetStatus and of the alerts take time and answer anything they *)
(* can; the composition with an alert is in another module.                *)
(***************************************************************************)
EXTENDS Naturals

CONSTANTS
  NumMonitors,             \* the length of _monitorActions
  NumAlerts,               \* the length of _alertActions
  FailAtNetworkException,  \* the monitors that have this property
  Throwing                 \* the alerts whose Start may throw

Monitors == 1 .. NumMonitors
Alerts == 1 .. NumAlerts

ASSUME ListAssumption ==
  /\ NumMonitors \in Nat
  /\ NumAlerts \in Nat
  /\ FailAtNetworkException \subseteq Monitors
  /\ Throwing \subseteq Alerts

VARIABLES
  marked,           \* MarkedAsFailing of each monitor
  at,               \* the method at work, or "out" of the detector
  monitor,          \* the place of the foreach loop over the monitors
  allActionsPassed,
  alert,            \* the place of the foreach loop over the alerts
  call              \* the method of that alert being called

vars == <<marked, at, monitor, allActionsPassed, alert, call>>

(* The values that the variables of the code and of the history take.      *)
TypeOK ==
  /\ marked \in [Monitors -> BOOLEAN]
  /\ at \in {"out", "CheckAll", "StartAlerts", "StopRunningAlerts"}
  /\ monitor \in 1 .. NumMonitors + 1
  /\ allActionsPassed \in BOOLEAN
  /\ alert \in 1 .. NumAlerts + 1
  /\ call \in {"none", "Start", "IsRunning", "Stop"}

Init ==
  /\ marked = [m \in Monitors |-> FALSE]
  /\ at = "out"
  /\ monitor = 1
  /\ allActionsPassed = TRUE
  /\ alert = 1
  /\ call = "none"

-----------------------------------------------------------------------------
(* CheckAll and PerformMonitorAction                                       *)

CheckAll ==
  /\ at = "out"
  /\ at' = "CheckAll"
  /\ monitor' = 1
  /\ allActionsPassed' = TRUE
  /\ UNCHANGED <<marked, alert, call>>

(* What GetStatus does: return true, return false, or throw.               *)
Outcomes == {"true", "false", "WebException", "Exception"}

Passed(m, outcome) ==
  \/ outcome = "true"
  \/ outcome = "WebException" /\ m \notin FailAtNetworkException

MonitorPasses ==
  /\ at = "CheckAll"
  /\ monitor \in Monitors
  /\ \E outcome \in Outcomes : Passed(monitor, outcome)
  /\ marked' = [marked EXCEPT ![monitor] = FALSE]
  /\ monitor' = monitor + 1
  /\ UNCHANGED <<at, allActionsPassed, alert, call>>

(* Mutant: a monitor that continues failing does not fail the round.       *)
MonitorContinuesPassing ==
  /\ at = "CheckAll"
  /\ monitor \in Monitors
  /\ \E outcome \in Outcomes : ~Passed(monitor, outcome)
  /\ marked[monitor]
  /\ monitor' = monitor + 1
  /\ UNCHANGED <<marked, at, allActionsPassed, alert, call>>

MonitorContinuesFailing ==
  /\ at = "CheckAll"
  /\ monitor \in Monitors
  /\ \E outcome \in Outcomes : ~Passed(monitor, outcome)
  /\ marked[monitor]
  /\ allActionsPassed' = FALSE
  /\ monitor' = monitor + 1
  /\ UNCHANGED <<marked, at, alert, call>>

(* Mutant: the monitor is not marked before its alerts are started.        *)
MonitorStartsUnmarked ==
  /\ at = "CheckAll"
  /\ monitor \in Monitors
  /\ \E outcome \in Outcomes : ~Passed(monitor, outcome)
  /\ ~marked[monitor]
  /\ at' = "StartAlerts"
  /\ alert' = 1
  /\ UNCHANGED <<marked, monitor, allActionsPassed, call>>

MonitorStartsFailing ==
  /\ at = "CheckAll"
  /\ monitor \in Monitors
  /\ \E outcome \in Outcomes : ~Passed(monitor, outcome)
  /\ ~marked[monitor]
  /\ marked' = [marked EXCEPT ![monitor] = TRUE]
  /\ at' = "StartAlerts"
  /\ alert' = 1
  /\ UNCHANGED <<monitor, allActionsPassed, call>>

(* The end of the round: the alerts stop if everything passed.             *)
RoundEnds ==
  /\ at = "CheckAll"
  /\ monitor \notin Monitors
  /\ at' = IF allActionsPassed THEN "StopRunningAlerts" ELSE "out"
  /\ alert' = 1
  /\ UNCHANGED <<marked, monitor, allActionsPassed, call>>

-----------------------------------------------------------------------------
(* StartAlerts                                                             *)

CallStart ==
  /\ at = "StartAlerts"
  /\ call = "none"
  /\ alert \in Alerts
  /\ call' = "Start"
  /\ UNCHANGED <<marked, at, monitor, allActionsPassed, alert>>

StartReturns ==
  /\ call = "Start"
  /\ call' = "none"
  /\ alert' = alert + 1
  /\ UNCHANGED <<marked, at, monitor, allActionsPassed>>

(* The exception leaves CheckAll; Main logs it.                            *)
StartThrows ==
  /\ call = "Start"
  /\ alert \in Throwing
  /\ call' = "none"
  /\ at' = "out"
  /\ UNCHANGED <<marked, monitor, allActionsPassed, alert>>

(* Mutant: PerformMonitorAction does not return false on a first failure.  *)
StartAlertsReturnsTrue ==
  /\ at = "StartAlerts"
  /\ call = "none"
  /\ alert \notin Alerts
  /\ at' = "CheckAll"
  /\ monitor' = monitor + 1
  /\ UNCHANGED <<marked, allActionsPassed, alert, call>>

StartAlertsReturns ==
  /\ at = "StartAlerts"
  /\ call = "none"
  /\ alert \notin Alerts
  /\ at' = "CheckAll"
  /\ allActionsPassed' = FALSE
  /\ monitor' = monitor + 1
  /\ UNCHANGED <<marked, alert, call>>

-----------------------------------------------------------------------------
(* StopRunningAlerts                                                       *)

CallIsRunning ==
  /\ at = "StopRunningAlerts"
  /\ call = "none"
  /\ alert \in Alerts
  /\ call' = "IsRunning"
  /\ UNCHANGED <<marked, at, monitor, allActionsPassed, alert>>

IsRunningReturns(running) ==
  /\ call = "IsRunning"
  /\ \/ /\ running
        /\ call' = "Stop"
        /\ UNCHANGED alert
     \/ /\ ~running
        /\ call' = "none"
        /\ alert' = alert + 1
  /\ UNCHANGED <<marked, at, monitor, allActionsPassed>>

StopReturns ==
  /\ call = "Stop"
  /\ call' = "none"
  /\ alert' = alert + 1
  /\ UNCHANGED <<marked, at, monitor, allActionsPassed>>

StopRunningAlertsReturns ==
  /\ at = "StopRunningAlerts"
  /\ call = "none"
  /\ alert \notin Alerts
  /\ at' = "out"
  /\ UNCHANGED <<marked, monitor, allActionsPassed, alert, call>>

-----------------------------------------------------------------------------

(* The steps in which the detector neither calls an alert nor returns from *)
(* such a call.                                                            *)
Inside ==
  \/ CheckAll
  \/ MonitorPasses
  \/ MonitorContinuesFailing
  \/ MonitorStartsFailing
  \/ RoundEnds
  \/ StartAlertsReturns
  \/ StopRunningAlertsReturns

Calls == CallStart \/ CallIsRunning

Returns ==
  \/ StartReturns
  \/ StartThrows
  \/ \E running \in BOOLEAN : IsRunningReturns(running)
  \/ StopReturns

Next == Inside \/ Calls \/ Returns

Spec == Init /\ [][Next]_vars

(* The loop of Main goes on for ever, and every call returns or throws.    *)
FairSpec == Spec /\ WF_vars(Next)

-----------------------------------------------------------------------------

(* The monitors that the foreach loop of this round has passed.            *)
Done == {m \in Monitors : m < monitor}

RoundInv ==
  /\ at = "CheckAll" /\ allActionsPassed => \A m \in Done : ~marked[m]
  /\ at = "StopRunningAlerts" => \A m \in Monitors : ~marked[m]
  /\ at = "StartAlerts" => monitor \in Monitors

CallInv ==
  /\ call = "Start" => at = "StartAlerts" /\ alert \in Alerts
  /\ call \in {"IsRunning", "Stop"} =>
       at = "StopRunningAlerts" /\ alert \in Alerts

(* The inductive invariant: while every monitor so far has passed, none of *)
(* those that the round has been through is marked.                        *)
IInv == TypeOK /\ RoundInv /\ CallInv

Request ==
  CASE at = "StartAlerts" -> <<"raise", monitor>>
    [] at = "StopRunningAlerts" -> <<"clear">>
    [] OTHER -> <<>>

Abstract == INSTANCE AlertPolicy
              WITH down <- {m \in Monitors : marked[m]}, request <- Request

(* The alerts are started once for each time a monitor goes from passing   *)
(* to failing, and they are stopped only while no monitor is marked as     *)
(* failing, although an exception may end a round at any alert.            *)
ImplementsPolicy == Abstract!Policy

(* No monitor is starved: one whose alerts always throw ends the round     *)
(* early, but not round after round, so the monitors behind it are checked *)
(* again and again.                                                        *)
NoMonitorStarves ==
  \A m \in Monitors : []<>(at = "CheckAll" /\ monitor = m)

=============================================================================
