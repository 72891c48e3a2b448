------------------------------ MODULE Program ------------------------------
(***************************************************************************)
(* The running program: the loop of Main with the detector, and the light  *)
(* and sound alarms that the detector starts and stops.  The detector and  *)
(* the calls of the light alarm share the main thread; the timer threads,  *)
(* the controller processes and the device run beside it.                  *)
(*                                                                         *)
(* An action of the program is a step of the detector, a step of the light *)
(* alarm, or both at once when the detector calls the light alarm.         *)
(***************************************************************************)
EXTENDS Naturals

CONSTANTS
  Timers, Main, Nobody, Procs, NoProc, Faults,  \* see FlashLight
  NumMonitors, FailAtNetworkException,          \* see WrongnessDetector
  Duration,       \* LightAlarmDurationInSeconds of each monitor
  CheckInterval,  \* CheckIntervalInSeconds
  LongSleep       \* the ten minutes of sleep outside office hours

VARIABLES
  isRunning, lock, alarmThread, timer, left, aborting, main, arg, answer,
  proc, child, lamp, confirmed,
  marked, at, monitor, allActionsPassed, alert, call,
  sleep           \* the rest of the Thread.Sleep of the loop of Main

(* The list alertActions: the light, then the sound.                       *)
Light == 1
Sound == 2

L == INSTANCE FlashLight
       WITH Durations <- {Duration[m] : m \in 1 .. NumMonitors}
D == INSTANCE WrongnessDetector WITH NumAlerts <- 2, Throwing <- {Sound}

ASSUME LightAssumption ==
  /\ Main \notin Timers
  /\ Nobody \notin Timers
  /\ Main # Nobody
  /\ NoProc \notin Procs
  /\ Faults \subseteq L!FaultKinds

ASSUME DetectorAssumption ==
  /\ NumMonitors \in Nat
  /\ FailAtNetworkException \subseteq D!Monitors

ASSUME SleepAssumption ==
  /\ Duration \in [D!Monitors -> Nat]
  /\ CheckInterval \in Nat
  /\ LongSleep \in Nat

light == <<isRunning, lock, alarmThread, timer, left, aborting, main, arg,
           answer, proc, child, lamp, confirmed>>
detector == <<marked, at, monitor, allActionsPassed, alert, call>>
vars == <<light, detector, sleep>>

(* The values that the variables of the code and of the history take.      *)
TypeOK == L!TypeOK /\ D!TypeOK /\ sleep \in Nat

Init == L!Init /\ D!Init /\ sleep = 0

-----------------------------------------------------------------------------
(* The loop of Main                                                        *)

(* Main sleeps after every round, also after one that threw.               *)
SleepAfterRound ==
  sleep' = IF at # "out" /\ at' = "out" THEN CheckInterval ELSE sleep

(* On a holiday or outside office hours the round is left out.             *)
SkipRound ==
  /\ at = "out"
  /\ sleep = 0
  /\ sleep' = LongSleep
  /\ UNCHANGED <<light, detector>>

(* The detector at work on its own; it starts a round only when Main has   *)
(* woken up.                                                               *)
DetectorWorks ==
  /\ sleep = 0
  /\ D!Inside
  /\ SleepAfterRound
  /\ UNCHANGED light

-----------------------------------------------------------------------------
(* Calls of the light alarm                                                *)

StartLight ==
  /\ alert = Light
  /\ D!CallStart
  /\ L!CallStart(Duration[monitor])
  /\ UNCHANGED sleep

(* IsRunning is inherited: both alerts ask for the one status.             *)
AskIsRunning ==
  /\ D!CallIsRunning
  /\ L!CallIsRunning
  /\ UNCHANGED sleep

(* Mutant: the answer of IsRunning is taken for its contrary.              *)
AnswerInverted ==
  /\ main = "out"
  /\ D!IsRunningReturns(~answer)
  /\ IF alert = Light /\ ~answer THEN L!CallStop ELSE UNCHANGED light
  /\ UNCHANGED sleep

(* The answer may be stale by the time the call of Stop is made.           *)
AnswerIsRunning ==
  /\ main = "out"
  /\ D!IsRunningReturns(answer)
  /\ IF alert = Light /\ answer THEN L!CallStop ELSE UNCHANGED light
  /\ UNCHANGED sleep

LightReturns ==
  /\ alert = Light
  /\ main = "out"
  /\ D!StartReturns \/ D!StopReturns
  /\ UNCHANGED <<light, sleep>>

-----------------------------------------------------------------------------
(* The sound alarm: Start plays a file or throws.  Its Stop does nothing,  *)
(* and has no action here because it is never called: once the light has   *)
(* been stopped, the status that both share says that no alarm is running. *)
(* Were it called, the program would come to a deadlock in this model.     *)

StartSound ==
  /\ alert = Sound
  /\ D!CallStart
  /\ UNCHANGED <<light, sleep>>

SoundReturns ==
  /\ alert = Sound
  /\ \/ D!StartReturns
     \/ D!StartThrows
  /\ SleepAfterRound
  /\ UNCHANGED light

-----------------------------------------------------------------------------
(* What happens beside the main thread                                     *)

LightWorks(Step) == Step /\ UNCHANGED <<detector, sleep>>

(* Time passes for the timer threads and for the sleeping main thread.     *)
Tick ==
  /\ \/ L!Tick
     \/ (\A t \in Timers : left[t] = 0) /\ sleep > 0 /\ UNCHANGED light
  /\ sleep' = IF sleep > 0 THEN sleep - 1 ELSE 0
  /\ UNCHANGED detector

Restart ==
  /\ L!Restart
  /\ marked' = [m \in D!Monitors |-> FALSE]
  /\ at' = "out"
  /\ monitor' = 1
  /\ allActionsPassed' = TRUE
  /\ alert' = 1
  /\ call' = "none"
  /\ sleep' = 0

-----------------------------------------------------------------------------

MainLoop ==
  \/ SkipRound
  \/ DetectorWorks
  \/ StartLight
  \/ AskIsRunning
  \/ AnswerIsRunning
  \/ LightReturns
  \/ StartSound
  \/ SoundReturns

Next ==
  \/ MainLoop
  \/ LightWorks(L!MainEnters)
  \/ LightWorks(L!Exec)
  \/ \E t \in Timers : LightWorks(L!TimerStep(t))
  \/ \E p \in Procs : LightWorks(L!Controller(p))
  \/ LightWorks(L!DeviceReset)
  \/ Tick
  \/ Restart

Spec == Init /\ [][Next]_vars

(* As in FlashLight; in addition the main thread goes on with its loop.    *)
Fairness ==
  /\ WF_vars(Tick)
  /\ WF_vars(MainLoop)
  /\ WF_vars(LightWorks(L!MainEnters))
  /\ WF_vars(LightWorks(L!Exec))
  /\ \A t \in Timers : WF_vars(LightWorks(L!TimerStep(t)))
  /\ \A p \in Procs : WF_vars(L!MayNotHang(p) /\ LightWorks(L!Controller(p)))

FairSpec == Spec /\ Fairness

-----------------------------------------------------------------------------

(* An alarm is called off only while no monitor is marked as failing.      *)
CancelledOnlyWhenAllPass ==
  main = "off" => \A m \in D!Monitors : ~marked[m]

(* After a round in which every monitor passed no alarm is running, no     *)
(* matter whether it was stopped or its timeout came between the question  *)
(* IsRunning and the call of Stop.                                         *)
AllClearIsQuiet ==
  at = "StopRunningAlerts" /\ alert > Light => ~isRunning

(* The inductive invariant behind the above: what the main thread does in  *)
(* the light alarm is what the detector is calling, and while the alerts   *)
(* are being stopped an alarm that was found or made quiet stays quiet.    *)
CallsAgree ==
  /\ main \in {"start", "on"} => call = "Start" /\ alert = Light
  /\ main = "isRunning" => call = "IsRunning"
  /\ main \in {"stop", "off"} => call = "Stop"
  /\ call = "Stop" => alert = Light

QuietInv ==
  at = "StopRunningAlerts" =>
    /\ alert > Light =>
         ~isRunning /\ (main = "out" /\ call = "IsRunning" => ~answer)
    /\ main = "out" /\ call = "IsRunning" /\ ~answer => ~isRunning
    /\ main = "out" /\ call = "Stop" => ~isRunning

(* The inductive invariant of the program.                                 *)
IInv ==
  /\ L!IInv
  /\ D!IInv
  /\ sleep \in Nat
  /\ CallsAgree
  /\ QuietInv

(* The loop of Main comes round again and again: neither the lock nor a    *)
(* hanging controller process nor a sound that throws can block it.        *)
LoopRecurs == []<>(at = "out" /\ sleep = 0)

(* Without faults, the lamp is lit when the alarms are raised for a        *)
(* failure, also if the timeout of an earlier alarm is just then switching *)
(* it off.                                                                 *)
FailureIsLit == main = "start" ~> lamp

(* Without faults, a lamp that is lit goes out again, however the rounds   *)
(* of the checks, the alarm's thread and the sleeps of Main fall together. *)
LampGoesOut == L!LampGoesOut
=============================================================================
