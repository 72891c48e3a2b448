---------------------------- MODULE ProgramProofs ----------------------------
(***************************************************************************)
(* Proofs about Program for any number of monitors, timer threads and      *)
(* controller processes.  What is known of the two components is taken     *)
(* from their own proofs; here it is proved that the program uses them as  *)
(* they are specified, and what follows for the two together.              *)
(***************************************************************************)
EXTENDS Program, TLAPS

LP == INSTANCE FlashLightProofs
        WITH Durations <- {Duration[m] : m \in 1 .. NumMonitors}
DP == INSTANCE WrongnessDetectorProofs
        WITH NumAlerts <- 2, Throwing <- {Sound}

-----------------------------------------------------------------------------
(* The lemmas of the components under the names that Program uses          *)

(* The assumptions of FlashLight hold in the program.                      *)
LEMMA LightAssumptions ==
  LP!ThreadAssumption /\ LP!ProcAssumption /\ LP!ParameterAssumption
BY LightAssumption, SleepAssumption
   DEF LP!ThreadAssumption, LP!ProcAssumption, LP!ParameterAssumption,
       LP!FaultKinds, L!FaultKinds, D!Monitors

(* So do those of WrongnessDetector.                                       *)
LEMMA DetectorAssumptions == DP!ListAssumption
BY DetectorAssumption
   DEF DP!ListAssumption, DP!Monitors, DP!Alerts, D!Monitors, Sound

(* The light alarm begins with its invariant,                              *)
LEMMA LightInit == L!Init => L!IInv
<1>1. LP!Init => LP!IInv
  BY LightAssumptions, LP!InitIInv
<1>2. QED
  BY <1>1
     DEF L!FaultKinds, LP!FaultKinds, L!program, LP!program, L!vars, LP!vars,
         L!TimerStates, LP!TimerStates, L!MainStates, LP!MainStates, L!TypeOK,
         LP!TypeOK, L!Init, LP!Init, L!ProgramInit, LP!ProgramInit,
         L!NoStaleTimer, LP!NoStaleTimer, L!AlarmHasTimer, LP!AlarmHasTimer,
         L!Command, LP!Command, L!LockInv, LP!LockInv, L!TimerInv,
         LP!TimerInv, L!ExecInv, LP!ExecInv, L!LampInv, LP!LampInv, L!IInv,
         LP!IInv

(* and keeps it.                                                           *)
LEMMA LightNext == L!IInv /\ [L!Next]_(L!vars) => L!IInv'
<1>1. LP!IInv /\ [LP!Next]_(LP!vars) => LP!IInv'
  BY LightAssumptions, LP!NextIInv
<1>2. QED
  BY <1>1
     DEF L!FaultKinds, LP!FaultKinds, L!program, LP!program, L!vars, LP!vars,
         L!TimerStates, LP!TimerStates, L!MainStates, LP!MainStates, L!TypeOK,
         LP!TypeOK, L!NoStaleTimer, LP!NoStaleTimer, L!AlarmHasTimer,
         LP!AlarmHasTimer, L!Command, LP!Command, L!LockInv, LP!LockInv,
         L!TimerInv, LP!TimerInv, L!ExecInv, LP!ExecInv, L!LampInv,
         LP!LampInv, L!IInv, LP!IInv, L!CallStart, LP!CallStart, L!CallStop,
         LP!CallStop, L!CallIsRunning, LP!CallIsRunning, L!IsRunning,
         LP!IsRunning, L!Start, LP!Start, L!StartIgnored, LP!StartIgnored,
         L!Stop, LP!Stop, L!StopIgnored, LP!StopIgnored, L!TimerDue,
         LP!TimerDue, L!TimerEnters, LP!TimerEnters, L!TimerAborted,
         LP!TimerAborted, L!Tick, LP!Tick, L!ReturnFromExec,
         LP!ReturnFromExec, L!ExecLaunch, LP!ExecLaunch, L!ExecLaunchFails,
         LP!ExecLaunchFails, L!ExecExits, LP!ExecExits, L!SpareProc,
         LP!SpareProc, L!ExecTimesOut, LP!ExecTimesOut, L!Exec, LP!Exec,
         L!ControllerSwitches, LP!ControllerSwitches, L!ControllerGivesUp,
         LP!ControllerGivesUp, L!DeviceReset, LP!DeviceReset, L!Restart,
         LP!Restart, L!MainCalls, LP!MainCalls, L!MainEnters, LP!MainEnters,
         L!TimerStep, LP!TimerStep, L!Controller, LP!Controller, L!Internal,
         LP!Internal, L!Next, LP!Next

(* The detector begins with its invariant,                                 *)
LEMMA DetectorInit == D!Init => D!IInv
<1>1. DP!Init => DP!IInv
  BY DetectorAssumptions, DP!InitIInv
<1>2. QED
  BY <1>1
     DEF D!Monitors, DP!Monitors, D!Alerts, DP!Alerts, D!vars, DP!vars,
         D!TypeOK, DP!TypeOK, D!Init, DP!Init, D!Done, DP!Done, D!RoundInv,
         DP!RoundInv, D!CallInv, DP!CallInv, D!IInv, DP!IInv

(* and keeps it.                                                           *)
LEMMA DetectorNext == D!IInv /\ [D!Next]_(D!vars) => D!IInv'
<1>1. DP!IInv /\ [DP!Next]_(DP!vars) => DP!IInv'
  BY DetectorAssumptions, DP!NextIInv
<1>2. QED
  BY <1>1
     DEF D!Monitors, DP!Monitors, D!Alerts, DP!Alerts, D!vars, DP!vars,
         D!TypeOK, DP!TypeOK, D!Done, DP!Done, D!RoundInv, DP!RoundInv,
         D!CallInv, DP!CallInv, D!IInv, DP!IInv, D!CheckAll, DP!CheckAll,
         D!Outcomes, DP!Outcomes, D!Passed, DP!Passed, D!MonitorPasses,
         DP!MonitorPasses, D!MonitorContinuesFailing,
         DP!MonitorContinuesFailing, D!MonitorStartsFailing,
         DP!MonitorStartsFailing, D!RoundEnds, DP!RoundEnds, D!CallStart,
         DP!CallStart, D!StartReturns, DP!StartReturns, D!StartThrows,
         DP!StartThrows, D!StartAlertsReturns, DP!StartAlertsReturns,
         D!CallIsRunning, DP!CallIsRunning, D!IsRunningReturns,
         DP!IsRunningReturns, D!StopReturns, DP!StopReturns,
         D!StopRunningAlertsReturns, DP!StopRunningAlertsReturns, D!Inside,
         DP!Inside, D!Calls, DP!Calls, D!Returns, DP!Returns, D!Next, DP!Next

-----------------------------------------------------------------------------
(* Every step of the program is a step of each component                   *)

(* Every step of the program is one of the light alarm, or none.           *)
LEMMA LightStep == D!IInv /\ [Next]_vars => [L!Next]_(L!vars)
<1> SUFFICES ASSUME D!IInv, [Next]_vars PROVE L!Next \/ UNCHANGED L!vars
  OBVIOUS
<1>1. ASSUME UNCHANGED light PROVE UNCHANGED L!vars
  BY <1>1 DEF light, L!vars, L!program
<1>2. CASE StartLight
  <2>1. monitor \in 1 .. NumMonitors
    BY <1>2 DEF StartLight, D!CallStart, D!IInv, D!RoundInv, D!Monitors
  <2>2. PICK d \in {Duration[m] : m \in 1 .. NumMonitors} :
          d = Duration[monitor]
    BY <2>1
  <2>3. L!CallStart(d)
    BY <1>2, <2>2 DEF StartLight, L!CallStart
  <2>4. QED
    BY <2>2, <2>3 DEF L!Next, L!MainCalls
<1>3. CASE AskIsRunning
  BY <1>3 DEF AskIsRunning, L!Next, L!MainCalls
<1>4. CASE AnswerIsRunning
  BY <1>4, <1>1 DEF AnswerIsRunning, L!Next, L!MainCalls
<1>5. CASE SkipRound \/ DetectorWorks \/ LightReturns \/ StartSound
             \/ SoundReturns
  BY <1>5, <1>1
     DEF SkipRound, DetectorWorks, LightReturns, StartSound, SoundReturns
<1>6. CASE LightWorks(L!MainEnters) \/ LightWorks(L!Exec)
             \/ LightWorks(L!DeviceReset)
  BY <1>6 DEF LightWorks, L!Next, L!Internal
<1>7. ASSUME NEW t \in Timers, LightWorks(L!TimerStep(t)) PROVE L!Next
  BY <1>7 DEF LightWorks, L!Next, L!Internal
<1>8. ASSUME NEW p \in Procs, LightWorks(L!Controller(p)) PROVE L!Next
  BY <1>8 DEF LightWorks, L!Next, L!Internal
<1>9. CASE Tick
  BY <1>9, <1>1 DEF Tick, L!Next, L!Internal
<1>10. CASE Restart
  BY <1>10 DEF Restart, L!Next
<1>11. CASE UNCHANGED vars
  BY <1>11, <1>1 DEF vars
<1>12. QED
  BY <1>2, <1>3, <1>4, <1>5, <1>6, <1>7, <1>8, <1>9, <1>10, <1>11
     DEF Next, MainLoop

(* Every step is one of the detector, or none, or a restart.               *)
LEMMA DetectorStep == L!IInv /\ [Next]_vars => [D!Next]_(D!vars) \/ D!Init'
<1> SUFFICES ASSUME L!IInv, [Next]_vars
             PROVE  D!Next \/ UNCHANGED D!vars \/ D!Init'
  OBVIOUS
<1>1. ASSUME UNCHANGED detector PROVE UNCHANGED D!vars
  BY <1>1 DEF detector, D!vars
<1>2. CASE SkipRound \/ Tick
  BY <1>2, <1>1 DEF SkipRound, Tick
<1>3. CASE DetectorWorks
  BY <1>3 DEF DetectorWorks, D!Next
<1>4. CASE StartLight \/ AskIsRunning \/ StartSound
  BY <1>4 DEF StartLight, AskIsRunning, StartSound, D!Next, D!Calls
<1>5. CASE AnswerIsRunning
  <2>1. answer \in BOOLEAN
    BY DEF L!IInv, L!TypeOK
  <2>2. PICK running \in BOOLEAN : running = answer
    BY <2>1
  <2>3. D!IsRunningReturns(running)
    BY <1>5, <2>2 DEF AnswerIsRunning, D!IsRunningReturns
  <2>4. QED
    BY <2>3 DEF D!Next, D!Returns
<1>6. CASE LightReturns \/ SoundReturns
  BY <1>6 DEF LightReturns, SoundReturns, D!Next, D!Returns
<1>7. CASE Restart
  BY <1>7 DEF Restart, D!Init
<1>8. CASE UNCHANGED vars
  BY <1>8, <1>1 DEF vars
<1>9. QED
  BY <1>1, <1>2, <1>3, <1>4, <1>5, <1>6, <1>7, <1>8
     DEF Next, MainLoop, LightWorks

-----------------------------------------------------------------------------
(* The inductive invariant of the program                                  *)

(* The inductive invariant holds at the beginning.                         *)
LEMMA InitIInv == Init => IInv
<1> SUFFICES ASSUME Init PROVE IInv
  OBVIOUS
<1>1. L!IInv /\ D!IInv
  BY LightInit, DetectorInit DEF Init
<1>2. sleep \in Nat /\ CallsAgree /\ QuietInv
  BY DEF Init, L!Init, L!ProgramInit, D!Init, CallsAgree, QuietInv
<1>3. QED
  BY <1>1, <1>2 DEF IInv

(* The rest of the sleep is never negative.                                *)
LEMMA SleepNext == IInv /\ [Next]_vars => sleep' \in Nat
BY SleepAssumption
   DEF IInv, Next, MainLoop, SkipRound, DetectorWorks, SleepAfterRound,
       StartLight, AskIsRunning, AnswerIsRunning, LightReturns, StartSound,
       SoundReturns, LightWorks, Tick, Restart, vars

(* Steps beside the calls keep the two threads of control in agreement.    *)
LEMMA CallsNext == IInv /\ [Next]_vars => CallsAgree' /\ QuietInv'
<1> SUFFICES ASSUME IInv, [Next]_vars PROVE CallsAgree' /\ QuietInv'
  OBVIOUS
<1> USE DEF IInv, CallsAgree, QuietInv, Light, Sound
<1>1. CASE UNCHANGED <<isRunning, main, answer, at, alert, call>>
  BY <1>1
<1>2. CASE SkipRound
  BY <1>2, <1>1 DEF SkipRound, light, detector
<1>3. CASE DetectorWorks
  <2>1. UNCHANGED <<isRunning, main, answer>>
    BY <1>3 DEF DetectorWorks, light
  <2>2. call' = call
    BY <1>3
       DEF DetectorWorks, D!Inside, D!CheckAll, D!MonitorPasses,
           D!MonitorContinuesFailing, D!MonitorStartsFailing, D!RoundEnds,
           D!StartAlertsReturns, D!StopRunningAlertsReturns
  <2>3. call = "none"
    BY <1>3
       DEF DetectorWorks, D!Inside, D!CheckAll, D!MonitorPasses,
           D!MonitorContinuesFailing, D!MonitorStartsFailing, D!RoundEnds,
           D!StartAlertsReturns, D!StopRunningAlertsReturns, D!IInv,
           D!CallInv, D!TypeOK
  <2>4. at' = "StopRunningAlerts" => alert' = 1
    BY <1>3
       DEF DetectorWorks, D!Inside, D!CheckAll, D!MonitorPasses,
           D!MonitorContinuesFailing, D!MonitorStartsFailing, D!RoundEnds,
           D!StartAlertsReturns, D!StopRunningAlertsReturns
  <2>5. QED
    BY <2>1, <2>2, <2>3, <2>4
<1>4. CASE StartLight
  BY <1>4 DEF StartLight, D!CallStart, L!CallStart
<1>5. CASE AskIsRunning
  BY <1>5 DEF AskIsRunning, D!CallIsRunning, L!CallIsRunning
<1>6. CASE AnswerIsRunning
  <2>1. alert \in {Light, Sound} /\ at = "StopRunningAlerts"
    BY <1>6
       DEF AnswerIsRunning, D!IsRunningReturns, D!IInv, D!CallInv, D!Alerts
  <2>2. CASE answer
    <3>1. alert = Light
      BY <1>6, <2>1, <2>2 DEF AnswerIsRunning, D!IsRunningReturns
    <3>2. main' = "stop"
      BY <1>6, <2>2, <3>1 DEF AnswerIsRunning, L!CallStop
    <3>3. call' = "Stop" /\ alert' = Light
      BY <1>6, <2>2, <3>1 DEF AnswerIsRunning, D!IsRunningReturns
    <3>4. QED
      BY <3>2, <3>3
  <2>3. CASE ~answer
    BY <1>6, <2>1, <2>3 DEF AnswerIsRunning, D!IsRunningReturns, light
  <2>4. QED
    BY <2>2, <2>3
<1>7. CASE LightReturns
  BY <1>7
     DEF LightReturns, D!StartReturns, D!StopReturns, D!IInv, D!CallInv, light
<1>8. CASE StartSound
  BY <1>8 DEF StartSound, D!CallStart, light
<1>9. CASE SoundReturns
  BY <1>9
     DEF SoundReturns, D!StartReturns, D!StartThrows, D!IInv, D!CallInv, light
<1>10. CASE LightWorks(L!MainEnters)
  <2>1. UNCHANGED <<at, alert, call>>
    BY <1>10 DEF LightWorks, detector
  <2>2. CASE L!IsRunning
    BY <2>1, <2>2 DEF L!IsRunning, D!IInv, D!CallInv
  <2>3. CASE L!Start
    BY <2>1, <2>3 DEF L!Start, D!IInv, D!CallInv
  <2>4. CASE L!StartIgnored
    BY <2>1, <2>4 DEF L!StartIgnored, D!IInv, D!CallInv
  <2>5. CASE L!Stop
    BY <2>1, <2>5 DEF L!Stop
  <2>6. CASE L!StopIgnored
    BY <2>1, <2>6 DEF L!StopIgnored
  <2>7. QED
    BY <1>10, <2>2, <2>3, <2>4, <2>5, <2>6 DEF LightWorks, L!MainEnters
<1>11. CASE LightWorks(L!Exec)
  <2>1. UNCHANGED <<at, alert, call, answer>>
    BY <1>11
       DEF LightWorks, detector, L!Exec, L!ExecLaunch, L!ExecLaunchFails,
           L!ExecExits, L!ExecTimesOut, L!ReturnFromExec
  <2>2. CASE L!ExecLaunch
    BY <2>1, <2>2, <1>1 DEF L!ExecLaunch
  <2>3. CASE L!ReturnFromExec
    <3>1. CASE lock = Main /\ main = "on" /\ main' = "out"
      BY <2>1, <3>1 DEF D!IInv, D!CallInv
    <3>2. CASE lock = Main /\ main = "off" /\ main' = "out"
      BY <2>1, <2>3, <3>2, LightAssumption
         DEF L!ReturnFromExec, L!IInv, L!LockInv
    <3>3. CASE isRunning' = FALSE /\ main' = main
      BY <2>1, <3>3
    <3>4. QED
      BY <2>3, <3>1, <3>2, <3>3 DEF L!ReturnFromExec, L!IInv, L!LockInv
  <2>4. QED
    BY <1>11, <2>2, <2>3
       DEF LightWorks, L!Exec, L!ExecLaunchFails, L!ExecExits, L!ExecTimesOut
<1>12. ASSUME NEW t \in Timers, LightWorks(L!TimerStep(t))
       PROVE  CallsAgree' /\ QuietInv'
  BY <1>12, <1>1
     DEF LightWorks, detector, L!TimerStep, L!TimerDue, L!TimerEnters,
         L!TimerAborted
<1>13. ASSUME NEW p \in Procs, LightWorks(L!Controller(p))
       PROVE  CallsAgree' /\ QuietInv'
  BY <1>13, <1>1
     DEF LightWorks, detector, L!Controller, L!ControllerSwitches,
         L!ControllerGivesUp, L!program
<1>14. CASE LightWorks(L!DeviceReset)
  BY <1>14, <1>1 DEF LightWorks, detector, L!DeviceReset, L!program
<1>15. CASE Tick
  BY <1>15, <1>1 DEF Tick, L!Tick, light, detector
<1>16. CASE Restart
  BY <1>16 DEF Restart, L!Restart
<1>17. CASE UNCHANGED vars
  BY <1>17, <1>1 DEF vars, light, detector
<1>18. QED
  BY <1>2, <1>3, <1>4, <1>5, <1>6, <1>7, <1>8, <1>9, <1>10, <1>11, <1>12,
     <1>13, <1>14, <1>15, <1>16, <1>17
     DEF Next, MainLoop

(* No step breaks the inductive invariant.                                 *)
LEMMA NextIInv == IInv /\ [Next]_vars => IInv'
<1> SUFFICES ASSUME IInv, [Next]_vars PROVE IInv'
  OBVIOUS
<1>1. L!IInv'
  BY LightStep, LightNext DEF IInv
<1>2. D!IInv'
  <2>1. D!Init' => D!IInv'
    BY DetectorInit, PTL
  <2>2. QED
    BY <2>1, DetectorStep, DetectorNext DEF IInv
<1>3. QED
  BY <1>1, <1>2, SleepNext, CallsNext DEF IInv

(* IInv holds in every state the program can reach.                        *)
THEOREM Invariance == Spec => []IInv
<1>1. Init => IInv
  BY InitIInv
<1>2. IInv /\ [Next]_vars => IInv'
  BY NextIInv
<1>3. QED
  BY <1>1, <1>2, PTL DEF Spec

(* The types of the variables of the program and its components.           *)
THEOREM TypeCorrect == Spec => []TypeOK
<1>1. IInv => TypeOK
  BY DEF IInv, TypeOK, L!IInv, D!IInv
<1>2. QED
  BY <1>1, Invariance, PTL

(* An alarm is called off only while no monitor is marked as failing.      *)
THEOREM Cancellation == Spec => []CancelledOnlyWhenAllPass
<1>1. IInv => CancelledOnlyWhenAllPass
  BY DEF IInv, CallsAgree, D!IInv, D!CallInv, D!RoundInv,
         CancelledOnlyWhenAllPass
<1>2. QED
  BY <1>1, Invariance, PTL

(* No alarm runs after a round in which every monitor passed.              *)
THEOREM AllClear == Spec => []AllClearIsQuiet
<1>1. IInv => AllClearIsQuiet
  BY DEF IInv, QuietInv, AllClearIsQuiet
<1>2. QED
  BY <1>1, Invariance, PTL
=============================================================================
