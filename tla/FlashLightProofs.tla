-------------------------- MODULE FlashLightProofs --------------------------
(***************************************************************************)
(* Proofs about FlashLight for any number of timer threads and controller  *)
(* processes, any durations and any combination of faults.  Everything     *)
(* rests on the inductive invariant IInv.                                  *)
(***************************************************************************)
EXTENDS FlashLight, TLAPS

(* The inductive invariant holds at the beginning.                         *)
LEMMA InitIInv == Init => IInv
<1> SUFFICES ASSUME Init PROVE IInv
  OBVIOUS
<1>1. TypeOK
  BY DEF Init, ProgramInit, TypeOK, TimerStates, MainStates
<1>2. LockInv
  BY ThreadAssumption DEF Init, ProgramInit, LockInv
<1>3. TimerInv
  BY DEF Init, ProgramInit, TimerInv, NoStaleTimer, AlarmHasTimer
<1>4. ExecInv /\ LampInv
  BY DEF Init, ProgramInit, ExecInv, LampInv
<1>5. QED
  BY <1>1, <1>2, <1>3, <1>4 DEF IInv

(* The end of Exec in any of the three methods that run it.                *)
LEMMA ReturnIInv ==
  ASSUME IInv, ReturnFromExec, UNCHANGED <<proc, lamp>>,
         confirmed' \in BOOLEAN, confirmed' => confirmed /\ child # NoProc
  PROVE  IInv'
<1> USE ThreadAssumption, ProcAssumption
    DEF IInv, LockInv, TimerInv, ExecInv, LampInv, NoStaleTimer,
        AlarmHasTimer, Command, TypeOK, TimerStates, MainStates
<1>1. CASE lock = Main /\ main' = "out" /\ UNCHANGED <<isRunning, timer>>
  BY <1>1 DEF ReturnFromExec
<1>2. CASE /\ lock \in Timers
           /\ timer' = [timer EXCEPT ![lock] = "none"]
           /\ isRunning' = FALSE
           /\ UNCHANGED main
  BY <1>2 DEF ReturnFromExec
<1>3. QED
  BY <1>1, <1>2 DEF ReturnFromExec

(* No step breaks the inductive invariant.                                 *)
LEMMA NextIInv == IInv /\ [Next]_vars => IInv'
<1> SUFFICES ASSUME IInv, [Next]_vars PROVE IInv'
  OBVIOUS
<1> USE ThreadAssumption, ProcAssumption, ParameterAssumption
    DEF IInv, LockInv, TimerInv, ExecInv, LampInv, NoStaleTimer,
        AlarmHasTimer, Command, TypeOK, TimerStates, MainStates
<1>1. ASSUME NEW d \in Durations, CallStart(d) PROVE IInv'
  BY <1>1 DEF CallStart
<1>2. CASE CallStop
  BY <1>2 DEF CallStop
<1>3. CASE CallIsRunning
  BY <1>3 DEF CallIsRunning
<1>4. CASE IsRunning
  BY <1>4 DEF IsRunning
<1>5. CASE Start
  BY <1>5 DEF Start
<1>6. CASE StartIgnored
  BY <1>6 DEF StartIgnored
<1>7. CASE Stop
  BY <1>7 DEF Stop
<1>8. CASE StopIgnored
  BY <1>8 DEF StopIgnored
<1>9. ASSUME NEW t \in Timers, TimerDue(t) PROVE IInv'
  BY <1>9 DEF TimerDue
<1>10. ASSUME NEW t \in Timers, TimerEnters(t) PROVE IInv'
  BY <1>10 DEF TimerEnters
<1>11. ASSUME NEW t \in Timers, TimerAborted(t) PROVE IInv'
  BY <1>11 DEF TimerAborted
<1>12. CASE Tick
  BY <1>12 DEF Tick
<1>13. CASE ExecLaunch
  BY <1>13 DEF ExecLaunch
<1>14. CASE ExecLaunchFails
  BY <1>14, ReturnIInv DEF ExecLaunchFails
<1>15. CASE ExecExits
  BY <1>15, ReturnIInv DEF ExecExits
<1>16. CASE ExecTimesOut
  BY <1>16, ReturnIInv DEF ExecTimesOut
<1>17. ASSUME NEW p \in Procs, ControllerSwitches(p) PROVE IInv'
  BY <1>17 DEF ControllerSwitches, program
<1>18. ASSUME NEW p \in Procs, ControllerGivesUp(p) PROVE IInv'
  BY <1>18 DEF ControllerGivesUp, program
<1>19. CASE DeviceReset
  BY <1>19 DEF DeviceReset, program
<1>20. CASE Restart
  BY <1>20 DEF Restart
<1>21. CASE UNCHANGED vars
  BY <1>21 DEF vars, program
<1>22. QED
  BY <1>1, <1>2, <1>3, <1>4, <1>5, <1>6, <1>7, <1>8, <1>9, <1>10, <1>11,
     <1>12, <1>13, <1>14, <1>15, <1>16, <1>17, <1>18, <1>19, <1>20, <1>21
     DEF Next, MainCalls, Internal, MainEnters, TimerStep, Exec, Controller

(* IInv holds in every state the class can reach, however its threads, its *)
(* processes and the faults interleave.                                    *)
THEOREM Invariance == Spec => []IInv
<1>1. Init => IInv
  BY InitIInv
<1>2. IInv /\ [Next]_vars => IInv'
  BY NextIInv
<1>3. QED
  BY <1>1, <1>2, PTL DEF Spec

(* The variables of FlashLightAction keep their types.                     *)
THEOREM TypeCorrect == Spec => []TypeOK
<1>1. IInv => TypeOK
  BY DEF IInv
<1>2. QED
  BY <1>1, Invariance, PTL

(* The lamp shows the status whenever no method is at work and the last    *)
(* command was carried out.                                                *)
THEOREM LampCorrect == Spec => []LampFollowsStatus
<1>1. IInv => LampFollowsStatus
  BY DEF IInv, LampInv, LampFollowsStatus
<1>2. QED
  BY <1>1, Invariance, PTL

(* No timer thread survives its alarm, unless it is about to be aborted.   *)
THEOREM TimersCorrect == Spec => []NoStaleTimer
<1>1. IInv => NoStaleTimer
  BY DEF IInv, TimerInv
<1>2. QED
  BY <1>1, Invariance, PTL

(* An alarm that runs always has a thread that will end it.                *)
THEOREM AlarmsTimed == Spec => []AlarmHasTimer
<1>1. IInv => AlarmHasTimer
  BY DEF IInv, TimerInv
<1>2. QED
  BY <1>1, Invariance, PTL

-----------------------------------------------------------------------------
(* Refinement: every step is a step of AlarmCycle or changes neither Phase *)
(* nor Remaining.                                                          *)

(* The initial states are those of a quiet alarm.                          *)
LEMMA InitCycle == Init => Alarm!CycleInit
BY ThreadAssumption
   DEF Init, ProgramInit, Alarm!CycleInit, Phase, Remaining

(* Steps that touch nothing the cycle is defined from are stutters.        *)
LEMMA SameCycle ==
  ASSUME UNCHANGED <<isRunning, lock, alarmThread, left>>,
         lock = Main => main' = main
  PROVE  UNCHANGED <<Phase, Remaining>>
BY DEF Phase, Remaining

(* The end of Exec is a step of the cycle, or none.                        *)
LEMMA ReturnCycle ==
  ASSUME IInv, ReturnFromExec
  PROVE  Alarm!Raised \/ Alarm!Cleared
<1> USE ThreadAssumption DEF IInv, TypeOK, LockInv, ReturnFromExec
<1>1. CASE lock = Main /\ main = "on"
  <2>1. lock' = Nobody /\ isRunning' = isRunning /\ left' = left
        /\ alarmThread' = alarmThread
    BY <1>1
  <2>2. isRunning /\ isRunning'
    BY <1>1, <2>1, Zenon
  <2>3. Phase = "raising" /\ Phase' = "raised"
    BY <1>1, <2>1, <2>2 DEF Phase
  <2>4. UNCHANGED Remaining
    BY <2>1 DEF Remaining
  <2>5. QED
    BY <2>3, <2>4 DEF Alarm!Raised
<1>2. CASE lock = Main /\ main = "off"
  <2>1. Phase = "cancelling" /\ Phase' = "quiet"
    BY <1>2 DEF Phase
  <2>2. UNCHANGED Remaining
    BY <1>2 DEF Remaining
  <2>3. QED
    BY <2>1, <2>2 DEF Alarm!Cleared
<1>3. CASE lock \in Timers
  <2>1. Phase = "expiring" /\ Phase' = "quiet"
    BY <1>3 DEF Phase
  <2>2. timer[lock] = "off" /\ isRunning /\ lock = alarmThread
    BY <1>3 DEF TimerInv, NoStaleTimer
  <2>3. UNCHANGED Remaining
    BY <1>3, <2>2 DEF Remaining, TimerInv
  <2>4. QED
    BY <2>1, <2>3 DEF Alarm!Cleared
<1>4. QED
  BY <1>1, <1>2, <1>3

(* Every step of the light alarm is a step of the cycle, or none.          *)
LEMMA NextCycle == IInv /\ [Next]_vars => [Alarm!CycleNext]_(Alarm!cycleVars)
<1> SUFFICES ASSUME IInv, [Next]_vars
             PROVE  Alarm!CycleNext \/ UNCHANGED <<Phase, Remaining>>
  BY DEF Alarm!cycleVars
<1> USE ThreadAssumption DEF IInv, TypeOK, LockInv
<1>1. ASSUME NEW d \in Durations, CallStart(d)
      PROVE  UNCHANGED <<Phase, Remaining>>
  BY <1>1, SameCycle DEF CallStart
<1>2. CASE CallStop
  BY <1>2, SameCycle DEF CallStop
<1>3. CASE CallIsRunning
  BY <1>3, SameCycle DEF CallIsRunning
<1>4. CASE IsRunning
  BY <1>4, SameCycle DEF IsRunning
<1>5. CASE Start
  <2>1. Alarm!Raise(arg)
    BY <1>5 DEF Start, Alarm!Raise, Phase, Remaining
  <2>2. QED
    BY <2>1, <1>5 DEF Start, Alarm!CycleNext
<1>6. CASE StartIgnored
  BY <1>6, SameCycle DEF StartIgnored
<1>7. CASE Stop
  <2>1. Alarm!Cancel
    BY <1>7 DEF Stop, Alarm!Cancel, Phase, Remaining
  <2>2. QED
    BY <2>1 DEF Alarm!CycleNext
<1>8. CASE StopIgnored
  BY <1>8, SameCycle DEF StopIgnored
<1>9. ASSUME NEW t \in Timers, TimerDue(t)
      PROVE  UNCHANGED <<Phase, Remaining>>
  BY <1>9, SameCycle DEF TimerDue
<1>10. ASSUME NEW t \in Timers, TimerEnters(t)
       PROVE  Alarm!Expire
  <2>1. isRunning /\ t = alarmThread /\ left[t] = 0
    BY <1>10 DEF TimerEnters, TimerInv, NoStaleTimer
  <2>2. QED
    BY <1>10, <2>1 DEF TimerEnters, Alarm!Expire, Phase, Remaining
<1>11. ASSUME NEW t \in Timers, TimerAborted(t)
       PROVE  UNCHANGED <<Phase, Remaining>>
  <2>1. isRunning => t # alarmThread /\ alarmThread \in Timers
    BY <1>11 DEF TimerAborted, TimerInv, AlarmHasTimer
  <2>2. isRunning => left'[alarmThread] = left[alarmThread]
    BY <1>11, <2>1 DEF TimerAborted
  <2>3. QED
    BY <1>11, <2>2 DEF TimerAborted, Phase, Remaining
<1>12. CASE Tick
  <2>1. UNCHANGED Phase
    BY <1>12 DEF Tick, Phase
  <2>2. CASE Remaining > 0
    <3>1. isRunning /\ alarmThread \in Timers /\ left[alarmThread] > 0
      BY <2>2 DEF Remaining, TimerInv, AlarmHasTimer
    <3>2. Remaining' = Remaining - 1
      BY <1>12, <3>1 DEF Tick, Remaining
    <3>3. QED
      BY <2>1, <2>2, <3>2 DEF Alarm!CycleNext, Alarm!Elapse
  <2>3. CASE ~(Remaining > 0)
    <3>1. Remaining = 0
      BY <2>3 DEF Remaining, TimerInv, AlarmHasTimer
    <3>2. isRunning => alarmThread \in Timers /\ left[alarmThread] = 0
      BY <3>1 DEF Remaining, TimerInv, AlarmHasTimer
    <3>3. Remaining' = 0
      BY <1>12, <3>2 DEF Tick, Remaining
    <3>4. QED
      BY <2>1, <3>1, <3>3
  <2>4. QED
    BY <2>2, <2>3
<1>13. CASE ExecLaunch
  BY <1>13, SameCycle DEF ExecLaunch
<1>14. CASE ReturnFromExec
  BY <1>14, ReturnCycle DEF Alarm!CycleNext
<1>15. ASSUME NEW p \in Procs, Controller(p)
       PROVE  UNCHANGED <<Phase, Remaining>>
  BY <1>15, SameCycle
     DEF Controller, ControllerSwitches, ControllerGivesUp, program
<1>16. CASE DeviceReset
  BY <1>16, SameCycle DEF DeviceReset, program
<1>17. CASE Restart
  <2>1. Alarm!Forget
    BY <1>17 DEF Restart, Alarm!Forget, Phase, Remaining
  <2>2. QED
    BY <2>1 DEF Alarm!CycleNext
<1>18. CASE UNCHANGED vars
  BY <1>18, SameCycle DEF vars, program
<1>19. QED
  <2>1. Exec => ExecLaunch \/ ReturnFromExec
    BY DEF Exec, ExecLaunchFails, ExecExits, ExecTimesOut
  <2>2. ASSUME NEW t \in Timers, TimerEnters(t)
        PROVE  Alarm!CycleNext
    BY <2>2, <1>10 DEF Alarm!CycleNext
  <2>3. QED
    BY <1>1, <1>2, <1>3, <1>4, <1>5, <1>6, <1>7, <1>8, <1>9, <1>11, <1>12,
       <1>13, <1>14, <1>15, <1>16, <1>17, <1>18, <2>1, <2>2
       DEF Next, MainCalls, Internal, MainEnters, TimerStep

(* The class, with its threads, its lock and its processes, implements the *)
(* cycle of an alarm: alarms do not overlap, and an alarm ends at its own  *)
(* time or in a call of Stop.                                              *)
THEOREM Refinement == Spec => ImplementsCycle
<1>1. Init => Alarm!CycleInit
  BY InitCycle
<1>2. IInv /\ [Next]_vars => [Alarm!CycleNext]_(Alarm!cycleVars)
  BY NextCycle
<1>3. QED
  BY <1>1, <1>2, Invariance, PTL DEF Spec, ImplementsCycle, Alarm!Cycle
=============================================================================
