----------------------------- MODULE FlashLight -----------------------------
(***************************************************************************)
(* The light alarm: FlashLightAction with the status that all AlertActions *)
(* share, the timer threads it starts, the controller processes it runs    *)
(* and the lamp they switch.                                               *)
(*                                                                         *)
(* Three kinds of actor interleave: the main thread (inside Start, Stop or *)
(* IsRunning), the timer threads (StopAlarmAtGivenTime) and the controller *)
(* processes.  The two kinds of thread exclude each other with             *)
(* StatusLockingObj and hold it while a controller process runs.           *)
(*                                                                         *)
(* Time is relative: left[t] is the time until the stopTime of timer       *)
(* thread t, and Tick is the passing of one unit of time.                  *)
(***************************************************************************)
EXTENDS Naturals

CONSTANTS
  Timers,     \* the Thread objects that Start can create (a bound)
  Main,       \* the thread that runs the detector
  Nobody,     \* no thread: a free lock, a null _alarmThread
  Procs,      \* the controller processes alive at a time (a bound)
  NoProc,     \* no process
  Durations,  \* the values of LightAlarmDurationInSeconds
  Faults      \* the kinds of fault that may happen

FaultKinds == {"launch", "device", "hang", "reset", "restart"}

ASSUME ThreadAssumption ==
  /\ Main \notin Timers
  /\ Nobody \notin Timers
  /\ Main # Nobody

ASSUME ProcAssumption == NoProc \notin Procs

ASSUME ParameterAssumption ==
  /\ Durations \subseteq Nat
  /\ Faults \subseteq FaultKinds

VARIABLES
  isRunning,    \* AlertAction._isRunning, one static for every alert action
  lock,         \* who holds AlertAction.StatusLockingObj
  alarmThread,  \* FlashLightAction._alarmThread
  timer,        \* what each timer thread is doing
  left,         \* time left until the stopTime each timer thread captured
  aborting,     \* threads that Abort was called on and that still live
  main,         \* what the main thread is doing in this class
  arg,          \* the duration the pending call of Start asks for
  answer,       \* what the last call of IsRunning returned
  proc,         \* the command each controller process still has to carry out
  child,        \* the process that the Exec in progress waits for
  lamp,         \* is PB0 of the device on?
  confirmed     \* history: the last change of the lamp was made by the process
                \* of the last Exec while that Exec waited for it

program == <<isRunning, lock, alarmThread, timer, left, aborting,
             main, arg, answer, child>>
vars == <<program, proc, lamp, confirmed>>

(* A timer thread lives while it is not "none": it sleeps, has seen its    *)
(* stopTime pass ("due"), or holds the lock and executes "off".            *)
TimerStates == {"none", "sleeping", "due", "off"}

(* The main thread is "out" of this class, waits for the lock in one of    *)
(* its methods, or holds it and executes the command "on" or "off".        *)
MainStates == {"out", "start", "stop", "isRunning", "on", "off"}

(* The values that the variables of the code and of the history take.      *)
TypeOK ==
  /\ isRunning \in BOOLEAN
  /\ lock \in Timers \cup {Main, Nobody}
  /\ alarmThread \in Timers \cup {Nobody}
  /\ timer \in [Timers -> TimerStates]
  /\ left \in [Timers -> Nat]
  /\ aborting \in SUBSET Timers
  /\ main \in MainStates
  /\ arg \in Nat
  /\ answer \in BOOLEAN
  /\ proc \in [Procs -> {"idle", "on", "off"}]
  /\ child \in Procs \cup {NoProc}
  /\ lamp \in BOOLEAN
  /\ confirmed \in BOOLEAN

(* The state of a program that has just been started.                      *)
ProgramInit ==
  /\ isRunning = FALSE
  /\ lock = Nobody
  /\ alarmThread = Nobody
  /\ timer = [t \in Timers |-> "none"]
  /\ left = [t \in Timers |-> 0]
  /\ aborting = {}
  /\ main = "out"
  /\ arg = 0
  /\ answer = FALSE
  /\ child = NoProc

Init ==
  /\ ProgramInit
  /\ proc = [p \in Procs |-> "idle"]
  /\ lamp = FALSE
  /\ confirmed = TRUE

-----------------------------------------------------------------------------
(* Calls that the main thread makes                                        *)

CallStart(d) ==
  /\ main = "out"
  /\ main' = "start"
  /\ arg' = d
  /\ UNCHANGED <<isRunning, lock, alarmThread, timer, left, aborting, answer,
                 child, proc, lamp, confirmed>>

CallStop ==
  /\ main = "out"
  /\ main' = "stop"
  /\ UNCHANGED <<isRunning, lock, alarmThread, timer, left, aborting, arg,
                 answer, child, proc, lamp, confirmed>>

CallIsRunning ==
  /\ main = "out"
  /\ main' = "isRunning"
  /\ UNCHANGED <<isRunning, lock, alarmThread, timer, left, aborting, arg,
                 answer, child, proc, lamp, confirmed>>

-----------------------------------------------------------------------------
(* The methods, from the moment they get the lock                          *)

IsRunning ==
  /\ main = "isRunning"
  /\ lock = Nobody
  /\ answer' = isRunning
  /\ main' = "out"
  /\ UNCHANGED <<isRunning, lock, alarmThread, timer, left, aborting, arg,
                 child, proc, lamp, confirmed>>

(* A first alarm: start the thread that will end it, then execute "on".    *)
Start ==
  /\ main = "start"
  /\ lock = Nobody
  /\ ~isRunning
  /\ \E t \in Timers :
       /\ timer[t] = "none"
       /\ alarmThread' = t
       /\ timer' = [timer EXCEPT ![t] = "sleeping"]
       /\ left' = [left EXCEPT ![t] = arg]
  /\ isRunning' = TRUE
  /\ lock' = Main
  /\ main' = "on"
  /\ arg' = 0
  /\ UNCHANGED <<aborting, answer, child, proc, lamp, confirmed>>

(* Start while an alarm is running: the request is dropped.                *)
StartIgnored ==
  /\ main = "start"
  /\ lock = Nobody
  /\ isRunning
  /\ main' = "out"
  /\ arg' = 0
  /\ UNCHANGED <<isRunning, lock, alarmThread, timer, left, aborting, answer,
                 child, proc, lamp, confirmed>>

(* Mutant: the timer thread is forgotten, but not aborted.                 *)
StopWithoutAbort ==
  /\ main = "stop"
  /\ lock = Nobody
  /\ isRunning
  /\ isRunning' = FALSE
  /\ alarmThread' = Nobody
  /\ lock' = Main
  /\ main' = "off"
  /\ UNCHANGED <<timer, left, aborting, arg, answer, child, proc, lamp,
                 confirmed>>

(* Mutant: the status is left as it is.                                    *)
StopWithoutReset ==
  /\ main = "stop"
  /\ lock = Nobody
  /\ isRunning
  /\ aborting' = aborting \cup
                   {t \in Timers : t = alarmThread /\ timer[t] # "none"}
  /\ alarmThread' = Nobody
  /\ lock' = Main
  /\ main' = "off"
  /\ UNCHANGED <<isRunning, timer, left, arg, answer, child, proc, lamp,
                 confirmed>>

(* Mutant: the controller is not run.                                      *)
StopWithoutExec ==
  /\ main = "stop"
  /\ lock = Nobody
  /\ isRunning
  /\ isRunning' = FALSE
  /\ aborting' = aborting \cup
                   {t \in Timers : t = alarmThread /\ timer[t] # "none"}
  /\ alarmThread' = Nobody
  /\ main' = "out"
  /\ UNCHANGED <<lock, timer, left, arg, answer, child, proc, lamp, confirmed>>

Stop ==
  /\ main = "stop"
  /\ lock = Nobody
  /\ isRunning
  /\ isRunning' = FALSE
  /\ aborting' = aborting \cup
                   {t \in Timers : t = alarmThread /\ timer[t] # "none"}
  /\ alarmThread' = Nobody
  /\ lock' = Main
  /\ main' = "off"
  /\ UNCHANGED <<timer, left, arg, answer, child, proc, lamp, confirmed>>

StopIgnored ==
  /\ main = "stop"
  /\ lock = Nobody
  /\ ~isRunning
  /\ main' = "out"
  /\ UNCHANGED <<isRunning, lock, alarmThread, timer, left, aborting, arg,
                 answer, child, proc, lamp, confirmed>>

-----------------------------------------------------------------------------
(* The timer threads: StopAlarmAtGivenTime                                 *)

(* Mutant: the comparison with stopTime is missing.                        *)
TimerDueAtOnce(t) ==
  /\ timer[t] = "sleeping"
  /\ timer' = [timer EXCEPT ![t] = "due"]
  /\ UNCHANGED <<isRunning, lock, alarmThread, left, aborting, main, arg,
                 answer, child, proc, lamp, confirmed>>

(* The thread wakes up from its Sleep and sees that its stopTime is past.  *)
TimerDue(t) ==
  /\ timer[t] = "sleeping"
  /\ left[t] = 0
  /\ timer' = [timer EXCEPT ![t] = "due"]
  /\ UNCHANGED <<isRunning, lock, alarmThread, left, aborting, main, arg,
                 answer, child, proc, lamp, confirmed>>

(* Entering a lock is a point where a pending abort is raised: a thread    *)
(* that is being aborted does not get past it.                             *)
TimerEnters(t) ==
  /\ timer[t] = "due"
  /\ t \notin aborting
  /\ lock = Nobody
  /\ lock' = t
  /\ timer' = [timer EXCEPT ![t] = "off"]
  /\ UNCHANGED <<isRunning, alarmThread, left, aborting, main, arg, answer,
                 child, proc, lamp, confirmed>>

(* The ThreadAbortException ends the thread, some time after Abort.        *)
TimerAborted(t) ==
  /\ t \in aborting
  /\ aborting' = aborting \ {t}
  /\ timer' = [timer EXCEPT ![t] = "none"]
  /\ left' = [left EXCEPT ![t] = 0]
  /\ UNCHANGED <<isRunning, lock, alarmThread, main, arg, answer, child,
                 proc, lamp, confirmed>>

(* One unit of time passes.                                                *)
Tick ==
  /\ \E t \in Timers : left[t] > 0
  /\ left' = [t \in Timers |-> IF left[t] > 0 THEN left[t] - 1 ELSE 0]
  /\ UNCHANGED <<isRunning, lock, alarmThread, timer, aborting, main, arg,
                 answer, child, proc, lamp, confirmed>>

-----------------------------------------------------------------------------
(* Exec, always run by the holder of the lock                              *)

Command == IF lock = Main THEN main ELSE "off"

(* Mutant: the timer thread returns without resetting the status.          *)
ReturnWithoutReset ==
  /\ lock # Nobody
  /\ lock' = Nobody
  /\ child' = NoProc
  /\ \/ /\ lock = Main
        /\ main' = "out"
        /\ UNCHANGED timer
     \/ /\ lock \in Timers
        /\ timer' = [timer EXCEPT ![lock] = "none"]
        /\ UNCHANGED main
  /\ UNCHANGED <<isRunning, alarmThread, left, aborting, arg, answer>>

(* What follows Exec in Start, in Stop and in the timer thread.            *)
ReturnFromExec ==
  /\ lock # Nobody
  /\ lock' = Nobody
  /\ child' = NoProc
  /\ \/ /\ lock = Main
        /\ main' = "out"
        /\ UNCHANGED <<isRunning, timer>>
     \/ /\ lock \in Timers
        /\ timer' = [timer EXCEPT ![lock] = "none"]
        /\ isRunning' = FALSE
        /\ UNCHANGED main
  /\ UNCHANGED <<alarmThread, left, aborting, arg, answer>>

ExecLaunch ==
  /\ lock # Nobody
  /\ child = NoProc
  /\ \E p \in Procs :
       /\ proc[p] = "idle"
       /\ proc' = [proc EXCEPT ![p] = Command]
       /\ child' = p
  /\ confirmed' = FALSE
  /\ UNCHANGED <<isRunning, lock, alarmThread, timer, left, aborting, main,
                 arg, answer, lamp>>

(* Process.Start throws; Exec catches and logs.                            *)
ExecLaunchFails ==
  /\ "launch" \in Faults
  /\ child = NoProc
  /\ ReturnFromExec
  /\ confirmed' = FALSE
  /\ UNCHANGED <<proc, lamp>>

ExecExits ==
  /\ child # NoProc
  /\ proc[child] = "idle"
  /\ ReturnFromExec
  /\ UNCHANGED <<proc, lamp, confirmed>>

SpareProc == \E p \in Procs : p # child /\ proc[p] = "idle"

(* Mutant: WaitForExit without a timeout.                                  *)
ExecNeverTimesOut == FALSE

(* WaitForExit gives up, ExitCode throws, and the process lives on.  The   *)
(* number of such processes is bounded by Procs.                           *)
ExecTimesOut ==
  /\ "hang" \in Faults
  /\ child # NoProc
  /\ proc[child] # "idle"
  /\ SpareProc
  /\ ReturnFromExec
  /\ UNCHANGED <<proc, lamp, confirmed>>

Exec == ExecLaunch \/ ExecLaunchFails \/ ExecExits \/ ExecTimesOut

-----------------------------------------------------------------------------
(* The controller processes and the device                                 *)

(* The device gets the command and the process exits.                      *)
ControllerSwitches(p) ==
  /\ proc[p] # "idle"
  /\ lamp' = (proc[p] = "on")
  /\ proc' = [proc EXCEPT ![p] = "idle"]
  /\ confirmed' = (p = child)
  /\ UNCHANGED program

(* No such device, or an error of the transfer: the process exits anyway.  *)
ControllerGivesUp(p) ==
  /\ "device" \in Faults
  /\ proc[p] # "idle"
  /\ proc' = [proc EXCEPT ![p] = "idle"]
  /\ UNCHANGED <<program, lamp, confirmed>>

(* The firmware starts anew (power, watchdog): all outputs are off.        *)
DeviceReset ==
  /\ "reset" \in Faults
  /\ lamp' = FALSE
  /\ confirmed' = (confirmed /\ ~lamp)
  /\ UNCHANGED <<program, proc>>

(* The program ends and is started again.  Its controller processes and    *)
(* the lamp outlive it, and Main does not touch the lamp when it starts.   *)
Restart ==
  /\ "restart" \in Faults
  /\ child = NoProc \/ SpareProc
  /\ isRunning' = FALSE
  /\ lock' = Nobody
  /\ alarmThread' = Nobody
  /\ timer' = [t \in Timers |-> "none"]
  /\ left' = [t \in Timers |-> 0]
  /\ aborting' = {}
  /\ main' = "out"
  /\ arg' = 0
  /\ answer' = FALSE
  /\ child' = NoProc
  /\ confirmed' = FALSE
  /\ UNCHANGED <<proc, lamp>>

-----------------------------------------------------------------------------

MainCalls ==
  \/ \E d \in Durations : CallStart(d)
  \/ CallStop
  \/ CallIsRunning

MainEnters == IsRunning \/ Start \/ StartIgnored \/ Stop \/ StopIgnored

TimerStep(t) == TimerDue(t) \/ TimerEnters(t) \/ TimerAborted(t)

Controller(p) == ControllerSwitches(p) \/ ControllerGivesUp(p)

(* Everything but the calls: what happens inside the class and below it.   *)
Internal ==
  \/ MainEnters
  \/ \E t \in Timers : TimerStep(t)
  \/ Tick
  \/ Exec
  \/ \E p \in Procs : Controller(p)
  \/ DeviceReset

Next == MainCalls \/ Internal \/ Restart

Spec == Init /\ [][Next]_vars

(***************************************************************************)
(* Fairness: time passes, threads are scheduled, a free lock is granted,   *)
(* and a controller process ends, as each of its USB transfers has a       *)
(* timeout.  If processes may hang, the one that Exec waits for need not   *)
(* end; those left behind end only because Procs bounds their number.      *)
(* Nothing makes the main thread call, and no fault has to happen.         *)
(***************************************************************************)
MayNotHang(p) == p # child \/ "hang" \notin Faults

Fairness ==
  /\ WF_vars(Tick)
  /\ WF_vars(MainEnters)
  /\ WF_vars(Exec)
  /\ \A t \in Timers : WF_vars(TimerStep(t))
  /\ \A p \in Procs : WF_vars(MayNotHang(p) /\ Controller(p))

FairSpec == Spec /\ Fairness

-----------------------------------------------------------------------------
(* Safety                                                                  *)

(* Whenever no thread is inside a method, the lamp is on exactly when the  *)
(* status says that an alarm is running, provided that the last command    *)
(* was carried out in time and that nothing has touched the lamp since.    *)
LampFollowsStatus == lock = Nobody /\ confirmed => (lamp <=> isRunning)

(* A thread that lives is the timer of the alarm that is running, or it is *)
(* being aborted: no thread is left that could end a later alarm early,    *)
(* although Stop does not wait for the thread it aborts and a thread past  *)
(* its stopTime may already be waiting for the lock.                       *)
NoStaleTimer ==
  \A t \in Timers :
    timer[t] # "none" => t \in aborting \/ (isRunning /\ t = alarmThread)

(* An alarm never runs without a live thread that will end it, also when   *)
(* Stop and the timeout race for the lock.                                 *)
AlarmHasTimer ==
  isRunning => /\ alarmThread \in Timers \ aborting
               /\ timer[alarmThread] # "none"

(* Who may do what when: the inductive invariant behind the above.         *)
LockInv ==
  /\ lock = Main <=> main \in {"on", "off"}
  /\ \A t \in Timers : lock = t <=> timer[t] = "off"
  /\ main = "on" => isRunning
  /\ main = "off" => ~isRunning
  /\ main = "start" => arg \in Durations

TimerInv ==
  /\ NoStaleTimer
  /\ AlarmHasTimer
  /\ \A t \in aborting : timer[t] \in {"sleeping", "due"}
  /\ \A t \in Timers : timer[t] # "sleeping" => left[t] = 0

ExecInv ==
  /\ lock = Nobody => child = NoProc
  /\ child # NoProc => proc[child] \in {"idle", Command}

LampInv ==
  confirmed =>
    /\ lock = Nobody => (lamp <=> isRunning)
    /\ child # NoProc => proc[child] = "idle" /\ (lamp <=> Command = "on")

(* The inductive invariant of the light alarm.                             *)
IInv == TypeOK /\ LockInv /\ TimerInv /\ ExecInv /\ LampInv

-----------------------------------------------------------------------------
(* The class implements the cycle of an alarm                              *)

Phase ==
  CASE lock \in Timers -> "expiring"
    [] lock = Main -> IF main = "on" THEN "raising" ELSE "cancelling"
    [] OTHER -> IF isRunning THEN "raised" ELSE "quiet"

Remaining == IF isRunning THEN left[alarmThread] ELSE 0

Alarm == INSTANCE AlarmCycle WITH phase <- Phase, remaining <- Remaining

(* FlashLightAction implements AlarmCycle: alarms do not overlap, nothing  *)
(* moves the end of an alarm that is running, and it ends before that time *)
(* only in a call of Stop.                                                 *)
ImplementsCycle == Alarm!Cycle

-----------------------------------------------------------------------------
(* Liveness                                                                *)

(* Every alarm ends, called off or not, whatever the controller does.      *)
AlarmEnds == Alarm!AlarmEnds

(* Every call of the main thread returns: the detector cannot be blocked   *)
(* for ever by the timeout thread or by a controller process that hangs.   *)
CallsReturn == (main # "out") ~> (main = "out")

(* Without faults, a lamp that is lit goes out.                            *)
LampGoesOut == lamp ~> ~lamp
=============================================================================
