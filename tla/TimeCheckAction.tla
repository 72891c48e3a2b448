--------------------------- MODULE TimeCheckAction ---------------------------
(***************************************************************************)
(* The standup check: TimeCheckAction.GetStatus, which "fails" once when   *)
(* it is called near the time of the standup meeting.  The method reads    *)
(* the clock up to three times, and time may pass between the reads (and,  *)
(* for any length, between the calls).                                     *)
(*                                                                         *)
(* Time is relative: wait is the time until _nextAlarmNoEarlierThan.       *)
(***************************************************************************)
EXTENDS Naturals

CONSTANTS
  DayLength,  \* the length of a day
  Time,       \* _time, the time of day of the meeting
  Window,     \* an alarm is given less than this from Time (30 seconds)
  Quiet,      \* no alarm is given for this long after one (an hour)
  Gap         \* the longest time between two looks at the clock that the
              \* property DailyAlarm allows

ASSUME DayAssumption ==
  /\ DayLength \in Nat /\ Time \in Nat /\ Window \in Nat /\ Quiet \in Nat
  /\ Gap \in Nat
  /\ Time + Window < DayLength
  /\ 2 * Window <= Quiet
  /\ Quiet + Window <= Time
  /\ Gap < Window

VARIABLES
  tod,     \* DateTime.Now.TimeOfDay
  wait,    \* the time until _nextAlarmNoEarlierThan, 0 if it is null or past
  at,      \* what GetStatus does next
  alarms,  \* history: the alarms that fell due today
  since,   \* history: time since GetStatus looked at the clock, or Gap + 1
  prompt   \* history: today, GetStatus was not suspended for more than Gap
           \* and looked at the clock at least every Gap in the window

vars == <<tod, wait, at, alarms, since, prompt>>

(* GetStatus is not being called, or is about to compare the time of day,  *)
(* or to set _nextAlarmNoEarlierThan.                                      *)
Steps == {"out", "compare", "set"}

(* The values that the variables of the code and of the history take.      *)
TypeOK ==
  /\ tod \in 0 .. DayLength - 1
  /\ wait \in 0 .. Quiet
  /\ at \in Steps
  /\ alarms \in Nat
  /\ since \in 0 .. Gap + 1
  /\ prompt \in BOOLEAN

(* Near the time of the meeting (-30 < diffInSec && diffInSec < 30).       *)
InWindow == Time < tod + Window /\ tod < Time + Window

(* The program may be started at any time of the day.                      *)
Init ==
  /\ tod \in 0 .. DayLength - 1
  /\ wait = 0
  /\ at = "out"
  /\ alarms = 0
  /\ since = Gap + 1
  /\ prompt \in BOOLEAN
  /\ prompt => tod + Window <= Time

-----------------------------------------------------------------------------

(* Not yet PassedNextAlarmTime: GetStatus returns true.                    *)
TooEarly == wait > 0

GetStatus ==
  /\ at = "out"
  /\ at' = IF TooEarly THEN "out" ELSE "compare"
  /\ since' = 0
  /\ UNCHANGED <<tod, wait, alarms, prompt>>

CompareTime ==
  /\ at = "compare"
  /\ since' = 0
  /\ \/ /\ InWindow
        /\ at' = "set"
        /\ alarms' = alarms + 1
     \/ /\ ~InWindow
        /\ at' = "out"
        /\ UNCHANGED alarms
  /\ UNCHANGED <<tod, wait, prompt>>

(* Mutant: the program forgets to set the time of the next alarm.          *)
SetNothing ==
  /\ at = "set"
  /\ at' = "out"
  /\ since' = 0
  /\ UNCHANGED <<tod, wait, alarms, prompt>>

(* Mutant: the next alarm is a day away instead of an hour.                *)
SetNextDay ==
  /\ at = "set"
  /\ wait' = DayLength
  /\ at' = "out"
  /\ since' = 0
  /\ UNCHANGED <<tod, alarms, prompt>>

SetNextAlarm ==
  /\ at = "set"
  /\ wait' = Quiet
  /\ at' = "out"
  /\ since' = 0
  /\ UNCHANGED <<tod, alarms, prompt>>

-----------------------------------------------------------------------------
(* The passing of time                                                     *)

(* The times of day at which prompt demands a recent look at the clock.    *)
Critical(time) == Time < time + Window /\ time <= Time + Window

Elapse ==
  /\ wait' = IF wait = 0 THEN 0 ELSE wait - 1
  /\ since' = IF since > Gap THEN since ELSE since + 1
  /\ UNCHANGED at

Tick ==
  /\ tod < DayLength - 1
  /\ tod' = tod + 1
  /\ prompt' = (prompt /\ (at # "out" \/ Critical(tod') => since < Gap))
  /\ UNCHANGED alarms
  /\ Elapse

Midnight ==
  /\ tod = DayLength - 1
  /\ tod' = 0
  /\ prompt' = (at = "out")
  /\ alarms' = 0
  /\ Elapse

Next == GetStatus \/ CompareTime \/ SetNextAlarm \/ Tick \/ Midnight

Spec == Init /\ [][Next]_vars

-----------------------------------------------------------------------------

(* The meeting is announced at most once a day, however often and however  *)
(* slowly GetStatus is called: the alarm is due again only after the       *)
(* window of the day has closed.                                           *)
OncePerDay == alarms <= 1

(* The meeting is announced every day on which GetStatus is called often   *)
(* enough around it: the hour of silence never reaches into the window of  *)
(* the next day, and no sequence of late reads slips past the window.      *)
DailyAlarm == prompt /\ Time + Window <= tod => alarms = 1

(* The inductive invariant.  After today's alarm the silence outlasts the  *)
(* window; before it, no silence of yesterday is left in the window, and   *)
(* the last look at the clock is too recent for the window to have passed. *)
SilenceInv ==
  /\ at # "out" => wait = 0
  /\ alarms >= 1 => Time < tod + Window
  /\ alarms >= 1 /\ at # "set" => Time + Window <= tod + wait

LookInv ==
  prompt =>
    /\ at # "out" \/ Critical(tod) => since <= Gap
    /\ alarms = 0 =>
         /\ at # "set"
         /\ wait > 0 => tod + wait <= Quiet
         /\ at = "out" => tod + Window <= Time + since
         /\ at = "compare" => tod + Window <= Time + Gap + since

(* The inductive invariant of the standup check.                           *)
IInv == TypeOK /\ OncePerDay /\ DailyAlarm /\ SilenceInv /\ LookInv
=============================================================================
