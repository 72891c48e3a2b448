------------------------------ MODULE OfficeDay ------------------------------
(***************************************************************************)
(* The days of the program: the loop of Main with the calendar, rounds of  *)
(* the other checks and, last, the standup check of TimeCheckAction.  What *)
(* FlashLight and WrongnessDetector do in detail is here only the rest of  *)
(* a running alarm and the mark of a monitor; what counts is the time of   *)
(* the day at which each thing happens.                                    *)
(***************************************************************************)
EXTENDS Calendar, TimeCheckAction

CONSTANTS
  NumOthers,      \* the monitors that come before the standup check
  Throwing,       \* the monitors whose sound may throw
  Duration,       \* LightAlarmDurationInSeconds of each monitor
  CheckInterval,  \* CheckIntervalInSeconds
  LongSleep,      \* the ten minutes of sleep outside office hours
  MaxRound,       \* the longest time that a round may take
  Short,          \* rounds up to this are not late for DailyMeeting
  LastDate        \* the model ends with this day

VARIABLES
  date,
  loop,       \* where Main is: "look", "check", "end" or "sleep"
  monitor,    \* the place in the list of monitors
  allActionsPassed,
  marked,     \* the monitors that are MarkedAsFailing
  round,      \* the time that the round has taken
  light,      \* the rest of the alarm that is running, 0 if none is
  lit,        \* history: how long that has been running, up to CheckInterval
  sleep,      \* the rest of the sleep
  trouble     \* history: what has kept Main from the end of a round today:
              \* "none"; "lost", an exception in the last round; "late", two
              \* of these in a row, or a round that took longer than Short

Standup == NumOthers + 1

ASSUME OfficeAssumption ==
  /\ OfficeHoursStart \in Nat /\ OfficeHoursEnd \in Nat
  /\ NumOthers \in Nat /\ Throwing \subseteq 1 .. Standup
  /\ Duration \in [1 .. Standup -> Nat]
  /\ CheckInterval \in Nat /\ LongSleep \in Nat
  /\ MaxRound \in Nat /\ Short \in Nat
  /\ LastDate \in Nat
  /\ OfficeHoursEnd + MaxRound < DayLength

alert == <<light, lit>>
dayVars == <<vars, date, loop, monitor, allActionsPassed, marked, round,
             alert, sleep, trouble>>

(* The values that the variables take.                                     *)
DayTypeOK ==
  /\ TypeOK
  /\ date \in 1 .. LastDate
  /\ loop \in {"look", "check", "end", "sleep"}
  /\ monitor \in 1 .. Standup + 1
  /\ allActionsPassed \in BOOLEAN
  /\ marked \subseteq 1 .. Standup
  /\ round \in 0 .. MaxRound
  /\ light \in Nat /\ lit \in 0 .. CheckInterval
  /\ sleep \in Nat
  /\ trouble \in {"none", "lost", "late"}

(* The program is started on any day before the office hours.              *)
DayInit ==
  /\ Init /\ tod <= OfficeHoursStart /\ ~prompt
  /\ date \in 1 .. LastDate
  /\ loop = "look" /\ monitor = 1 /\ allActionsPassed = TRUE
  /\ marked = {} /\ round = 0 /\ light = 0 /\ lit = 0 /\ sleep = 0
  /\ trouble = "none"

-----------------------------------------------------------------------------

(* The loop begins: the date and the time are read once.                   *)
LookAtCalendar ==
  /\ loop = "look"
  /\ IF ~IsHoliday(date) /\ TimeIsInsideWorkingHours(tod)
     THEN loop' = "check" /\ UNCHANGED sleep
     ELSE loop' = "sleep" /\ sleep' = LongSleep
  /\ UNCHANGED <<vars, date, monitor, allActionsPassed, marked, round, alert,
                 trouble>>

WakeUp ==
  /\ loop = "sleep" /\ sleep = 0
  /\ loop' = "look"
  /\ UNCHANGED <<vars, date, monitor, allActionsPassed, marked, round, alert,
                 sleep, trouble>>

(* An alarm that is running is not begun anew.                             *)
StartAlerts(m) ==
  IF light = 0 THEN light' = Duration[m] /\ lit' = 0 ELSE UNCHANGED alert

(* Whatever ends the round, an exception too, Main then sleeps.            *)
RoundEnds ==
  /\ loop' = "sleep" /\ sleep' = CheckInterval
  /\ monitor' = 1 /\ allActionsPassed' = TRUE /\ round' = 0

(* An exception ends it before the standup check is over.                  *)
RoundIsLost ==
  RoundEnds /\ trouble' = IF trouble = "none" THEN "lost" ELSE "late"

(* A monitor has passed; it has failed again; it has begun to fail.        *)
Passed(m) ==
  /\ marked' = marked \ {m} /\ monitor' = m + 1
  /\ loop' = IF m = Standup THEN "end" ELSE "check"
  /\ UNCHANGED <<allActionsPassed, alert, round, sleep, trouble>>

FailsAgain(m) ==
  /\ m \in marked /\ monitor' = m + 1
  /\ loop' = IF m = Standup THEN "end" ELSE "check"
  /\ allActionsPassed' = FALSE
  /\ UNCHANGED <<marked, alert, round, sleep, trouble>>

FailsFirst(m) ==
  /\ m \notin marked /\ marked' = marked \cup {m}
  /\ StartAlerts(m)
  /\ \/ /\ monitor' = m + 1 /\ allActionsPassed' = FALSE
        /\ loop' = IF m = Standup THEN "end" ELSE "check"
        /\ UNCHANGED <<round, sleep, trouble>>
     \/ m \in Throwing /\ RoundIsLost

(* Mutant: the first failure ends the round.                               *)
CheckUntilFailure ==
  /\ loop = "check" /\ monitor < Standup
  /\ \/ Passed(monitor)
     \/ /\ monitor \in marked /\ RoundEnds
        /\ UNCHANGED <<marked, alert, trouble>>
     \/ FailsFirst(monitor)
  /\ UNCHANGED <<vars, date>>

CheckOther ==
  /\ loop = "check" /\ monitor < Standup
  /\ Passed(monitor) \/ FailsAgain(monitor) \/ FailsFirst(monitor)
  /\ UNCHANGED <<vars, date>>

(* GetStatus of the standup check, whose alarm is also a failure.          *)
CheckStandup ==
  /\ loop = "check" /\ monitor = Standup
  /\ \/ /\ GetStatus \/ CompareTime
        /\ IF at' = "out" THEN Passed(monitor)
           ELSE UNCHANGED <<marked, loop, monitor, allActionsPassed, alert,
                            round, sleep, trouble>>
     \/ SetNextAlarm /\ (FailsAgain(monitor) \/ FailsFirst(monitor))
  /\ UNCHANGED date

(* A round that comes to its end has read the clock: what it was kept from *)
(* does not matter, unless the window is over.                             *)
Recovered ==
  trouble' = IF trouble = "late" /\ Time + Window <= tod THEN "late"
             ELSE "none"

(* Mutant: what the last monitor returned is what counts.                  *)
EndRoundAnyway ==
  /\ loop = "end" /\ RoundEnds /\ Recovered
  /\ light' = 0 /\ lit' = 0
  /\ UNCHANGED <<vars, date, marked>>

(* The end of CheckAll: when all have passed, a running alarm is stopped.  *)
EndRound ==
  /\ loop = "end" /\ RoundEnds /\ Recovered
  /\ IF allActionsPassed THEN light' = 0 /\ lit' = 0 ELSE UNCHANGED alert
  /\ UNCHANGED <<vars, date, marked>>

-----------------------------------------------------------------------------
(* Time passes while Main sleeps, or while a monitor waits for an answer;  *)
(* an alarm ends at its time.                                              *)
Pass ==
  /\ \/ /\ loop = "sleep" /\ sleep > 0 /\ sleep' = sleep - 1
        /\ UNCHANGED round
     \/ /\ loop = "check" /\ round < MaxRound /\ round' = round + 1
        /\ UNCHANGED sleep
  /\ light' = IF light = 0 THEN 0 ELSE light - 1
  /\ lit' = IF light <= 1 THEN 0
            ELSE IF lit = CheckInterval THEN lit ELSE lit + 1
  /\ UNCHANGED <<loop, monitor, allActionsPassed, marked>>

DayTick ==
  /\ Pass /\ Tick
  /\ trouble' = IF round' > Short THEN "late" ELSE trouble
  /\ UNCHANGED date

DayMidnight ==
  /\ Pass /\ Midnight
  /\ trouble' = "none"
  /\ date < LastDate /\ date' = date + 1

Main == LookAtCalendar \/ WakeUp \/ CheckOther \/ CheckStandup \/ EndRound

DayNext == Main \/ DayTick \/ DayMidnight

DaySpec == DayInit /\ [][DayNext]_dayVars

-----------------------------------------------------------------------------

(* What QuietAtNight needs: an alarm of the last round ends before         *)
(* midnight.                                                               *)
EndsInTime ==
  \A m \in 1 .. Standup : OfficeHoursEnd + MaxRound + Duration[m] <= DayLength

(* What DailyMeeting needs of the times: two rounds with their sleep fit   *)
(* into the window, as one of them may be lost, if they are short; the     *)
(* sleep of the night is over in time; and the window is within the hours. *)
WindowIsMet ==
  /\ CheckInterval + Short < Window
  /\ OfficeHoursStart + LongSleep + CheckInterval + 2 * Short < Time + Window
  /\ Time + Window <= OfficeHoursEnd

(* The meeting is announced once on every day that is not free, whichever  *)
(* monitors fail and throw and however slow they were before, unless two   *)
(* rounds in a row are lost, or a round takes too long, after the last     *)
(* round that came to its end before the window was over.                  *)
DailyMeeting ==
  ~IsHoliday(date) /\ trouble # "late" /\ Time + Window <= tod /\ at = "out"
    => alarms = 1

(* The time is read once, before the round: an alarm may be raised a round *)
(* after the office hours, but it does not burn through the night.         *)
QuietAtNight ==
  light > 0 =>
    /\ ~IsHoliday(date)
    /\ OfficeHoursStart <= tod
    /\ \E m \in 1 .. Standup :
         tod + light <= OfficeHoursEnd + MaxRound + Duration[m]

(* The standup check passes again in the next round.  What is called off   *)
(* then was seen for CheckInterval, or for all of its time.                *)
SeenForAWhile ==
  [][light > 1 /\ light' = 0 => lit = CheckInterval]_dayVars
=============================================================================
