--------------------------- MODULE OfficeDayProofs ---------------------------
(***************************************************************************)
(* Proofs about the standup check, for a day, a window and an hour of      *)
(* silence of any length that satisfy DayAssumption, and about the days of *)
(* the program, for any number of monitors, hours, sleeps and rounds that  *)
(* satisfy OfficeAssumption.                                               *)
(***************************************************************************)
EXTENDS OfficeDay, TLAPS

(* The inductive invariant holds at the beginning.                         *)
LEMMA InitIInv == Init => IInv
<1> SUFFICES ASSUME Init PROVE IInv
  OBVIOUS
<1> USE DayAssumption DEF Init
<1>1. TypeOK
  BY DEF TypeOK, Steps
<1>2. OncePerDay /\ SilenceInv
  BY DEF OncePerDay, SilenceInv
<1>3. DailyAlarm
  BY <1>1 DEF DailyAlarm, TypeOK
<1>4. LookInv
  BY <1>1 DEF LookInv, TypeOK, Critical
<1>5. QED
  BY <1>1, <1>2, <1>3, <1>4 DEF IInv

(* No step breaks the inductive invariant.                                 *)
LEMMA NextIInv == IInv /\ [Next]_vars => IInv'
<1> SUFFICES ASSUME IInv, [Next]_vars PROVE IInv'
  OBVIOUS
<1> USE DayAssumption
    DEF IInv, TypeOK, Steps, OncePerDay, DailyAlarm, SilenceInv, LookInv,
        Critical
<1>1. CASE GetStatus
  BY <1>1 DEF GetStatus, TooEarly
<1>2. CASE CompareTime
  <2>1. CASE InWindow
    BY <1>2, <2>1 DEF CompareTime, InWindow
  <2>2. CASE ~InWindow
    BY <1>2, <2>2 DEF CompareTime, InWindow
  <2>3. QED
    BY <2>1, <2>2
<1>3. CASE SetNextAlarm
  BY <1>3 DEF SetNextAlarm
<1>4. CASE Tick
  <2>1. /\ prompt' \in BOOLEAN
        /\ prompt' => prompt
        /\ prompt' /\ (at # "out" \/ Critical(tod')) => since < Gap
    BY <1>4, Zenon DEF Tick
  <2>2. /\ tod < DayLength - 1
        /\ tod' = tod + 1
        /\ alarms' = alarms
        /\ Elapse
    BY <1>4 DEF Tick
  <2>3. TypeOK' /\ OncePerDay' /\ SilenceInv'
    BY <2>1, <2>2 DEF Elapse
  <2>4. LookInv' /\ DailyAlarm'
    BY <2>1, <2>2, <2>3 DEF Elapse
  <2>5. QED
    BY <2>3, <2>4
<1>5. CASE Midnight
  <2>1. prompt' \in BOOLEAN /\ (prompt' => at = "out")
    BY <1>5, Zenon DEF Midnight
  <2>2. QED
    BY <1>5, <2>1 DEF Midnight, Elapse
<1>6. CASE UNCHANGED vars
  BY <1>6 DEF vars
<1>7. QED
  BY <1>1, <1>2, <1>3, <1>4, <1>5, <1>6 DEF Next

(* IInv holds whenever GetStatus is called and however slowly it runs.     *)
THEOREM Invariance == Spec => []IInv
<1>1. Init => IInv
  BY InitIInv
<1>2. IInv /\ [Next]_vars => IInv'
  BY NextIInv
<1>3. QED
  BY <1>1, <1>2, PTL DEF Spec

(* The types of the variables of the standup check.                        *)
THEOREM TypeCorrect == Spec => []TypeOK
BY Invariance, PTL DEF IInv

(* The standup alarm is given at most once a day.                          *)
THEOREM AtMostOnce == Spec => []OncePerDay
<1>1. IInv => OncePerDay
  BY DEF IInv
<1>2. QED
  BY <1>1, Invariance, PTL

(* The standup alarm is given on every day on which the clock is looked at *)
(* often enough around the time of the meeting.                            *)
THEOREM AtLeastOnce == Spec => []DailyAlarm
<1>1. IInv => DailyAlarm
  BY DEF IInv
<1>2. QED
  BY <1>1, Invariance, PTL

-----------------------------------------------------------------------------
(* The days of the program                                                 *)

(* The main loop checks only within the hours, and never at midnight; the  *)
(* standup check is called in its place of a round.                        *)
LoopInv ==
  /\ loop \in {"check", "end"} =>
       /\ ~IsHoliday(date)
       /\ OfficeHoursStart <= tod /\ tod <= OfficeHoursEnd + round
  /\ loop \in {"look", "sleep"} => monitor = 1 /\ round = 0
  /\ loop = "check" => monitor \in 1 .. Standup
  /\ loop = "end" => monitor = Standup + 1
  /\ at # "out" => loop = "check" /\ monitor = Standup
  /\ at = "set" => alarms >= 1
  /\ sleep <= CheckInterval \/ sleep <= LongSleep

(* A step of the day is one of the standup check, or none of its.          *)
LEMMA DayStepsCheck == [DayNext]_dayVars => [Next]_vars
<1> SUFFICES ASSUME [DayNext]_dayVars PROVE [Next]_vars
  OBVIOUS
<1>1. CASE UNCHANGED dayVars
  BY <1>1, Zenon DEF dayVars
<1>2. CASE LookAtCalendar \/ WakeUp \/ CheckOther \/ EndRound
  BY <1>2, Zenon DEF LookAtCalendar, WakeUp, CheckOther, EndRound
<1>3. CASE CheckStandup
  BY <1>3, Zenon DEF CheckStandup, Next
<1>4. CASE DayTick \/ DayMidnight
  BY <1>4, Zenon DEF DayTick, DayMidnight, Next
<1> QED
  BY <1>1, <1>2, <1>3, <1>4 DEF DayNext, Main

(* The types and the place of the loop at the beginning.                   *)
LEMMA InitLoop == DayInit => DayTypeOK /\ LoopInv
<1> SUFFICES ASSUME DayInit PROVE DayTypeOK /\ LoopInv
  OBVIOUS
<1>1. TypeOK
  BY InitIInv DEF DayInit, IInv
<1>2. 1 \in 1 .. Standup + 1 /\ 0 \in 0 .. MaxRound /\ 0 \in 0 .. CheckInterval
  BY OfficeAssumption DEF Standup
<1>3. DayTypeOK
  BY <1>1, <1>2, Zenon DEF DayInit, DayTypeOK
<1>4. LoopInv
  BY OfficeAssumption DEF DayInit, Init, LoopInv
<1> QED
  BY <1>3, <1>4

(* The numbers of the assumption on the office.                            *)
LEMMA OfficeNumbers ==
  /\ OfficeHoursStart \in Nat /\ OfficeHoursEnd \in Nat
  /\ Standup \in Nat /\ Standup >= 1
  /\ CheckInterval \in Nat /\ LongSleep \in Nat
  /\ MaxRound \in Nat /\ Short \in Nat /\ LastDate \in Nat
  /\ DayLength \in Nat /\ OfficeHoursEnd + MaxRound < DayLength
BY OfficeAssumption, DayAssumption DEF Standup

(* What Passed, FailsAgain and FailsFirst do to the loop and to the alarm. *)
Checked(m) ==
  /\ \/ /\ monitor' = m + 1 /\ round' = round /\ sleep' = sleep
        /\ loop' = IF m = Standup THEN "end" ELSE "check"
     \/ /\ loop' = "sleep" /\ sleep' = CheckInterval
        /\ monitor' = 1 /\ round' = 0
  /\ marked' \subseteq 1 .. Standup
  /\ \/ light' = light /\ lit' = lit
     \/ light' \in Nat /\ lit' = 0

(* Each of the three does one of those things.                             *)
LEMMA AfterCheck ==
  ASSUME NEW m \in 1 .. Standup, marked \subseteq 1 .. Standup,
         Passed(m) \/ FailsAgain(m) \/ FailsFirst(m)
  PROVE  Checked(m)
<1>1. Duration[m] \in Nat
  BY OfficeAssumption
<1> QED
  BY <1>1, Zenon DEF Passed, FailsAgain, FailsFirst, StartAlerts, RoundIsLost,
                     RoundEnds, alert, Checked

(* A round that goes on is over before midnight.                           *)
LEMMA CheckedBeforeMidnight ==
  ASSUME DayTypeOK, LoopInv, loop = "check", round < MaxRound
  PROVE  tod # DayLength - 1
<1>1. tod \in 0 .. DayLength - 1 /\ round \in 0 .. MaxRound
  BY Zenon DEF DayTypeOK, TypeOK
<1>2. tod <= OfficeHoursEnd + round
  BY Zenon DEF LoopInv
<1> QED
  BY <1>1, <1>2, OfficeNumbers

(* What a passing of time leaves alone and does to the rest.               *)
LEMMA TimePasses ==
  ASSUME DayTypeOK, LoopInv, DayTick \/ DayMidnight
  PROVE  /\ UNCHANGED <<loop, monitor, allActionsPassed, marked, at>>
         /\ \/ /\ loop = "sleep" /\ sleep > 0
               /\ sleep' = sleep - 1 /\ round' = round
            \/ /\ loop = "check" /\ round < MaxRound /\ round' = round + 1
               /\ sleep' = sleep /\ tod # DayLength - 1
         /\ \/ tod' = tod + 1 /\ date' = date /\ alarms' = alarms
            \/ /\ tod = DayLength - 1 /\ tod' = 0 /\ alarms' = 0
               /\ date < LastDate /\ date' = date + 1
<1>1. UNCHANGED <<loop, monitor, allActionsPassed, marked, at>>
  BY Zenon DEF DayTick, DayMidnight, Pass, Tick, Midnight, Elapse
<1>2. \/ loop = "sleep" /\ sleep > 0 /\ sleep' = sleep - 1 /\ round' = round
      \/ /\ loop = "check" /\ round < MaxRound /\ round' = round + 1
         /\ sleep' = sleep
  BY Zenon DEF DayTick, DayMidnight, Pass
<1>3. \/ tod' = tod + 1 /\ date' = date /\ alarms' = alarms
      \/ /\ tod = DayLength - 1 /\ tod' = 0 /\ alarms' = 0
         /\ date < LastDate /\ date' = date + 1
  BY Zenon DEF DayTick, DayMidnight, Tick, Midnight
<1> QED
  BY <1>1, <1>2, <1>3, CheckedBeforeMidnight, Zenon

(* The types of the history and of the alarm when time passes.             *)
LEMMA AlarmPasses ==
  ASSUME light \in Nat, lit \in 0 .. CheckInterval, Pass
  PROVE  light' \in Nat /\ lit' \in 0 .. CheckInterval
BY OfficeAssumption DEF Pass

(* No step breaks the types and the place of the loop.                     *)
LEMMA NextLoop ==
  DayTypeOK /\ LoopInv /\ IInv /\ [DayNext]_dayVars => DayTypeOK' /\ LoopInv'
<1> SUFFICES ASSUME DayTypeOK, LoopInv, IInv, [DayNext]_dayVars
             PROVE  DayTypeOK' /\ LoopInv'
  OBVIOUS
<1>1. TypeOK'
  BY DayStepsCheck, NextIInv, Zenon DEF IInv
<1>2. tod \in Nat /\ alarms \in Nat /\ alarms' \in Nat
  BY <1>1, DayAssumption DEF DayTypeOK, TypeOK
<1>3. /\ date \in 1 .. LastDate
      /\ loop \in {"look", "check", "end", "sleep"}
      /\ monitor \in 1 .. Standup + 1
      /\ marked \subseteq 1 .. Standup
      /\ round \in 0 .. MaxRound
      /\ light \in Nat /\ lit \in 0 .. CheckInterval
      /\ sleep \in Nat
  BY Zenon DEF DayTypeOK
<1>4. allActionsPassed \in BOOLEAN
  BY Zenon DEF DayTypeOK
<1>5. allActionsPassed' \in BOOLEAN
  <2>1. CASE CheckOther \/ CheckStandup
    BY <1>4, <2>1, Zenon DEF CheckOther, CheckStandup, Passed, FailsAgain,
                             FailsFirst, RoundIsLost, RoundEnds
  <2>2. CASE LookAtCalendar \/ WakeUp \/ EndRound \/ UNCHANGED dayVars
    BY <1>4, <2>2, Zenon DEF LookAtCalendar, WakeUp, EndRound, RoundEnds,
                             dayVars
  <2>3. CASE DayTick \/ DayMidnight
    BY <1>4, <2>3, TimePasses, Zenon
  <2> QED
    BY <2>1, <2>2, <2>3, Zenon DEF DayNext, Main
<1>6. trouble' \in {"none", "lost", "late"}
  <2>1. trouble \in {"none", "lost", "late"}
    BY Zenon DEF DayTypeOK
  <2>2. CASE CheckOther \/ CheckStandup
    BY <2>1, <2>2, Zenon DEF CheckOther, CheckStandup, Passed, FailsAgain,
                             FailsFirst, RoundIsLost
  <2>3. CASE LookAtCalendar \/ WakeUp \/ EndRound \/ UNCHANGED dayVars
    BY <2>1, <2>3, Zenon DEF LookAtCalendar, WakeUp, EndRound, Recovered,
                             dayVars
  <2>4. CASE DayTick \/ DayMidnight
    BY <2>1, <2>4, Zenon DEF DayTick, DayMidnight
  <2> QED
    BY <2>2, <2>3, <2>4, Zenon DEF DayNext, Main
<1> DEFINE Rest == /\ date \in 1 .. LastDate
                   /\ loop \in {"look", "check", "end", "sleep"}
                   /\ monitor \in 1 .. Standup + 1
                   /\ marked \subseteq 1 .. Standup
                   /\ round \in 0 .. MaxRound
                   /\ light \in Nat /\ lit \in 0 .. CheckInterval
                   /\ sleep \in Nat
<1>7. Rest' /\ LoopInv'
  <2>1. CASE UNCHANGED dayVars
    BY <1>3, <2>1 DEF dayVars, vars, alert, LoopInv
  <2>2. CASE LookAtCalendar
    BY <1>3, <2>2, OfficeNumbers
       DEF LookAtCalendar, LoopInv, TimeIsInsideWorkingHours, vars, alert
  <2>3. CASE WakeUp
    BY <1>3, <2>3 DEF WakeUp, LoopInv, vars, alert
  <2>4. CASE CheckOther
    <3>1. /\ monitor \in 1 .. Standup /\ loop = "check" /\ monitor < Standup
          /\ UNCHANGED <<tod, at, alarms, date>>
      BY <2>4, Zenon DEF CheckOther, LoopInv, vars
    <3>2. Passed(monitor) \/ FailsAgain(monitor) \/ FailsFirst(monitor)
      BY <2>4, Zenon DEF CheckOther
    <3>3. Checked(monitor)
      BY <1>3, <3>1, <3>2, AfterCheck, Zenon
    <3> QED
      BY <1>2, <1>3, <3>1, <3>2, <3>3, OfficeNumbers DEF Checked, LoopInv
  <2>5. CASE CheckStandup
    <3>1. /\ monitor = Standup /\ monitor \in 1 .. Standup /\ loop = "check"
          /\ UNCHANGED <<tod, date>>
      BY <2>5, Zenon
         DEF CheckStandup, LoopInv, GetStatus, CompareTime, SetNextAlarm
    <3>2. /\ at' = "set" => alarms' >= 1
          /\ at' = "out" => \/ Passed(monitor) \/ FailsAgain(monitor)
                            \/ FailsFirst(monitor)
          /\ at' # "out" => UNCHANGED <<marked, loop, monitor, alert, round,
                                        sleep>>
      BY <1>2, <2>5, <3>1
         DEF CheckStandup, GetStatus, CompareTime, SetNextAlarm
    <3>3. CASE at' = "out"
      <4>1. Checked(monitor)
        BY <1>3, <3>1, <3>2, <3>3, AfterCheck, Zenon
      <4> QED
        BY <1>2, <1>3, <3>1, <3>3, <4>1, OfficeNumbers DEF Checked, LoopInv
    <3>4. CASE at' # "out"
      BY <1>3, <3>1, <3>2, <3>4 DEF LoopInv, alert
    <3> QED
      BY <3>3, <3>4
  <2>6. CASE EndRound
    BY <1>3, <2>6, OfficeNumbers
       DEF EndRound, RoundEnds, LoopInv, vars, alert
  <2>7. CASE DayTick \/ DayMidnight
    <3>1. Pass
      BY <2>7, Zenon DEF DayTick, DayMidnight
    <3>2. light' \in Nat /\ lit' \in 0 .. CheckInterval
      BY <1>3, <3>1, AlarmPasses
    <3>3. CASE loop = "sleep"
      <4>1. /\ UNCHANGED <<loop, monitor, marked, at, round>>
            /\ sleep > 0 /\ sleep' = sleep - 1
            /\ date' = date \/ (date < LastDate /\ date' = date + 1)
        BY <2>7, <3>3, TimePasses, Zenon
      <4>2. Rest'
        BY <1>3, <3>2, <4>1, OfficeNumbers
      <4>3. at = "out"
        BY <3>3 DEF LoopInv
      <4> QED
        BY <1>3, <3>3, <4>1, <4>2, <4>3, OfficeNumbers DEF LoopInv
    <3>4. CASE loop = "check"
      <4>1. /\ UNCHANGED <<loop, monitor, marked, at, sleep, date, alarms>>
            /\ round < MaxRound /\ round' = round + 1 /\ tod' = tod + 1
        BY <2>7, <3>4, TimePasses
      <4> QED
        BY <1>2, <1>3, <3>2, <3>4, <4>1, OfficeNumbers DEF LoopInv
    <3> QED
      BY <2>7, <3>3, <3>4, TimePasses
  <2> QED
    BY <2>1, <2>2, <2>3, <2>4, <2>5, <2>6, <2>7, Zenon DEF DayNext, Main
<1> QED
  BY <1>1, <1>5, <1>6, <1>7, Zenon DEF DayTypeOK

-----------------------------------------------------------------------------

(* The silence that is left before the alarm of the day is yesterday's.    *)
SilenceOfYesterday == alarms = 0 /\ wait > 0 => tod + wait <= Quiet

(* After midnight, what is left of the silence is less than Quiet; later   *)
(* the day and the silence move together.                                  *)
LEMMA NextSilence ==
  ASSUME DayTypeOK, LoopInv, SilenceOfYesterday, [DayNext]_dayVars
  PROVE  SilenceOfYesterday'
<1>1. tod \in Nat /\ wait \in 0 .. Quiet /\ alarms \in Nat
  <2>1. TypeOK
    BY DEF DayTypeOK
  <2> QED
    BY <2>1, DayAssumption DEF TypeOK
<1>2. [Next]_vars
  BY DayStepsCheck
<1>3. CASE GetStatus \/ UNCHANGED vars
  BY <1>3 DEF GetStatus, vars, SilenceOfYesterday
<1>4. CASE CompareTime
  BY <1>1, <1>4 DEF CompareTime, SilenceOfYesterday
<1>5. CASE SetNextAlarm
  BY <1>5 DEF SetNextAlarm, LoopInv, SilenceOfYesterday
<1>6. CASE Tick
  BY <1>1, <1>6 DEF Tick, Elapse, SilenceOfYesterday
<1>7. CASE Midnight
  BY <1>1, <1>7, DayAssumption DEF Midnight, Elapse, SilenceOfYesterday
<1> QED
  BY <1>2, <1>3, <1>4, <1>5, <1>6, <1>7 DEF Next

(* The inductive invariant of the days.                                    *)
DayInv == DayTypeOK /\ LoopInv /\ IInv /\ SilenceOfYesterday

(* No step of the days breaks it.                                          *)
LEMMA NextDayInv == DayInv /\ [DayNext]_dayVars => DayInv'
BY DayStepsCheck, NextLoop, NextIInv, NextSilence, Zenon DEF DayInv

(* It holds at the beginning.                                              *)
LEMMA InitDayInv == DayInit => DayInv
<1>1. DayInit => SilenceOfYesterday
  BY DEF DayInit, Init, SilenceOfYesterday
<1>2. DayInit => IInv
  BY InitIInv DEF DayInit
<1> QED
  BY <1>1, <1>2, InitLoop, Zenon DEF DayInv

(* The types of the days, and the place of the loop at each time of day.   *)
THEOREM DayInvariance == DaySpec => []DayInv
BY InitDayInv, NextDayInv, PTL DEF DaySpec

(* The types of the variables of the days.                                 *)
THEOREM DayTypeCorrect == DaySpec => []DayTypeOK
<1>1. DayInv => DayTypeOK
  BY DEF DayInv
<1> QED
  BY <1>1, DayInvariance, PTL

-----------------------------------------------------------------------------

(* An alarm is being kept, or has been seen for as long as the next sleep  *)
(* lasts by the time that a round may end it.                              *)
AlarmInv ==
  light > 0 =>
    /\ loop \in {"check", "end"} => ~allActionsPassed \/ lit = CheckInterval
    /\ loop = "sleep" => lit + sleep >= CheckInterval
    /\ loop = "look" => lit = CheckInterval

(* No alarm runs at the beginning.                                         *)
LEMMA InitAlarm == DayInit => AlarmInv
BY DEF DayInit, AlarmInv

(* No step breaks it.                                                      *)
LEMMA NextAlarm ==
  ASSUME DayInv, AlarmInv, [DayNext]_dayVars
  PROVE  AlarmInv'
<1>1. /\ loop \in {"look", "check", "end", "sleep"}
      /\ light \in Nat /\ lit \in 0 .. CheckInterval /\ sleep \in Nat
  BY Zenon DEF DayInv, DayTypeOK
<1>2. CASE LookAtCalendar
  BY <1>1, <1>2, OfficeNumbers DEF LookAtCalendar, AlarmInv, alert
<1>3. CASE WakeUp
  BY <1>1, <1>3, OfficeNumbers DEF WakeUp, AlarmInv, alert
<1>4. CASE EndRound
  BY <1>1, <1>4, OfficeNumbers DEF EndRound, RoundEnds, AlarmInv, alert
<1>5. ASSUME Passed(monitor), loop = "check"
      PROVE  AlarmInv'
  <2>1. /\ UNCHANGED <<allActionsPassed, light, lit>>
        /\ loop' \in {"check", "end"}
    BY <1>5, Zenon DEF Passed, alert
  <2> QED
    BY <1>5, <2>1 DEF AlarmInv
<1>6. ASSUME FailsAgain(monitor)
      PROVE  AlarmInv'
  <2>1. loop' \in {"check", "end"} /\ ~allActionsPassed'
    BY <1>6, Zenon DEF FailsAgain
  <2> QED
    BY <2>1 DEF AlarmInv
<1>7. ASSUME FailsFirst(monitor)
      PROVE  AlarmInv'
  <2>1. lit' \in 0 .. CheckInterval
    BY <1>1, <1>7, OfficeNumbers DEF FailsFirst, StartAlerts, alert
  <2>2. \/ loop' \in {"check", "end"} /\ ~allActionsPassed'
        \/ loop' = "sleep" /\ sleep' = CheckInterval
    BY <1>7, Zenon DEF FailsFirst, RoundIsLost, RoundEnds
  <2> QED
    BY <2>1, <2>2, OfficeNumbers DEF AlarmInv
<1>8. CASE CheckOther
  BY <1>5, <1>6, <1>7, <1>8, Zenon DEF CheckOther
<1>9. CASE CheckStandup
  <2>1. CASE UNCHANGED <<loop, allActionsPassed, alert, sleep>>
    BY <2>1 DEF AlarmInv, alert
  <2> QED
    BY <1>5, <1>6, <1>7, <1>9, <2>1, Zenon DEF CheckStandup
<1>10. CASE DayTick \/ DayMidnight
  <2>1. /\ UNCHANGED <<loop, allActionsPassed>>
        /\ \/ loop = "sleep" /\ sleep > 0 /\ sleep' = sleep - 1
           \/ loop = "check"
    BY <1>10, TimePasses, Zenon DEF DayInv
  <2>2. /\ light' = IF light = 0 THEN 0 ELSE light - 1
        /\ lit' = IF light <= 1 THEN 0
                  ELSE IF lit = CheckInterval THEN lit ELSE lit + 1
    BY <1>10, Zenon DEF DayTick, DayMidnight, Pass
  <2>3. light' > 0 => /\ light > 0
                      /\ lit' = IF lit = CheckInterval THEN lit ELSE lit + 1
    BY <1>1, <2>2
  <2>4. CASE loop = "sleep"
    BY <1>1, <2>1, <2>3, <2>4, OfficeNumbers DEF AlarmInv
  <2>5. CASE loop = "check"
    BY <1>1, <2>1, <2>3, <2>5, OfficeNumbers DEF AlarmInv
  <2> QED
    BY <2>1, <2>4, <2>5
<1>11. CASE UNCHANGED dayVars
  BY <1>11 DEF dayVars, alert, AlarmInv
<1> QED
  BY <1>2, <1>3, <1>4, <1>8, <1>9, <1>10, <1>11, Zenon DEF DayNext, Main

(* A round that ends an alarm ends one that was seen for CheckInterval.    *)
THEOREM NoShortFlash == DaySpec => SeenForAWhile
<1>1. DayInv /\ AlarmInv /\ [DayNext]_dayVars
        => [light > 1 /\ light' = 0 => lit = CheckInterval]_dayVars
  <2> SUFFICES ASSUME DayInv, AlarmInv, [DayNext]_dayVars,
                      light > 1, light' = 0
               PROVE  lit = CheckInterval
    BY Zenon
  <2>1. light \in Nat
    BY Zenon DEF DayInv, DayTypeOK
  <2>2. CASE EndRound
    BY <2>1, <2>2 DEF EndRound, AlarmInv, alert
  <2>3. CASE DayTick \/ DayMidnight
    <3>1. light' = IF light = 0 THEN 0 ELSE light - 1
      BY <2>3, Zenon DEF DayTick, DayMidnight, Pass
    <3> QED
      BY <2>1, <3>1
  <2>4. CASE LookAtCalendar \/ WakeUp \/ UNCHANGED dayVars
    <3>1. light' = light
      BY <2>4, Zenon DEF LookAtCalendar, WakeUp, dayVars, alert
    <3> QED
      BY <3>1
  <2>5. CASE CheckOther \/ CheckStandup
    <3>1. light' = light \/ light = 0
      BY <2>5, Zenon DEF CheckOther, CheckStandup, Passed, FailsAgain,
                         FailsFirst, StartAlerts, alert
    <3> QED
      BY <3>1
  <2> QED
    BY <2>2, <2>3, <2>4, <2>5, Zenon DEF DayNext, Main
<1> QED
  BY <1>1, InitDayInv, NextDayInv, InitAlarm, NextAlarm, PTL
     DEF DaySpec, SeenForAWhile

-----------------------------------------------------------------------------

(* An alarm begins within a round of the hours; it burns down as the day   *)
(* goes on, and is out at midnight.                                        *)
LEMMA NextQuiet ==
  ASSUME EndsInTime, DayInv, QuietAtNight, [DayNext]_dayVars
  PROVE  QuietAtNight'
<1>1. light \in Nat /\ tod \in 0 .. DayLength - 1 /\ round \in 0 .. MaxRound
  BY Zenon DEF DayInv, DayTypeOK, TypeOK
<1>2. ASSUME UNCHANGED <<light, tod, date>>
      PROVE  QuietAtNight'
  BY <1>2 DEF QuietAtNight
<1>3. ASSUME light' = 0
      PROVE  QuietAtNight'
  BY <1>3 DEF QuietAtNight
<1>4. ASSUME NEW m \in 1 .. Standup, light' = Duration[m], loop = "check",
             UNCHANGED <<tod, date>>
      PROVE  QuietAtNight'
  <2>1. /\ ~IsHoliday(date) /\ OfficeHoursStart <= tod
        /\ tod <= OfficeHoursEnd + round
    BY <1>4, Zenon DEF DayInv, LoopInv
  <2>2. Duration[m] \in Nat
    BY OfficeAssumption
  <2>3. tod + light' <= OfficeHoursEnd + MaxRound + Duration[m]
    BY <1>1, <1>4, <2>1, <2>2, OfficeNumbers
  <2>4. tod' = tod /\ date' = date
    BY <1>4
  <2> QED
    BY <2>1, <2>3, <2>4 DEF QuietAtNight
<1>5. CASE LookAtCalendar \/ WakeUp \/ UNCHANGED dayVars
  BY <1>2, <1>5, Zenon DEF LookAtCalendar, WakeUp, dayVars, vars, alert
<1>6. CASE EndRound
  BY <1>2, <1>3, <1>6, Zenon DEF EndRound, vars, alert
<1>7. CASE CheckOther \/ CheckStandup
  <2>1. loop = "check" /\ monitor \in 1 .. Standup
    BY <1>7, Zenon DEF CheckOther, CheckStandup, DayInv, LoopInv
  <2>2. UNCHANGED <<tod, date>>
    BY <1>7, Zenon DEF CheckOther, CheckStandup, vars, GetStatus, CompareTime,
                       SetNextAlarm
  <2>3. light' = light \/ light' = Duration[monitor]
    BY <1>7, Zenon DEF CheckOther, CheckStandup, Passed, FailsAgain,
                       FailsFirst, StartAlerts, alert
  <2> QED
    BY <1>2, <1>4, <2>1, <2>2, <2>3, Zenon
<1>8. CASE DayTick \/ DayMidnight
  <2>1. light' = IF light = 0 THEN 0 ELSE light - 1
    BY <1>8, Zenon DEF DayTick, DayMidnight, Pass
  <2>2. CASE light = 0
    BY <1>3, <2>1, <2>2
  <2>3. CASE light > 0
    <3>1. PICK m \in 1 .. Standup :
            tod + light <= OfficeHoursEnd + MaxRound + Duration[m]
      BY <2>3 DEF QuietAtNight
    <3>2. /\ Duration[m] \in Nat
          /\ OfficeHoursEnd + MaxRound + Duration[m] <= DayLength
      BY OfficeAssumption DEF EndsInTime
    <3>3. CASE tod' = tod + 1 /\ date' = date
      <4>1. tod' + light' <= OfficeHoursEnd + MaxRound + Duration[m]
        BY <1>1, <2>1, <2>3, <3>1, <3>2, <3>3, OfficeNumbers
      <4>2. /\ ~IsHoliday(date) /\ OfficeHoursStart <= tod'
        BY <1>1, <2>3, <3>3, OfficeNumbers DEF QuietAtNight
      <4> QED
        BY <3>3, <4>1, <4>2 DEF QuietAtNight
    <3>4. CASE tod = DayLength - 1
      <4>1. light' = 0
        BY <1>1, <2>1, <2>3, <3>1, <3>2, <3>4, OfficeNumbers
      <4> QED
        BY <1>3, <4>1
    <3> QED
      BY <1>8, <3>3, <3>4, TimePasses, Zenon DEF DayInv
  <2> QED
    BY <1>1, <2>2, <2>3
<1> QED
  BY <1>5, <1>6, <1>7, <1>8, Zenon DEF DayNext, Main

(* No alarm burns through the night, if those of the last round of a day   *)
(* end before midnight.                                                    *)
THEOREM NoLightAtNight ==
  ASSUME EndsInTime
  PROVE  DaySpec => []QuietAtNight
<1>1. DayInit => QuietAtNight
  BY DEF DayInit, QuietAtNight
<1> QED
  BY <1>1, InitDayInv, NextDayInv, NextQuiet, PTL DEF DaySpec

-----------------------------------------------------------------------------

(* The longest time until the clock is read the next time, by short        *)
(* rounds.  As long as no round of the day is lost, one more may be.       *)
Period == CheckInterval + Short
Lost == IF trouble = "none" THEN Period ELSE 0
NextLook ==
  IF loop = "check" THEN Short - round + Lost
  ELSE IF loop = "end" THEN Period + Period
  ELSE IF loop = "look" THEN Short + Lost
  ELSE sleep + Short + Lost

(* On a day that is not free, it is read before the window closes; and a   *)
(* round that ends without the alarm has read it outside of the window.    *)
MeetingInv ==
  /\ loop = "check" /\ trouble # "late" => round <= Short
  /\ loop = "end" /\ alarms = 0
       => tod + Window <= Time \/ Time + Window <= tod
  /\ ~IsHoliday(date) /\ alarms = 0 /\ trouble # "late"
       => tod + NextLook < Time + Window

(* What the assumptions say about the rounds and the window.               *)
LEMMA WindowNumbers ==
  ASSUME WindowIsMet
  PROVE  /\ Period \in Nat /\ Period < Window /\ Short <= Period
         /\ OfficeHoursStart + LongSleep + Period + Short < Time + Window
         /\ Time + Window <= OfficeHoursEnd
         /\ Time \in Nat /\ Window \in Nat /\ Quiet \in Nat
         /\ 2 * Window <= Quiet /\ Quiet + Window <= Time
BY OfficeNumbers, DayAssumption DEF WindowIsMet, Period

(* At most one more round may be lost.                                     *)
LEMMA LostNumber ==
  ASSUME WindowIsMet
  PROVE  Lost \in Nat /\ Lost <= Period
BY WindowNumbers DEF Lost

(* The deadline holds at the beginning.                                    *)
LEMMA InitMeeting ==
  ASSUME WindowIsMet, DayInit
  PROVE  MeetingInv
<1>1. tod \in Nat /\ tod <= OfficeHoursStart /\ NextLook = Short + Lost
  BY DayAssumption DEF DayInit, Init, NextLook
<1>2. loop = "look"
  BY DEF DayInit
<1> QED
  BY <1>1, <1>2, WindowNumbers, LostNumber, OfficeNumbers DEF MeetingInv

(* What the passing of time does to the history.                           *)
LEMMA TroublePasses ==
  ASSUME DayInv, DayTick \/ DayMidnight
  PROVE  \/ tod' = 0
         \/ /\ trouble' = IF round' > Short THEN "late" ELSE trouble
            /\ tod' = tod + 1 /\ date' = date /\ alarms' = alarms
<1>1. CASE DayTick
  BY <1>1 DEF DayTick, Tick
<1>2. CASE DayMidnight
  BY <1>2 DEF DayMidnight, Midnight
<1> QED
  BY <1>1, <1>2

(* No step breaks it: the last look before the window comes early enough,  *)
(* and a look inside the window gives the alarm.                           *)
LEMMA NextMeeting ==
  ASSUME WindowIsMet, DayInv, MeetingInv, [DayNext]_dayVars
  PROVE  MeetingInv'
<1>1. /\ loop \in {"look", "check", "end", "sleep"}
      /\ trouble \in {"none", "lost", "late"}
      /\ round \in 0 .. MaxRound /\ sleep \in Nat
  BY Zenon DEF DayInv, DayTypeOK
<1>2. tod \in 0 .. DayLength - 1 /\ alarms \in Nat /\ wait \in 0 .. Quiet
  BY Zenon DEF DayInv, DayTypeOK, TypeOK
<1>3. /\ Lost \in Nat /\ Lost <= Period
      /\ Lost' \in Nat /\ Lost' <= Period
  <2>1. WindowIsMet => Lost \in Nat /\ Lost <= Period
    BY LostNumber
  <2>2. Lost' \in Nat /\ Lost' <= Period
    BY WindowNumbers DEF Lost
  <2> QED
    BY <2>1, <2>2
<1> DEFINE Calm == UNCHANGED <<tod, date, alarms>>
<1>4. CASE LookAtCalendar
  <2>1. Calm /\ UNCHANGED <<trouble, round>> /\ loop = "look"
    BY <1>4, Zenon DEF LookAtCalendar, vars
  <2>2. Lost' = Lost
    BY <2>1 DEF Lost
  <2>3. round = 0
    BY <2>1 DEF DayInv, LoopInv
  <2>4. \/ loop' = "check"
        \/ /\ loop' = "sleep" /\ sleep' = LongSleep
           /\ ~IsHoliday(date) => ~TimeIsInsideWorkingHours(tod)
    BY <1>4, Zenon DEF LookAtCalendar
  <2> QED
    BY <1>1, <1>2, <1>3, <2>1, <2>2, <2>3, <2>4, WindowNumbers, OfficeNumbers
       DEF MeetingInv, NextLook, TimeIsInsideWorkingHours
<1>5. CASE WakeUp
  <2>1. /\ Calm /\ trouble' = trouble
        /\ loop = "sleep" /\ sleep = 0 /\ loop' = "look"
    BY <1>5, Zenon DEF WakeUp, vars
  <2>2. Lost' = Lost
    BY <2>1 DEF Lost
  <2> QED
    BY <1>3, <2>1, <2>2, OfficeNumbers DEF MeetingInv, NextLook
<1>6. CASE EndRound
  <2>1. /\ Calm /\ loop = "end"
        /\ loop' = "sleep" /\ sleep' = CheckInterval
    BY <1>6, Zenon DEF EndRound, RoundEnds, vars
  <2>2. Recovered
    BY <1>6, Zenon DEF EndRound
  <2>3. ~IsHoliday(date)
    BY <2>1 DEF DayInv, LoopInv
  <2>4. alarms = 0 /\ trouble' # "late" => tod + Window <= Time
    BY <1>1, <1>2, <2>1, <2>2, <2>3, WindowNumbers
       DEF MeetingInv, NextLook, Recovered
  <2> QED
    BY <1>1, <1>2, <1>3, <2>1, <2>4, WindowNumbers, OfficeNumbers
       DEF MeetingInv, NextLook, Period
<1>7. ASSUME CheckOther
      PROVE  MeetingInv'
  <2>1. /\ Calm /\ loop = "check" /\ monitor # Standup
    BY <1>7, OfficeNumbers DEF CheckOther, vars
  <2>2. CASE loop' = "check" /\ UNCHANGED <<round, trouble>>
    BY <2>1, <2>2 DEF MeetingInv, NextLook, Lost
  <2>3. CASE RoundIsLost
    <3>1. /\ loop' = "sleep" /\ sleep' = CheckInterval
          /\ trouble' = IF trouble = "none" THEN "lost" ELSE "late"
      BY <2>3, Zenon DEF RoundIsLost, RoundEnds
    <3> QED
      BY <1>1, <1>2, <2>1, <3>1, WindowNumbers, OfficeNumbers
         DEF MeetingInv, NextLook, Lost, Period
  <2>4. \/ loop' = "check" /\ UNCHANGED <<round, trouble>>
        \/ RoundIsLost
    BY <1>7, <2>1, Zenon DEF CheckOther, Passed, FailsAgain, FailsFirst
  <2> QED
    BY <2>2, <2>3, <2>4
<1>8. CASE CheckStandup
  <2>1. /\ loop = "check" /\ monitor = Standup
        /\ tod' = tod /\ date' = date
    BY <1>8, Zenon DEF CheckStandup, GetStatus, CompareTime, SetNextAlarm
  <2>2. ~IsHoliday(date)
    BY <2>1 DEF DayInv, LoopInv
  <2>3. /\ trouble # "late" => round <= Short
        /\ trouble # "late" /\ alarms = 0 => tod < Time + Window
    BY <1>1, <1>2, <1>3, <2>1, <2>2, WindowNumbers, OfficeNumbers
       DEF MeetingInv, NextLook
  <2>4. CASE GetStatus /\ at' = "out"
    <3>1. wait > 0 /\ alarms' = alarms
      BY <2>4 DEF GetStatus, TooEarly
    <3>2. loop' = "end"
      BY <1>8, <2>1, <2>4 DEF CheckStandup, Passed, SetNextAlarm, GetStatus
    <3>3. alarms = 0 => tod + wait <= Quiet
      BY <3>1 DEF DayInv, SilenceOfYesterday
    <3> QED
      BY <1>1, <1>2, <2>1, <3>1, <3>2, <3>3, WindowNumbers, OfficeNumbers
         DEF MeetingInv, NextLook
  <2>5. CASE at' = "compare"
    <3>1. UNCHANGED <<loop, trouble, round, sleep, alarms>>
      BY <1>8, <2>5, Zenon
         DEF CheckStandup, GetStatus, CompareTime, SetNextAlarm
    <3> QED
      BY <2>1, <3>1 DEF MeetingInv, NextLook, Lost
  <2>6. CASE CompareTime /\ at' = "set"
    <3>1. alarms' = alarms + 1
      BY <2>6 DEF CompareTime
    <3>2. loop' = loop /\ round' = round /\ trouble' = trouble
      BY <1>8, <2>6 DEF CheckStandup, CompareTime, GetStatus, SetNextAlarm
    <3> QED
      BY <1>2, <2>1, <2>3, <3>1, <3>2 DEF MeetingInv
  <2>7. CASE CompareTime /\ at' = "out"
    <3>1. ~InWindow /\ alarms' = alarms
      BY <2>7 DEF CompareTime
    <3>2. loop' = "end" /\ trouble' = trouble
      BY <1>8, <2>1, <2>7 DEF CheckStandup, Passed, SetNextAlarm, CompareTime
    <3> QED
      BY <1>1, <1>2, <2>1, <2>3, <3>1, <3>2, WindowNumbers, OfficeNumbers
         DEF MeetingInv, NextLook, InWindow
  <2>8. CASE SetNextAlarm
    <3>1. alarms' >= 1
      BY <2>8 DEF SetNextAlarm, DayInv, LoopInv
    <3>2. loop' # "check"
      BY <1>8, <2>1, <2>8
         DEF CheckStandup, SetNextAlarm, GetStatus, CompareTime, FailsAgain,
             FailsFirst, RoundIsLost, RoundEnds
    <3> QED
      BY <3>1, <3>2 DEF MeetingInv
  <2>9. at' \in {"out", "compare", "set"}
    BY <1>8 DEF CheckStandup, GetStatus, CompareTime, SetNextAlarm
  <2> QED
    BY <1>8, <2>4, <2>5, <2>6, <2>7, <2>8, <2>9
       DEF CheckStandup, GetStatus, CompareTime
<1>9. CASE DayTick \/ DayMidnight
  <2>1. /\ loop' = loop
        /\ \/ /\ loop = "sleep" /\ sleep > 0
              /\ sleep' = sleep - 1 /\ round' = round
           \/ loop = "check" /\ round' = round + 1 /\ tod # DayLength - 1
    BY <1>9, TimePasses, Zenon DEF DayInv
  <2>2. loop = "sleep" => round = 0
    BY DEF DayInv, LoopInv
  <2>3. CASE tod' = 0
    <3>1. loop = "sleep"
      BY <1>2, <1>9, <2>1, <2>3, TimePasses DEF DayInv
    <3>2. sleep <= CheckInterval \/ sleep <= LongSleep
      BY DEF DayInv, LoopInv
    <3>3. NextLook' = sleep' + Short + Lost'
      BY <2>1, <3>1 DEF NextLook
    <3> QED
      BY <1>1, <1>3, <2>1, <2>3, <3>1, <3>2, <3>3, WindowNumbers,
         OfficeNumbers DEF MeetingInv, Period
  <2>4. CASE /\ trouble' = IF round' > Short THEN "late" ELSE trouble
             /\ tod' = tod + 1 /\ date' = date /\ alarms' = alarms
    BY <1>1, <1>2, <1>3, <2>1, <2>2, <2>4, OfficeNumbers
       DEF MeetingInv, NextLook, Lost
  <2> QED
    BY <1>9, <2>3, <2>4, TroublePasses, Zenon
<1>10. CASE UNCHANGED dayVars
  BY <1>10 DEF dayVars, vars, MeetingInv, NextLook, Lost
<1> QED
  BY <1>4, <1>5, <1>6, <1>7, <1>8, <1>9, <1>10, Zenon DEF DayNext, Main

(* The meeting is announced on every day that is not free, if two short    *)
(* rounds fit into the window and the sleep of the night ends before it,   *)
(* unless two rounds in a row are lost to an exception or a round takes    *)
(* longer, after the last one that came to its end.                        *)
THEOREM MeetingIsAnnounced ==
  ASSUME WindowIsMet
  PROVE  DaySpec => []DailyMeeting
<1>1. DayInv /\ MeetingInv => DailyMeeting
  <2> SUFFICES ASSUME DayInv, MeetingInv,
                      ~IsHoliday(date), trouble # "late", Time + Window <= tod
               PROVE  alarms = 1
    BY DEF DailyMeeting
  <2>1. tod \in Nat /\ alarms \in Nat
    <3>1. TypeOK
      BY DEF DayInv, IInv
    <3> QED
      BY <3>1, DayAssumption DEF TypeOK
  <2>2. NextLook \in Nat
    <3>1. /\ loop \in {"look", "check", "end", "sleep"}
          /\ round \in 0 .. MaxRound /\ sleep \in Nat
      BY Zenon DEF DayInv, DayTypeOK
    <3> QED
      BY <3>1, LostNumber, WindowNumbers, OfficeNumbers
         DEF NextLook, MeetingInv
  <2>3. alarms # 0
    BY <2>1, <2>2, WindowNumbers DEF MeetingInv
  <2>4. alarms <= 1
    BY DEF DayInv, IInv, OncePerDay
  <2> QED
    BY <2>1, <2>3, <2>4
<1> QED
  BY <1>1, InitDayInv, NextDayInv, InitMeeting, NextMeeting, PTL DEF DaySpec
=============================================================================
