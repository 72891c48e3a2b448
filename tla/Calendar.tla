------------------------------ MODULE Calendar ------------------------------
(***************************************************************************)
(* Calendar.cs: the days and the hours at which the program checks         *)
(* anything.  A date is the number of a day, 1 for the 1.1.2014.           *)
(***************************************************************************)
EXTENDS Naturals

CONSTANTS
  OfficeHoursStart, OfficeHoursEnd  \* 8:20 and 17:00

(* The number of a day of 2014.                                            *)
DaysBefore == <<0, 31, 59, 90, 120, 151, 181, 212, 243, 273, 304, 334>>
DayOf2014(day, month) == DaysBefore[month] + day

(* 0 for Sunday; the 1.1.2014 was a Wednesday.                             *)
DayOfWeek(date) == (date + 2) % 7

FreeNonHolidayDays ==
  {DayOf2014(d[1], d[2]) :
     d \in {<<1, 1>>, <<6, 1>>, <<21, 4>>, <<1, 5>>, <<2, 5>>, <<8, 6>>,
            <<19, 6>>, <<15, 8>>, <<11, 11>>, <<24, 12>>, <<25, 12>>,
            <<26, 12>>}}

IsHoliday(date) ==
  DayOfWeek(date) \in {0, 6} \/ date \in FreeNonHolidayDays

(* Mutant: there is no end.                                                *)
TimeIsAfterStart(time) == OfficeHoursStart <= time

TimeIsInsideWorkingHours(time) ==
  OfficeHoursStart <= time /\ time <= OfficeHoursEnd
=============================================================================
