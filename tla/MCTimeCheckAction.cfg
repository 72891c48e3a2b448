SPECIFICATION Spec
CONSTANTS
  DayLength = 24
  Time = 14
  Window = 3
  Quiet = 8
  Gap = 2
INVARIANTS
  OncePerDay
  DailyAlarm
