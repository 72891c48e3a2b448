\* January to March 2014
SPECIFICATION DaySpec
CONSTANTS
  DayLength = 54
  OfficeHoursStart = 16
  OfficeHoursEnd = 42
  Time = 31
  Window = 6
  Quiet = 14
  Gap = 1
  NumOthers = 2
  Throwing = {1, 2, 3}
  Duration <- MCDuration
  CheckInterval = 3
  LongSleep = 8
  MaxRound = 3
  Short = 2
  LastDate = 90
INVARIANTS  QuietAtNight
PROPERTY SeenForAWhile
CHECK_DEADLOCK FALSE
