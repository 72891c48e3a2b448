\* No fault happens.
SPECIFICATION FairSpec
CONSTANTS
  Timers = {t1, t2}
  Main = Main
  Nobody = Nobody
  Procs = {p1, p2}
  NoProc = NoProc
  Faults = {}
  NumMonitors = 2
  FailAtNetworkException <- MCFailAtNetworkException
  Duration <- MCDuration
  CheckInterval = 1
  LongSleep = 1
PROPERTIES
  FailureIsLit
  LampGoesOut
