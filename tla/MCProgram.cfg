\* Every fault may happen; threads and processes are scheduled fairly.
SPECIFICATION FairSpec
CONSTANTS
  Timers = {t1, t2}
  Main = Main
  Nobody = Nobody
  Procs = {p1, p2}
  NoProc = NoProc
  Faults = {"launch", "device", "hang", "reset", "restart"}
  NumMonitors = 2
  FailAtNetworkException <- MCFailAtNetworkException
  Duration <- MCDuration
  CheckInterval = 1
  LongSleep = 2
INVARIANTS
  CancelledOnlyWhenAllPass
  AllClearIsQuiet
PROPERTY LoopRecurs
