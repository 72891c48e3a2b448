\* Every fault may happen; threads and processes are scheduled fairly.
SPECIFICATION FairSpec
CONSTANTS
  Timers = {t1, t2, t3}
  Main = Main
  Nobody = Nobody
  Procs = {p1, p2}
  NoProc = NoProc
  Durations = {0, 1, 2}
  Faults <- AllFaults
INVARIANTS
  LampFollowsStatus
  NoStaleTimer
  AlarmHasTimer
PROPERTIES
  ImplementsCycle
  AlarmEnds
  CallsReturn
