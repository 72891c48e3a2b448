\* any step may fail; a thread may begin late
SPECIFICATION LiveSpec
CONSTANTS
  Faults <- AllFaults
  Prompt = FALSE
INVARIANTS ThreadsAreSafe NothingKept
PROPERTY FailureEnds
CHECK_DEADLOCK FALSE
