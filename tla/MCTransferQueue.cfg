\* three buffers, one retry, everything may fail and the user resets the status
SPECIFICATION LiveSpec
CONSTANTS
  BufferCount = 3
  Retry = 1
  Modes <- AllModes
  Faults <- AllFaults
INVARIANTS RingOrder NothingInFlight
PROPERTIES ImplementsFifo CancelEnds DeadDeviceEnds
CHECK_DEADLOCK FALSE
