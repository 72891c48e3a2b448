\* up to two devices and three arguments
SPECIFICATION SetupSpec
CONSTANTS
  CommandLines <- Lines
  Busses <- OneOrTwo
  MaxOutstanding = 10
INVARIANTS EndpointsFit NoneMissed
CHECK_DEADLOCK FALSE
