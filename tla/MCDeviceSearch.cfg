\* Devices cannot be opened; transfers fail, are cut short, or bring another
\* descriptor.
SPECIFICATION Spec
CONSTANTS
  Buses <- MCBuses
  Commands <- MCCommands
  VendorName <- Vendor
  ProductName <- Product
  Faults = {"open", "transfer", "short", "type"}
INVARIANTS
  HandlesClosed
  FoundIsOurs
  OursIsFound
PROPERTIES
  ImplementsProcess
CHECK_DEADLOCK FALSE
