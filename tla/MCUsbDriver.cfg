\* Transfers are given up, acknowledgements and packets are lost, the bus is
\* reset and the device starts anew.
SPECIFICATION Spec
CONSTANTS
  Requests <- MCRequests
  Faults = {"ack", "in", "timeout", "reset", "restart"}
INVARIANTS
  TransmitApart
  NextPacket
  AddressAgrees
  SetupWelcome
PROPERTIES
  ReceivedKept
  ImplementsControlTransfer
