--------------------------- MODULE MCTransferQueue ---------------------------
(***************************************************************************)
(* Instances of TransferQueue.                                             *)
(***************************************************************************)
EXTENDS TransferQueue

AllModes == {"sync", "async"}
AllFaults == {"setup", "submit", "transfer", "cancel", "dead", "status"}

=============================================================================
