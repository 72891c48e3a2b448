---------------------------- MODULE MCFlashLight ----------------------------
(* Small instances of FlashLight for TLC.                                  *)
EXTENDS FlashLight

AllFaults == {"launch", "device", "hang", "reset", "restart"}
=============================================================================
