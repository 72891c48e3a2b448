--------------------------- MODULE MCBulkTransfer ---------------------------
(***************************************************************************)
(* Instances of BulkTransfer: dlls that lack at most two of the functions  *)
(* the program needs, and up to two devices.                               *)
(***************************************************************************)
EXTENDS BulkTransfer, FiniteSetsExt, SequencesExt

Needed ==
  {"usb_init", "usb_find_busses", "usb_find_devices", "usb_get_busses",
   "usb_open", "usb_close", "usb_set_configuration", "usb_claim_interface",
   "usb_release_interface", "usb_control_msg", "usb_bulk_setup_async",
   "usb_submit_async", "usb_reap_async", "usb_free_async"}

Lacking(n) == {Needed \ missing : missing \in kSubset(n, Needed)}

MCLibraries == UNION {Lacking(n) : n \in 0 .. 2}

MCDeviceLists ==
  UNION {[1 .. n -> {[vid |-> 1, pid |-> 1], [vid |-> 1, pid |-> 2],
                     [vid |-> 2, pid |-> 1]}] : n \in 0 .. 2}
=============================================================================
