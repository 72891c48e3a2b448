------------------------------ MODULE LibusbDyn ------------------------------
(***************************************************************************)
(* libusb_dyn.c: the library that a program is linked with, which finds    *)
(* the functions of the installed libusb0.dll when the program runs.  The  *)
(* dll may be missing, and a version of it may lack functions: a call is   *)
(* then an error of the call and never of the program.                     *)
(***************************************************************************)
EXTENDS Integers, FiniteSets

CONSTANTS
  Libraries,  \* the versions of the dll, as the functions they export
  NoLibrary   \* none is installed

VARIABLES
  library,   \* what is installed
  pointers   \* the functions whose pointer is not NULL

lib == <<library, pointers>>

Names ==
  {"usb_open", "usb_close", "usb_get_string", "usb_get_string_simple",
   "usb_get_descriptor_by_endpoint", "usb_get_descriptor", "usb_bulk_write",
   "usb_bulk_read", "usb_interrupt_write", "usb_interrupt_read",
   "usb_control_msg", "usb_set_configuration", "usb_claim_interface",
   "usb_release_interface", "usb_set_altinterface", "usb_resetep",
   "usb_clear_halt", "usb_reset", "usb_reset_ex", "usb_strerror", "usb_init",
   "usb_set_debug", "usb_find_busses", "usb_find_devices", "usb_device",
   "usb_get_busses", "usb_install_service_np", "usb_uninstall_service_np",
   "usb_install_driver_np", "usb_get_version", "usb_isochronous_setup_async",
   "usb_bulk_setup_async", "usb_interrupt_setup_async", "usb_submit_async",
   "usb_reap_async", "usb_free_async"}

NullPointers == pointers = {}

LibraryInit == library \in Libraries \cup {NoLibrary} /\ NullPointers

usb_init ==
  /\ pointers' = IF library = NoLibrary THEN pointers ELSE Names \cap library
  /\ UNCHANGED library

ENOFILE == -2

(* Does a call of function f reach the dll?                                *)
Reaches(f) == f \in pointers

(* What a call of f that returns a number may return, results from the dll *)
(* or the error of the wrapper; and one that returns a pointer.            *)
Number(f, results) == IF Reaches(f) THEN results ELSE {ENOFILE}
Pointer(f, results, null) == IF Reaches(f) THEN results ELSE {null}
=============================================================================
