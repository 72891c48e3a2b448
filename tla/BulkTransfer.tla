---------------------------- MODULE BulkTransfer ----------------------------
(***************************************************************************)
(* The example bulk.c, as it is configured: it opens the first device with *)
(* its numbers, configures it, claims its interface and reads once with    *)
(* the asynchronous functions.  Every call goes through LibusbDyn and may  *)
(* fail; the device may send, stay silent, or be pulled out.               *)
(***************************************************************************)
EXTENDS LibusbDyn, Sequences

CONSTANTS
  DeviceLists,  \* what may be plugged in: sequences of [vid, pid]
  MY_VID, MY_PID,
  BUF_SIZE      \* bytes to read

ASSUME BulkAssumption ==
  /\ DeviceLists \subseteq Seq([vid : Int, pid : Int])
  /\ BUF_SIZE \in Nat

VARIABLES
  step,
  plugged,   \* the devices
  pulled,    \* are they gone?
  busses,    \* the list of usb_get_busses: 0 none, 1 busses, 2 devices
  dev,       \* the device whose handle main holds, 0 for NULL
  open,      \* the devices that the library holds open
  configured,
  claimed,
  async,     \* is there an async_context?
  flight,    \* how the library is getting on with it
  arrived,   \* bytes that the device put into tmp
  result,
  said       \* what main printed of the read: "", "error" or "success"

world == <<plugged, pulled>>
rest == <<busses, dev, open, configured, claimed>>
reading == <<async, flight, arrived, result, said>>
bulkVars == <<lib, step, world, rest, reading>>

Failures == {-1}

Flags ==
  /\ pulled \in BOOLEAN /\ configured \in BOOLEAN
  /\ claimed \in BOOLEAN /\ async \in BOOLEAN

Values ==
  /\ library \in Libraries \cup {NoLibrary}
  /\ pointers = {} \/ (library # NoLibrary /\ pointers = Names \cap library)
  /\ step \in {"init", "busses", "devices", "open", "config", "claim",
               "control", "setup", "submit", "reap", "free", "report",
               "release", "close", "done"}
  /\ plugged \in DeviceLists /\ busses \in 0 .. 2
  /\ dev \in {0} \cup DOMAIN plugged /\ open \subseteq DOMAIN plugged
  /\ flight \in {"none", "flying", "done", "failed"}
  /\ arrived \in 0 .. BUF_SIZE /\ result \in Int
  /\ said \in {"", "error", "success"}

(* The values that the variables take.                                     *)
BulkTypeOK == Flags /\ Values

BulkInit ==
  /\ LibraryInit
  /\ step = "init" /\ plugged \in DeviceLists /\ pulled = FALSE
  /\ busses = 0 /\ dev = 0 /\ open = {}
  /\ configured = FALSE /\ claimed = FALSE
  /\ async = FALSE /\ flight = "none"
  /\ arrived = 0 /\ result = 0 /\ said = ""

-----------------------------------------------------------------------------
(* usb_init, usb_find_busses and usb_find_devices; nothing is looked at    *)
(* that they return.                                                       *)
Load ==
  /\ step = "init" /\ usb_init /\ step' = "busses"
  /\ UNCHANGED <<world, rest, reading>>

FindBusses ==
  /\ step = "busses" /\ step' = "devices"
  /\ \/ busses' = busses
     \/ Reaches("usb_find_busses") /\ busses' = 1
  /\ UNCHANGED <<lib, world, dev, open, configured, claimed, reading>>

FindDevices ==
  /\ step = "devices" /\ step' = "open"
  /\ \/ busses' = busses
     \/ busses = 1 /\ Reaches("usb_find_devices") /\ busses' = 2
  /\ UNCHANGED <<lib, world, dev, open, configured, claimed, reading>>

Matches(d) == d.vid = MY_VID /\ d.pid = MY_PID

(* open_dev: the first device of the list that matches, and no other.      *)
Listed == IF Reaches("usb_get_busses") /\ busses = 2 THEN DOMAIN plugged
          ELSE {}
Candidates == {i \in Listed : Matches(plugged[i])}

First(S) == CHOOSE i \in S : \A j \in S : i <= j

OpenDev ==
  /\ step = "open"
  /\ \E d \in IF Candidates = {} THEN {0}
              ELSE Pointer("usb_open", {First(Candidates), 0}, 0) :
       /\ pulled => d = 0
       /\ dev' = d /\ open' = open \cup ({d} \ {0})
       /\ step' = IF d = 0 THEN "done" ELSE "config"
  /\ UNCHANGED <<lib, world, busses, configured, claimed, reading>>

-----------------------------------------------------------------------------
(* The results of a request to the device: it fails if that is gone.       *)
Request(f, results) ==
  Number(f, IF pulled THEN Failures ELSE results \cup Failures)

(* usb_close: the driver takes the claim back with the handle.             *)
usb_close ==
  IF Reaches("usb_close") THEN open' = open \ {dev} /\ claimed' = FALSE
  ELSE UNCHANGED <<open, claimed>>

SetConfiguration ==
  /\ step = "config"
  /\ \E r \in Request("usb_set_configuration", {0}) :
       /\ configured' = (r = 0)
       /\ IF r < 0 THEN usb_close /\ step' = "done"
          ELSE UNCHANGED <<open, claimed>> /\ step' = "claim"
  /\ UNCHANGED <<lib, world, busses, dev, reading>>

ClaimInterface ==
  /\ step = "claim"
  /\ \E r \in Request("usb_claim_interface", {0}) :
       IF r < 0 THEN usb_close /\ step' = "done"
       ELSE claimed' = TRUE /\ UNCHANGED open /\ step' = "control"
  /\ UNCHANGED <<lib, world, busses, dev, configured, reading>>

(* The test type is set; whether it was is overwritten by the read.        *)
ControlMsg ==
  /\ step = "control" /\ step' = "setup"
  /\ result' \in Request("usb_control_msg", {1})
  /\ UNCHANGED <<lib, world, rest, async, flight, arrived, said>>

-----------------------------------------------------------------------------
(* transfer_bulk_async                                                     *)
(* Mutant: it returns what was there before when it cannot set up.         *)
SetupFailsSilently ==
  /\ step = "setup"
  /\ \E r \in Number("usb_bulk_setup_async", {0} \cup Failures) :
       /\ async' = (r >= 0)
       /\ result' = IF r < 0 THEN result ELSE r
       /\ step' = IF r < 0 THEN "report" ELSE "submit"
  /\ UNCHANGED <<lib, world, rest, flight, arrived, said>>

Setup ==
  /\ step = "setup"
  /\ \E r \in Number("usb_bulk_setup_async", {0} \cup Failures) :
       /\ result' = r
       /\ async' = (r >= 0)
       /\ step' = IF r < 0 THEN "report" ELSE "submit"
  /\ UNCHANGED <<lib, world, rest, flight, arrived, said>>

(* The context is freed, whatever its transfer does.                       *)
usb_free_async == async' = (async /\ ~Reaches("usb_free_async"))

(* Mutant: a transfer that cannot be submitted keeps its context.          *)
SubmitLeaks ==
  /\ step = "submit"
  /\ \E r \in Request("usb_submit_async", {0}) :
       /\ result' = r
       /\ flight' = IF r < 0 THEN "none" ELSE "flying"
       /\ step' = IF r < 0 THEN "report" ELSE "reap"
  /\ UNCHANGED <<lib, world, rest, async, arrived, said>>

Submit ==
  /\ step = "submit"
  /\ \E r \in Request("usb_submit_async", {0}) :
       /\ result' = r
       /\ IF r < 0
          THEN usb_free_async /\ UNCHANGED flight /\ step' = "report"
          ELSE flight' = "flying" /\ UNCHANGED async /\ step' = "reap"
  /\ UNCHANGED <<lib, world, rest, arrived, said>>

(* usb_reap_async: the transfer is over, or it is cancelled in time.  If   *)
(* the dll lacks the function, the transfer is left as it is.              *)
ReapAsync ==
  /\ step = "reap" /\ step' = "free"
  /\ result' \in Number("usb_reap_async",
                        IF flight = "done" THEN {arrived} ELSE Failures)
  /\ flight' = IF Reaches("usb_reap_async") THEN "none" ELSE flight
  /\ UNCHANGED <<lib, world, rest, async, arrived, said>>

Free ==
  /\ step = "free" /\ step' = "report" /\ usb_free_async
  /\ UNCHANGED <<lib, world, rest, flight, arrived, result, said>>

Report ==
  /\ step = "report" /\ step' = "release"
  /\ said' = IF result < 0 THEN "error" ELSE "success"
  /\ UNCHANGED <<lib, world, rest, async, flight, arrived, result>>

ReleaseInterface ==
  /\ step = "release" /\ step' = "close"
  /\ \E r \in Request("usb_release_interface", {0}) :
       claimed' = (claimed /\ r < 0)
  /\ UNCHANGED <<lib, world, busses, dev, open, configured, reading>>

Close ==
  /\ step = "close" /\ step' = "done"
  /\ usb_close
  /\ UNCHANGED <<lib, world, busses, dev, configured, reading>>

-----------------------------------------------------------------------------
(* The device sends into tmp, as many bytes as it likes.                   *)
Deliver ==
  /\ flight = "flying" /\ ~pulled
  /\ arrived' \in 0 .. BUF_SIZE /\ flight' = "done"
  /\ UNCHANGED <<lib, step, world, rest, async, result, said>>

(* Someone pulls it out: a transfer under way fails.                       *)
Pull ==
  /\ ~pulled /\ pulled' = TRUE /\ step # "done"
  /\ flight' = IF flight = "flying" THEN "failed" ELSE flight
  /\ UNCHANGED <<lib, step, plugged, rest, async, arrived, result, said>>

Main ==
  \/ Load \/ FindBusses \/ FindDevices \/ OpenDev \/ SetConfiguration
  \/ ClaimInterface \/ ControlMsg \/ Setup \/ Submit \/ ReapAsync \/ Free
  \/ Report \/ ReleaseInterface \/ Close

BulkNext == Main \/ Deliver \/ Pull

(* Each call returns, the one that waits after its time at the latest.     *)
BulkSpec == BulkInit /\ [][BulkNext]_bulkVars /\ WF_bulkVars(Main)

-----------------------------------------------------------------------------

(* Whatever fails or is missing, main ends with nothing left: no device is *)
(* open, or claimed, and no context is kept, unless the dll lacks the very *)
(* function that gives it back.                                            *)
GivenBack ==
  step = "done" =>
    /\ open = {} \/ ~Reaches("usb_close")
    /\ ~claimed \/ ~Reaches("usb_close")
    /\ ~async \/ ~Reaches("usb_free_async")

(* A success that is printed is one: the device sent as many bytes as main *)
(* says, and nothing is under way any longer that could change them.       *)
SuccessIsTrue == said = "success" => result = arrived /\ flight = "none"

=============================================================================
