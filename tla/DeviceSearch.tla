---------------------------- MODULE DeviceSearch ----------------------------
(***************************************************************************)
(* The controller program: it opens every USB device with the shared       *)
(* vendor and product numbers, asks for the two names, sends its request   *)
(* to the first device whose names are right, and closes what it opened.   *)
(***************************************************************************)
EXTENDS Naturals, Integers, Sequences

CONSTANTS
  Buses,        \* sequences of the devices that may be plugged in
  Commands,     \* what the program may be called with
  VendorName, ProductName,
  Faults        \* "open":     a device cannot be opened
                \* "transfer": a control transfer fails
                \* "short":    a transfer or a descriptor is cut short
                \* "type":     a device answers with another descriptor

(* A name is a sequence of UTF-16 units.  ids: the vendor and product      *)
(* numbers are those the program looks for.                                *)
Names == Seq(Nat)

ASSUME SearchAssumption ==
  /\ Buses \subseteq Seq([ids : BOOLEAN, vendor : Names, product : Names])
  /\ Commands \subseteq {"none", "on", "off", "other"}

USB_DT_STRING == 3

VARIABLES
  devices,     \* the devices in the order of usb_get_busses
  command,     \* argv[1], or "none"
  pc,
  place,       \* the place of dev among devices
  devVendor, devProduct,  \* the C strings of usbOpenDevice
  open,        \* places of the devices that are open
  exit,        \* the exit code, -1 as long as the program runs
  lamp,        \* what the device that got a request shows
  faulty       \* history: places of the devices that could not be opened,
               \* or did not answer with their names in full

vars == <<devices, command, pc, place, devVendor, devProduct, open, exit,
          lamp, faulty>>

dev == devices[place]

(* No C string: the buffer was never written.                              *)
Uninitialised == <<-1>>

-----------------------------------------------------------------------------
(* usbGetDescriptorString                                                  *)

Smaller(m, n) == IF m < n THEN m ELSE n

(* The characters before the first NUL.                                    *)
CString(s) ==
  IF \E i \in DOMAIN s : s[i] = 0
  THEN SubSeq(s, 1, (CHOOSE i \in DOMAIN s :
                       s[i] = 0 /\ \A j \in 1 .. i - 1 : s[j] # 0) - 1)
  ELSE s

(* Lossy conversion to ISO Latin1.                                         *)
Latin1(unit) == IF unit < 256 THEN unit ELSE 63

(* How many units are copied: the string is as long as the descriptor and  *)
(* the transfer, of which the first unit is the header.                    *)
UnitsRead(answer) ==
  LET units == Smaller(answer.rval, answer.length) \div 2
  IN IF units = 0 THEN 0 ELSE units - 1

(* What the buffer holds afterwards: an answer that is not a string leaves *)
(* it as it was, and is no error.                                          *)
Decoded(answer, old) ==
  IF answer.type # USB_DT_STRING
  THEN old
  ELSE CString([i \in 1 .. UnitsRead(answer) |-> Latin1(answer.units[i])])

Failed(answer) == answer.rval < 0

(* The answers of a device that has a name.                                *)
Answer(rval, length, type, units) ==
  [rval |-> rval, length |-> length, type |-> type, units |-> units]

Whole(name) == 2 * Len(name) + 2

Answers(name) ==
  {Answer(Whole(name), Whole(name), USB_DT_STRING, name)}
    \cup (IF "transfer" \in Faults
          THEN {Answer(-1, 0, USB_DT_STRING, <<>>)} ELSE {})
    \cup (IF "short" \in Faults
          THEN {Answer(r, Whole(name), USB_DT_STRING, name) :
                  r \in 0 .. Whole(name)}
            \cup {Answer(Whole(name), l, USB_DT_STRING, name) :
                    l \in 0 .. Whole(name)}
            \cup {Answer(r, Whole(name), 0, name) : r \in 0 .. 1}
          ELSE {})
    \cup (IF "type" \in Faults
          THEN {Answer(Whole(name), Whole(name), 0, name)} ELSE {})

Honest(answer, name) ==
  answer = Answer(Whole(name), Whole(name), USB_DT_STRING, name)

(* strcmp with a buffer that was never written may give any answer.        *)
Equal(string, name) ==
  IF string = Uninitialised THEN BOOLEAN ELSE {string = name}

-----------------------------------------------------------------------------
Init ==
  /\ devices \in Buses
  /\ command \in Commands
  /\ pc = "main"
  /\ place = 0
  /\ devVendor = Uninitialised /\ devProduct = Uninitialised
  /\ open = {}
  /\ exit = -1
  /\ lamp \in BOOLEAN
  /\ faulty = {}

Exit(code) == pc' = "done" /\ exit' = code

(* main without an argument prints its usage.                              *)
Usage ==
  /\ pc = "main"
  /\ command = "none"
  /\ Exit(1)
  /\ UNCHANGED <<devices, command, place, devVendor, devProduct, open, lamp,
                 faulty>>

FindDevices ==
  /\ pc = "main"
  /\ command # "none"
  /\ pc' = "next"
  /\ UNCHANGED <<devices, command, place, devVendor, devProduct, open, exit,
                 lamp, faulty>>

(* The next device that has the right numbers.                             *)
NextDevice ==
  /\ pc = "next"
  /\ place < Len(devices)
  /\ place' = place + 1
  /\ pc' = IF devices[place + 1].ids THEN "open" ELSE "next"
  /\ UNCHANGED <<devices, command, devVendor, devProduct, open, exit, lamp,
                 faulty>>

(* Mutant: the search ends at a device that cannot be opened.              *)
OpenOrEnd ==
  /\ pc = "open"
  /\ \/ /\ open' = open \cup {place}
        /\ pc' = "vendor"
        /\ UNCHANGED <<exit, faulty>>
     \/ /\ "open" \in Faults
        /\ faulty' = faulty \cup {place}
        /\ Exit(1)
        /\ UNCHANGED open
  /\ UNCHANGED <<devices, command, place, devVendor, devProduct, lamp>>

Open ==
  /\ pc = "open"
  /\ \/ open' = open \cup {place} /\ pc' = "vendor" /\ UNCHANGED faulty
     \/ /\ "open" \in Faults
        /\ pc' = "next"
        /\ faulty' = faulty \cup {place}
        /\ UNCHANGED open
  /\ UNCHANGED <<devices, command, place, devVendor, devProduct, exit, lamp>>

(* An answer of the device: an error ends the work with this device.       *)
Asked(answer, name, next) ==
  /\ faulty' = IF Honest(answer, name) THEN faulty ELSE faulty \cup {place}
  /\ IF Failed(answer)
     THEN open' = open \ {place} /\ pc' = "next"
     ELSE pc' = next /\ UNCHANGED open

QueryVendor ==
  /\ pc = "vendor"
  /\ \E answer \in Answers(dev.vendor) :
       /\ Asked(answer, dev.vendor, "product")
       /\ devVendor' = IF Failed(answer) THEN devVendor
                       ELSE Decoded(answer, devVendor)
  /\ UNCHANGED <<devices, command, place, devProduct, exit, lamp>>

QueryProduct ==
  /\ pc = "product"
  /\ \E answer \in Answers(dev.product) :
       /\ Asked(answer, dev.product, "compare")
       /\ devProduct' = IF Failed(answer) THEN devProduct
                        ELSE Decoded(answer, devProduct)
  /\ UNCHANGED <<devices, command, place, devVendor, exit, lamp>>

(* Mutant: a device with the wrong names stays open.                       *)
CompareKeepsOpen ==
  /\ pc = "compare"
  /\ \E v \in Equal(devVendor, VendorName),
       p \in Equal(devProduct, ProductName) :
       pc' = IF v /\ p THEN "send" ELSE "next"
  /\ UNCHANGED <<devices, command, place, devVendor, devProduct, open, exit,
                 lamp, faulty>>

(* Mutant: one name is enough.                                             *)
CompareEither ==
  /\ pc = "compare"
  /\ \E v \in Equal(devVendor, VendorName),
       p \in Equal(devProduct, ProductName) :
       IF v \/ p
       THEN pc' = "send" /\ UNCHANGED open
       ELSE pc' = "next" /\ open' = open \ {place}
  /\ UNCHANGED <<devices, command, place, devVendor, devProduct, exit, lamp,
                 faulty>>

Compare ==
  /\ pc = "compare"
  /\ \E v \in Equal(devVendor, VendorName),
       p \in Equal(devProduct, ProductName) :
       IF v /\ p
       THEN pc' = "send" /\ UNCHANGED open
       ELSE pc' = "next" /\ open' = open \ {place}
  /\ UNCHANGED <<devices, command, place, devVendor, devProduct, exit, lamp,
                 faulty>>

NotFound ==
  /\ pc = "next"
  /\ place = Len(devices)
  /\ Exit(1)
  /\ UNCHANGED <<devices, command, place, devVendor, devProduct, open, lamp,
                 faulty>>

(* Mutant: a request that failed, or seemed to, is sent again.             *)
SendRetries ==
  /\ pc = "send"
  /\ \/ /\ command \in {"on", "off"}
        /\ lamp' = (command = "on")
        /\ pc' \in {"close", "send"}
     \/ /\ command = "other"
        /\ pc' = "close"
        /\ UNCHANGED lamp
  /\ UNCHANGED <<devices, command, place, devVendor, devProduct, open, exit,
                 faulty>>

(* The request that switches the lamp; when it fails, the lamp may have    *)
(* been switched.  The error is printed, and no other use is made of it.   *)
Send ==
  /\ pc = "send"
  /\ pc' = "close"
  /\ \/ command \in {"on", "off"} /\ lamp' = (command = "on")
     \/ /\ command = "other" \/ "transfer" \in Faults
        /\ UNCHANGED lamp
  /\ UNCHANGED <<devices, command, place, devVendor, devProduct, open, exit,
                 faulty>>

Close ==
  /\ pc = "close"
  /\ open' = open \ {place}
  /\ Exit(0)
  /\ UNCHANGED <<devices, command, place, devVendor, devProduct, lamp, faulty>>

Next ==
  \/ Usage \/ FindDevices \/ NextDevice \/ Open \/ QueryVendor \/ QueryProduct
  \/ Compare \/ NotFound \/ Send \/ Close

(* Each call of the library returns, if only because its time is out.      *)
Spec == Init /\ [][Next]_vars /\ WF_vars(Next)

-----------------------------------------------------------------------------
Places == 1 .. Len(devices)
Found == pc \in {"send", "close"} \/ (pc = "done" /\ exit = 0)

(* dev is the lamp of this program.                                        *)
IsOurs(d) ==
  /\ devices[d].ids
  /\ devices[d].vendor = VendorName
  /\ devices[d].product = ProductName

(* The values that the variables of the code and of the history take.      *)
TypeOK ==
  /\ devices \in Buses /\ command \in Commands
  /\ pc \in {"main", "next", "open", "vendor", "product", "compare", "send",
             "close", "done"}
  /\ place \in 0 .. Len(devices)
  /\ open \subseteq Places /\ faulty \subseteq Places
  /\ exit \in {-1, 0, 1}
  /\ lamp \in BOOLEAN

(* usb_open and usb_close: whatever fails, only the device at hand is open *)
(* while the search goes on, it is open whenever it is used, and nothing   *)
(* is left open at the end.                                                *)
HandlesClosed ==
  open = IF pc \in {"vendor", "product", "compare", "send", "close"}
         THEN {place} ELSE {}

(* usbOpenDevice: the numbers are shared with other people's devices; the  *)
(* request goes to one that has both names, in full, or that answered      *)
(* itself with something else than its names.  What devices before it have *)
(* answered, which is left in the buffers, makes no difference to one that *)
(* answers properly.                                                       *)
FoundIsOurs ==
  Found => devices[place].ids /\ (IsOurs(place) \/ place \in faulty)

(* Neither other devices nor those that cannot be opened or asked keep the *)
(* program from finding its own.                                           *)
OursIsFound ==
  (pc = "done" /\ exit = 1 /\ command # "none") =>
    \A d \in Places : IsOurs(d) => d \in faulty

(* Seen from FlashLight, the program switches the lamp once or gives up.   *)
Process == INSTANCE ControllerProcess WITH
  pending <- IF command \in {"on", "off"} /\ pc \notin {"close", "done"}
             THEN command ELSE "idle"

(* The controller is a process as FlashLight assumes it.                   *)
ImplementsProcess == Process!Spec
=============================================================================
