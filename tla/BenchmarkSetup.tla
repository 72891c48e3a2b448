--------------------------- MODULE BenchmarkSetup ---------------------------
(***************************************************************************)
(* How the benchmark program comes to its tests: it reads its arguments,   *)
(* opens a device, by its numbers or from a list, and finds the endpoints  *)
(* of the read and the write test in an interface of the device.           *)
(***************************************************************************)
EXTENDS Integers, Sequences, FiniteSetsExt

CONSTANTS
  CommandLines,  \* sequences of arguments [name |-> ..., value |-> ...]
  Busses,        \* what may be plugged in: sequences of devices
  MaxOutstanding  \* MAX_OUTSTANDING_TRANSFERS

(* The bits of an endpoint's address: USB_ENDPOINT_ADDRESS_MASK, 0x0f, and *)
(* USB_ENDPOINT_DIR_MASK, 0x80, which is set for reading.                  *)
Addresses == 0 .. 255
Number(address) == address % 16
Direction(address) == 128 * (address \div 128)
DirectionOf(e) == IF e = "read" THEN 128 ELSE 0

(* The first of the settings of an interface is the current one; divides   *)
(* says of an endpoint that its packet size divides the buffer size.       *)
EndpointDescriptors ==
  [address : Addresses, type : {"control", "bulk", "interrupt", "iso"},
   divides : BOOLEAN]
InterfaceSettings == [alt : Nat, endpoints : Seq(EndpointDescriptors)]
Interfaces == [number : Nat, settings : Seq(InterfaceSettings)]

ASSUME SetupAssumption ==
  /\ CommandLines \subseteq Seq([name : STRING, value : Int])
  /\ Busses \subseteq Seq([ours : BOOLEAN, config : Seq(Interfaces)])

VARIABLES
  args,     \* the command line
  argument, \* the argument that is read next
  test,     \* BENCHMARK_TEST_PARAM
  devices,  \* the devices of all busses
  place,    \* the device that is looked at next
  open,     \* the devices with an open handle
  listed,   \* validDevices
  faulty,   \* the devices that could not be opened
  chosen,   \* Device and DeviceHandle; 0 if there is none
  endpoint, \* the endpoints of the two tests, <<>> or one
  step

TestParams ==
  [mode : {"sync", "async"}, bufferCount : Int, ep : 0 .. 15,
   intf : Int, altf : Int, tests : SUBSET {"read", "write"}, list : BOOLEAN]

(* Where main is; "invalid" and "failed" are ends, "ready" goes on with    *)
(* the tests.                                                              *)
SetupSteps ==
  {"arguments", "invalid", "open", "list", "createRead", "createWrite",
   "ready", "done", "failed"}

(* The values that the variables take.                                     *)
SetupTypeOK ==
  /\ args \in CommandLines /\ argument \in Nat \ {0}
  /\ test \in TestParams
  /\ devices \in Busses /\ place \in Nat \ {0}
  /\ open \subseteq DOMAIN devices /\ faulty \subseteq DOMAIN devices
  /\ listed \in Seq(DOMAIN devices)
  /\ chosen \in {0} \cup DOMAIN devices
  /\ endpoint \in [{"read", "write"} -> Seq(EndpointDescriptors)]
  /\ step \in SetupSteps

found == <<open, listed, faulty, chosen>>
setupVars == <<args, argument, test, devices, place, found, endpoint, step>>

-----------------------------------------------------------------------------
SetTestDefaults ==
  [mode |-> "sync", bufferCount |-> 1, ep |-> 0, intf |-> 0, altf |-> 0,
   tests |-> {"read", "write"}, list |-> FALSE]

SetupInit ==
  /\ args \in CommandLines
  /\ argument = 1
  /\ test = SetTestDefaults
  /\ devices \in Busses
  /\ place = 1
  /\ open = {} /\ listed = <<>> /\ faulty = {} /\ chosen = 0
  /\ endpoint = [e \in {"read", "write"} |-> <<>>]
  /\ step = "arguments"

(* Arguments that do not change what is modelled here.                     *)
Others ==
  {"vid=", "pid=", "retry=", "buffersize=", "size=", "timeout=", "refresh=",
   "isopacketsize=", "priority=lowest", "priority=belownormal",
   "priority=normal", "priority=abovenormal", "priority=highest",
   "notestselect", "verify", "verifydetails"}

Known == Others \cup {"buffercount=", "intf=", "altf=", "ep=", "mode=sync",
                      "mode=async", "read", "write", "loop", "list"}

(* Mutant: the number of an endpoint is taken as it is given.              *)
Unmasked(value) == value

(* Ep &= 0xf                                                               *)
Masked(value) == Number(value)

(* ParseBenchmarkArgs, one argument: more than one buffer means async.     *)
Parsed(t, a) ==
  CASE a.name = "buffercount=" ->
         [t EXCEPT !.bufferCount = a.value,
                   !.mode = IF a.value > 1 THEN "async" ELSE @]
    [] a.name = "intf=" -> [t EXCEPT !.intf = a.value]
    [] a.name = "altf=" -> [t EXCEPT !.altf = a.value]
    [] a.name = "ep=" -> [t EXCEPT !.ep = Masked(a.value)]
    [] a.name = "mode=sync" -> [t EXCEPT !.mode = "sync"]
    [] a.name = "mode=async" -> [t EXCEPT !.mode = "async"]
    [] a.name \in {"read", "write"} -> [t EXCEPT !.tests = {a.name}]
    [] a.name = "loop" -> [t EXCEPT !.tests = {"read", "write"}]
    [] a.name = "list" -> [t EXCEPT !.list = TRUE]
    [] a.name \in Others -> t

(* ShowHelp: an empty command line is no command.                          *)
ShowHelp ==
  /\ step = "arguments" /\ args = <<>>
  /\ step' = "invalid"
  /\ UNCHANGED <<args, argument, test, devices, place, found, endpoint>>

ParseArgument ==
  /\ step = "arguments"
  /\ argument <= Len(args)
  /\ IF args[argument].name \in Known
     THEN /\ test' = Parsed(test, args[argument])
          /\ argument' = argument + 1
          /\ UNCHANGED step
     ELSE step' = "invalid" /\ UNCHANGED <<test, argument>>
  /\ UNCHANGED <<args, devices, place, found, endpoint>>

ValidateArguments ==
  /\ step = "arguments"
  /\ args # <<>> /\ argument > Len(args)
  /\ step' = IF test.bufferCount \notin 1 .. MaxOutstanding THEN "invalid"
           ELSE IF test.list THEN "list" ELSE "open"
  /\ UNCHANGED <<args, argument, test, devices, place, found, endpoint>>

-----------------------------------------------------------------------------
(* usb_find_interface looks at the current settings only; 0 for NULL.  An  *)
(* alternate setting of -1 stands for any.                                 *)
First(S) == IF S = {} THEN 0 ELSE Min(S)

FirstInterface(config) ==
  First({i \in DOMAIN config : config[i].settings # <<>>})

FindInterface(config, number, alt) ==
  First({i \in DOMAIN config :
           /\ config[i].settings # <<>>
           /\ config[i].number = number
           /\ alt = -1 \/ config[i].settings[1].alt = alt})

Interface(d) == FindInterface(devices[d].config, test.intf, test.altf)

(* Mutant: a device without the interface ends the search.                 *)
OpenOrEnd ==
  /\ step = "open"
  /\ place <= Len(devices)
  /\ place' = place + 1
  /\ IF ~devices[place].ours
     THEN UNCHANGED <<found, step>>
     ELSE \/ faulty' = faulty \cup {place} /\ UNCHANGED <<open, chosen, step>>
          \/ /\ Interface(place) # 0
             /\ chosen' = place /\ open' = open \cup {place}
             /\ step' = "createRead" /\ UNCHANGED faulty
          \/ /\ Interface(place) = 0
             /\ step' = "done" /\ UNCHANGED <<open, chosen, faulty>>
  /\ UNCHANGED <<args, argument, test, devices, listed, endpoint>>

(* Bench_Open: a device without the interface is closed again.             *)
BenchOpen ==
  /\ step = "open"
  /\ place <= Len(devices)
  /\ place' = place + 1
  /\ IF ~devices[place].ours
     THEN UNCHANGED <<open, chosen, faulty, step>>
     ELSE \/ faulty' = faulty \cup {place} /\ UNCHANGED <<open, chosen, step>>
          \/ /\ Interface(place) # 0
             /\ chosen' = place /\ open' = open \cup {place}
             /\ step' = "createRead" /\ UNCHANGED faulty
          \/ Interface(place) = 0 /\ UNCHANGED <<open, chosen, faulty, step>>
  /\ UNCHANGED <<args, argument, test, devices, listed, endpoint>>

(* GetTestDeviceFromList lists what can be opened; the choice may be none. *)
ListDevice ==
  /\ step = "list"
  /\ place <= Len(devices)
  /\ place' = place + 1
  /\ \/ listed' = Append(listed, place) /\ UNCHANGED faulty
     \/ faulty' = faulty \cup {place} /\ UNCHANGED listed
  /\ UNCHANGED <<args, argument, test, devices, open, chosen, endpoint, step>>

NotFound ==
  /\ step \in {"open", "list"}
  /\ place > Len(devices)
  /\ step' = "done"
  /\ UNCHANGED <<args, argument, test, devices, place, found, endpoint>>

(* Instead of an interface that is missing the first one is used.          *)
Choose ==
  /\ step = "list"
  /\ place > Len(devices)
  /\ \E i \in 1 .. Len(listed) :
       LET d == listed[i]
           first == FirstInterface(devices[d].config)
       IN  /\ chosen' = d /\ open' = open \cup {d}
           /\ test' = IF Interface(d) = 0 /\ first # 0
                      THEN [test EXCEPT
                              !.intf = devices[d].config[first].number]
                      ELSE test
           /\ step' = IF Interface(d) = 0 /\ first = 0 THEN "done"
                    ELSE "createRead"
  /\ UNCHANGED <<args, argument, devices, place, listed, faulty, endpoint>>

-----------------------------------------------------------------------------
(* The first endpoint of the direction, or the one of the number given.    *)
EndpointID(e) == test.ep + DirectionOf(e)

Matches(e, p) ==
  IF Number(EndpointID(e)) = 0 THEN Direction(p.address) = EndpointID(e)
  ELSE p.address = EndpointID(e)

EndpointList ==
  devices[chosen].config[Interface(chosen)].settings[1].endpoints

Matching(e) == {i \in DOMAIN EndpointList : Matches(e, EndpointList[i])}

(* CreateTransferParam: the endpoint must exist, not as number 0 for       *)
(* writing, and its packet size divide the size of the buffer; an          *)
(* isochronous one needs async.                                            *)
CreateTransferParam(e, here, next) ==
  /\ step = here
  /\ IF e \notin test.tests THEN step' = next /\ UNCHANGED <<endpoint, test>>
     ELSE IF Interface(chosen) = 0
     THEN step' = "done" /\ UNCHANGED <<endpoint, test>>
     ELSE LET i == First(Matching(e))
          IN  IF i = 0 \/ EndpointList[i].address = 0
                 \/ ~EndpointList[i].divides
              THEN step' = "done" /\ UNCHANGED <<endpoint, test>>
              ELSE /\ endpoint' = [endpoint EXCEPT ![e] = <<EndpointList[i]>>]
                   /\ test' = IF EndpointList[i].type = "iso"
                              THEN [test EXCEPT !.mode = "async"] ELSE test
                   /\ step' = next
  /\ UNCHANGED <<args, argument, devices, place, found>>

(* Done in main.                                                           *)
CloseDevice ==
  /\ step = "done"
  /\ open' = open \ {chosen}
  /\ step' = "failed"
  /\ UNCHANGED <<args, argument, test, devices, place, listed, faulty, chosen,
                 endpoint>>

SetupNext ==
  \/ ShowHelp \/ ParseArgument \/ ValidateArguments
  \/ BenchOpen \/ ListDevice \/ NotFound \/ Choose
  \/ CreateTransferParam("read", "createRead", "createWrite")
  \/ CreateTransferParam("write", "createWrite", "ready")
  \/ CloseDevice

SetupSpec == SetupInit /\ [][SetupNext]_setupVars

-----------------------------------------------------------------------------

(* The last of the first n arguments that has one of the names, if any: it *)
(* is the one that counts.                                                 *)
LastOf(names, n) ==
  {k \in 1 .. n : /\ args[k].name \in names
                  /\ \A j \in k + 1 .. n : args[j].name \notin names}

Given(name) == {args[k].value : k \in LastOf({name}, Len(args))}

(* What was asked for: tests, both if none was named, the number of an     *)
(* endpoint, and an interface, which a choice from the list may replace.   *)
TestNames == {"read", "write", "loop"}
AskedFor(e) ==
  \A k \in LastOf(TestNames, Len(args)) : args[k].name \in {e, "loop"}

NumberAsked == {Number(v) : v \in Given("ep=")} \ {0}

InterfaceAsked(i) ==
  /\ test.list \/ \A v \in Given("intf=") : i.number = v
  /\ \A v \in Given("altf=") : v = -1 \/ i.settings[1].alt = v

Fits(e) ==
  IF ~AskedFor(e) THEN endpoint[e] = <<>>
  ELSE /\ InterfaceAsked(devices[chosen].config[Interface(chosen)])
       /\ \E i \in DOMAIN EndpointList :
            LET address == EndpointList[i].address
            IN  /\ endpoint[e] = <<EndpointList[i]>>
                /\ address # 0 /\ Direction(address) = DirectionOf(e)
                /\ \A n \in NumberAsked : address = n + DirectionOf(e)
                /\ NumberAsked = {} =>
                     \A j \in 1 .. i - 1 :
                       Direction(EndpointList[j].address) # DirectionOf(e)

(* Whatever the command line says, and in whatever order, the tests that   *)
(* are ready are those it asks for, each with an endpoint of the interface *)
(* asked for, in the direction of the test and of the number asked for, or *)
(* the first in its direction if no number but 0 was given.                *)
EndpointsFit == step = "ready" => Fits("read") /\ Fits("write")

(* No device that could be opened and has the interface is missed.         *)
NoneMissed ==
  step \in {"done", "failed"} /\ chosen = 0 /\ ~test.list =>
    \A d \in DOMAIN devices \ faulty :
      devices[d].ours => Interface(d) = 0
=============================================================================
