------------------------------ MODULE UsbDriver ------------------------------
(***************************************************************************)
(* The firmware of the device: main, the requests it handles, usbPoll, and *)
(* the interrupt handler that receives packets and answers tokens between  *)
(* any two steps of usbPoll.  They share two halves of a receive buffer,   *)
(* one transmit buffer, two lengths and two addresses, without a lock.     *)
(*                                                                         *)
(* The other end is a host that performs one control transfer at a time,   *)
(* repeats what is not acknowledged, and may give up.  A step of the host  *)
(* is one transaction: token, data and handshake.                          *)
(***************************************************************************)
EXTENDS UsbRequests

CONSTANTS
  Requests,  \* the requests that the host makes
  Faults     \* "token":   the device misses a token, not the data after it
             \* "ack":     the host misses an acknowledgement of the device
             \* "in":      the host misses a data packet of the device
             \* "timeout": the host gives a transfer up
             \* "reset":   the host resets the bus at any time
             \* "restart": the device loses its power, or its watchdog fires

Byte == 0 .. 255

RequestSet ==
  [standard : BOOLEAN, bRequest : Nat, high : Nat, low : Nat, wLength : Nat]

(* A host sends SET_ADDRESS without data.                                  *)
ASSUME UsbAssumption ==
  /\ Requests \subseteq RequestSet
  /\ \A rq \in Requests :
       /\ rq.high < 256 /\ rq.low < 256 /\ rq.wLength < 65536
       /\ rq.standard /\ rq.bRequest = USBRQ_SET_ADDRESS => rq.wLength = 0

VARIABLES
  usbRxBuf,           \* the two halves of the receive buffer
  usbInputBufOffset,  \* the half that packets are received into
  usbRxLen,           \* bytes in the other half, 0 if it is free
  usbRxToken,         \* the token before those bytes
  usbCurrentTok,      \* the last token, 0 if it was for another device
  usbTxLen,           \* bytes in the transmit buffer, or a handshake
  usbTxBuf,           \* the transmit buffer
  usbMsgLen,          \* bytes of the reply that are not in a packet yet
  usbMsgPtr,          \* where they are, and usbMsgFlags
  usbDeviceAddr,      \* the address that the handler answers to
  usbNewDeviceAddr,   \* the address that it takes after the next data packet
  usbConfiguration,
  lamp,               \* bit 0 of PORTB
  pc                  \* what main and usbPoll do next

VARIABLES
  stage,     \* what the host does
  request,   \* the request of its current, or last, transfer
  hostAddr,  \* the address it knows the device by
  got,       \* bytes of the reply it has read
  toggle,    \* the PID of the data packet it expects
  polls      \* how often usbPoll has seen the bus in reset

VARIABLES
  served,    \* history: the current request has been handled
  lateRx,    \* history: the receive buffer holds the request of a transfer
             \* that was given up
  dropped,   \* history: the host missed a packet of the current transfer
  spoilt     \* history: since the last reset a SET_ADDRESS did not complete

rxVars == <<usbRxBuf, usbInputBufOffset, usbRxLen, usbRxToken, usbCurrentTok>>
txVars == <<usbTxLen, usbTxBuf, usbMsgLen, usbMsgPtr>>
addrVars == <<usbDeviceAddr, usbNewDeviceAddr>>
appVars == <<usbConfiguration, lamp>>
hostVars == <<stage, request, hostAddr, got, toggle, polls>>
history == <<served, lateRx, dropped, spoilt>>
vars == <<rxVars, txVars, addrVars, appVars, pc, hostVars, history>>

(* What a half of the receive buffer holds: a request, or a token or an    *)
(* empty data packet, which nobody reads.                                  *)
NoRequest == [standard |-> FALSE, bRequest |-> 255, high |-> 0, low |-> 0,
              wLength |-> 0]
Halves == {0, USB_BUFSIZE}
OtherHalf(offset) == USB_BUFSIZE - offset

(* main, usbPoll and the functions that they call.                         *)
Steps ==
  {"boot", "rx", "toggle", "abort", "request", "release", "tx", "block",
   "send", "line"}

Stages == {"detached", "reset", "idle", "setup", "data", "statusIn",
           "statusOut"}
InTransfer == stage \in {"setup", "data", "statusIn", "statusOut"}

Packet(pid, at, offset, len) ==
  [pid |-> pid, at |-> at, offset |-> offset, len |-> len]

-----------------------------------------------------------------------------
(* The variables of the device when main starts.                           *)
DeviceInit ==
  /\ usbRxBuf = [offset \in Halves |-> NoRequest]
  /\ usbInputBufOffset = 0
  /\ usbRxLen = 0
  /\ usbRxToken = 0
  /\ usbCurrentTok = 0
  /\ usbTxLen = USBPID_NAK
  /\ usbTxBuf = Packet(0, AtTxBuf, 0, 0)
  /\ usbMsgLen = USB_NO_MSG
  /\ usbMsgPtr = Reply(AtTxBuf, FALSE)
  /\ usbDeviceAddr = 0
  /\ usbNewDeviceAddr = 0
  /\ usbConfiguration = 0
  /\ lamp = FALSE
  /\ pc = "boot"

Init ==
  /\ DeviceInit
  /\ stage = "detached"
  /\ request \in Requests
  /\ hostAddr = 0
  /\ got = 0
  /\ toggle = USBPID_DATA1
  /\ polls = 0
  /\ served = FALSE
  /\ lateRx = FALSE
  /\ dropped = FALSE
  /\ spoilt = FALSE

-----------------------------------------------------------------------------
(* main                                                                    *)

(* The device is disconnected for 500 ms, connects, and enables interrupts *)
Connect ==
  /\ pc = "boot"
  /\ pc' = "rx"
  /\ UNCHANGED <<rxVars, txVars, addrVars, appVars, hostVars, history>>

Restart ==
  /\ "restart" \in Faults
  /\ usbRxBuf' = [offset \in Halves |-> NoRequest]
  /\ usbInputBufOffset' = 0
  /\ usbRxLen' = 0
  /\ usbRxToken' = 0
  /\ usbCurrentTok' = 0
  /\ usbTxLen' = USBPID_NAK
  /\ usbTxBuf' = Packet(0, AtTxBuf, 0, 0)
  /\ usbMsgLen' = USB_NO_MSG
  /\ usbMsgPtr' = Reply(AtTxBuf, FALSE)
  /\ usbDeviceAddr' = 0
  /\ usbNewDeviceAddr' = 0
  /\ usbConfiguration' = 0
  /\ lamp' = FALSE
  /\ pc' = "boot"
  /\ stage' = "detached"
  /\ served' = FALSE
  /\ lateRx' = FALSE
  /\ UNCHANGED <<request, hostAddr, got, toggle, polls, dropped, spoilt>>

-----------------------------------------------------------------------------
(* usbPoll                                                                 *)

Received == usbRxBuf[OtherHalf(usbInputBufOffset)]

(* Is there a packet?  Only that of a SETUP is looked at.                  *)
PollRx ==
  /\ pc = "rx"
  /\ pc' = IF usbRxLen = 0 THEN "tx"
           ELSE IF usbRxToken = USBPID_SETUP THEN "toggle" ELSE "release"
  /\ UNCHANGED <<rxVars, txVars, addrVars, appVars, hostVars, history>>

InitToggle ==
  /\ pc = "toggle"
  /\ usbTxBuf' = Packet(USBPID_DATA0, usbTxBuf.at, usbTxBuf.offset,
                       usbTxBuf.len)
  /\ pc' = "abort"
  /\ UNCHANGED <<rxVars, usbTxLen, usbMsgLen, usbMsgPtr, addrVars, appVars,
                 hostVars, history>>

(* Mutant: the reply to an earlier request is not discarded.               *)
AbortNothing ==
  /\ pc = "abort"
  /\ usbMsgPtr' = Pointer(usbMsgPtr.at, usbMsgPtr.offset, FALSE)
  /\ pc' = "request"
  /\ UNCHANGED <<rxVars, usbTxLen, usbTxBuf, usbMsgLen, addrVars, appVars,
                 hostVars, history>>

AbortTransmit ==
  /\ pc = "abort"
  /\ usbTxLen' = USBPID_NAK
  /\ usbMsgPtr' = Pointer(usbMsgPtr.at, usbMsgPtr.offset, FALSE)
  /\ pc' = "request"
  /\ UNCHANGED <<rxVars, usbTxBuf, usbMsgLen, addrVars, appVars, hostVars,
                 history>>

(* usbFunctionSetup: vendor requests switch the lamp and have no reply.    *)
LampAfter(rq, old) ==
  IF rq.standard \/ rq.bRequest \notin {USB_PB0_OFF, USB_PB0_ON}
  THEN old
  ELSE rq.bRequest = USB_PB0_ON

IsStandard(rq, number) == rq.standard /\ rq.bRequest = number

(* usbDriverSetup: the requests that change the state of the device.       *)
NewAddrAfter(rq, old) ==
  IF IsStandard(rq, USBRQ_SET_ADDRESS) THEN rq.low ELSE old
ConfigurationAfter(rq, old) ==
  IF IsStandard(rq, USBRQ_SET_CONFIGURATION) THEN rq.low ELSE old
MsgPtrAfter(rq, old) == IF rq.standard THEN StandardReply(rq) ELSE old
ReplyLen(rq) == IF rq.standard THEN StandardLen(rq) ELSE 0

HandleRequest ==
  /\ pc = "request"
  /\ lamp' = LampAfter(Received, lamp)
  /\ usbNewDeviceAddr' = NewAddrAfter(Received, usbNewDeviceAddr)
  /\ usbConfiguration' = ConfigurationAfter(Received, usbConfiguration)
  /\ usbMsgPtr' = MsgPtrAfter(Received, usbMsgPtr)
  /\ usbMsgLen' = LimitedLen(ReplyLen(Received), Received.wLength)
  /\ served' = (served \/ ~lateRx)
  /\ pc' = "release"
  /\ UNCHANGED <<rxVars, usbTxLen, usbTxBuf, usbDeviceAddr, hostVars, lateRx,
                 dropped, spoilt>>

ReleaseRx ==
  /\ pc = "release"
  /\ usbRxLen' = 0
  /\ lateRx' = FALSE
  /\ pc' = "tx"
  /\ UNCHANGED <<usbRxBuf, usbInputBufOffset, usbRxToken, usbCurrentTok,
                 txVars, addrVars, appVars, hostVars, served, dropped, spoilt>>

(* Mutant: the transmit buffer is not known to be idle.                    *)
PollTxAlways ==
  /\ pc = "tx"
  /\ pc' = IF usbMsgLen # USB_NO_MSG THEN "block" ELSE "line"
  /\ UNCHANGED <<rxVars, txVars, addrVars, appVars, hostVars, history>>

(* Is there something to send, and is the transmit buffer idle?            *)
PollTx ==
  /\ pc = "tx"
  /\ pc' = IF IsHandshake(usbTxLen) /\ usbMsgLen # USB_NO_MSG
           THEN "block" ELSE "line"
  /\ UNCHANGED <<rxVars, txVars, addrVars, appVars, hostVars, history>>

(* usbDeviceRead: the pointer after len bytes have been copied.            *)
Advanced(pointer, len) ==
  Pointer(pointer.at, pointer.offset + len, pointer.rom)

BuildTxBlock ==
  /\ pc = "block"
  /\ usbMsgLen' = RestLen(usbMsgLen)
  /\ usbTxBuf' = Packet(Toggled(usbTxBuf.pid), usbMsgPtr.at,
                        usbMsgPtr.offset, BlockLen(usbMsgLen))
  /\ usbMsgPtr' = Advanced(usbMsgPtr, BlockLen(usbMsgLen))
  /\ pc' = "send"
  /\ UNCHANGED <<rxVars, usbTxLen, addrVars, appVars, hostVars, history>>

(* The length includes the sync byte, the PID and the CRC.                 *)
SendBlock ==
  /\ pc = "send"
  /\ usbTxLen' = usbTxBuf.len + 4
  /\ pc' = "line"
  /\ UNCHANGED <<rxVars, usbTxBuf, usbMsgLen, usbMsgPtr, addrVars, appVars,
                 hostVars, history>>

(* Mutant: a reset leaves the address that was going to be taken.          *)
PollLineOneAddress ==
  /\ pc = "line"
  /\ pc' = "rx"
  /\ \/ /\ stage = "reset"
        /\ usbDeviceAddr' = 0
        /\ polls' = IF polls < 2 THEN polls + 1 ELSE polls
        /\ UNCHANGED usbNewDeviceAddr
     \/ /\ stage # "reset"
        /\ UNCHANGED <<addrVars, polls>>
  /\ UNCHANGED <<rxVars, txVars, appVars, stage, request, hostAddr, got,
                 toggle, history>>

(* Is the bus being reset?                                                 *)
PollLine ==
  /\ pc = "line"
  /\ pc' = "rx"
  /\ \/ /\ stage = "reset"
        /\ usbNewDeviceAddr' = 0
        /\ usbDeviceAddr' = 0
        /\ polls' = IF polls < 2 THEN polls + 1 ELSE polls
     \/ /\ stage # "reset"
        /\ UNCHANGED <<addrVars, polls>>
  /\ UNCHANGED <<rxVars, txVars, appVars, stage, request, hostAddr, got,
                 toggle, history>>

usbPoll ==
  \/ PollRx \/ InitToggle \/ AbortTransmit \/ HandleRequest \/ ReleaseRx
  \/ PollTx \/ BuildTxBlock \/ SendBlock \/ PollLine

-----------------------------------------------------------------------------
(* The interrupt handler                                                   *)

(* The token that the handler remembers after one was sent, or 0.          *)
TokenSeen(tok) ==
  {IF hostAddr = usbDeviceAddr THEN tok ELSE 0}
    \cup (IF "token" \in Faults THEN {usbCurrentTok} ELSE {})

(* Everything is received into the input half.                             *)
InputHalf(content) == [usbRxBuf EXCEPT ![usbInputBufOffset] = content]

(* Mutant: a packet is accepted although the last one is being processed.  *)
DataAnswerAlways(tok) == IF tok = 0 THEN "none" ELSE "ack"

(* The answer to a data packet.                                            *)
DataAnswer(tok) ==
  IF tok = 0 THEN "none" ELSE IF usbRxLen # 0 THEN "nak" ELSE "ack"

(* The eight bytes of a request are received: unless the other half is     *)
(* being processed, the halves are swapped.                                *)
HandleData(tok, rq) ==
  /\ usbCurrentTok' = tok
  /\ usbRxBuf' = InputHalf(rq)
  /\ IF DataAnswer(tok) = "ack"
     THEN /\ usbRxLen' = USB_BUFSIZE
          /\ usbRxToken' = tok
          /\ usbInputBufOffset' = OtherHalf(usbInputBufOffset)
          /\ lateRx' = FALSE
     ELSE UNCHANGED <<usbRxLen, usbRxToken, usbInputBufOffset, lateRx>>

(* Mutant: an empty packet is kept for usbPoll like any other.             *)
HandleEmptyDataKept(tok) == HandleData(tok, NoRequest)

(* An empty data packet is acknowledged and not kept.                      *)
HandleEmptyData(tok) ==
  /\ usbCurrentTok' = tok
  /\ usbRxBuf' = InputHalf(NoRequest)
  /\ UNCHANGED <<usbRxLen, usbRxToken, usbInputBufOffset, lateRx>>

(* Mutant: data is sent although a packet waits to be processed.           *)
InReadyEarly == hostAddr = usbDeviceAddr /\ ~IsHandshake(usbTxLen)

(* Is an IN token answered with data?                                      *)
InReady ==
  hostAddr = usbDeviceAddr /\ usbRxLen = 0 /\ ~IsHandshake(usbTxLen)

(* The packet is sent and the buffer is free again; at the end of every    *)
(* data packet the new address is taken.                                   *)
HandleIn ==
  /\ usbTxLen' = USBPID_NAK
  /\ usbDeviceAddr' = usbNewDeviceAddr
  /\ usbRxBuf' = InputHalf(NoRequest)
  /\ UNCHANGED <<usbInputBufOffset, usbRxLen, usbRxToken, usbTxBuf,
                 usbMsgLen, usbMsgPtr>>

-----------------------------------------------------------------------------
(* The host                                                                *)

(* A reset is over when usbPoll has run twice: it lasts at least 10 ms.    *)
BeginReset ==
  /\ pc # "boot"
  /\ \/ stage = "detached"
     \/ stage # "reset" /\ "reset" \in Faults
  /\ stage' = "reset"
  /\ hostAddr' = 0
  /\ polls' = 0
  /\ lateRx' = (usbRxLen # 0)
  /\ UNCHANGED <<rxVars, txVars, addrVars, appVars, pc, request, got, toggle,
                 served, dropped, spoilt>>

EndReset ==
  /\ stage = "reset"
  /\ polls = 2
  /\ stage' = "idle"
  /\ spoilt' = FALSE
  /\ UNCHANGED <<rxVars, txVars, addrVars, appVars, pc, request, hostAddr,
                 got, toggle, polls, served, lateRx, dropped>>

Submit ==
  /\ stage = "idle"
  /\ stage' = "setup"
  /\ request' \in Requests
  /\ got' = 0
  /\ toggle' = USBPID_DATA1
  /\ served' = FALSE
  /\ dropped' = FALSE
  /\ UNCHANGED <<rxVars, txVars, addrVars, appVars, pc, hostAddr, polls,
                 lateRx, spoilt>>

(* Handshakes of the device that reach the host, or do not.                *)
Reaches == IF "ack" \in Faults THEN BOOLEAN ELSE {TRUE}

(* SETUP, with the request, until it is acknowledged.                      *)
HostSetup ==
  /\ stage = "setup"
  /\ \E tok \in TokenSeen(USBPID_SETUP), reaches \in Reaches :
       /\ HandleData(tok, request)
       /\ stage' = IF DataAnswer(tok) = "ack" /\ reaches
                   THEN IF request.wLength > 0 THEN "data" ELSE "statusIn"
                   ELSE "setup"
  /\ UNCHANGED <<txVars, addrVars, appVars, pc, request, hostAddr, got, toggle,
                 polls, served, dropped, spoilt>>

SetsAddress == IsStandard(request, USBRQ_SET_ADDRESS)

(* The last packet of the reply, or all that was asked for.                *)
LastIn == usbTxBuf.len < 8 \/ got + usbTxBuf.len >= request.wLength

(* IN is answered with data, which the host misses, or takes for one that  *)
(* it has, or takes.  Its ACK is ignored but clears usbCurrentTok.         *)
HostIn ==
  /\ stage \in {"data", "statusIn"}
  /\ InReady
  /\ HandleIn
  /\ \/ /\ "in" \in Faults
        /\ dropped' = TRUE
        /\ spoilt' = (spoilt \/ SetsAddress)
        /\ UNCHANGED <<stage, hostAddr, got, toggle, usbCurrentTok>>
     \/ /\ toggle # usbTxBuf.pid
        /\ usbCurrentTok' = 0
        /\ UNCHANGED <<stage, hostAddr, got, toggle, dropped, spoilt>>
     \/ /\ toggle = usbTxBuf.pid
        /\ usbCurrentTok' = 0
        /\ toggle' = Toggled(toggle)
        /\ IF stage = "statusIn"
           THEN /\ stage' = "idle"
                /\ hostAddr' = IF SetsAddress THEN request.low ELSE hostAddr
                /\ UNCHANGED got
           ELSE /\ stage' = IF LastIn THEN "statusOut" ELSE "data"
                /\ got' = got + usbTxBuf.len
                /\ UNCHANGED hostAddr
        /\ UNCHANGED <<dropped, spoilt>>
  /\ UNCHANGED <<usbNewDeviceAddr, appVars, pc, request, polls, served,
                 lateRx>>

(* IN is answered with a handshake, or with nothing.                       *)
HostInRefused ==
  /\ stage \in {"data", "statusIn"}
  /\ ~InReady
  /\ usbRxBuf' = InputHalf(NoRequest)
  /\ usbCurrentTok' = IF hostAddr = usbDeviceAddr THEN usbCurrentTok ELSE 0
  /\ UNCHANGED <<usbInputBufOffset, usbRxLen, usbRxToken, txVars, addrVars,
                 appVars, pc, hostVars, history>>

(* OUT, with an empty data packet, until it is acknowledged.               *)
HostStatusOut ==
  /\ stage = "statusOut"
  /\ \E tok \in TokenSeen(USBPID_OUT), reaches \in Reaches :
       /\ HandleEmptyData(tok)
       /\ stage' = IF DataAnswer(tok) = "ack" /\ reaches
                   THEN "idle" ELSE "statusOut"
  /\ UNCHANGED <<txVars, addrVars, appVars, pc, request, hostAddr, got, toggle,
                 polls, served, dropped, spoilt>>

(* A token for another device, which the hub passes on.                    *)
ForeignToken ==
  /\ stage \notin {"detached", "reset"}
  /\ usbRxBuf' = InputHalf(NoRequest)
  /\ usbCurrentTok' = 0
  /\ UNCHANGED <<usbInputBufOffset, usbRxLen, usbRxToken, txVars, addrVars,
                 appVars, pc, hostVars, history>>

GiveUp ==
  /\ "timeout" \in Faults
  /\ InTransfer
  /\ stage' = "idle"
  /\ lateRx' = (usbRxLen # 0)
  /\ spoilt' = (spoilt \/ SetsAddress)
  /\ UNCHANGED <<rxVars, txVars, addrVars, appVars, pc, request, hostAddr, got,
                 toggle, polls, served, dropped>>

HostTransaction ==
  HostSetup \/ HostIn \/ HostInRefused \/ HostStatusOut

Next ==
  \/ Connect \/ Restart \/ usbPoll
  \/ BeginReset \/ EndReset \/ Submit \/ HostTransaction \/ ForeignToken
  \/ GiveUp

Spec == Init /\ [][Next]_vars

-----------------------------------------------------------------------------
(* The values that the variables of the code and of the history take.      *)
TypeOK ==
  /\ usbRxBuf \in [Halves -> Requests \cup {NoRequest}]
  /\ usbInputBufOffset \in Halves
  /\ usbRxLen \in {0, USB_BUFSIZE}
  /\ usbRxToken \in {0, USBPID_SETUP, USBPID_OUT}
  /\ usbCurrentTok \in {0, USBPID_SETUP, USBPID_OUT}
  /\ usbTxLen \in {USBPID_NAK} \cup (4 .. 12)
  /\ usbTxBuf \in [pid : {0, USBPID_DATA0, USBPID_DATA1}, at : Places,
                   offset : Nat, len : 0 .. 8]
  /\ usbMsgLen \in Byte
  /\ usbMsgPtr \in [at : Places, offset : Nat, rom : BOOLEAN]
  /\ usbDeviceAddr \in Byte /\ usbNewDeviceAddr \in Byte
  /\ usbConfiguration \in Byte
  /\ lamp \in BOOLEAN
  /\ pc \in Steps
  /\ stage \in Stages
  /\ request \in Requests
  /\ hostAddr \in Byte
  /\ got \in Nat
  /\ toggle \in {USBPID_DATA0, USBPID_DATA1}
  /\ polls \in 0 .. 2
  /\ served \in BOOLEAN /\ lateRx \in BOOLEAN
  /\ dropped \in BOOLEAN /\ spoilt \in BOOLEAN

(* The two sides of the receive buffer: from the interrupt that stores a   *)
(* packet until usbPoll has processed it, the packet stays what it was,    *)
(* whatever the handler receives and whatever is lost on the bus.          *)
ReceivedKept == [][usbRxLen # 0 /\ usbRxLen' # 0 => Received' = Received]_vars

(* The two sides of the transmit buffer: while usbPoll writes into it, or  *)
(* into the bytes behind it from which the reply to GET_STATUS is read, no *)
(* token makes the handler send it.                                        *)
TransmitApart ==
  pc \in {"toggle", "abort", "request", "block", "send"} => ~InReady

(* What the handler sends next is what the host waits for: the part of the *)
(* reply to its request that follows what it has, and not a packet that a  *)
(* transfer given up has left, or one sent twice.  This holds as long as   *)
(* the packets of the transfer reach the host: the buffer is freed before  *)
(* the ACK.                                                                *)
Expected ==
  IF ReplyLen(request) < request.wLength
  THEN ReplyLen(request) ELSE request.wLength

(* The handler sends what the host waits for.                              *)
NextPacket ==
  (stage \in {"data", "statusIn"} /\ InReady /\ ~dropped) =>
    /\ usbTxBuf.pid = toggle
    /\ usbTxBuf.len = BlockLen(Expected - got)
    /\ usbTxBuf.len > 0 =>
         /\ usbTxBuf.at = StandardReply(request).at
         /\ usbTxBuf.offset = got

(* The host and the handler agree on the address, before, during and after *)
(* SET_ADDRESS, and no address is left to be taken by a later transfer,    *)
(* unless a SET_ADDRESS was given up or its last packet lost; a reset of   *)
(* the bus makes up for this, although a request may wait in the buffer.   *)
AddressAgrees ==
  (stage \notin {"detached", "reset"} /\ ~spoilt) =>
    /\ usbDeviceAddr = hostAddr
    /\ (SetsAddress /\ InTransfer) \/ usbNewDeviceAddr = hostAddr

(* When a transfer has completed, the receive buffer is free, so that the  *)
(* next SETUP, which a device must not refuse, is acknowledged at once.    *)
SetupWelcome == (stage = "idle" /\ ~lateRx) => usbRxLen = 0

(* The lamp is as the last request that took effect wants it.              *)
LampFollows ==
  (served /\ ~request.standard) =>
    /\ request.bRequest = USB_PB0_ON => lamp
    /\ request.bRequest = USB_PB0_OFF => ~lamp

(* The firmware promises what ControlTransfer says.                        *)
LateRequests ==
  IF lateRx /\ usbRxLen # 0 /\ pc # "release" THEN {Received} ELSE {}

Control == INSTANCE ControlTransfer WITH
  transfer <- InTransfer,
  late <- LateRequests

(* The firmware with its host implements ControlTransfer.                  *)
ImplementsControlTransfer == Control!Spec

=============================================================================
