--------------------------- MODULE UsbDriverProofs ---------------------------
(***************************************************************************)
(* Proofs about UsbDriver for all requests and faults.  The buffers are    *)
(* kept apart whatever is lost on the bus; what a transfer promises holds  *)
(* as long as the device does not miss single tokens.                      *)
(***************************************************************************)
EXTENDS UsbDriver, TLAPS

(* What keeps the handler and usbPoll apart: usbRxLen and usbTxLen.        *)
BufferInv ==
  /\ pc \in {"toggle", "abort", "request", "release"} => usbRxLen # 0
  /\ pc \in {"block", "send"} => usbTxLen = USBPID_NAK

(* What waits in the receive buffer, and what has become of the request.   *)
RxInv ==
  /\ usbRxLen = 0 => ~lateRx
  /\ usbRxLen # 0 => usbRxToken = USBPID_SETUP
  /\ usbRxLen # 0 /\ (~lateRx \/ served) => Received = request
  /\ usbRxLen # 0 /\ ~InTransfer => lateRx
  /\ stage = "detached" => usbRxLen = 0
  /\ pc = "release" /\ ~lateRx => served

TransferInv ==
  /\ stage \in {"data", "statusIn"} /\ usbRxLen = 0 => served
  /\ stage \in {"data", "statusIn"} => ~lateRx
  /\ stage = "statusOut" => usbRxLen = 0 /\ served

(* The inductive invariant of the buffers.                                 *)
IInv == TypeOK /\ BufferInv
TInv == IInv /\ RxInv /\ TransferInv /\ LampFollows

-----------------------------------------------------------------------------
(* A handshake is told from a length by its bit 4.                         *)
LEMMA Handshakes ==
  IsHandshake(USBPID_NAK) /\ \A len \in 4 .. 12 : ~IsHandshake(len)
BY DEF IsHandshake, USBPID_NAK

(* Two numbers are bytes.                                                  *)
LEMMA Bytes == 0 \in Byte /\ USB_NO_MSG \in Byte
BY DEF Byte, USB_NO_MSG

(* The lengths of replies are bytes,                                       *)
LEMMA StandardLenType ==
  ASSUME NEW rq
  PROVE  StandardLen(rq) \in Byte
<1>1. DescriptorLen(rq.high, rq.low) \in Byte
  BY DEF DescriptorLen, USBDESCR_DEVICE, USBDESCR_CONFIG, USBDESCR_STRING,
         DeviceLen, ConfigurationLen, StringLen, StringDescriptorLen, Byte,
         USB_CFG_VENDOR_NAME_LEN,
         USB_CFG_DEVICE_NAME_LEN
<1>2. QED
  BY <1>1 DEF StandardLen, USBRQ_GET_STATUS, USBRQ_GET_DESCRIPTOR,
              USBRQ_GET_CONFIGURATION, USBRQ_GET_INTERFACE, Byte

(* also when they are limited to what was asked for.                       *)
LEMMA LimitedLenType ==
  ASSUME NEW len \in Byte, NEW wLength \in Nat
  PROVE  LimitedLen(len, wLength) \in Byte
BY DEF LimitedLen, Byte

PointerType == [at : Places, offset : Nat, rom : BOOLEAN]

(* Where replies are.                                                      *)
LEMMA StandardReplyType ==
  ASSUME NEW rq \in RequestSet
  PROVE  StandardReply(rq) \in PointerType
BY DEF StandardReply, Reply, Pointer, PointerType, Places, RequestSet, AtTxBuf,
       AtConfiguration

(* What a request that has been received does to the state of the device.  *)
LEMMA HandledType ==
  ASSUME TypeOK
  PROVE  /\ Received \in Requests \cup {NoRequest}
         /\ LimitedLen(ReplyLen(Received), Received.wLength) \in Byte
         /\ MsgPtrAfter(Received, usbMsgPtr) \in PointerType
         /\ NewAddrAfter(Received, usbNewDeviceAddr) \in Byte
         /\ ConfigurationAfter(Received, usbConfiguration) \in Byte
         /\ LampAfter(Received, lamp) \in BOOLEAN
<1>1. /\ Received \in Requests \cup {NoRequest}
      /\ Received \in RequestSet
  <2>1. OtherHalf(usbInputBufOffset) \in Halves
    BY DEF TypeOK, Halves, OtherHalf, USB_BUFSIZE
  <2>2. Received \in Requests \cup {NoRequest}
    BY <2>1 DEF TypeOK, Received
  <2>3. NoRequest \in RequestSet
    BY DEF NoRequest, RequestSet
  <2>4. QED
    BY <2>2, <2>3, UsbAssumption
<1>2. ReplyLen(Received) \in Byte
  BY Bytes, StandardLenType DEF ReplyLen
<1>3. LimitedLen(ReplyLen(Received), Received.wLength) \in Byte
  BY <1>1, <1>2, LimitedLenType DEF RequestSet
<1>4. MsgPtrAfter(Received, usbMsgPtr) \in PointerType
  BY <1>1, StandardReplyType DEF MsgPtrAfter, TypeOK, PointerType
<1>5. /\ NewAddrAfter(Received, usbNewDeviceAddr) \in Byte
      /\ ConfigurationAfter(Received, usbConfiguration) \in Byte
  BY <1>1, UsbAssumption DEF NewAddrAfter, ConfigurationAfter, TypeOK,
               RequestSet, Byte, NoRequest
<1>6. LampAfter(Received, lamp) \in BOOLEAN
  BY DEF LampAfter, TypeOK
<1>7. QED
  BY <1>1, <1>3, <1>4, <1>5, <1>6

-----------------------------------------------------------------------------
(* The inductive invariant holds at the beginning.                         *)
LEMMA InitIInv == Init => IInv
<1> SUFFICES ASSUME Init PROVE IInv
  OBVIOUS
<1>1. AtTxBuf \in Places
  BY DEF Places, AtTxBuf
<1>2. /\ lamp \in BOOLEAN /\ served \in BOOLEAN /\ lateRx \in BOOLEAN
      /\ dropped \in BOOLEAN /\ spoilt \in BOOLEAN
  BY DEF Init, DeviceInit
<1>3. usbMsgPtr \in [at : Places, offset : Nat, rom : BOOLEAN]
  BY <1>1 DEF Init, DeviceInit, Reply, Pointer
<1>4. usbTxBuf \in [pid : {0, USBPID_DATA0, USBPID_DATA1}, at : Places,
                    offset : Nat, len : 0 .. 8]
  BY <1>1 DEF Init, DeviceInit, Packet
<1>5. usbRxBuf \in [Halves -> Requests \cup {NoRequest}]
  BY DEF Init, DeviceInit
<1>6. /\ usbInputBufOffset = 0 /\ usbRxLen = 0 /\ usbRxToken = 0
      /\ usbCurrentTok = 0 /\ usbTxLen = USBPID_NAK
      /\ usbMsgLen = USB_NO_MSG
      /\ usbDeviceAddr = 0 /\ usbNewDeviceAddr = 0 /\ usbConfiguration = 0
      /\ pc = "boot" /\ stage = "detached" /\ request \in Requests
      /\ hostAddr = 0 /\ got = 0 /\ toggle = USBPID_DATA1 /\ polls = 0
  BY DEF Init, DeviceInit
<1>7. QED
  BY <1>2, <1>3, <1>4, <1>5, <1>6, Bytes DEF IInv, TypeOK, BufferInv, Halves,
     Steps, Stages

(* The receive buffer after a packet.                                      *)
LEMMA InputHalfType ==
  ASSUME TypeOK, NEW rq \in Requests \cup {NoRequest}
  PROVE  /\ InputHalf(rq) \in [Halves -> Requests \cup {NoRequest}]
         /\ InputHalf(rq)[OtherHalf(usbInputBufOffset)] = Received
         /\ InputHalf(rq)[usbInputBufOffset] = rq
         /\ OtherHalf(usbInputBufOffset) \in Halves
         /\ OtherHalf(OtherHalf(usbInputBufOffset)) = usbInputBufOffset
BY DEF TypeOK, InputHalf, Halves, OtherHalf, USB_BUFSIZE, Received

(* No step breaks the inductive invariant.                                 *)
LEMMA NextIInv == IInv /\ [Next]_vars => IInv'
<1> SUFFICES ASSUME IInv, [Next]_vars PROVE IInv'
  OBVIOUS
<1> USE DEF IInv, BufferInv
<1>1. CASE UNCHANGED vars
  BY <1>1 DEF vars, TypeOK, rxVars, txVars, addrVars, appVars, hostVars,
              history
<1>2. CASE Connect
  BY <1>2 DEF Connect, TypeOK, Steps, rxVars, txVars, addrVars, appVars,
              hostVars, history
<1>3. CASE Restart
  <2>1. AtTxBuf \in Places
    BY DEF Places, AtTxBuf
  <2>2. /\ lamp' \in BOOLEAN /\ served' \in BOOLEAN /\ lateRx' \in BOOLEAN
    BY <1>3 DEF Restart
  <2>3. usbMsgPtr' \in [at : Places, offset : Nat, rom : BOOLEAN]
    BY <1>3, <2>1 DEF Restart, Reply, Pointer
  <2>4. usbTxBuf' \in [pid : {0, USBPID_DATA0, USBPID_DATA1}, at : Places,
                       offset : Nat, len : 0 .. 8]
    BY <1>3, <2>1 DEF Restart, Packet
  <2>5. usbRxBuf' \in [Halves -> Requests \cup {NoRequest}]
    BY <1>3 DEF Restart
  <2>6. /\ usbInputBufOffset' = 0 /\ usbRxLen' = 0 /\ usbRxToken' = 0
        /\ usbCurrentTok' = 0 /\ usbTxLen' = USBPID_NAK
        /\ usbMsgLen' = USB_NO_MSG
        /\ usbDeviceAddr' = 0 /\ usbNewDeviceAddr' = 0
        /\ usbConfiguration' = 0
        /\ pc' = "boot" /\ stage' = "detached"
        /\ UNCHANGED <<request, hostAddr, got, toggle, polls, dropped, spoilt>>
    BY <1>3 DEF Restart
  <2>7. QED
    BY <2>2, <2>3, <2>4, <2>5, <2>6, Bytes DEF TypeOK, Halves, Steps, Stages
<1>4. CASE PollRx
  BY <1>4 DEF PollRx, TypeOK, Steps, rxVars, txVars, addrVars, appVars,
              hostVars, history
<1>5. CASE InitToggle
  BY <1>5 DEF InitToggle, Packet, TypeOK, Steps, rxVars, addrVars,
              appVars, hostVars, history
<1>6. CASE AbortTransmit
  BY <1>6 DEF AbortTransmit, Pointer, TypeOK, Steps, rxVars, addrVars, appVars,
              hostVars, history
<1>7. CASE HandleRequest
  BY <1>7, HandledType DEF HandleRequest, TypeOK, Steps, rxVars, hostVars,
              PointerType, USB_NO_MSG
<1>8. CASE ReleaseRx
  <2>1. lateRx' \in BOOLEAN
    BY <1>8 DEF ReleaseRx
  <2>2. /\ usbRxLen' = 0
        /\ pc' = "tx"
        /\ UNCHANGED <<usbRxBuf, usbInputBufOffset, usbRxToken, usbCurrentTok,
                       txVars, addrVars, appVars, hostVars, served, dropped,
                       spoilt>>
    BY <1>8 DEF ReleaseRx
  <2>3. QED
    BY <2>1, <2>2 DEF TypeOK, Steps, txVars, addrVars, appVars, hostVars
<1>9. CASE PollTx
  BY <1>9, Handshakes DEF PollTx, TypeOK, Steps, rxVars, txVars, addrVars,
              appVars, hostVars, history
<1>10. CASE BuildTxBlock
  <2>1. /\ BlockLen(usbMsgLen) \in 0 .. 8
        /\ RestLen(usbMsgLen) \in Byte
    BY DEF BlockLen, RestLen, TypeOK, USB_NO_MSG, Byte
  <2>2. QED
    BY <1>10, <2>1 DEF BuildTxBlock, TypeOK, Steps, rxVars, addrVars, appVars,
       hostVars, history, Packet, Advanced, Pointer, Toggled, USBPID_DATA0,
       USBPID_DATA1
<1>11. CASE SendBlock
  BY <1>11 DEF SendBlock, TypeOK, Steps, rxVars, addrVars, appVars, hostVars,
               history
<1>12. CASE PollLine
  <2>1. /\ usbDeviceAddr' \in Byte /\ usbNewDeviceAddr' \in Byte
        /\ polls' \in 0 .. 2
    BY <1>12, Bytes DEF PollLine, TypeOK, addrVars
  <2>2. /\ pc' = "rx"
        /\ UNCHANGED <<rxVars, txVars, appVars, stage, request, hostAddr, got,
                       toggle, history>>
    BY <1>12 DEF PollLine
  <2>3. QED
    BY <2>1, <2>2 DEF TypeOK, Steps, rxVars, txVars, appVars, history
<1>13. CASE BeginReset
  BY <1>13, Bytes DEF BeginReset, TypeOK, Stages, rxVars, txVars,
               addrVars, appVars
<1>14. CASE EndReset
  <2>1. spoilt' \in BOOLEAN
    BY <1>14 DEF EndReset
  <2>2. /\ stage' = "idle"
        /\ UNCHANGED <<rxVars, txVars, addrVars, appVars, pc, request,
                       hostAddr, got, toggle, polls, served, lateRx, dropped>>
    BY <1>14 DEF EndReset
  <2>3. QED
    BY <2>1, <2>2 DEF TypeOK, Stages, rxVars, txVars, addrVars, appVars
<1>15. CASE Submit
  <2>1. served' \in BOOLEAN /\ dropped' \in BOOLEAN
    BY <1>15 DEF Submit
  <2>2. /\ stage' = "setup"
        /\ request' \in Requests
        /\ got' = 0
        /\ toggle' = USBPID_DATA1
        /\ UNCHANGED <<rxVars, txVars, addrVars, appVars, pc, hostAddr, polls,
                       lateRx, spoilt>>
    BY <1>15 DEF Submit
  <2>3. QED
    BY <2>1, <2>2 DEF TypeOK, Stages, rxVars, txVars, addrVars, appVars
<1>16. CASE HostSetup
  <2>1. PICK tok \in TokenSeen(USBPID_SETUP), reaches \in Reaches :
          /\ HandleData(tok, request)
          /\ stage' = IF DataAnswer(tok) = "ack" /\ reaches
                      THEN IF request.wLength > 0 THEN "data" ELSE "statusIn"
                      ELSE "setup"
    BY <1>16 DEF HostSetup
  <2>2. tok \in {0, USBPID_SETUP, USBPID_OUT}
    BY DEF TokenSeen, TypeOK
  <2>3. request \in Requests \cup {NoRequest}
    BY DEF TypeOK
  <2>4. stage' \in Stages
    BY <2>1 DEF Stages
  <2>5. /\ usbRxBuf' \in [Halves -> Requests \cup {NoRequest}]
        /\ usbCurrentTok' \in {0, USBPID_SETUP, USBPID_OUT}
    BY <2>1, <2>2, <2>3, InputHalfType DEF HandleData
  <2>6. UNCHANGED <<txVars, addrVars, appVars, pc, request, hostAddr, got,
                    toggle, polls, served, dropped, spoilt>>
    BY <1>16 DEF HostSetup
  <2>7. CASE DataAnswer(tok) = "ack"
    <3>1. lateRx' \in BOOLEAN
      BY <2>1, <2>7 DEF HandleData
    <3>2. /\ usbRxLen' = USB_BUFSIZE
          /\ usbRxToken' = tok
          /\ usbInputBufOffset' \in Halves
      BY <2>1, <2>7, InputHalfType DEF HandleData
    <3>3. QED
      BY <2>2, <2>4, <2>5, <2>6, <3>1, <3>2
         DEF TypeOK, txVars, addrVars, appVars, USB_BUFSIZE
  <2>8. CASE DataAnswer(tok) # "ack"
    <3>1. UNCHANGED <<usbRxLen, usbRxToken, usbInputBufOffset, lateRx>>
      BY <2>1, <2>8 DEF HandleData
    <3>2. QED
      BY <2>4, <2>5, <2>6, <3>1 DEF TypeOK, txVars, addrVars, appVars
  <2>9. QED
    BY <2>7, <2>8
<1>17. CASE HostIn
  <2>1. pc \notin {"block", "send"}
    BY <1>17, Handshakes DEF HostIn, InReady
  <2>2. usbCurrentTok' \in {0, usbCurrentTok}
    BY <1>17 DEF HostIn
  <2>3. /\ stage' \in Stages
        /\ hostAddr' \in Byte
        /\ got' \in Nat
        /\ toggle' \in {USBPID_DATA0, USBPID_DATA1}
        /\ dropped' \in BOOLEAN /\ spoilt' \in BOOLEAN
    <3>1. request.low \in Byte
      BY UsbAssumption DEF TypeOK, RequestSet, Byte
    <3>2. Toggled(toggle) \in {USBPID_DATA0, USBPID_DATA1}
      BY DEF Toggled
    <3>3. got + usbTxBuf.len \in Nat
      BY DEF TypeOK
    <3>4. CASE dropped' = TRUE /\ spoilt' = (spoilt \/ SetsAddress)
               /\ UNCHANGED <<stage, hostAddr, got, toggle>>
      BY <3>4 DEF TypeOK
    <3>5. CASE UNCHANGED <<stage, hostAddr, got, toggle, dropped, spoilt>>
      BY <3>5 DEF TypeOK
    <3>6. CASE /\ toggle' = Toggled(toggle)
               /\ IF stage = "statusIn"
                  THEN /\ stage' = "idle"
                       /\ hostAddr' = IF SetsAddress THEN request.low
                                      ELSE hostAddr
                       /\ UNCHANGED got
                  ELSE /\ stage' = IF LastIn THEN "statusOut" ELSE "data"
                       /\ got' = got + usbTxBuf.len
                       /\ UNCHANGED hostAddr
               /\ UNCHANGED <<dropped, spoilt>>
      BY <3>1, <3>2, <3>3, <3>6 DEF TypeOK, Stages
    <3>7. QED
      BY <1>17, <3>4, <3>5, <3>6 DEF HostIn
  <2>4. InputHalf(NoRequest) \in [Halves -> Requests \cup {NoRequest}]
    BY InputHalfType
  <2>5. QED
    BY <1>17, <2>1, <2>2, <2>3, <2>4 DEF HostIn, HandleIn, TypeOK, appVars
<1>18. CASE HostInRefused
  BY <1>18, InputHalfType DEF HostInRefused, TypeOK, txVars, addrVars, appVars,
     hostVars, history
<1>19. CASE HostStatusOut
  <2>1. PICK tok \in TokenSeen(USBPID_OUT), reaches \in Reaches :
          /\ HandleEmptyData(tok)
          /\ stage' = IF DataAnswer(tok) = "ack" /\ reaches
                      THEN "idle" ELSE "statusOut"
    BY <1>19 DEF HostStatusOut
  <2>2. tok \in {0, USBPID_SETUP, USBPID_OUT}
    BY DEF TokenSeen, TypeOK
  <2>3. QED
    BY <1>19, <2>1, <2>2, InputHalfType DEF HostStatusOut, HandleEmptyData,
       TypeOK, Stages, txVars, addrVars, appVars
<1>20. CASE ForeignToken
  BY <1>20, InputHalfType DEF ForeignToken, TypeOK, txVars, addrVars, appVars,
     hostVars, history
<1>21. CASE GiveUp
  BY <1>21 DEF GiveUp, TypeOK, Stages, rxVars, txVars, addrVars, appVars
<1>22. QED
  BY <1>1, <1>2, <1>3, <1>4, <1>5, <1>6, <1>7, <1>8, <1>9, <1>10, <1>11,
     <1>12, <1>13, <1>14, <1>15, <1>16, <1>17, <1>18, <1>19, <1>20, <1>21
     DEF Next, usbPoll, HostTransaction

(* TypeOK and what separates the handler from usbPoll hold in every state, *)
(* whatever requests are made and whatever is lost.                        *)
THEOREM Invariance == Spec => []IInv
BY InitIInv, NextIInv, PTL DEF Spec

(* The types of the driver and the host, for all requests and faults.      *)
THEOREM TypeCorrect == Spec => []TypeOK
BY Invariance, PTL DEF IInv

(* No token makes the handler send a packet that usbPoll is building.      *)
THEOREM BuildsAlone == Spec => []TransmitApart
<1>1. IInv => TransmitApart
  BY Handshakes DEF IInv, BufferInv, TransmitApart, InReady
<1>2. QED
  BY <1>1, Invariance, PTL

(* No step changes a packet that waits for usbPoll.                        *)
LEMMA NextReceived ==
  IInv /\ [Next]_vars =>
    (usbRxLen # 0 /\ usbRxLen' # 0 => Received' = Received)
<1> SUFFICES ASSUME IInv, [Next]_vars, usbRxLen # 0, usbRxLen' # 0
             PROVE  Received' = Received
  OBVIOUS
<1>1. CASE UNCHANGED rxVars
  BY <1>1 DEF rxVars, Received, OtherHalf
<1>2. ASSUME usbInputBufOffset' = usbInputBufOffset,
             \E rq \in Requests \cup {NoRequest} : usbRxBuf' = InputHalf(rq)
      PROVE  Received' = Received
  <2>1. TypeOK
    BY DEF IInv
  <2>2. QED
    BY <1>2, <2>1, InputHalfType DEF Received, OtherHalf
<1>3. request \in Requests \cup {NoRequest}
  BY DEF IInv, TypeOK
<1>4. CASE HostSetup
  <2>1. PICK tok \in TokenSeen(USBPID_SETUP) : HandleData(tok, request)
    BY <1>4 DEF HostSetup
  <2>2. DataAnswer(tok) # "ack"
    BY DEF DataAnswer
  <2>3. QED
    BY <1>2, <1>3, <2>1, <2>2 DEF HandleData
<1>5. CASE HostIn
  BY <1>5 DEF HostIn, InReady
<1>6. CASE HostInRefused
  BY <1>2, <1>6 DEF HostInRefused
<1>7. CASE HostStatusOut
  BY <1>2, <1>7 DEF HostStatusOut, HandleEmptyData
<1>8. CASE ForeignToken
  BY <1>2, <1>8 DEF ForeignToken
<1>9. CASE Restart
  BY <1>9 DEF Restart
<1>10. CASE ReleaseRx
  BY <1>10 DEF ReleaseRx
<1>11. CASE Connect \/ PollRx \/ InitToggle \/ AbortTransmit \/ HandleRequest
            \/ PollTx \/ BuildTxBlock \/ SendBlock \/ PollLine
  BY <1>1, <1>11 DEF Connect, PollRx, InitToggle, AbortTransmit,
     HandleRequest, PollTx, BuildTxBlock, SendBlock, PollLine
<1>12. CASE BeginReset \/ EndReset \/ Submit \/ GiveUp
  BY <1>1, <1>12 DEF BeginReset, EndReset, Submit, GiveUp
<1>13. CASE UNCHANGED vars
  BY <1>1, <1>13 DEF vars
<1>14. QED
  BY <1>4, <1>5, <1>6, <1>7, <1>8, <1>9, <1>10, <1>11, <1>12, <1>13
     DEF Next, usbPoll, HostTransaction

(* A packet that was received is not overwritten until it is processed.    *)
THEOREM ReceivedIsKept == Spec => ReceivedKept
<1>1. IInv /\ [Next]_vars =>
        [usbRxLen # 0 /\ usbRxLen' # 0 => Received' = Received]_vars
  BY NextReceived
<1>2. QED
  BY <1>1, Invariance, PTL DEF Spec, ReceivedKept

-----------------------------------------------------------------------------
(* What follows is about devices that do not miss single tokens.           *)
TokensArrive == "token" \notin Faults

(* The invariant of transfers holds at the beginning.                      *)
LEMMA InitTInv == Init => TInv
<1> SUFFICES ASSUME Init PROVE TInv
  OBVIOUS
<1>1. IInv
  BY InitIInv
<1>2. /\ usbRxLen = 0 /\ lateRx = FALSE /\ stage = "detached"
      /\ pc = "boot" /\ served = FALSE
  BY DEF Init, DeviceInit
<1>3. QED
  BY <1>1, <1>2, Zenon DEF TInv, RxInv, TransferInv, LampFollows

(* Steps that touch neither the receive buffer nor the transfer.           *)
LEMMA StaysTInv ==
  ASSUME TInv, IInv',
         UNCHANGED <<usbRxLen, usbRxToken, stage, request, served, lateRx,
                     lamp>>,
         usbRxLen # 0 => Received' = Received,
         pc' = "release" => pc = "release"
  PROVE  TInv'
BY DEF TInv, RxInv, TransferInv, LampFollows, InTransfer

(* No step breaks it, if tokens are not lost alone.                        *)
LEMMA NextTInv ==
  ASSUME TokensArrive, TInv, [Next]_vars
  PROVE  TInv'
<1>1. IInv'
  BY NextIInv DEF TInv
<1>2. usbRxLen # 0 /\ usbRxLen' # 0 => Received' = Received
  BY NextReceived DEF TInv
<1>3. CASE UNCHANGED vars \/ Connect \/ InitToggle \/ AbortTransmit \/ PollTx
           \/ BuildTxBlock \/ SendBlock \/ PollLine \/ HostInRefused
           \/ ForeignToken
  <2>1. UNCHANGED <<usbRxLen, usbRxToken, stage, request, served, lateRx,
                    lamp>>
    BY <1>3 DEF vars, Connect, InitToggle, AbortTransmit, PollTx,
       BuildTxBlock, SendBlock, PollLine, HostInRefused, ForeignToken,
       rxVars, appVars, hostVars, history
  <2>2. pc' = "release" => pc = "release"
    BY <1>3 DEF vars, Connect, InitToggle, AbortTransmit, PollTx,
       BuildTxBlock, SendBlock, PollLine, HostInRefused, ForeignToken
  <2>3. QED
    BY <1>1, <1>2, <2>1, <2>2, StaysTInv
<1>4. CASE PollRx
  <2>1. UNCHANGED <<usbRxLen, usbRxToken, stage, request, served, lateRx,
                    lamp>>
    BY <1>4 DEF PollRx, rxVars, appVars, hostVars, history
  <2>2. pc' # "release"
    BY <1>4 DEF PollRx, TInv, RxInv
  <2>3. QED
    BY <1>1, <1>2, <2>1, <2>2, StaysTInv
<1>5. CASE Restart
  <2>1. /\ usbRxLen' = 0 /\ ~lateRx' /\ stage' = "detached"
        /\ pc' = "boot" /\ ~served'
    BY <1>5 DEF Restart
  <2>2. QED
    BY <1>1, <2>1 DEF TInv, RxInv, TransferInv, LampFollows
<1>6. CASE HandleRequest
  <2>1. /\ UNCHANGED <<usbRxLen, usbRxToken, stage, request, lateRx>>
        /\ lamp' = LampAfter(Received, lamp)
        /\ (served' <=> served \/ ~lateRx)
    BY <1>6 DEF HandleRequest, rxVars, hostVars
  <2>2. usbRxLen # 0
    BY <1>6 DEF HandleRequest, TInv, IInv, BufferInv
  <2>3. RxInv' /\ TransferInv'
    BY <1>2, <2>1, <2>2 DEF TInv, RxInv, TransferInv, InTransfer
  <2>4. LampFollows'
    <3>1. SUFFICES ASSUME served' PROVE LampFollows'
      BY DEF LampFollows
    <3>2. Received = request
      BY <2>1, <2>2, <3>1 DEF TInv, RxInv
    <3>3. lamp' = LampAfter(request, lamp) /\ request' = request
      BY <2>1, <3>2
    <3>4. ASSUME ~request.standard, request.bRequest = USB_PB0_ON
          PROVE  lamp'
      BY <3>3, <3>4, Zenon DEF LampAfter
    <3>5. ASSUME ~request.standard, request.bRequest = USB_PB0_OFF
          PROVE  ~lamp'
      <4>1. USB_PB0_OFF # USB_PB0_ON
        BY DEF USB_PB0_OFF, USB_PB0_ON
      <4>2. QED
        BY <3>3, <3>5, <4>1, Zenon DEF LampAfter
    <3>6. QED
      BY <3>3, <3>4, <3>5, Zenon DEF LampFollows
  <2>5. QED
    BY <1>1, <2>3, <2>4 DEF TInv
<1>7. CASE ReleaseRx
  <2>1. /\ usbRxLen' = 0 /\ ~lateRx' /\ pc' = "tx"
        /\ UNCHANGED <<stage, request, served, lamp>>
    BY <1>7 DEF ReleaseRx, appVars, hostVars
  <2>2. pc = "release" /\ usbRxLen # 0
    BY <1>7 DEF ReleaseRx, TInv, IInv, BufferInv
  <2>3. QED
    BY <1>1, <2>1, <2>2 DEF TInv, RxInv, TransferInv, LampFollows, InTransfer
<1>8. CASE BeginReset
  <2>1. /\ stage' = "reset" /\ (lateRx' <=> usbRxLen # 0)
        /\ UNCHANGED <<usbRxLen, usbRxToken, request, served, lamp, pc>>
    BY <1>8 DEF BeginReset, rxVars, appVars
  <2>2. QED
    BY <1>1, <1>2, <2>1
       DEF TInv, IInv, BufferInv, RxInv, TransferInv, LampFollows, InTransfer
<1>9. CASE EndReset
  <2>1. /\ stage = "reset" /\ stage' = "idle"
        /\ UNCHANGED <<usbRxLen, usbRxToken, request, served, lateRx, lamp,
                       pc>>
    BY <1>9 DEF EndReset, rxVars, appVars
  <2>2. QED
    BY <1>1, <1>2, <2>1
       DEF TInv, RxInv, TransferInv, LampFollows, InTransfer
<1>10. CASE Submit
  <2>1. /\ stage = "idle" /\ stage' = "setup" /\ ~served'
        /\ UNCHANGED <<usbRxLen, usbRxToken, lateRx, lamp, pc>>
    BY <1>10 DEF Submit, rxVars, appVars
  <2>2. usbRxLen # 0 => lateRx
    BY <2>1 DEF TInv, RxInv, InTransfer
  <2>3. pc = "release" => lateRx
    BY <2>2 DEF TInv, IInv, BufferInv
  <2>4. QED
    BY <1>1, <2>1, <2>2, <2>3
       DEF TInv, RxInv, TransferInv, LampFollows, InTransfer
<1>11. CASE HostSetup
  <2>1. PICK tok \in TokenSeen(USBPID_SETUP), reaches \in Reaches :
          /\ HandleData(tok, request)
          /\ stage' = IF DataAnswer(tok) = "ack" /\ reaches
                      THEN IF request.wLength > 0 THEN "data" ELSE "statusIn"
                      ELSE "setup"
    BY <1>11 DEF HostSetup
  <2>2. /\ stage = "setup"
        /\ UNCHANGED <<request, served, lamp, pc>>
    BY <1>11 DEF HostSetup, appVars
  <2>3. tok \in {0, USBPID_SETUP}
    BY DEF TokenSeen, TokensArrive
  <2>4. CASE DataAnswer(tok) = "ack"
    <3>1. usbRxLen = 0 /\ tok = USBPID_SETUP
      BY <2>3, <2>4 DEF DataAnswer
    <3>2. /\ usbRxLen' = USB_BUFSIZE /\ usbRxToken' = USBPID_SETUP /\ ~lateRx'
          /\ usbInputBufOffset' = OtherHalf(usbInputBufOffset)
          /\ usbRxBuf' = InputHalf(request)
      BY <2>1, <2>4, <3>1 DEF HandleData
    <3>3. Received' = request
      <4>1. TypeOK /\ request \in Requests \cup {NoRequest}
        BY DEF TInv, IInv, TypeOK
      <4>2. QED
        BY <3>2, <4>1, InputHalfType DEF Received, OtherHalf
    <3>4. pc # "release"
      BY <3>1 DEF TInv, IInv, BufferInv
    <3>5. stage' \in {"setup", "data", "statusIn"}
      BY <2>1
    <3>6. usbRxLen' # 0
      BY <3>2 DEF USB_BUFSIZE
    <3>7. QED
      BY <1>1, <2>2, <3>2, <3>3, <3>4, <3>5, <3>6
         DEF TInv, RxInv, TransferInv, LampFollows, InTransfer
  <2>5. CASE DataAnswer(tok) # "ack"
    <3>1. /\ UNCHANGED <<usbRxLen, usbRxToken, lateRx>>
          /\ stage' = "setup"
      BY <2>1, <2>5 DEF HandleData
    <3>2. QED
      BY <1>1, <1>2, <2>2, <3>1, StaysTInv
  <2>6. QED
    BY <2>4, <2>5
<1>12. CASE HostIn
  <2>1. /\ stage \in {"data", "statusIn"} /\ usbRxLen = 0
        /\ UNCHANGED <<usbRxLen, usbRxToken, request, served, lateRx, lamp,
                       pc>>
    BY <1>12 DEF HostIn, InReady, HandleIn, appVars
  <2>2. stage' \in {stage, "idle", "statusOut", "data"}
    BY <1>12 DEF HostIn
  <2>3. QED
    BY <1>1, <2>1, <2>2
       DEF TInv, IInv, BufferInv, RxInv, TransferInv, LampFollows, InTransfer
<1>13. CASE HostStatusOut
  <2>1. /\ stage = "statusOut"
        /\ UNCHANGED <<usbRxLen, usbRxToken, request, served, lateRx, lamp,
                       pc>>
        /\ stage' \in {"idle", "statusOut"}
    BY <1>13 DEF HostStatusOut, HandleEmptyData, appVars
  <2>2. QED
    BY <1>1, <1>2, <2>1
       DEF TInv, RxInv, TransferInv, LampFollows, InTransfer
<1>14. CASE GiveUp
  <2>1. /\ InTransfer /\ stage' = "idle" /\ (lateRx' <=> usbRxLen # 0)
        /\ UNCHANGED <<usbRxLen, usbRxToken, request, served, lamp, pc>>
    BY <1>14 DEF GiveUp, rxVars, appVars
  <2>2. QED
    BY <1>1, <1>2, <2>1
       DEF TInv, IInv, BufferInv, RxInv, TransferInv, LampFollows, InTransfer
<1>15. QED
  BY <1>3, <1>4, <1>5, <1>6, <1>7, <1>8, <1>9, <1>10, <1>11, <1>12, <1>13,
     <1>14 DEF Next, usbPoll, HostTransaction

(* The invariant of transfers, if tokens are not lost alone.               *)
THEOREM TransferInvariance ==
  ASSUME TokensArrive
  PROVE  Spec => []TInv
<1>1. TInv /\ [Next]_vars => TInv'
  BY NextTInv
<1>2. QED
  BY <1>1, InitTInv, PTL DEF Spec

(* The lamp is as the last request that took effect wants it.              *)
THEOREM LampIsRight ==
  ASSUME TokensArrive
  PROVE  Spec => []LampFollows
BY TransferInvariance, PTL DEF TInv

(* After a transfer that completed, SETUP is never refused.                *)
THEOREM SetupIsWelcome ==
  ASSUME TokensArrive
  PROVE  Spec => []SetupWelcome
<1>1. TInv => SetupWelcome
  BY DEF TInv, RxInv, SetupWelcome, InTransfer
<1>2. QED
  BY <1>1, TransferInvariance, PTL
-----------------------------------------------------------------------------
(* The reply to the request of the host, from usbProcessRx to the host.    *)

(* The transmit side is that of the current transfer.                      *)
Current ==
  /\ stage \in {"setup", "data", "statusIn"} /\ served
  /\ usbRxLen = 0 \/ pc = "release"

(* A packet is built, and not sent yet.                                    *)
Built == pc = "send" \/ ~IsHandshake(usbTxLen)

(* The host expects the first packet until the device has seen the request,*)
(* and the device begins with the first one whenever it sees one.          *)
SyncInv ==
  /\ pc \in {"abort", "request"} => usbTxBuf.pid = USBPID_DATA0
  /\ pc = "request" => usbTxLen = USBPID_NAK
  /\ InTransfer /\ (stage = "setup" \/ usbRxLen # 0) =>
       got = 0 /\ toggle = USBPID_DATA1
  /\ InTransfer /\ served => ~lateRx
  /\ stage \in {"data", "statusOut"} => request.wLength > 0

(* What is built, or will be built next, is what the host waits for, and   *)
(* usbMsgLen and usbMsgPtr stand for what follows.                         *)
Left == Expected - got

ReplyInv ==
  Current /\ ~dropped =>
    /\ got <= Expected
    /\ Expected > 0 => usbMsgPtr.at = StandardReply(request).at
    /\ Built =>
         /\ usbTxBuf.pid = toggle
         /\ usbTxBuf.len = BlockLen(Left)
         /\ usbMsgLen = RestLen(Left)
         /\ Expected > 0 => /\ usbTxBuf.at = StandardReply(request).at
                            /\ usbTxBuf.offset = got
                            /\ usbMsgPtr.offset = got + BlockLen(Left)
    /\ ~Built =>
         /\ Toggled(usbTxBuf.pid) = toggle
         /\ usbMsgLen = Left
         /\ Expected > 0 => usbMsgPtr.offset = got

(* usbProcessRx limits the reply to what the host expects, and no reply is *)
(* so long that its length stands for no message.                          *)
LEMMA ExpectedLen ==
  ASSUME TypeOK
  PROVE  /\ LimitedLen(ReplyLen(request), request.wLength) = Expected
         /\ Expected \in 0 .. 38
         /\ Expected > 0 => request.standard
<1>1. \A i \in {0, 1, 2} : StringLen(i) \in 0 .. 38
  BY DEF StringLen, StringDescriptorLen, USB_CFG_VENDOR_NAME_LEN,
         USB_CFG_DEVICE_NAME_LEN
<1>2. DescriptorLen(request.high, request.low) \in 0 .. 38
  BY <1>1 DEF DescriptorLen, USBDESCR_DEVICE, USBDESCR_CONFIG,
     USBDESCR_STRING, DeviceLen, ConfigurationLen, StringLen
<1>3. StandardLen(request) \in 0 .. 38
  BY <1>2 DEF StandardLen
<1>4. ReplyLen(request) \in 0 .. 38
      /\ (ReplyLen(request) > 0 => request.standard)
  BY <1>3 DEF ReplyLen
<1>5. request.wLength \in Nat
  BY UsbAssumption DEF TypeOK, RequestSet
<1> DEFINE n == ReplyLen(request)  w == request.wLength
<1>6. n \in 0 .. 38 /\ w \in Nat
  BY <1>4, <1>5
<1> HIDE DEF n, w
<1>7. LimitedLen(n, w) = IF n < w THEN n ELSE w
  BY <1>6 DEF LimitedLen
<1>8. LimitedLen(ReplyLen(request), request.wLength) = Expected
  BY <1>7 DEF Expected, n, w
<1>9. QED
  BY <1>4, <1>6, <1>8 DEF Expected, n, w

(* At the beginning nothing is under way.                                  *)
LEMMA InitSync == Init => SyncInv /\ ReplyInv
BY Zenon DEF Init, DeviceInit, SyncInv, ReplyInv, Current, InTransfer

(* No step breaks what the host and the device know of the first packet.   *)
LEMMA NextSync ==
  ASSUME TokensArrive, TInv, SyncInv, [Next]_vars
  PROVE  SyncInv'
<1> USE DEF TInv, IInv, BufferInv, RxInv, TransferInv, SyncInv, InTransfer
<1>1. CASE UNCHANGED vars
  BY <1>1 DEF vars, rxVars, txVars, hostVars, history
<1>2. CASE Connect \/ PollRx \/ PollTx
  BY <1>2 DEF Connect, PollRx, PollTx, rxVars, txVars, hostVars, history
<1>3. CASE Restart
  BY <1>3 DEF Restart
<1>4. CASE InitToggle
  BY <1>4 DEF InitToggle, Packet, rxVars, hostVars, history
<1>5. CASE AbortTransmit
  BY <1>5 DEF AbortTransmit, rxVars, hostVars, history
<1>6. CASE HandleRequest
  <2>1. /\ UNCHANGED <<usbRxLen, stage, request, got, toggle, lateRx>>
        /\ pc' = "release"
        /\ (served' <=> served \/ ~lateRx)
    BY <1>6 DEF HandleRequest, rxVars, hostVars
  <2>2. QED
    BY <2>1
<1>7. CASE ReleaseRx
  <2>1. /\ UNCHANGED <<stage, request, got, toggle, served>>
        /\ usbRxLen' = 0 /\ ~lateRx' /\ pc' = "tx"
    BY <1>7 DEF ReleaseRx, hostVars
  <2>2. QED
    BY <2>1
<1>8. CASE BuildTxBlock \/ SendBlock \/ PollLine
  <2>1. /\ UNCHANGED <<usbRxLen, stage, request, got, toggle, served, lateRx>>
        /\ pc' \in {"send", "line", "rx"}
    BY <1>8 DEF BuildTxBlock, SendBlock, PollLine, rxVars, hostVars, history
  <2>2. QED
    BY <2>1
<1>9. CASE BeginReset \/ EndReset \/ GiveUp
  <2>1. /\ UNCHANGED <<usbTxBuf, usbTxLen, pc, request>>
        /\ stage' \in {"reset", "idle"}
    BY <1>9 DEF BeginReset, EndReset, GiveUp, txVars
  <2>2. QED
    BY <2>1
<1>10. CASE Submit
  <2>1. /\ UNCHANGED <<usbTxBuf, usbTxLen, pc>>
        /\ stage' = "setup" /\ ~served' /\ got' = 0 /\ toggle' = USBPID_DATA1
    BY <1>10 DEF Submit, txVars
  <2>2. QED
    BY <2>1
<1>11. CASE HostSetup
  <2>1. PICK tok \in TokenSeen(USBPID_SETUP), reaches \in Reaches :
          /\ HandleData(tok, request)
          /\ stage' = IF DataAnswer(tok) = "ack" /\ reaches
                      THEN IF request.wLength > 0 THEN "data" ELSE "statusIn"
                      ELSE "setup"
    BY <1>11 DEF HostSetup
  <2>2. /\ stage = "setup"
        /\ UNCHANGED <<usbTxBuf, usbTxLen, pc, request, got, toggle, served>>
    BY <1>11 DEF HostSetup, txVars
  <2>3. lateRx' => lateRx
    BY <2>1 DEF HandleData
  <2>4. stage' \in {"setup", "data", "statusIn"}
        /\ (stage' = "data" => request.wLength > 0)
    BY <2>1
  <2>5. QED
    BY <2>2, <2>3, <2>4
<1>12. CASE HostIn
  <2>1. /\ stage \in {"data", "statusIn"} /\ usbRxLen = 0
        /\ UNCHANGED <<usbRxLen, usbTxBuf, pc, request, served, lateRx>>
    BY <1>12 DEF HostIn, InReady, HandleIn
  <2>2. /\ stage' \in {stage, "idle", "statusOut", "data"}
        /\ stage' \in {"data", "statusOut"} => stage = "data"
    BY <1>12 DEF HostIn
  <2>3. QED
    BY <2>1, <2>2
<1>13. CASE HostInRefused \/ ForeignToken
  BY <1>13 DEF HostInRefused, ForeignToken, txVars, hostVars, history
<1>14. CASE HostStatusOut
  <2>1. /\ stage = "statusOut" /\ stage' \in {"idle", "statusOut"}
        /\ UNCHANGED <<usbRxLen, usbTxBuf, usbTxLen, pc, request, got, toggle,
                       served, lateRx>>
    BY <1>14 DEF HostStatusOut, HandleEmptyData, txVars
  <2>2. QED
    BY <2>1
<1>15. QED
  BY <1>1, <1>2, <1>3, <1>4, <1>5, <1>6, <1>7, <1>8, <1>9, <1>10, <1>11,
     <1>12, <1>13, <1>14 DEF Next, usbPoll, HostTransaction

(* Steps that neither build nor send nor take a packet.                    *)
LEMMA StaysReply ==
  ASSUME ReplyInv,
         Current' /\ ~dropped' =>
           /\ Current /\ ~dropped
           /\ Built' <=> Built
           /\ UNCHANGED <<request, got, toggle, usbTxBuf, usbMsgLen,
                          usbMsgPtr>>
  PROVE  ReplyInv'
BY DEF ReplyInv, Left, Expected, Toggled

(* No step breaks the order of the packets of a reply.                     *)
LEMMA NextReply ==
  ASSUME TokensArrive, TInv, TInv', SyncInv, ReplyInv, [Next]_vars
  PROVE  ReplyInv'
<1>1. /\ Expected \in 0 .. 38 /\ got \in Nat /\ usbTxBuf.len \in 0 .. 8
      /\ toggle \in {USBPID_DATA0, USBPID_DATA1}
      /\ usbTxBuf.pid \in {0, USBPID_DATA0, USBPID_DATA1}
      /\ USBPID_DATA0 # USBPID_DATA1
  BY ExpectedLen DEF TInv, IInv, TypeOK, USBPID_DATA0, USBPID_DATA1
<1>2. /\ usbRxLen = 0 => pc \notin {"toggle", "abort", "request", "release"}
      /\ pc \in {"block", "send"} => IsHandshake(usbTxLen)
  BY Handshakes DEF TInv, IInv, BufferInv
<1>3. CASE UNCHANGED vars \/ Connect \/ PollRx \/ PollTx \/ PollLine
           \/ HostInRefused \/ ForeignToken
  <2>1. UNCHANGED <<usbRxLen, usbTxLen, usbTxBuf, usbMsgLen, usbMsgPtr, stage,
                    request, got, toggle, served, dropped>>
    BY <1>3 DEF vars, Connect, PollRx, PollTx, PollLine, HostInRefused,
       ForeignToken, rxVars, txVars, hostVars, history
  <2>2. (pc' = "send" <=> pc = "send")
        /\ (pc' = "release" /\ usbRxLen # 0 => pc = "release")
    BY <1>3 DEF vars, Connect, PollRx, PollTx, PollLine, HostInRefused,
       ForeignToken, TInv, RxInv
  <2>3. QED
    BY <2>1, <2>2, StaysReply DEF Current, Built
<1>4. CASE InitToggle \/ AbortTransmit
  <2>1. usbRxLen' # 0 /\ pc' # "release"
    BY <1>2, <1>4 DEF InitToggle, AbortTransmit, rxVars
  <2>2. QED
    BY <2>1 DEF ReplyInv, Current
<1>5. CASE HandleRequest
  <2>1. SUFFICES ASSUME Current' PROVE ReplyInv'
    BY DEF ReplyInv
  <2>2. /\ UNCHANGED <<usbRxLen, stage, request, got, toggle, lateRx,
                       usbTxLen, usbTxBuf>>
        /\ pc = "request" /\ pc' = "release"
        /\ served' = (served \/ ~lateRx)
        /\ usbMsgPtr' = MsgPtrAfter(Received, usbMsgPtr)
        /\ usbMsgLen' = LimitedLen(ReplyLen(Received), Received.wLength)
    BY <1>5 DEF HandleRequest, rxVars, hostVars
  <2>3. usbRxLen # 0 /\ InTransfer
    BY <1>2, <2>1, <2>2 DEF Current, InTransfer
  <2>4. ~lateRx
    BY <2>1, <2>2, <2>3 DEF Current, SyncInv
  <2>5. Received = request
    BY <2>3, <2>4 DEF TInv, RxInv
  <2>6. /\ got = 0 /\ toggle = USBPID_DATA1
        /\ usbTxBuf.pid = USBPID_DATA0 /\ usbTxLen = USBPID_NAK
    BY <2>2, <2>3 DEF SyncInv
  <2>7. usbMsgLen' = Expected /\ Expected' = Expected
    BY <2>2, <2>5, ExpectedLen DEF TInv, IInv, Expected
  <2>8. Expected > 0 => usbMsgPtr' = StandardReply(request)
    BY <2>2, <2>5, ExpectedLen DEF TInv, IInv, MsgPtrAfter
  <2>9. StandardReply(request).offset = 0
    BY DEF StandardReply, Reply, Pointer
  <2>10. ~Built'
    BY <2>2, <2>6, Handshakes DEF Built
  <2>11. QED
    BY <1>1, <2>2, <2>6, <2>7, <2>8, <2>9, <2>10
       DEF ReplyInv, Left, Toggled
<1>6. CASE ReleaseRx
  <2>1. /\ UNCHANGED <<usbTxLen, usbTxBuf, usbMsgLen, usbMsgPtr, stage,
                       request, got, toggle, served, dropped>>
        /\ pc = "release" /\ pc' = "tx"
    BY <1>6 DEF ReleaseRx, txVars, hostVars
  <2>2. QED
    BY <2>1, StaysReply DEF Current, Built
<1>7. CASE BuildTxBlock
  <2>1. SUFFICES ASSUME Current', ~dropped' PROVE ReplyInv'
    BY DEF ReplyInv
  <2>2. /\ UNCHANGED <<usbRxLen, usbTxLen, stage, request, got, toggle,
                       served, dropped>>
        /\ pc = "block" /\ pc' = "send"
        /\ usbMsgLen' = RestLen(usbMsgLen)
        /\ usbTxBuf' = Packet(Toggled(usbTxBuf.pid), usbMsgPtr.at,
                              usbMsgPtr.offset, BlockLen(usbMsgLen))
        /\ usbMsgPtr' = Advanced(usbMsgPtr, BlockLen(usbMsgLen))
    BY <1>7 DEF BuildTxBlock, rxVars, hostVars, history
  <2>3. Current /\ ~dropped /\ ~Built /\ Built'
    BY <1>2, <2>1, <2>2 DEF Current, Built
  <2>4. Expected' = Expected /\ Left' = Left
    BY <2>2 DEF Expected, Left
  <2>5. /\ got <= Expected /\ usbMsgLen = Left
        /\ Toggled(usbTxBuf.pid) = toggle
        /\ Expected > 0 => /\ usbMsgPtr.at = StandardReply(request).at
                           /\ usbMsgPtr.offset = got
    BY <2>3 DEF ReplyInv
  <2>6. /\ usbTxBuf'.pid = toggle /\ usbTxBuf'.at = usbMsgPtr.at
        /\ usbTxBuf'.offset = usbMsgPtr.offset
        /\ usbTxBuf'.len = BlockLen(Left)
    BY <2>2, <2>5 DEF Packet
  <2>7. /\ usbMsgPtr'.at = usbMsgPtr.at
        /\ usbMsgPtr'.offset = usbMsgPtr.offset + BlockLen(Left)
    BY <2>2, <2>5 DEF Advanced, Pointer
  <2>8. QED
    BY <2>2, <2>3, <2>4, <2>5, <2>6, <2>7 DEF ReplyInv
<1>8. CASE SendBlock
  <2>1. /\ UNCHANGED <<usbRxLen, usbTxBuf, usbMsgLen, usbMsgPtr, stage,
                       request, got, toggle, served, dropped>>
        /\ pc = "send" /\ pc' = "line" /\ usbTxLen' = usbTxBuf.len + 4
    BY <1>8 DEF SendBlock, rxVars, hostVars, history
  <2>2. Built /\ Built'
    BY <1>1, <2>1, Handshakes DEF Built
  <2>3. QED
    BY <2>1, <2>2, StaysReply DEF Current
<1>9. CASE Restart \/ BeginReset \/ EndReset \/ Submit \/ GiveUp
           \/ HostStatusOut
  <2>1. stage' \in {"detached", "reset", "idle", "statusOut"} \/ ~served'
    BY <1>9 DEF Restart, BeginReset, EndReset, Submit, GiveUp, HostStatusOut
  <2>2. QED
    BY <2>1 DEF ReplyInv, Current
<1>10. CASE HostSetup
  <2>1. PICK tok \in TokenSeen(USBPID_SETUP), reaches \in Reaches :
          /\ HandleData(tok, request)
          /\ stage' = IF DataAnswer(tok) = "ack" /\ reaches
                      THEN IF request.wLength > 0 THEN "data" ELSE "statusIn"
                      ELSE "setup"
    BY <1>10 DEF HostSetup
  <2>2. /\ stage = "setup"
        /\ UNCHANGED <<usbTxLen, usbTxBuf, usbMsgLen, usbMsgPtr, pc, request,
                       got, toggle, served, dropped>>
    BY <1>10 DEF HostSetup, txVars
  <2>3. CASE DataAnswer(tok) = "ack"
    <3>1. usbRxLen = 0 /\ usbRxLen' = USB_BUFSIZE
      BY <2>1, <2>3 DEF HandleData, DataAnswer
    <3>2. usbRxLen' # 0 /\ pc' # "release"
      BY <1>2, <2>2, <3>1 DEF USB_BUFSIZE
    <3>3. QED
      BY <3>2 DEF ReplyInv, Current
  <2>4. CASE DataAnswer(tok) # "ack"
    <3>1. stage' = stage /\ usbRxLen' = usbRxLen
      BY <2>1, <2>2, <2>4 DEF HandleData
    <3>2. QED
      BY <2>2, <3>1, StaysReply DEF Current, Built
  <2>5. QED
    BY <2>3, <2>4
<1>11. CASE HostIn
  <2>1. SUFFICES ASSUME Current', ~dropped' PROVE ReplyInv'
    BY DEF ReplyInv
  <2>2. /\ stage \in {"data", "statusIn"} /\ usbRxLen = 0
        /\ ~IsHandshake(usbTxLen) /\ usbTxLen' = USBPID_NAK
        /\ UNCHANGED <<usbRxLen, usbTxBuf, usbMsgLen, usbMsgPtr, pc, request,
                       served>>
    BY <1>11 DEF HostIn, HandleIn, InReady
  <2>3. Current /\ Built /\ ~Built'
    BY <1>2, <2>1, <2>2, Handshakes DEF Current, Built
  <2>4. ~dropped
    BY <1>11, <2>1 DEF HostIn
  <2>5. /\ got <= Expected
        /\ Expected > 0 => usbMsgPtr.at = StandardReply(request).at
        /\ usbTxBuf.pid = toggle
        /\ usbTxBuf.len = BlockLen(Left)
        /\ usbMsgLen = RestLen(Left)
        /\ Expected > 0 => usbMsgPtr.offset = got + BlockLen(Left)
    BY <2>3, <2>4 DEF ReplyInv
  <2>6. /\ toggle' = Toggled(toggle)
        /\ stage = "data" /\ ~LastIn
        /\ got' = got + usbTxBuf.len
    BY <1>11, <2>1, <2>5 DEF HostIn, Current
  <2>7. usbTxBuf.len = 8
    BY <1>1, <2>6 DEF LastIn
  <2>8. Expected' = Expected /\ Left' = Left - 8 /\ Left >= 8
    BY <1>1, <2>2, <2>5, <2>6, <2>7 DEF Left, Expected, BlockLen
  <2>9. usbMsgLen = Left - 8
    BY <1>1, <2>5, <2>7 DEF RestLen, Left, BlockLen
  <2>10. QED
    BY <1>1, <2>2, <2>3, <2>5, <2>6, <2>7, <2>8, <2>9 DEF ReplyInv, Left
<1>12. QED
  BY <1>3, <1>4, <1>5, <1>6, <1>7, <1>8, <1>9, <1>10, <1>11
     DEF Next, usbPoll, HostTransaction

(* The invariant of the reply.                                             *)
PInv == TInv /\ SyncInv /\ ReplyInv

(* No step breaks it.                                                      *)
LEMMA NextPInv ==
  ASSUME TokensArrive, PInv, [Next]_vars
  PROVE  PInv'
BY NextTInv, NextSync, NextReply DEF PInv

(* What the handler sends is what the host waits for.                      *)
LEMMA ReplyIsNext == PInv => NextPacket
<1> SUFFICES ASSUME PInv, stage \in {"data", "statusIn"}, InReady, ~dropped
             PROVE  /\ usbTxBuf.pid = toggle
                    /\ usbTxBuf.len = BlockLen(Expected - got)
                    /\ usbTxBuf.len > 0 =>
                         /\ usbTxBuf.at = StandardReply(request).at
                         /\ usbTxBuf.offset = got
  BY DEF NextPacket
<1>1. Current /\ Built
  BY DEF PInv, TInv, TransferInv, InReady, Current, Built
<1>2. Expected \in 0 .. 38 /\ got \in Nat
  BY ExpectedLen DEF PInv, TInv, IInv, TypeOK
<1>3. QED
  BY <1>1, <1>2 DEF PInv, ReplyInv, Left, BlockLen

(* Whatever was given up or acknowledged in vain, a reply is sent in its   *)
(* order: no packet of another reply, none twice, none left out; as long   *)
(* as no packet of it is lost on its way to the host.                      *)
THEOREM RepliesInOrder ==
  ASSUME TokensArrive
  PROVE  Spec => []NextPacket
<1>1. Init => PInv
  BY InitTInv, InitSync DEF PInv
<1>2. PInv /\ [Next]_vars => PInv'
  BY NextPInv
<1>3. QED
  BY <1>1, <1>2, ReplyIsNext, PTL DEF Spec

-----------------------------------------------------------------------------
(* The addresses                                                           *)

(* A reset is seen twice: what waited in the receive buffer is processed   *)
(* between the two, and an address that it leaves is forgotten.            *)
ResetInv ==
  stage = "reset" =>
    /\ hostAddr = 0
    /\ polls > 0 =>
         /\ usbDeviceAddr = 0
         /\ usbRxLen # 0 =>
              pc \in {"rx", "toggle", "abort", "request", "release"}
    /\ polls = 2 => usbNewDeviceAddr = 0 /\ usbRxLen = 0

(* No step breaks it, whatever is lost.                                    *)
LEMMA NextReset ==
  ASSUME IInv, ResetInv, [Next]_vars
  PROVE  ResetInv'
<1>1. polls \in 0 .. 2
  BY DEF IInv, TypeOK
<1> USE DEF IInv, BufferInv, ResetInv
<1>2. CASE UNCHANGED vars
  BY <1>2 DEF vars, rxVars, addrVars, hostVars
<1>3. CASE Connect \/ PollRx \/ InitToggle \/ AbortTransmit \/ PollTx
  BY <1>3 DEF Connect, PollRx, InitToggle, AbortTransmit, PollTx, rxVars,
     addrVars, hostVars
<1>4. CASE HandleRequest
  BY <1>1, <1>4 DEF HandleRequest, rxVars, hostVars
<1>5. CASE ReleaseRx
  BY <1>5 DEF ReleaseRx, addrVars, hostVars
<1>6. CASE BuildTxBlock \/ SendBlock
  <2>1. /\ UNCHANGED <<usbRxLen, usbDeviceAddr, usbNewDeviceAddr, stage,
                       hostAddr, polls>>
        /\ pc \in {"block", "send"}
    BY <1>6 DEF BuildTxBlock, SendBlock, rxVars, addrVars, hostVars
  <2>2. QED
    BY <2>1
<1>7. CASE PollLine
  <2>1. /\ UNCHANGED <<usbRxLen, stage, hostAddr>>
        /\ pc = "line" /\ pc' = "rx"
    BY <1>7 DEF PollLine, rxVars
  <2>2. CASE stage # "reset"
    BY <2>1, <2>2
  <2>3. CASE stage = "reset"
    <3>1. /\ usbNewDeviceAddr' = 0 /\ usbDeviceAddr' = 0
          /\ polls' = IF polls < 2 THEN polls + 1 ELSE polls
      BY <1>7, <2>3 DEF PollLine
    <3>2. polls' = 2 => polls > 0
      BY <1>1, <3>1
    <3>3. QED
      BY <1>1, <2>1, <2>3, <3>1, <3>2
  <2>4. QED
    BY <2>2, <2>3
<1>8. CASE BeginReset
  BY <1>8 DEF BeginReset
<1>9. CASE Restart \/ EndReset \/ Submit \/ GiveUp
  <2>1. stage' # "reset"
    BY <1>9 DEF Restart, EndReset, Submit, GiveUp
  <2>2. QED
    BY <2>1
<1>10. CASE HostSetup \/ HostIn \/ HostStatusOut
  <2>1. stage' # "reset"
    BY <1>10 DEF HostSetup, HostIn, HostStatusOut
  <2>2. QED
    BY <2>1
<1>11. CASE HostInRefused \/ ForeignToken
  <2>1. stage' # "reset"
    BY <1>11 DEF HostInRefused, ForeignToken, hostVars
  <2>2. QED
    BY <2>1
<1>12. QED
  BY <1>2, <1>3, <1>4, <1>5, <1>6, <1>7, <1>8, <1>9, <1>10, <1>11
     DEF Next, usbPoll, HostTransaction

(* The two addresses of the device and that of the host.  usbNewDeviceAddr *)
(* is ahead of them while a SET_ADDRESS that was handled awaits its end,   *)
(* and no SET_ADDRESS is waiting that the host has given up.               *)
AddrInv ==
  (stage \notin {"detached", "reset"} /\ ~spoilt) =>
    /\ usbDeviceAddr = hostAddr
    /\ SetsAddress /\ InTransfer /\ served => usbNewDeviceAddr = request.low
    /\ ~(SetsAddress /\ InTransfer /\ served) => usbNewDeviceAddr = hostAddr
    /\ lateRx => ~IsStandard(Received, USBRQ_SET_ADDRESS)
    /\ SetsAddress /\ InTransfer => ~dropped

AInv == PInv /\ ResetInv /\ AddrInv

(* Steps that leave the addresses and the transfer alone.                  *)
LEMMA StaysAddr ==
  ASSUME TInv, TInv', AddrInv, [Next]_vars,
         UNCHANGED <<usbDeviceAddr, usbNewDeviceAddr, hostAddr, stage, request,
                     served, dropped, spoilt>>,
         lateRx' => lateRx
  PROVE  AddrInv'
<1>1. lateRx' => Received' = Received
  BY NextReceived DEF TInv, RxInv
<1>2. QED
  BY <1>1 DEF AddrInv, SetsAddress, InTransfer

(* No step breaks the agreement on the address.                            *)
LEMMA NextAddr ==
  ASSUME PInv, TInv', ResetInv, AddrInv, [Next]_vars
  PROVE  AddrInv'
<1>1. TInv
  BY DEF PInv
<1>2. SetsAddress => request.wLength = 0 /\ request.standard
  BY <1>1, UsbAssumption DEF SetsAddress, IsStandard, TInv, IInv, TypeOK
<1>3. SetsAddress /\ InTransfer => stage \in {"setup", "statusIn"}
  BY <1>2 DEF PInv, SyncInv, InTransfer
<1>4. CASE UNCHANGED vars \/ Connect \/ PollRx \/ InitToggle \/ AbortTransmit
           \/ ReleaseRx \/ PollTx \/ BuildTxBlock \/ SendBlock
           \/ HostInRefused \/ ForeignToken
  <2>1. UNCHANGED <<usbDeviceAddr, usbNewDeviceAddr, hostAddr, stage, request,
                    served, dropped, spoilt>>
    BY <1>4 DEF vars, Connect, PollRx, InitToggle, AbortTransmit, ReleaseRx,
       PollTx, BuildTxBlock, SendBlock, HostInRefused, ForeignToken, addrVars,
       hostVars, history
  <2>2. lateRx' => lateRx
    BY <1>4 DEF vars, Connect, PollRx, InitToggle, AbortTransmit, ReleaseRx,
       PollTx, BuildTxBlock, SendBlock, HostInRefused, ForeignToken, history
  <2>3. QED
    BY <1>1, <2>1, <2>2, StaysAddr
<1>5. CASE Restart \/ BeginReset
  BY <1>5 DEF Restart, BeginReset, AddrInv
<1>6. CASE PollLine
  <2>1. CASE stage = "reset"
    BY <1>6, <2>1 DEF PollLine, AddrInv
  <2>2. CASE stage # "reset"
    BY <1>1, <1>6, <2>2, StaysAddr DEF PollLine, addrVars, history
  <2>3. QED
    BY <2>1, <2>2
<1>7. CASE HandleRequest
  <2>1. /\ UNCHANGED <<usbRxLen, stage, request, hostAddr, lateRx,
                       usbDeviceAddr, dropped, spoilt>>
        /\ usbNewDeviceAddr' = NewAddrAfter(Received, usbNewDeviceAddr)
        /\ (served' <=> served \/ ~lateRx)
        /\ pc = "request"
    BY <1>7 DEF HandleRequest, rxVars, hostVars
  <2>2. usbRxLen # 0
    BY <1>1, <2>1 DEF TInv, IInv, BufferInv
  <2>3. Received' = Received
    BY <1>1, <2>1, <2>2, NextReceived DEF TInv
  <2>4. CASE lateRx
    BY <2>1, <2>3, <2>4 DEF AddrInv, NewAddrAfter, SetsAddress, InTransfer
  <2>5. CASE ~lateRx
    <3>1. Received = request /\ InTransfer
      BY <1>1, <2>2, <2>5 DEF TInv, RxInv
    <3>2. CASE SetsAddress
      BY <2>1, <2>5, <3>1, <3>2
         DEF AddrInv, NewAddrAfter, SetsAddress, InTransfer
    <3>3. CASE ~SetsAddress
      BY <2>1, <2>5, <3>1, <3>3
         DEF AddrInv, NewAddrAfter, SetsAddress, InTransfer
    <3>4. QED
      BY <3>2, <3>3
  <2>6. QED
    BY <2>4, <2>5
<1>8. CASE EndReset
  <2>1. /\ stage = "reset" /\ polls = 2 /\ stage' = "idle"
        /\ UNCHANGED <<usbDeviceAddr, usbNewDeviceAddr, hostAddr, lateRx>>
    BY <1>8 DEF EndReset, addrVars
  <2>2. ~lateRx
    BY <1>1, <2>1 DEF ResetInv, TInv, RxInv
  <2>3. QED
    BY <2>1, <2>2 DEF ResetInv, AddrInv, InTransfer
<1>9. CASE Submit
  <2>1. /\ stage = "idle" /\ ~served' /\ ~dropped'
        /\ UNCHANGED <<usbRxBuf, usbInputBufOffset, usbDeviceAddr,
                       usbNewDeviceAddr, hostAddr, lateRx, spoilt>>
    BY <1>9 DEF Submit, rxVars, addrVars
  <2>2. Received' = Received
    BY <2>1 DEF Received
  <2>3. QED
    BY <2>1, <2>2 DEF AddrInv, InTransfer
<1>10. CASE HostSetup
  <2>1. PICK tok \in TokenSeen(USBPID_SETUP), reaches \in Reaches :
          /\ HandleData(tok, request)
          /\ stage' = IF DataAnswer(tok) = "ack" /\ reaches
                      THEN IF request.wLength > 0 THEN "data" ELSE "statusIn"
                      ELSE "setup"
    BY <1>10 DEF HostSetup
  <2>2. /\ stage = "setup" /\ stage' \in {"setup", "data", "statusIn"}
        /\ UNCHANGED <<usbDeviceAddr, usbNewDeviceAddr, hostAddr, request,
                       served, dropped, spoilt>>
    BY <1>10, <2>1 DEF HostSetup, addrVars
  <2>3. lateRx' => lateRx
    BY <2>1 DEF HandleData
  <2>4. lateRx' => Received' = Received
    BY <1>1, <2>3, NextReceived DEF TInv, RxInv
  <2>5. QED
    BY <2>2, <2>3, <2>4 DEF AddrInv, SetsAddress, InTransfer
<1>11. CASE HostIn
  <2>1. SUFFICES ASSUME stage' \notin {"detached", "reset"}, ~spoilt'
                 PROVE  AddrInv'
    BY DEF AddrInv
  <2>2. /\ stage \in {"data", "statusIn"} /\ usbRxLen = 0 /\ InReady
        /\ usbDeviceAddr' = usbNewDeviceAddr
        /\ UNCHANGED <<usbNewDeviceAddr, request, served, lateRx>>
    BY <1>11 DEF HostIn, HandleIn, InReady
  <2>3. served /\ InTransfer /\ ~lateRx /\ ~spoilt
    <3>1. ~spoilt
      BY <1>11, <2>1, Zenon DEF HostIn
    <3>2. QED
      BY <1>1, <2>2, <3>1 DEF TInv, TransferInv, InTransfer
  <2>4. CASE SetsAddress
    <3>1. ~dropped /\ usbNewDeviceAddr = request.low /\ stage = "statusIn"
      BY <1>3, <2>2, <2>3, <2>4 DEF AddrInv
    <3>2. toggle = usbTxBuf.pid
      BY <2>2, <3>1, ReplyIsNext DEF NextPacket
    <3>3. stage' = "idle" /\ hostAddr' = request.low
      BY <1>11, <2>1, <2>4, <3>1, <3>2 DEF HostIn
    <3>4. QED
      BY <2>2, <2>3, <3>1, <3>3 DEF AddrInv, InTransfer
  <2>5. CASE ~SetsAddress
    <3>1. usbNewDeviceAddr = hostAddr
      BY <2>2, <2>3, <2>5 DEF AddrInv
    <3>2. hostAddr' = hostAddr /\ ~SetsAddress'
      BY <1>11, <2>2, <2>5 DEF HostIn, SetsAddress
    <3>3. QED
      BY <2>2, <2>3, <3>1, <3>2 DEF AddrInv
  <2>6. QED
    BY <2>4, <2>5
<1>12. CASE HostStatusOut
  <2>1. /\ stage = "statusOut" /\ stage' \in {"idle", "statusOut"}
        /\ UNCHANGED <<usbRxLen, usbDeviceAddr, usbNewDeviceAddr, hostAddr,
                       request, served, lateRx, dropped, spoilt>>
    BY <1>12 DEF HostStatusOut, HandleEmptyData, addrVars
  <2>2. ~SetsAddress /\ ~SetsAddress'
    BY <1>3, <2>1 DEF InTransfer, SetsAddress
  <2>3. ~lateRx
    BY <1>1, <2>1 DEF TInv, TransferInv, RxInv
  <2>4. QED
    BY <2>1, <2>2, <2>3 DEF AddrInv
<1>13. CASE GiveUp
  <2>1. SUFFICES ASSUME ~spoilt' PROVE AddrInv'
    BY DEF AddrInv
  <2>2. /\ InTransfer /\ stage' = "idle" /\ (lateRx' <=> usbRxLen # 0)
        /\ UNCHANGED <<usbRxBuf, usbInputBufOffset, usbDeviceAddr,
                       usbNewDeviceAddr, hostAddr, request>>
    BY <1>13 DEF GiveUp, rxVars, addrVars
  <2>3. ~spoilt /\ ~SetsAddress
    BY <1>13, <2>1 DEF GiveUp
  <2>4. Received' = Received
    BY <2>2 DEF Received
  <2>5. lateRx' /\ ~lateRx => Received = request
    BY <1>1, <2>2 DEF TInv, RxInv
  <2>6. stage \notin {"detached", "reset"} /\ ~InTransfer'
    BY <2>2 DEF InTransfer
  <2>7. QED
    BY <2>2, <2>3, <2>4, <2>5, <2>6 DEF AddrInv, SetsAddress
<1>14. QED
  BY <1>4, <1>5, <1>6, <1>7, <1>8, <1>9, <1>10, <1>11, <1>12, <1>13
     DEF Next, usbPoll, HostTransaction

(* The host and the handler agree on the address, unless a SET_ADDRESS was *)
(* given up or its last packet lost; a reset of the bus makes up for it.   *)
THEOREM AddressesAgree ==
  ASSUME TokensArrive
  PROVE  Spec => []AddressAgrees
<1>1. Init => AInv
  <2>1. Init => stage = "detached"
    BY DEF Init
  <2>2. QED
    BY <2>1, InitTInv, InitSync DEF AInv, PInv, ResetInv, AddrInv
<1>2. AInv /\ [Next]_vars => AInv'
  <2> SUFFICES ASSUME AInv, [Next]_vars PROVE AInv'
    OBVIOUS
  <2>1. PInv' /\ TInv'
    BY NextPInv DEF AInv, PInv
  <2>2. ResetInv'
    BY NextReset DEF AInv, PInv, TInv
  <2>3. AddrInv'
    BY <2>1, NextAddr DEF AInv
  <2>4. QED
    BY <2>1, <2>2, <2>3 DEF AInv
<1>3. AInv => AddressAgrees
  BY DEF AInv, AddrInv, AddressAgrees
<1>4. QED
  BY <1>1, <1>2, <1>3, PTL DEF Spec

-----------------------------------------------------------------------------
(* The firmware implements ControlTransfer.                                *)

(* At the beginning no transfer is in progress.                            *)
LEMMA InitControl == Init => Control!Init
<1> SUFFICES ASSUME Init PROVE Control!Init
  OBVIOUS
<1>1. /\ stage = "detached" /\ request \in Requests /\ served = FALSE
      /\ lateRx = FALSE /\ lamp = FALSE
  BY DEF Init, DeviceInit
<1>2. InTransfer = FALSE /\ LateRequests = {}
  BY <1>1 DEF InTransfer, LateRequests
<1>3. QED
  BY <1>1, <1>2 DEF Control!Init

(* A step that the abstract specification does not see.                    *)
LEMMA StutterControl ==
  ASSUME UNCHANGED <<InTransfer, request, served, LateRequests, lamp>>
  PROVE  UNCHANGED Control!vars
BY DEF Control!vars

(* Steps that leave the transfer and the receive buffer alone.             *)
LEMMA StaysControl ==
  ASSUME TInv,
         UNCHANGED <<usbRxLen, stage, request, served, lateRx, lamp>>,
         usbRxLen # 0 => Received' = Received,
         pc' = "release" <=> pc = "release"
  PROVE  UNCHANGED Control!vars
<1>1. InTransfer' = InTransfer
  BY DEF InTransfer
<1>2. LateRequests' = LateRequests
  BY DEF LateRequests
<1>3. QED
  BY <1>1, <1>2, StutterControl

(* Every step is one of ControlTransfer, or none.                          *)
LEMMA NextControl ==
  ASSUME TokensArrive, TInv, TInv', [Next]_vars
  PROVE  [Control!Next]_Control!vars
<1>1. usbRxLen # 0 /\ usbRxLen' # 0 => Received' = Received
  BY NextReceived DEF TInv
<1>2. CASE UNCHANGED vars \/ Connect \/ InitToggle \/ AbortTransmit \/ PollTx
           \/ BuildTxBlock \/ SendBlock \/ PollLine \/ HostInRefused
           \/ ForeignToken
  <2>1. UNCHANGED <<usbRxLen, stage, request, served, lateRx, lamp>>
    BY <1>2 DEF vars, Connect, InitToggle, AbortTransmit, PollTx,
       BuildTxBlock, SendBlock, PollLine, HostInRefused, ForeignToken,
       rxVars, appVars, hostVars, history
  <2>2. pc' = "release" <=> pc = "release"
    BY <1>2 DEF vars, Connect, InitToggle, AbortTransmit, PollTx,
       BuildTxBlock, SendBlock, PollLine, HostInRefused, ForeignToken
  <2>3. QED
    BY <1>1, <2>1, <2>2, StaysControl
<1>3. CASE PollRx
  <2>1. UNCHANGED <<usbRxLen, stage, request, served, lateRx, lamp>>
    BY <1>3 DEF PollRx, rxVars, appVars, hostVars, history
  <2>2. pc = "rx" /\ pc' # "release"
    BY <1>3 DEF PollRx, TInv, RxInv
  <2>3. QED
    BY <1>1, <2>1, <2>2, StaysControl
<1>4. CASE Restart
  <2>1. /\ usbRxLen' = 0 /\ stage' = "detached" /\ served' = FALSE
        /\ lateRx' = FALSE /\ lamp' = FALSE /\ request' = request
    BY <1>4 DEF Restart
  <2>2. InTransfer' = FALSE /\ LateRequests' = {}
    BY <2>1 DEF InTransfer, LateRequests
  <2>3. QED
    BY <2>1, <2>2 DEF Control!Next, Control!Restart
<1>5. CASE HandleRequest
  <2>1. /\ UNCHANGED <<stage, request, usbRxLen, lateRx>>
        /\ lamp' = LampAfter(Received, lamp)
        /\ served' = (served \/ ~lateRx)
        /\ pc = "request" /\ pc' = "release"
    BY <1>5 DEF HandleRequest, rxVars, hostVars
  <2>2. usbRxLen # 0
    BY <2>1 DEF TInv, IInv, BufferInv
  <2>3. InTransfer' = InTransfer /\ LateRequests' = {}
    BY <2>1 DEF InTransfer, LateRequests
  <2>4. CASE lateRx
    <3>1. LateRequests = {Received}
      BY <2>1, <2>2, <2>4 DEF LateRequests
    <3>2. served' = served
      BY <2>1, <2>4 DEF TInv, IInv, TypeOK
    <3>3. QED
      BY <2>1, <2>3, <3>1, <3>2 DEF Control!Next, Control!ServeLate
  <2>5. CASE ~lateRx
    <3>1. LateRequests = {} /\ Received = request
      BY <2>2, <2>5 DEF LateRequests, TInv, RxInv
    <3>2. served' = TRUE
      BY <2>1, <2>5
    <3>3. InTransfer
      BY <2>2, <2>5 DEF TInv, RxInv
    <3>4. QED
      BY <2>1, <2>3, <3>1, <3>2, <3>3 DEF Control!Next, Control!Serve
  <2>6. QED
    BY <2>4, <2>5
<1>6. CASE ReleaseRx
  <2>1. /\ UNCHANGED <<stage, request, served, lamp>>
        /\ usbRxLen' = 0 /\ pc = "release"
    BY <1>6 DEF ReleaseRx, appVars, hostVars
  <2>2. InTransfer' = InTransfer /\ LateRequests = {} /\ LateRequests' = {}
    BY <2>1 DEF InTransfer, LateRequests
  <2>3. QED
    BY <2>1, <2>2, StutterControl
<1>7. CASE Submit
  <2>1. /\ stage = "idle" /\ stage' = "setup"
        /\ request' \in Requests /\ served' = FALSE
        /\ UNCHANGED <<usbRxLen, usbRxBuf, usbInputBufOffset, lateRx, pc,
                       lamp>>
    BY <1>7 DEF Submit, rxVars, appVars
  <2>2. /\ InTransfer = FALSE /\ InTransfer' = TRUE
        /\ LateRequests' = LateRequests
    BY <2>1 DEF InTransfer, LateRequests, Received
  <2>3. QED
    BY <2>1, <2>2 DEF Control!Next, Control!Submit
<1>8. CASE EndReset
  <2>1. /\ stage = "reset" /\ stage' = "idle"
        /\ UNCHANGED <<usbRxLen, request, served, lateRx, lamp, pc>>
    BY <1>8 DEF EndReset, rxVars, appVars
  <2>2. InTransfer' = InTransfer /\ LateRequests' = LateRequests
    BY <1>1, <2>1 DEF InTransfer, LateRequests
  <2>3. QED
    BY <2>1, <2>2, StutterControl
(* GiveUp, or a reset in the middle of a transfer.                         *)
<1>9. ASSUME InTransfer, stage' \in {"idle", "reset"},
             lateRx' = (usbRxLen # 0),
             UNCHANGED <<usbRxLen, usbRxBuf, usbInputBufOffset, pc, request,
                         served, lamp>>
      PROVE  [Control!Next]_Control!vars
  <2>1. InTransfer' = FALSE
    BY <1>9 DEF InTransfer
  <2>2. LateRequests' \in {LateRequests, {request}}
    <3>1. CASE usbRxLen = 0 \/ pc = "release"
      BY <1>9, <3>1 DEF LateRequests
    <3>2. CASE usbRxLen # 0 /\ pc # "release" /\ lateRx
      BY <1>9, <3>2 DEF LateRequests, Received
    <3>3. CASE usbRxLen # 0 /\ pc # "release" /\ ~lateRx
      <4>1. Received = request /\ Received' = Received
        BY <1>9, <3>3 DEF TInv, RxInv, Received
      <4>2. QED
        BY <1>9, <3>3, <4>1 DEF LateRequests
    <3>4. QED
      BY <3>1, <3>2, <3>3
  <2>3. QED
    BY <1>9, <2>1, <2>2 DEF Control!Next, Control!GiveUp
<1>10. CASE GiveUp
  BY <1>9, <1>10 DEF GiveUp, rxVars, appVars
<1>11. CASE BeginReset
  <2>1. /\ stage' = "reset" /\ lateRx' = (usbRxLen # 0)
        /\ UNCHANGED <<usbRxLen, usbRxBuf, usbInputBufOffset, pc, request,
                       served, lamp>>
    BY <1>11 DEF BeginReset, rxVars, appVars
  <2>2. CASE InTransfer
    BY <1>9, <2>1, <2>2
  <2>3. CASE ~InTransfer
    <3>1. lateRx' <=> lateRx
      BY <2>1, <2>3 DEF TInv, RxInv
    <3>2. InTransfer' = FALSE /\ InTransfer = FALSE
      BY <2>1, <2>3 DEF InTransfer
    <3>3. LateRequests' = LateRequests
      BY <2>1, <3>1 DEF LateRequests, Received
    <3>4. QED
      BY <2>1, <3>2, <3>3, StutterControl
  <2>4. QED
    BY <2>2, <2>3
<1>12. CASE HostSetup
  <2>1. PICK tok \in TokenSeen(USBPID_SETUP), reaches \in Reaches :
          /\ HandleData(tok, request)
          /\ stage' = IF DataAnswer(tok) = "ack" /\ reaches
                      THEN IF request.wLength > 0 THEN "data" ELSE "statusIn"
                      ELSE "setup"
    BY <1>12 DEF HostSetup
  <2>2. /\ stage = "setup"
        /\ UNCHANGED <<request, served, lamp, pc>>
    BY <1>12 DEF HostSetup, appVars
  <2>3. stage' \in {"setup", "data", "statusIn"}
    BY <2>1
  <2>4. InTransfer' = InTransfer
    BY <2>2, <2>3 DEF InTransfer
  <2>5. LateRequests' = LateRequests
    <3>1. CASE DataAnswer(tok) = "ack"
      <4>1. usbRxLen = 0 /\ ~lateRx'
        BY <2>1, <3>1 DEF DataAnswer, HandleData
      <4>2. QED
        BY <4>1 DEF LateRequests
    <3>2. CASE DataAnswer(tok) # "ack"
      <4>1. UNCHANGED <<usbRxLen, lateRx>>
        BY <2>1, <3>2 DEF HandleData
      <4>2. QED
        BY <1>1, <2>2, <4>1 DEF LateRequests
    <3>3. QED
      BY <3>1, <3>2
  <2>6. QED
    BY <2>2, <2>4, <2>5, StutterControl
<1>13. CASE HostIn
  <2>1. /\ stage \in {"data", "statusIn"} /\ usbRxLen = 0
        /\ UNCHANGED <<usbRxLen, request, served, lamp>>
    BY <1>13 DEF HostIn, InReady, HandleIn, appVars
  <2>2. stage' \in {stage, "idle", "statusOut", "data"}
    BY <1>13 DEF HostIn
  <2>3. served /\ InTransfer /\ LateRequests = {} /\ LateRequests' = {}
    BY <2>1 DEF TInv, TransferInv, InTransfer, LateRequests
  <2>4. CASE stage' = "idle"
    <3>1. InTransfer' = FALSE
      BY <2>4 DEF InTransfer
    <3>2. QED
      BY <2>1, <2>3, <3>1 DEF Control!Next, Control!Complete
  <2>5. CASE stage' # "idle"
    <3>1. InTransfer' = InTransfer
      BY <2>1, <2>2, <2>5 DEF InTransfer
    <3>2. QED
      BY <2>1, <2>3, <3>1, StutterControl
  <2>6. QED
    BY <2>4, <2>5
<1>14. CASE HostStatusOut
  <2>1. /\ stage = "statusOut" /\ stage' \in {"idle", "statusOut"}
        /\ UNCHANGED <<usbRxLen, request, served, lamp>>
    BY <1>14 DEF HostStatusOut, HandleEmptyData, appVars
  <2>2. served /\ InTransfer /\ LateRequests = {} /\ LateRequests' = {}
    BY <2>1 DEF TInv, TransferInv, InTransfer, LateRequests
  <2>3. CASE stage' = "idle"
    <3>1. InTransfer' = FALSE
      BY <2>3 DEF InTransfer
    <3>2. QED
      BY <2>1, <2>2, <3>1 DEF Control!Next, Control!Complete
  <2>4. CASE stage' # "idle"
    <3>1. InTransfer' = InTransfer
      BY <2>1, <2>4 DEF InTransfer
    <3>2. QED
      BY <2>1, <2>2, <3>1, StutterControl
  <2>5. QED
    BY <2>3, <2>4
<1>15. QED
  BY <1>2, <1>3, <1>4, <1>5, <1>6, <1>7, <1>8, <1>10, <1>11, <1>12, <1>13,
     <1>14 DEF Next, usbPoll, HostTransaction

(* A transfer completes only when its request took effect, and requests    *)
(* take effect in the order in which the host made them, those of          *)
(* transfers that were given up included.                                  *)
THEOREM Implements ==
  ASSUME TokensArrive
  PROVE  Spec => ImplementsControlTransfer
<1>1. Init => Control!Init
  BY InitControl
<1>2. TInv /\ TInv' /\ [Next]_vars => [Control!Next]_Control!vars
  BY NextControl
<1>3. QED
  BY <1>1, <1>2, TransferInvariance, PTL
     DEF Spec, ImplementsControlTransfer, Control!Spec
=============================================================================
