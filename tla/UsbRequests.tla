---------------------------- MODULE UsbRequests -----------------------------
(***************************************************************************)
(* The requests that the firmware answers and the lengths of its replies:  *)
(* the descriptors as usbconfig.h configures them, and how a reply is      *)
(* limited and cut into packets of at most eight bytes.                    *)
(***************************************************************************)
EXTENDS Naturals

(* PIDs and handshakes, as in usbdrv.h.  A handshake has bit 4 set, which  *)
(* is how usbTxLen tells a handshake from the length of a packet.          *)
USBPID_SETUP == 45
USBPID_OUT == 225
USBPID_DATA0 == 195
USBPID_DATA1 == 75
USBPID_NAK == 90

IsHandshake(token) == (token \div 16) % 2 = 1
Toggled(pid) == IF pid = USBPID_DATA0 THEN USBPID_DATA1 ELSE USBPID_DATA0

(* One packet buffer: PID, 8 bytes of data, 2 bytes CRC.                   *)
USB_BUFSIZE == 11

USBRQ_GET_STATUS == 0
USBRQ_SET_ADDRESS == 5
USBRQ_GET_DESCRIPTOR == 6
USBRQ_GET_CONFIGURATION == 8
USBRQ_SET_CONFIGURATION == 9
USBRQ_GET_INTERFACE == 10

USB_PB0_OFF == 0
USB_PB0_ON == 1

USBDESCR_DEVICE == 1
USBDESCR_CONFIG == 2
USBDESCR_STRING == 3

USB_CFG_VENDOR_NAME_LEN == 16
USB_CFG_DEVICE_NAME_LEN == 18

(* The length that USB_STRING_DESCRIPTOR_HEADER stores.                    *)
StringDescriptorLen(stringLength) == 2 * stringLength + 2

(* The sizes of the static descriptors.  There is no serial number.        *)
StringLen(index) ==
  IF index = 0 THEN 4
  ELSE IF index = 1 THEN StringDescriptorLen(USB_CFG_VENDOR_NAME_LEN)
  ELSE IF index = 2 THEN StringDescriptorLen(USB_CFG_DEVICE_NAME_LEN)
  ELSE 0

DeviceLen == 18

(* The configuration and its interface; there are no other endpoints.      *)
ConfigurationLen == 9 + 9

(* usbDriverDescriptor: descriptors that are not known have no bytes.      *)
DescriptorLen(type, index) ==
  IF type = USBDESCR_DEVICE THEN DeviceLen
  ELSE IF type = USBDESCR_CONFIG THEN ConfigurationLen
  ELSE IF type = USBDESCR_STRING THEN StringLen(index)
  ELSE 0

(* What usbMsgPtr and usbMsgFlags say: where the reply is, the part of it  *)
(* that has been sent, and whether it is read from ROM.  A place is the    *)
(* type and index of a descriptor; no descriptor has type 0, which stands  *)
(* for the RAM of usbTxBuf and usbConfiguration.                           *)
Pointer(at, offset, rom) == [at |-> at, offset |-> offset, rom |-> rom]
Places == Nat \X Nat
AtTxBuf == <<0, 0>>
AtConfiguration == <<0, 1>>
Reply(at, rom) == Pointer(at, 0, rom)

(* usbDriverSetup and usbDriverDescriptor: the length of the reply to a    *)
(* standard request and where it is taken from.  Requests that are not     *)
(* known are answered with no data.                                        *)
StandardLen(rq) ==
  IF rq.bRequest = USBRQ_GET_STATUS THEN 2
  ELSE IF rq.bRequest = USBRQ_GET_DESCRIPTOR
  THEN DescriptorLen(rq.high, rq.low)
  ELSE IF rq.bRequest \in {USBRQ_GET_CONFIGURATION, USBRQ_GET_INTERFACE} THEN 1
  ELSE 0

StandardReply(rq) ==
  IF rq.bRequest = USBRQ_GET_DESCRIPTOR THEN Reply(<<rq.high, rq.low>>, TRUE)
  ELSE IF rq.bRequest = USBRQ_GET_CONFIGURATION
  THEN Reply(AtConfiguration, FALSE)
  ELSE Reply(AtTxBuf, FALSE)

-----------------------------------------------------------------------------
(* Lengths of messages are 8 bit wide; 255 means that there is none.       *)
USB_NO_MSG == 255

(* usbProcessRx: the reply is limited to wLength, of which only the low    *)
(* byte is looked at.                                                      *)
LimitedLen(replyLen, wLength) ==
  IF wLength \div 256 = 0 /\ replyLen > wLength % 256
  THEN wLength % 256
  ELSE replyLen

(* usbBuildTxBlock: a packet takes up to eight bytes of the message; one   *)
(* that takes less ends it.                                                *)
BlockLen(msgLen) == IF msgLen > 8 THEN 8 ELSE msgLen

RestLen(msgLen) ==
  IF BlockLen(msgLen) < 8 THEN USB_NO_MSG ELSE msgLen - BlockLen(msgLen)
=============================================================================
