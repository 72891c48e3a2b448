----------------------------- MODULE MCUsbDriver -----------------------------
(* UsbDriver with the requests of an enumeration and those of the          *)
(* controller, which asks for more bytes than usbMsgLen can count.         *)
EXTENDS UsbDriver

Standard(number, high, low, length) ==
  [standard |-> TRUE, bRequest |-> number, high |-> high, low |-> low,
   wLength |-> length]
Vendor(number) ==
  [standard |-> FALSE, bRequest |-> number, high |-> 0, low |-> 0,
   wLength |-> 256]

SetAddress == Standard(USBRQ_SET_ADDRESS, 0, 5, 0)
GetStatus == Standard(USBRQ_GET_STATUS, 0, 0, 2)
GetDevice == Standard(USBRQ_GET_DESCRIPTOR, USBDESCR_DEVICE, 0, 18)

MCRequests ==
  {SetAddress, GetDevice, GetStatus, Vendor(USB_PB0_ON), Vendor(USB_PB0_OFF)}
=============================================================================
