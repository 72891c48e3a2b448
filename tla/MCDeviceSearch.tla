--------------------------- MODULE MCDeviceSearch ---------------------------
(* DeviceSearch among up to three devices: the lamp, one by the same       *)
(* vendor, one with a longer and one with a wide name, and one with other  *)
(* numbers.  The unit 300 is outside of ISO Latin1.                        *)
EXTENDS DeviceSearch

Vendor == <<75, 87>>
Product == <<83>>

Device(ids, vendor, product) ==
  [ids |-> ids, vendor |-> vendor, product |-> product]

Kinds ==
  {Device(TRUE, Vendor, Product), Device(TRUE, Vendor, <<84>>),
   Device(TRUE, <<75, 87, 88>>, Product), Device(TRUE, <<75, 300>>, Product),
   Device(FALSE, Vendor, Product)}
MCBuses == UNION {[1 .. n -> Kinds] : n \in 0 .. 3}

MCCommands == {"none", "on", "off", "other"}
=============================================================================
