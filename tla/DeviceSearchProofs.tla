------------------------- MODULE DeviceSearchProofs -------------------------
(***************************************************************************)
(* Proofs about DeviceSearch, for any devices and names.                   *)
(***************************************************************************)
EXTENDS DeviceSearch, TLAPS

AtDevice == {"vendor", "product", "compare", "send", "close"}

(* The place in the list says which handle is open.                        *)
IInv == TypeOK /\ HandlesClosed /\ (pc \in AtDevice \cup {"open"} => place # 0)

(* A place in the list is that of a device.                                *)
LEMMA DevicesType ==
  ASSUME NEW i \in Nat, TypeOK, i # 0, i <= Len(devices)
  PROVE  devices[i] \in [ids : BOOLEAN, vendor : Names, product : Names]
<1> DEFINE Device == [ids : BOOLEAN, vendor : Names, product : Names]
<1>1. devices \in Seq(Device)
  BY SearchAssumption DEF TypeOK
<1> HIDE DEF Device
<1>2. devices[i] \in Device
  BY <1>1
<1>3. QED
  BY <1>2 DEF Device

(* The inductive invariant holds at the beginning.                         *)
LEMMA InitIInv == Init => IInv
<1>1. ASSUME Init PROVE devices \in Seq([ids : BOOLEAN, vendor : Names,
                                         product : Names])
  BY <1>1, SearchAssumption DEF Init
<1>2. QED
  BY <1>1 DEF Init, IInv, TypeOK, HandlesClosed, AtDevice, Places

(* No step breaks the inductive invariant.                                 *)
LEMMA NextIInv ==
  ASSUME IInv, [Next]_vars
  PROVE  IInv'
<1>1. Len(devices) \in Nat
  BY SearchAssumption DEF IInv, TypeOK
<1> USE DEF IInv, TypeOK, HandlesClosed, AtDevice, Places
<1>2. CASE Usage
  BY <1>2 DEF Usage, Exit
<1>3. CASE FindDevices
  BY <1>3 DEF FindDevices
<1>4. CASE NextDevice
  BY <1>1, <1>4 DEF NextDevice
<1>5. CASE Open
  <2>1. open = {} /\ place # 0 /\ pc = "open"
        /\ UNCHANGED <<devices, command, place, exit, lamp>>
    BY <1>5 DEF Open
  <2>2. CASE open' = {place} /\ pc' = "vendor" /\ UNCHANGED faulty
    BY <1>1, <2>1, <2>2
  <2>3. CASE /\ pc' = "next" /\ UNCHANGED open
             /\ faulty' = faulty \cup {place}
    BY <1>1, <2>1, <2>3
  <2>4. QED
    BY <1>5, <2>1, <2>2, <2>3 DEF Open
<1>6. CASE QueryVendor
  BY <1>1, <1>6 DEF QueryVendor, Asked
<1>7. CASE QueryProduct
  BY <1>1, <1>7 DEF QueryProduct, Asked
<1>8. CASE Compare
  BY <1>1, <1>8 DEF Compare
<1>9. CASE NotFound
  BY <1>9 DEF NotFound, Exit
<1>10. CASE Send
  <2>1. lamp' \in BOOLEAN
    BY <1>10 DEF Send
  <2>2. /\ pc = "send" /\ pc' = "close"
        /\ UNCHANGED <<devices, command, place, open, exit, faulty>>
    BY <1>10 DEF Send
  <2>3. QED
    BY <2>1, <2>2
<1>11. CASE Close
  BY <1>11 DEF Close, Exit
<1>12. CASE UNCHANGED vars
  BY <1>12 DEF vars
<1>13. QED
  BY <1>2, <1>3, <1>4, <1>5, <1>6, <1>7, <1>8, <1>9, <1>10, <1>11, <1>12
     DEF Next

(* The inductive invariant, whatever devices answer.                       *)
THEOREM Invariance == Spec => []IInv
BY InitIInv, NextIInv, PTL DEF Spec

(* The types of the variables.                                             *)
THEOREM TypeCorrect == Spec => []TypeOK
BY Invariance, PTL DEF IInv

(* Whatever fails, every handle is closed, and none is used afterwards.    *)
THEOREM NoHandleLost == Spec => []HandlesClosed
BY Invariance, PTL DEF IInv

-----------------------------------------------------------------------------
(* Names that the conversion to ISO Latin1 or to a C string confuses are   *)
(* out of the question.                                                    *)
NamesAreTold ==
  /\ VendorName \in Names /\ ProductName \in Names
  /\ \A i \in DOMAIN VendorName : VendorName[i] \notin {0, 63}
  /\ \A i \in DOMAIN ProductName : ProductName[i] \notin {0, 63}
  /\ \A bus \in Buses : \A d \in DOMAIN bus :
       /\ \A i \in DOMAIN bus[d].vendor : bus[d].vendor[i] # 0
       /\ \A i \in DOMAIN bus[d].product : bus[d].product[i] # 0

HonestText(name) == [i \in 1 .. Len(name) |-> Latin1(name[i])]

(* An honest answer is decoded into all of the name.                       *)
LEMMA DecodesName ==
  ASSUME NEW name \in Names, \A i \in DOMAIN name : name[i] # 0,
         NEW answer, Honest(answer, name), NEW old
  PROVE  Decoded(answer, old) = HonestText(name)
<1>1. Len(name) \in Nat /\ DOMAIN name = 1 .. Len(name)
      /\ \A i \in 1 .. Len(name) : name[i] \in Nat
  BY DEF Names
<1>2. answer = Answer(Whole(name), Whole(name), USB_DT_STRING, name)
  BY DEF Honest
<1>3. UnitsRead(answer) = Len(name)
  BY <1>1, <1>2 DEF UnitsRead, Answer, Whole, Smaller
<1>4. answer.units = name /\ answer.type = USB_DT_STRING
  BY <1>2 DEF Answer
<1>5. Decoded(answer, old) = CString(HonestText(name))
  BY <1>3, <1>4 DEF Decoded, HonestText
<1>6. \A i \in DOMAIN HonestText(name) : HonestText(name)[i] # 0
  BY <1>1 DEF HonestText, Latin1
<1>7. QED
  BY <1>5, <1>6 DEF CString

(* The conversion loses nothing that the comparison needs.                 *)
LEMMA TextTellsName ==
  ASSUME NEW name \in Names, NEW wanted \in Names,
         \A i \in DOMAIN wanted : wanted[i] \notin {0, 63},
         HonestText(name) = wanted
  PROVE  name = wanted
<1>1. /\ Len(name) \in Nat /\ Len(wanted) \in Nat
      /\ DOMAIN name = 1 .. Len(name) /\ DOMAIN wanted = 1 .. Len(wanted)
      /\ DOMAIN HonestText(name) = 1 .. Len(name)
  BY DEF Names, HonestText
<1>2. Len(name) = Len(wanted)
  <2>1. 1 .. Len(name) = 1 .. Len(wanted)
    BY <1>1
  <2> DEFINE m == Len(name)  n == Len(wanted)
  <2>2. m \in Nat /\ n \in Nat /\ 1 .. m = 1 .. n
    BY <1>1, <2>1
  <2> HIDE DEF m, n
  <2>3. (m # 0 => m \in 1 .. n) /\ (n # 0 => n \in 1 .. m)
    BY <2>2
  <2>4. m = n
    BY <2>2, <2>3
  <2>5. QED
    BY <2>4 DEF m, n
<1>3. \A i \in 1 .. Len(name) : name[i] = wanted[i]
  BY <1>1, <1>2 DEF HonestText, Latin1
<1>4. QED
  BY <1>1, <1>2, <1>3 DEF Names

NamesInv ==
  /\ pc \in AtDevice \cup {"open"} => devices[place].ids
  /\ pc \in {"product", "compare"} /\ place \notin faulty =>
       devVendor = HonestText(dev.vendor)
  /\ pc = "compare" /\ place \notin faulty =>
       devProduct = HonestText(dev.product)
  /\ FoundIsOurs

FInv == IInv /\ NamesInv

(* No step breaks it, nor that the names read are those of the device.     *)
LEMMA NextFInv ==
  ASSUME NamesAreTold, FInv, [Next]_vars
  PROVE  FInv'
<1>1. IInv'
  BY NextIInv DEF FInv
<1>2. Len(devices) \in Nat /\ place \in 0 .. Len(devices)
  BY SearchAssumption DEF FInv, IInv, TypeOK
<1>3. ASSUME pc \in AtDevice
      PROVE  /\ dev.vendor \in Names /\ dev.product \in Names
             /\ \A i \in DOMAIN dev.vendor : dev.vendor[i] # 0
             /\ \A i \in DOMAIN dev.product : dev.product[i] # 0
  <2>1. place \in DOMAIN devices /\ devices \in Buses
    BY <1>2, <1>3, SearchAssumption DEF FInv, IInv, TypeOK
  <2>2. dev \in [ids : BOOLEAN, vendor : Names, product : Names]
    BY <1>2, <1>3, DevicesType DEF FInv, IInv, dev
  <2>3. QED
    BY <2>1, <2>2 DEF NamesAreTold, dev
<1> USE DEF FInv, NamesInv, FoundIsOurs, Found, IsOurs, AtDevice, dev
<1>4. CASE Usage
  BY <1>1, <1>4 DEF Usage, Exit
<1>5. CASE FindDevices
  BY <1>1, <1>5 DEF FindDevices, IInv, TypeOK
<1>6. CASE NextDevice
  BY <1>1, <1>2, <1>6 DEF NextDevice
<1>7. CASE Open
  BY <1>1, <1>7 DEF Open
<1>8. CASE QueryVendor
  <2>1. PICK answer \in Answers(dev.vendor) :
          /\ Asked(answer, dev.vendor, "product")
          /\ devVendor' = IF Failed(answer) THEN devVendor
                          ELSE Decoded(answer, devVendor)
    BY <1>8 DEF QueryVendor
  <2>2. Honest(answer, dev.vendor) => devVendor' = HonestText(dev.vendor)
    <3>1. Honest(answer, dev.vendor) => ~Failed(answer)
      BY <1>3, <1>8 DEF Honest, Failed, Answer, Whole, QueryVendor, Names
    <3> QED
        BY <1>3, <1>8, <2>1, <3>1, DecodesName DEF QueryVendor
  <2>3. /\ pc' = IF Failed(answer) THEN "next" ELSE "product"
        /\ faulty' = IF Honest(answer, dev.vendor) THEN faulty
                     ELSE faulty \cup {place}
    BY <2>1 DEF Asked
  <2>4. QED
    BY <1>1, <1>8, <2>2, <2>3 DEF QueryVendor
<1>9. CASE QueryProduct
  <2>1. PICK answer \in Answers(dev.product) :
          /\ Asked(answer, dev.product, "compare")
          /\ devProduct' = IF Failed(answer) THEN devProduct
                           ELSE Decoded(answer, devProduct)
    BY <1>9 DEF QueryProduct
  <2>2. Honest(answer, dev.product) => devProduct' = HonestText(dev.product)
    <3>1. Honest(answer, dev.product) => ~Failed(answer)
      BY <1>3, <1>9 DEF Honest, Failed, Answer, Whole, QueryProduct, Names
    <3> QED
        BY <1>3, <1>9, <2>1, <3>1, DecodesName DEF QueryProduct
  <2>3. /\ pc' = IF Failed(answer) THEN "next" ELSE "compare"
        /\ faulty' = IF Honest(answer, dev.product) THEN faulty
                     ELSE faulty \cup {place}
    BY <2>1 DEF Asked
  <2>4. QED
    BY <1>1, <1>9, <2>2, <2>3 DEF QueryProduct
<1>10. CASE Compare
  <2>1. PICK v \in Equal(devVendor, VendorName),
             p \in Equal(devProduct, ProductName) :
          pc' = IF v /\ p THEN "send" ELSE "next"
    BY <1>10 DEF Compare
  <2>2. /\ place \notin faulty => /\ devVendor = HonestText(dev.vendor)
                                 /\ devProduct = HonestText(dev.product)
        /\ devices[place].ids
    BY <1>10 DEF Compare
  <2>3. \A name \in Names : HonestText(name) # Uninitialised
    BY DEF HonestText, Latin1, Uninitialised, Names
  <2>4. v /\ p /\ place \notin faulty =>
          /\ HonestText(dev.vendor) = VendorName
          /\ HonestText(dev.product) = ProductName
    BY <1>3, <1>10, <2>1, <2>2, <2>3 DEF Equal, Compare
  <2>5. v /\ p /\ place \notin faulty =>
          dev.vendor = VendorName /\ dev.product = ProductName
    BY <1>3, <1>10, <2>4, TextTellsName DEF NamesAreTold, Compare
  <2>6. UNCHANGED <<devices, place, exit, faulty>>
    BY <1>10 DEF Compare
  <2>7. QED
    BY <1>1, <2>1, <2>2, <2>5, <2>6
<1>11. CASE NotFound
  BY <1>1, <1>11 DEF NotFound, Exit
<1>12. CASE Send
  BY <1>1, <1>12 DEF Send
<1>13. CASE Close
  BY <1>1, <1>13 DEF Close, Exit
<1>14. CASE UNCHANGED vars
  BY <1>1, <1>14 DEF vars
<1>15. QED
  BY <1>4, <1>5, <1>6, <1>7, <1>8, <1>9, <1>10, <1>11, <1>12, <1>13, <1>14
     DEF Next

(* FoundIsOurs: whatever devices answer, the request goes to the program's *)
(* own device or to one that did not answer with its names.                *)
THEOREM OnlyOurs ==
  ASSUME NamesAreTold
  PROVE  Spec => []FoundIsOurs
<1>1. Init => FInv
  BY InitIInv DEF Init, FInv, NamesInv, FoundIsOurs, Found, AtDevice
<1>2. FInv /\ [Next]_vars => FInv'
  BY NextFInv
<1>3. FInv => FoundIsOurs
  BY DEF FInv, NamesInv
<1>4. QED
  BY <1>1, <1>2, <1>3, PTL DEF Spec

-----------------------------------------------------------------------------
(* The names of the program's device are C strings, of ISO Latin1; nothing *)
(* is asked of other devices, which may answer with anything.              *)
Characters == 1 .. 255

NamesAreText ==
  /\ VendorName \in Seq(Characters)
  /\ ProductName \in Seq(Characters)

(* Such a name is read as it is, whatever was read before.                 *)
LEMMA ReadsText ==
  ASSUME NEW name \in Seq(Characters), NEW answer, NEW old,
         Honest(answer, name)
  PROVE  ~Failed(answer) /\ Decoded(answer, old) = name
<1> DEFINE n == Len(name)
<1>1. n \in Nat /\ name \in [1 .. n -> Characters]
  OBVIOUS
<1> HIDE DEF n
<1>2. /\ answer.rval = 2 * n + 2 /\ answer.length = 2 * n + 2
      /\ answer.type = USB_DT_STRING /\ answer.units = name
  BY DEF Honest, Answer, Whole, n
<1>3. UnitsRead(answer) = n
  BY <1>1, <1>2 DEF UnitsRead, Smaller
<1>4. Decoded(answer, old) = CString([i \in 1 .. n |-> Latin1(name[i])])
  BY <1>2, <1>3 DEF Decoded
<1>5. [i \in 1 .. n |-> Latin1(name[i])] = name
  <2>1. \A i \in 1 .. n : Latin1(name[i]) = name[i]
    <3>1. SUFFICES ASSUME NEW i \in 1 .. n PROVE Latin1(name[i]) = name[i]
      OBVIOUS
    <3>2. name[i] \in Characters
      BY <1>1
    <3>3. \A c \in Characters : Latin1(c) = c
      BY DEF Characters, Latin1
    <3>4. QED
      BY <3>2, <3>3
  <2>2. [i \in 1 .. n |-> Latin1(name[i])] = [i \in 1 .. n |-> name[i]]
    BY <2>1
  <2>3. QED
    BY <1>1, <2>2
<1>6. CString(name) = name
  <2>1. DOMAIN name = 1 .. n
    BY <1>1
  <2>2. \A i \in DOMAIN name : name[i] # 0
    <3>1. 0 \notin Characters
      BY DEF Characters
    <3>2. QED
      BY <1>1, <2>1, <3>1
  <2>3. QED
    BY <2>2 DEF CString
<1>7. QED
  BY <1>1, <1>2, <1>4, <1>5, <1>6 DEF Failed

(* The search has come past a device.                                      *)
Passed(d) == d < place \/ (d = place /\ pc \in {"next", "done"} /\ exit # 0)

(* What is passed by could not be asked, or is another device; what could  *)
(* be asked so far has answered with its names.                            *)
SeekInv ==
  /\ \A d \in Places : Passed(d) /\ IsOurs(d) => d \in faulty
  /\ pc = "done" /\ exit = 1 /\ command # "none" => place = Len(devices)
  /\ exit = 0 => pc = "done"
  /\ pc = "main" => place = 0
  /\ pc \in {"product", "compare"} /\ IsOurs(place) /\ place \notin faulty =>
       devVendor = VendorName
  /\ pc = "compare" /\ IsOurs(place) /\ place \notin faulty =>
       devProduct = ProductName

(* The step from one device to the next.                                   *)
LEMMA LeavesDevice ==
  ASSUME IInv, SeekInv, place \in Places,
         UNCHANGED <<devices, command, place, exit>>, exit # 0,
         pc' = "next", faulty \subseteq faulty',
         IsOurs(place) => place \in faulty'
  PROVE  SeekInv'
<1>1. Len(devices) \in Nat /\ place \in Nat
  BY SearchAssumption DEF IInv, TypeOK
<1>2. ASSUME NEW d \in Places', Passed(d)', IsOurs(d)'
      PROVE  d \in faulty'
  BY <1>1, <1>2 DEF SeekInv, Passed, IsOurs, Places
<1>3. QED
  BY <1>2 DEF SeekInv

(* The next question is put to the same device.                            *)
LEMMA StaysAtDevice ==
  ASSUME IInv, SeekInv, pc \in AtDevice \cup {"open"},
         pc' \in AtDevice,
         UNCHANGED <<devices, command, place, exit>>, exit # 0,
         faulty \subseteq faulty',
         IsOurs(place) /\ place \notin faulty' =>
           /\ pc' \in {"product", "compare"} => devVendor' = VendorName
           /\ pc' = "compare" => devProduct' = ProductName
  PROVE  SeekInv'
<1>1. ASSUME NEW d \in Places', Passed(d)', IsOurs(d)'
      PROVE  d \in faulty'
  BY <1>1 DEF SeekInv, Passed, IsOurs, Places, AtDevice
<1>2. QED
  BY <1>1 DEF SeekInv, AtDevice, IsOurs

(* No step breaks what the search knows.                                   *)
LEMMA NextSeekInv ==
  ASSUME NamesAreText, IInv, SeekInv, [Next]_vars
  PROVE  SeekInv'
<1>1. /\ Len(devices) \in Nat /\ place \in 0 .. Len(devices)
      /\ exit \in {-1, 0, 1}
  BY SearchAssumption DEF IInv, TypeOK
<1>2. pc \in AtDevice \cup {"open"} => place \in Places /\ exit # 0
  BY <1>1 DEF IInv, SeekInv, AtDevice, Places
<1>3. CASE Usage
  <2>1. place' = place /\ devices' = devices /\ faulty' = faulty
        /\ pc = "main" /\ pc' = "done" /\ command' = "none" /\ exit' = 1
    BY <1>3 DEF Usage, Exit
  <2>2. QED
    BY <1>1, <2>1 DEF SeekInv, IsOurs, Places, Passed
<1>4. CASE FindDevices
  BY <1>1, <1>4 DEF FindDevices, SeekInv, Passed, IsOurs, Places
<1>5. CASE NextDevice
  <2>1. /\ UNCHANGED <<devices, command, exit, faulty>>
        /\ pc = "next" /\ place' = place + 1 /\ place < Len(devices)
        /\ pc' = IF devices[place + 1].ids THEN "open" ELSE "next"
    BY <1>5 DEF NextDevice
  <2>2. ASSUME NEW d \in Places', Passed(d)', IsOurs(d)'
        PROVE  d \in faulty'
    BY <1>1, <2>1, <2>2 DEF SeekInv, Passed, IsOurs, Places
  <2>3. QED
    BY <2>1, <2>2 DEF SeekInv
<1>6. CASE Open
  <2>1. /\ pc = "open" /\ UNCHANGED <<devices, command, place, exit>>
        /\ faulty \subseteq faulty'
    BY <1>6 DEF Open
  <2>2. CASE pc' = "vendor"
    BY <1>2, <2>1, <2>2, StaysAtDevice DEF AtDevice
  <2>3. CASE pc' = "next" /\ faulty' = faulty \cup {place}
    BY <1>2, <2>1, <2>3, LeavesDevice DEF AtDevice
  <2>4. QED
    BY <1>6, <2>2, <2>3 DEF Open
<1>7. CASE QueryVendor
  <2>1. PICK answer \in Answers(dev.vendor) :
          /\ Asked(answer, dev.vendor, "product")
          /\ devVendor' = IF Failed(answer) THEN devVendor
                          ELSE Decoded(answer, devVendor)
    BY <1>7 DEF QueryVendor
  <2>2. /\ pc = "vendor" /\ UNCHANGED <<devices, command, place, exit>>
        /\ faulty' = IF Honest(answer, dev.vendor) THEN faulty
                     ELSE faulty \cup {place}
        /\ pc' = IF Failed(answer) THEN "next" ELSE "product"
    BY <1>7, <2>1 DEF QueryVendor, Asked
  <2>3. IsOurs(place) /\ place \notin faulty' =>
          ~Failed(answer) /\ devVendor' = VendorName
    <3>1. SUFFICES ASSUME IsOurs(place), place \notin faulty'
                   PROVE  ~Failed(answer) /\ devVendor' = VendorName
      OBVIOUS
    <3>2. Honest(answer, VendorName)
      BY <2>2, <3>1 DEF IsOurs, dev
    <3>3. QED
      BY <2>1, <3>2, ReadsText DEF NamesAreText
  <2>4. QED
    BY <1>2, <2>2, <2>3, LeavesDevice, StaysAtDevice DEF AtDevice
<1>8. CASE QueryProduct
  <2>1. PICK answer \in Answers(dev.product) :
          /\ Asked(answer, dev.product, "compare")
          /\ devProduct' = IF Failed(answer) THEN devProduct
                           ELSE Decoded(answer, devProduct)
    BY <1>8 DEF QueryProduct
  <2>2. /\ pc = "product"
        /\ UNCHANGED <<devices, command, place, devVendor, exit>>
        /\ faulty' = IF Honest(answer, dev.product) THEN faulty
                     ELSE faulty \cup {place}
        /\ pc' = IF Failed(answer) THEN "next" ELSE "compare"
    BY <1>8, <2>1 DEF QueryProduct, Asked
  <2>3. IsOurs(place) /\ place \notin faulty' =>
          ~Failed(answer) /\ devProduct' = ProductName
    <3>1. SUFFICES ASSUME IsOurs(place), place \notin faulty'
                   PROVE  ~Failed(answer) /\ devProduct' = ProductName
      OBVIOUS
    <3>2. Honest(answer, ProductName)
      BY <2>2, <3>1 DEF IsOurs, dev
    <3>3. QED
      BY <2>1, <3>2, ReadsText DEF NamesAreText
  <2>4. IsOurs(place) /\ place \notin faulty' => devVendor' = VendorName
    BY <2>2 DEF SeekInv
  <2>5. QED
    BY <1>2, <2>2, <2>3, <2>4, LeavesDevice, StaysAtDevice DEF AtDevice
<1>9. CASE Compare
  <2>1. PICK v \in Equal(devVendor, VendorName),
             p \in Equal(devProduct, ProductName) :
          pc' = IF v /\ p THEN "send" ELSE "next"
    BY <1>9 DEF Compare
  <2>2. pc = "compare" /\ UNCHANGED <<devices, command, place, exit, faulty>>
    BY <1>9 DEF Compare
  <2>3. VendorName # Uninitialised /\ ProductName # Uninitialised
    <3>1. ASSUME NEW name \in Seq(Characters) PROVE name # <<-1>>
      <4>1. Len(name) = 1 => name[1] \in Characters
        OBVIOUS
      <4>2. Len(<<-1>>) = 1 /\ <<-1>>[1] = -1 /\ -1 \notin Characters
        BY DEF Characters
      <4>3. QED
        BY <4>1, <4>2
    <3>2. QED
      BY <3>1 DEF NamesAreText, Uninitialised
  <2>4. IsOurs(place) /\ place \notin faulty => v /\ p
    BY <2>1, <2>2, <2>3 DEF SeekInv, Equal
  <2>5. QED
    BY <1>2, <2>1, <2>2, <2>4, LeavesDevice, StaysAtDevice DEF AtDevice
<1>10. CASE NotFound
  <2>1. /\ UNCHANGED <<devices, command, place, faulty>> /\ exit' = 1
        /\ pc = "next" /\ pc' = "done" /\ place = Len(devices)
    BY <1>10 DEF NotFound, Exit
  <2>2. ASSUME NEW d \in Places', Passed(d)', IsOurs(d)'
        PROVE  d \in faulty'
    BY <1>1, <2>1, <2>2 DEF SeekInv, Passed, IsOurs, Places
  <2>3. QED
    BY <2>1, <2>2 DEF SeekInv
<1>11. CASE Send
  BY <1>2, <1>11, StaysAtDevice DEF Send, AtDevice
<1>12. CASE Close
  <2>1. /\ UNCHANGED <<devices, command, place, faulty>> /\ exit' = 0
        /\ pc' = "done"
    BY <1>12 DEF Close, Exit
  <2>2. ASSUME NEW d \in Places', Passed(d)', IsOurs(d)'
        PROVE  d \in faulty'
    BY <1>1, <2>1, <2>2 DEF SeekInv, Passed, IsOurs, Places
  <2>3. QED
    BY <2>1, <2>2 DEF SeekInv
<1>13. CASE UNCHANGED vars
  BY <1>13 DEF vars, SeekInv, Passed, IsOurs, Places
<1>14. QED
  BY <1>3, <1>4, <1>5, <1>6, <1>7, <1>8, <1>9, <1>10, <1>11, <1>12, <1>13
     DEF Next

(* Whatever other devices answer, and wherever they are in the list, the   *)
(* program misses its own only if that one could not be asked.             *)
THEOREM OwnIsFound ==
  ASSUME NamesAreText
  PROVE  Spec => []OursIsFound
<1>1. Init => IInv /\ SeekInv
  <2>1. Init => SeekInv
    BY SearchAssumption DEF Init, SeekInv, Passed, Places
  <2>2. QED
    BY <2>1, InitIInv
<1>2. IInv /\ SeekInv /\ [Next]_vars => IInv' /\ SeekInv'
  BY NextIInv, NextSeekInv
<1>3. IInv /\ SeekInv => OursIsFound
  BY SearchAssumption
     DEF IInv, TypeOK, SeekInv, OursIsFound, Passed, Places
<1>4. QED
  BY <1>1, <1>2, <1>3, PTL DEF Spec

-----------------------------------------------------------------------------
(* FlashLight may take the program for a ControllerProcess.                *)
THEOREM IsAProcess == Spec => ImplementsProcess
<1> DEFINE idle == IF command \in {"on", "off"} /\ pc \notin {"close", "done"}
                   THEN command ELSE "idle"
<1>1. Init => Process!Init
  BY SearchAssumption DEF Init, Process!Init
<1>2. TypeOK /\ [Next]_vars => [Process!Next]_(Process!vars)
  <2>1. SUFFICES ASSUME TypeOK, Next
                 PROVE  Process!Next \/ (idle' = idle /\ lamp' = lamp)
    BY DEF vars, Process!vars
  <2>2. CASE Usage
    BY <2>2 DEF Usage, Exit
  <2>3. CASE FindDevices
    BY <2>3 DEF FindDevices
  <2>4. CASE NextDevice
    BY <2>4 DEF NextDevice
  <2>5. CASE Open
    BY <2>5 DEF Open
  <2>6. CASE QueryVendor
    BY <2>6 DEF QueryVendor, Asked
  <2>7. CASE QueryProduct
    BY <2>7 DEF QueryProduct, Asked
  <2>8. CASE Compare
    BY <2>8 DEF Compare
  <2>9. CASE NotFound
    BY <2>9 DEF NotFound, Exit, Process!Next, Process!GivesUp
  <2>10. CASE Send
    BY <2>10 DEF Send, Process!Next, Process!GivesUp, Process!Switches
  <2>11. CASE Close
    BY <2>11 DEF Close, Exit
  <2>12. QED
    BY <2>1, <2>2, <2>3, <2>4, <2>5, <2>6, <2>7, <2>8, <2>9, <2>10, <2>11
       DEF Next
<1>3. QED
  BY <1>1, <1>2, TypeCorrect, PTL DEF Spec, ImplementsProcess, Process!Spec
=============================================================================
