-------------------------- MODULE MCBenchmarkSetup --------------------------
(***************************************************************************)
(* Instances of BenchmarkSetup: devices with one or two interfaces, with   *)
(* endpoints of both directions and types, and with alternate settings.    *)
(***************************************************************************)
EXTENDS BenchmarkSetup

Arg(name, value) == [name |-> name, value |-> value]

Point(address, type, divides) ==
  [address |-> address, type |-> type, divides |-> divides]

Bulk == <<Point(129, "bulk", TRUE), Point(1, "bulk", TRUE),
          Point(2, "bulk", FALSE)>>
Mixed == <<Point(1, "bulk", TRUE), Point(130, "iso", TRUE),
           Point(129, "bulk", TRUE), Point(2, "iso", TRUE)>>
Zero == <<Point(0, "control", TRUE), Point(128, "control", TRUE),
          Point(1, "bulk", TRUE)>>

Setting(alt, endpoints) == [alt |-> alt, endpoints |-> endpoints]
Interf(number, settings) == [number |-> number, settings |-> settings]

Configs ==
  {<<>>,
   <<Interf(0, <<Setting(0, Bulk)>>)>>,
   <<Interf(1, <<Setting(0, Mixed)>>)>>,
   <<Interf(0, <<Setting(0, Zero)>>)>>,
   <<Interf(0, <<>>), Interf(1, <<Setting(0, Bulk), Setting(1, Mixed)>>)>>,
   <<Interf(0, <<Setting(0, Mixed)>>), Interf(1, <<Setting(0, <<>>)>>)>>}

Devices == [ours : BOOLEAN, config : Configs]

OneOrTwo == {<<d>> : d \in Devices} \cup (Devices \X Devices) \cup {<<>>}

Arguments ==
  {Arg("buffercount=", 0), Arg("buffercount=", 1), Arg("buffercount=", 3),
   Arg("mode=sync", 0), Arg("mode=async", 0), Arg("mode=other", 0),
   Arg("ep=", 1), Arg("ep=", 2), Arg("ep=", 16), Arg("ep=", 129),
   Arg("intf=", 1), Arg("altf=", 1), Arg("altf=", -1),
   Arg("priority=lowest", 0), Arg("priority=other", 0),
   Arg("read", 0), Arg("write", 0), Arg("loop", 0), Arg("list", 0),
   Arg("verify", 0)}

Lines == {<<>>} \cup {<<a>> : a \in Arguments}
           \cup (Arguments \X Arguments)
           \cup (Arguments \X {Arg("intf=", 1), Arg("read", 0)} \X Arguments)
=============================================================================
