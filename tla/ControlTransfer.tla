--------------------------- MODULE ControlTransfer ---------------------------
(***************************************************************************)
(* What the firmware promises to the host: a request takes effect before   *)
(* its transfer completes, and a request whose transfer was given up takes *)
(* effect, if at all, before the one that follows it.                      *)
(***************************************************************************)
CONSTANTS
  Requests,           \* the requests
  LampAfter(_, _)     \* LampAfter(rq, lamp): the lamp when rq took effect

VARIABLES
  transfer,  \* a transfer is in progress
  request,   \* the request of the current, or the last, transfer
  served,    \* the request of the current transfer took effect
  late,      \* requests of transfers given up that may still take effect
  lamp

vars == <<transfer, request, served, late, lamp>>

Init ==
  /\ transfer = FALSE
  /\ request \in Requests
  /\ served = FALSE
  /\ late = {}
  /\ lamp = FALSE

Submit ==
  /\ ~transfer
  /\ transfer' = TRUE
  /\ request' \in Requests
  /\ served' = FALSE
  /\ UNCHANGED <<late, lamp>>

(* A request may be repeated by the host and take effect twice.            *)
Serve ==
  /\ transfer
  /\ late = {}
  /\ served' = TRUE
  /\ lamp' = LampAfter(request, lamp)
  /\ UNCHANGED <<transfer, request, late>>

ServeLate ==
  /\ late # {}
  /\ \E rq \in late : lamp' = LampAfter(rq, lamp)
  /\ late' = {}
  /\ UNCHANGED <<transfer, request, served>>

Complete ==
  /\ transfer
  /\ served
  /\ late = {}
  /\ transfer' = FALSE
  /\ UNCHANGED <<request, served, late, lamp>>

GiveUp ==
  /\ transfer
  /\ transfer' = FALSE
  /\ late' \in {late, {request}}
  /\ UNCHANGED <<request, served, lamp>>

(* The device starts anew.                                                 *)
Restart ==
  /\ transfer' = FALSE
  /\ late' = {}
  /\ served' = FALSE
  /\ lamp' = FALSE
  /\ UNCHANGED request

Next == Submit \/ Serve \/ ServeLate \/ Complete \/ GiveUp \/ Restart

Spec == Init /\ [][Next]_vars
=============================================================================
