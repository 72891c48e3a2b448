-------------------------- MODULE ControllerProcess --------------------------
(***************************************************************************)
(* What FlashLight assumes about a controller process: it carries out its  *)
(* command at most once, on the device it is meant for, or gives up.       *)
(***************************************************************************)
VARIABLES
  pending,  \* the command still to be carried out, or "idle"
  lamp

vars == <<pending, lamp>>

Init == pending \in {"on", "off", "idle"} /\ lamp \in BOOLEAN

Switches ==
  /\ pending # "idle"
  /\ lamp' = (pending = "on")
  /\ pending' = "idle"

GivesUp ==
  /\ pending # "idle"
  /\ pending' = "idle"
  /\ UNCHANGED lamp

Next == Switches \/ GivesUp

Spec == Init /\ [][Next]_vars
=============================================================================
