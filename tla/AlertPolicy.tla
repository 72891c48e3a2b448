---------------------------- MODULE AlertPolicy ----------------------------
(***************************************************************************)
(* What the detector promises about the alerts it requests: one request to *)
(* raise them for each monitor that goes down, and a request to clear them *)
(* only while no monitor is down.                                          *)
(***************************************************************************)
CONSTANT Monitors

VARIABLES
  down,    \* the monitors that are down
  request  \* what the alerts are being told: nothing (<<>>), <<"raise", m>>
           \* or <<"clear">>

policyVars == <<down, request>>

PolicyInit == down = {} /\ request = <<>>

GoesDown(m) ==
  /\ request = <<>>
  /\ m \notin down
  /\ down' = down \cup {m}
  /\ request' = <<"raise", m>>

ComesUp(m) ==
  /\ request = <<>>
  /\ m \in down
  /\ down' = down \ {m}
  /\ UNCHANGED request

Clear ==
  /\ request = <<>>
  /\ down = {}
  /\ request' = <<"clear">>
  /\ UNCHANGED down

Told ==
  /\ request # <<>>
  /\ request' = <<>>
  /\ UNCHANGED down

PolicyNext ==
  \/ \E m \in Monitors : GoesDown(m) \/ ComesUp(m)
  \/ Clear
  \/ Told

Policy == PolicyInit /\ [][PolicyNext]_policyVars
=============================================================================
