----------------------- MODULE WrongnessDetectorProofs -----------------------
(***************************************************************************)
(* Proofs about WrongnessDetector for any lists of monitors and alerts.    *)
(***************************************************************************)
EXTENDS WrongnessDetector, TLAPS

(* The inductive invariant holds at the beginning.                         *)
LEMMA InitIInv == Init => IInv
BY ListAssumption
   DEF Init, IInv, TypeOK, RoundInv, CallInv, Monitors, Alerts

(* No step breaks the inductive invariant.                                 *)
LEMMA NextIInv == IInv /\ [Next]_vars => IInv'
<1> SUFFICES ASSUME IInv, [Next]_vars PROVE IInv'
  OBVIOUS
<1> USE ListAssumption
    DEF IInv, TypeOK, RoundInv, CallInv, Done, Monitors, Alerts
<1>1. CASE CheckAll
  BY <1>1 DEF CheckAll
<1>2. CASE MonitorPasses
  BY <1>2 DEF MonitorPasses
<1>3. CASE MonitorContinuesFailing
  <2>1. TypeOK'
    <3>1. monitor' \in 1 .. NumMonitors + 1
      BY <1>3 DEF MonitorContinuesFailing
    <3>2. allActionsPassed' \in BOOLEAN
      BY <1>3 DEF MonitorContinuesFailing
    <3>3. QED
      BY <1>3, <3>1, <3>2 DEF MonitorContinuesFailing
  <2>2. ~allActionsPassed'
    BY <1>3 DEF MonitorContinuesFailing
  <2>3. RoundInv' /\ CallInv'
    BY <1>3, <2>2 DEF MonitorContinuesFailing
  <2>4. QED
    BY <2>1, <2>3
<1>4. CASE MonitorStartsFailing
  BY <1>4 DEF MonitorStartsFailing
<1>5. CASE RoundEnds
  BY <1>5 DEF RoundEnds
<1>6. CASE CallStart
  BY <1>6 DEF CallStart
<1>7. CASE StartReturns
  BY <1>7 DEF StartReturns
<1>8. CASE StartThrows
  BY <1>8 DEF StartThrows
<1>9. CASE StartAlertsReturns
  <2>1. TypeOK'
    <3>1. monitor' \in 1 .. NumMonitors + 1
      BY <1>9 DEF StartAlertsReturns
    <3>2. allActionsPassed' \in BOOLEAN
      BY <1>9 DEF StartAlertsReturns
    <3>3. QED
      BY <1>9, <3>1, <3>2 DEF StartAlertsReturns
  <2>2. ~allActionsPassed'
    BY <1>9 DEF StartAlertsReturns
  <2>3. RoundInv' /\ CallInv'
    BY <1>9, <2>2 DEF StartAlertsReturns
  <2>4. QED
    BY <2>1, <2>3
<1>10. CASE CallIsRunning
  BY <1>10 DEF CallIsRunning
<1>11. ASSUME NEW running \in BOOLEAN, IsRunningReturns(running) PROVE IInv'
  BY <1>11 DEF IsRunningReturns
<1>12. CASE StopReturns
  BY <1>12 DEF StopReturns
<1>13. CASE StopRunningAlertsReturns
  BY <1>13 DEF StopRunningAlertsReturns
<1>14. CASE UNCHANGED vars
  BY <1>14 DEF vars
<1>15. QED
  BY <1>1, <1>2, <1>3, <1>4, <1>5, <1>6, <1>7, <1>8, <1>9, <1>10, <1>11,
     <1>12, <1>13, <1>14 DEF Next, Inside, Calls, Returns

(* IInv holds in every state of the detector: in particular, no monitor is *)
(* marked as failing while alerts are being stopped.                       *)
THEOREM Invariance == Spec => []IInv
<1>1. Init => IInv
  BY InitIInv
<1>2. IInv /\ [Next]_vars => IInv'
  BY NextIInv
<1>3. QED
  BY <1>1, <1>2, PTL DEF Spec

(* The types of the variables of the detector.                             *)
THEOREM TypeCorrect == Spec => []TypeOK
BY Invariance, PTL DEF IInv

-----------------------------------------------------------------------------

Down == {m \in Monitors : marked[m]}

(* What the alerts are told depends on these variables alone.              *)
LEMMA SameRequest ==
  ASSUME marked' = marked, Request' = Request
  PROVE  UNCHANGED <<Down, Request>>
BY DEF Down

(* Every step of the detector is one of the policy, or none.               *)
LEMMA NextPolicy ==
  IInv /\ [Next]_vars => [Abstract!PolicyNext]_(Abstract!policyVars)
<1> SUFFICES ASSUME IInv, [Next]_vars
             PROVE  Abstract!PolicyNext \/ UNCHANGED <<Down, Request>>
  BY DEF Abstract!policyVars, Down
<1> USE DEF IInv, TypeOK, RoundInv, CallInv
<1>1. CASE CheckAll
  BY <1>1, SameRequest DEF CheckAll, Request
<1>2. CASE MonitorPasses
  <2>1. Request = <<>> /\ Request' = <<>>
    BY <1>2 DEF MonitorPasses, Request
  <2>2. CASE marked[monitor]
    <3>1. monitor \in Down /\ Down' = Down \ {monitor}
      BY <1>2, <2>2 DEF MonitorPasses, Down
    <3>2. Abstract!ComesUp(monitor)
      BY <2>1, <3>1 DEF Abstract!ComesUp, Down
    <3>3. PICK m \in Monitors : m = monitor
      BY <1>2 DEF MonitorPasses
    <3>4. Abstract!ComesUp(m)
      BY <3>2, <3>3 DEF Abstract!ComesUp
    <3>5. QED
      BY <3>4 DEF Abstract!PolicyNext
  <2>3. CASE ~marked[monitor]
    <3>1. Down' = Down
      BY <1>2, <2>3 DEF MonitorPasses, Down
    <3>2. QED
      BY <2>1, <3>1
  <2>4. QED
    BY <2>2, <2>3
<1>3. CASE MonitorContinuesFailing
  BY <1>3, SameRequest DEF MonitorContinuesFailing, Request
<1>4. CASE MonitorStartsFailing
  <2>1. Request = <<>> /\ Request' = <<"raise", monitor>>
    BY <1>4 DEF MonitorStartsFailing, Request
  <2>2. monitor \notin Down /\ Down' = Down \cup {monitor}
    BY <1>4 DEF MonitorStartsFailing, Down
  <2>3. Abstract!GoesDown(monitor)
    BY <2>1, <2>2 DEF Abstract!GoesDown, Down
  <2>4. PICK m \in Monitors : m = monitor
    BY <1>4 DEF MonitorStartsFailing
  <2>5. Abstract!GoesDown(m)
    BY <2>3, <2>4 DEF Abstract!GoesDown
  <2>6. QED
    BY <2>5 DEF Abstract!PolicyNext
<1>5. CASE RoundEnds
  <2>1. CASE allActionsPassed
    <3>1. \A m \in Monitors : ~marked[m]
      BY <1>5, <2>1, ListAssumption DEF RoundEnds, Done, Monitors
    <3>2. Request = <<>> /\ Request' = <<"clear">>
      BY <1>5, <2>1 DEF RoundEnds, Request
    <3>3. Down = {} /\ Down' = Down
      BY <1>5, <3>1 DEF RoundEnds, Down
    <3>4. QED
      BY <3>2, <3>3 DEF Abstract!Clear, Abstract!PolicyNext, Down
  <2>2. CASE ~allActionsPassed
    BY <1>5, <2>2, SameRequest DEF RoundEnds, Request
  <2>3. QED
    BY <2>1, <2>2
<1>6. CASE CallStart \/ StartReturns \/ Calls
  BY <1>6, SameRequest DEF CallStart, StartReturns, Calls, CallIsRunning,
     Request
<1>7. ASSUME at \in {"StartAlerts", "StopRunningAlerts"},
             at' \in {"CheckAll", "out"}, marked' = marked
      PROVE  Abstract!PolicyNext
  <2>1. Request # <<>> /\ Request' = <<>>
    BY <1>7 DEF Request
  <2>2. Down' = Down
    BY <1>7 DEF Down
  <2>3. QED
    BY <2>1, <2>2 DEF Abstract!Told, Abstract!PolicyNext, Down
<1>8. CASE StartThrows
  BY <1>8, <1>7 DEF StartThrows
<1>9. CASE StartAlertsReturns
  BY <1>9, <1>7 DEF StartAlertsReturns
<1>10. CASE StopRunningAlertsReturns
  BY <1>10, <1>7 DEF StopRunningAlertsReturns
<1>11. ASSUME NEW running \in BOOLEAN, IsRunningReturns(running)
       PROVE  UNCHANGED <<Down, Request>>
  BY <1>11, SameRequest DEF IsRunningReturns, Request
<1>12. CASE StopReturns
  BY <1>12, SameRequest DEF StopReturns, Request
<1>13. CASE UNCHANGED vars
  BY <1>13, SameRequest DEF vars, Request
<1>14. QED
  BY <1>1, <1>2, <1>3, <1>4, <1>5, <1>6, <1>8, <1>9, <1>10, <1>11, <1>12,
     <1>13 DEF Next, Inside, Returns

(* The detector implements AlertPolicy: one request to raise the alerts    *)
(* each time a monitor goes from passing to failing, and a request to stop *)
(* them only while none is failing, whatever its calls return or throw.    *)
THEOREM Refinement == Spec => ImplementsPolicy
<1>1. Init => Abstract!PolicyInit
  BY DEF Init, Abstract!PolicyInit, Request
<1>2. IInv /\ [Next]_vars => [Abstract!PolicyNext]_(Abstract!policyVars)
  BY NextPolicy
<1>3. QED
  BY <1>1, <1>2, Invariance, PTL DEF Spec, ImplementsPolicy, Abstract!Policy
=============================================================================
