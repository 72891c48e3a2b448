--------------------------- MODULE BenchmarkProofs ---------------------------
(***************************************************************************)
(* Proofs about the benchmark program.  Benchmark: the types; that no      *)
(* thread runs without what it uses; that everything is given back; and,   *)
(* if threads begin in time, that a test is cancelled only for a cause.    *)
(* BenchmarkSetup: that the tests get endpoints that fit, and that no      *)
(* device is missed.                                                       *)
(***************************************************************************)
EXTENDS Benchmark, BenchmarkSetup, WellFoundedInduction, TLAPS

Watching == {"while", "key", "lookRead", "lookWrite"}
Waiting == {"resetRead", "resetWrite", "waitRead", "waitWrite"}

(* Where a thread may be active, and where its memory may be gone.         *)
MayRun(e) ==
  IF e = "read" THEN {"startWrite", "waitRead", "resetRead", "resetWrite"}
                       \cup Watching
  ELSE Watching \cup Waiting

Preparing ==
  {"arguments", "search", "select", "createRead", "createWrite", "configure",
   "verify", "prompt", "startRead", "startWrite"}
Ready == {"configure", "verify", "prompt", "startRead", "startWrite"}
Freeing == {"freeRead", "freeWrite", "exit"}

Holds ==
  /\ pc \in {"arguments", "search"} =>
       /\ device = "none" /\ verifyBuffer = "none"
       /\ \A e \in Endpoints : param[e] = "none" /\ thread[e] = "none"
  /\ pc \in {"prompt", "startRead", "startWrite"} \cup Watching \cup Waiting =>
       (verify /\ "read" \in tests => verifyBuffer = "allocated")
  /\ pc \in {"select", "createRead", "createWrite", "configure", "verify",
             "prompt", "startRead", "startWrite"} \cup Watching \cup Waiting =>
       device = "open"
  /\ pc \in {"createWrite"} \cup Ready /\ "read" \in tests =>
       param["read"] = "allocated"
  /\ pc \in Ready /\ "write" \in tests => param["write"] = "allocated"
  /\ pc \notin Freeing =>
       \A e \in Endpoints : thread[e] # "none" => param[e] = "allocated"

(* What main has released, by its place.                                   *)
GivenBack ==
  /\ pc \in {"freeVerify"} \cup Freeing => device # "open"
  /\ pc \in Freeing => verifyBuffer # "allocated"
  /\ pc \in {"freeWrite", "exit"} => param["read"] # "allocated"
  /\ pc = "exit" => param["write"] # "allocated"

Threads ==
  /\ \A e \in Endpoints :
       thread[e] \in Active => pc \in MayRun(e) \/ e \in unwaited
  /\ \A e \in Endpoints : isRunning[e] <=> thread[e] \in {"running", "leaving"}
  /\ pc \in Watching \cup Waiting =>
       \A e \in tests : thread[e] \in Active \cup {"exited"}
  /\ pc = "startWrite" /\ "read" \in tests =>
       thread["read"] \in Active \cup {"exited"}
  /\ pc \in Preparing => ~isCancelled
  /\ pc \in Preparing \cup Watching => unwaited = {}
  /\ Prompt /\ pc \in {"lookRead", "lookWrite"} =>
       \A e \in Endpoints : thread[e] # "ready"

(* The inductive invariant.                                                *)
IInv == TypeOK /\ Holds /\ GivenBack /\ Threads

(* The inductive invariant holds at the beginning.                         *)
LEMMA InitIInv == Init => IInv
<1> SUFFICES ASSUME Init PROVE IInv
    OBVIOUS
<1>1. TypeOK
  <2>1. isCancelled \in BOOLEAN /\ isUserAborted \in BOOLEAN
    BY DEF Init
  <2>2. isRunning \in [Endpoints -> BOOLEAN]
        /\ \A e \in Endpoints : ~isRunning[e]
    BY DEF Init
  <2> QED
      BY <2>1, <2>2 DEF Init, TypeOK, MainSteps
<1>2. Holds /\ GivenBack
  BY DEF Init, Holds, GivenBack, Watching, Waiting, Ready, Freeing,
     Endpoints
<1>3. Threads
  BY DEF Init, Threads, Watching, Waiting, Active, Preparing
<1> QED
    BY <1>1, <1>2, <1>3 DEF IInv

(* Main prepares the tests.                                                *)
LEMMA SetupKeepsIInv ==
  ASSUME IInv, Setup
  PROVE  IInv'
<1> USE DEF IInv, TypeOK, Holds, GivenBack, Threads, Watching, Waiting,
        MayRun, Ready, Preparing, Freeing, Endpoints, Active, MainSteps,
        resources, flags, asked, Attempt
<1>1. CASE Arguments
  BY <1>1 DEF Arguments
<1>2. CASE Search
  BY <1>2 DEF Search
<1>3. CASE SelectTest
  BY <1>3 DEF SelectTest
<1>4. CASE Create("read", "createRead", "createWrite")
  BY <1>4 DEF Create, Created
<1>5. CASE Create("write", "createWrite", "configure")
  BY <1>5 DEF Create, Created
<1>6. CASE Configure
  BY <1>6 DEF Configure
<1>7. CASE VerifyBuffer
  BY <1>7 DEF VerifyBuffer, Verified
<1>8. CASE AskToBegin
  BY <1>8 DEF AskToBegin
<1>9. CASE Resume("read", "startRead", "startWrite")
  BY <1>9 DEF Resume
<1>10. CASE Resume("write", "startWrite", "while")
  BY <1>10 DEF Resume
<1> QED
    BY <1>1, <1>2, <1>3, <1>4, <1>5, <1>6, <1>7, <1>8, <1>9, <1>10 DEF Setup

(* Main watches the threads and the keyboard.                              *)
LEMMA WatchKeepsIInv ==
  ASSUME IInv, Watch
  PROVE  IInv'
<1> USE DEF IInv, TypeOK, Holds, GivenBack, Threads, Watching, Waiting,
        MayRun, Ready, Preparing, Freeing, Endpoints, Active, MainSteps,
        resources, flags, asked
<1>1. CASE While
  BY <1>1 DEF While
<1>2. CASE Key
  BY <1>2 DEF Key
<1>3. CASE Look("read", "lookRead", "lookWrite")
  BY <1>3 DEF Look, asked
<1>4. CASE Look("write", "lookWrite", "while")
  BY <1>4 DEF Look, asked
<1> QED
    BY <1>1, <1>2, <1>3, <1>4 DEF Watch

(* Main waits for the threads and releases what they used.                 *)
LEMMA TeardownKeepsIInv ==
  ASSUME IInv, Teardown
  PROVE  IInv'
<1> USE DEF IInv, TypeOK, Holds, GivenBack, Threads, Watching, Waiting,
        MayRun, Ready, Preparing, Freeing, Endpoints, Active, MainSteps,
        resources, flags, asked
<1>1. CASE ResetEndpoint("resetRead", "resetWrite")
  BY <1>1 DEF ResetEndpoint
<1>2. CASE WaitForTestTransfer("read", "waitRead", "waitWrite")
  <2>1. CASE UNCHANGED asked
    BY <1>2, <2>1 DEF WaitForTestTransfer
  <2>2. CASE unwaited' = unwaited \cup {"read"} /\ UNCHANGED <<tests, verify>>
    <3>1. /\ pc = "waitRead" /\ pc' = "waitWrite"
          /\ UNCHANGED <<resources, thread, isRunning, flags>>
      BY <1>2 DEF WaitForTestTransfer
    <3>2. TypeOK' /\ Holds' /\ GivenBack'
      BY <2>2, <3>1
    <3>3. Threads'
      BY <2>2, <3>1
    <3> QED
        BY <3>2, <3>3
  <2> QED
      BY <1>2, <2>1, <2>2 DEF WaitForTestTransfer
<1>3. CASE WaitForTestTransfer("write", "waitWrite", "close")
  BY <1>3 DEF WaitForTestTransfer
<1>4. CASE Close
  BY <1>4 DEF Close
<1>5. CASE FreeVerifyBuffer
  BY <1>5 DEF FreeVerifyBuffer, Freed
<1>6. CASE FreeTransferParam("read", "freeRead", "freeWrite")
  BY <1>6 DEF FreeTransferParam, Freed
<1>7. CASE FreeTransferParam("write", "freeWrite", "exit")
  BY <1>7 DEF FreeTransferParam, Freed
<1>8. CASE ResetEndpoint("resetWrite", "waitRead")
  BY <1>8 DEF ResetEndpoint
<1> QED
    BY <1>1, <1>2, <1>3, <1>4, <1>5, <1>6, <1>7, <1>8
       DEF Teardown

(* A thread takes a step.                                                  *)
LEMMA ThreadKeepsIInv ==
  ASSUME IInv, NEW e \in Endpoints, Thread(e) \/ Fails(e)
  PROVE  IInv'
<1> USE DEF IInv, TypeOK, Holds, GivenBack, Threads, Watching, Waiting,
        MayRun, Ready, Preparing, Freeing, Endpoints, Active, MainSteps,
        resources, flags, asked, Moves
<1>1. CASE Begin(e)
  BY <1>1 DEF Begin
<1>2. CASE Fails(e) \/ Stops(e)
  <2>1. /\ thread[e] = "running"
        /\ thread' = [thread EXCEPT ![e] = "leaving"]
        /\ UNCHANGED <<tests, verify, device, verifyBuffer, param, isRunning,
                       isCancelled, isUserAborted, unwaited, pc>>
    BY <1>2 DEF Fails, Stops
  <2> QED
      BY <2>1
<1>3. CASE Leaves(e)
  BY <1>3 DEF Leaves
<1>4. CASE Exits(e)
  BY <1>4 DEF Exits
<1> QED
    BY <1>1, <1>2, <1>3, <1>4 DEF Thread

(* No step breaks the inductive invariant.                                 *)
LEMMA NextIInv == IInv /\ [Next]_vars => IInv'
<1> SUFFICES ASSUME IInv, [Next]_vars PROVE IInv'
    OBVIOUS
<1>1. CASE UNCHANGED vars
  BY <1>1
     DEF vars, resources, flags, asked, IInv, TypeOK, Holds, GivenBack,
         Threads
<1> QED
    BY <1>1, SetupKeepsIInv, WatchKeepsIInv, TeardownKeepsIInv,
       ThreadKeepsIInv DEF Next, Main

(* The inductive invariant, whatever fails.                                *)
THEOREM Invariance == Spec => []IInv
BY InitIInv, NextIInv, PTL DEF Spec

(* TypeOK holds in every reachable state.                                  *)
THEOREM TypeCorrect == Spec => []TypeOK
<1>1. IInv => TypeOK
  BY DEF IInv
<1> QED
    BY <1>1, Invariance, PTL

(* ThreadsAreSafe: the device, the memory of its test and the buffer for   *)
(* verification outlive every thread whose exit code main can get.         *)
THEOREM NoThreadWithoutMemory == Spec => []ThreadsAreSafe
<1>1. IInv => ThreadsAreSafe
  BY DEF IInv, TypeOK, Holds, Threads, ThreadsAreSafe, MayRun, Watching,
         Waiting, Freeing, Active, Endpoints
<1> QED
    BY <1>1, Invariance, PTL

(* NothingKept: on every path to the exit everything is given back, and    *)
(* every thread whose exit code main can get has ended.                    *)
THEOREM AllIsGivenBack == Spec => []NothingKept
<1>1. IInv => NothingKept
  BY DEF IInv, GivenBack, Threads, NothingKept, MayRun, Watching, Waiting,
         Freeing, Endpoints
<1> QED
    BY <1>1, Invariance, PTL

-----------------------------------------------------------------------------
(* Only a look at a thread that has ended cancels a test without the user, *)
(* and no thread begins anew.                                              *)
LEMMA CauseRemains ==
  ASSUME Prompt, IInv, CancelsForCause, [Next]_vars
  PROVE  CancelsForCause'
<1> USE DEF IInv, TypeOK, CancelsForCause
<1>1. ASSUME UNCHANGED <<tests, isCancelled, isUserAborted>>,
             \A e \in tests : thread[e] \in {"returning", "exited"} =>
                              thread'[e] \in {"returning", "exited"}
      PROVE  CancelsForCause'
  BY <1>1
<1>2. ASSUME NEW e \in Endpoints, NEW here \in {"lookRead", "lookWrite"},
             NEW next, Look(e, here, next)
      PROVE  CancelsForCause'
  <2>1. UNCHANGED <<tests, thread, isUserAborted>>
    BY <1>2 DEF Look, asked
  <2>2. CASE e \in tests /\ ~isRunning[e]
    <3>1. thread[e] \in Active \cup {"exited"} /\ thread[e] # "ready"
      BY <1>2, <2>2 DEF Look, Threads, Watching
    <3>2. thread[e] \in {"returning", "exited"}
      BY <2>2, <3>1 DEF Threads, Active
    <3> QED
        BY <2>1, <2>2, <3>2
  <2>3. CASE ~(e \in tests /\ ~isRunning[e])
    <3>1. UNCHANGED isCancelled
      BY <1>2, <2>3 DEF Look, asked
    <3> QED
        BY <1>1, <2>1, <3>1
  <2> QED
      BY <2>2, <2>3
<1>3. CASE Setup
  <2>1. ~isCancelled /\ UNCHANGED <<isCancelled, isUserAborted>>
    BY <1>3 DEF Setup, Arguments, Search, SelectTest, Create, Configure,
                VerifyBuffer, AskToBegin, Resume, flags, asked, Threads,
                Preparing
  <2> QED
      BY <2>1
<1>4. CASE Watch
  <2>1. CASE While
    BY <1>1, <2>1 DEF While, flags, asked
  <2>2. CASE Key
    <3>1. CASE isUserAborted' = TRUE
      BY <3>1
    <3>2. CASE UNCHANGED flags
      BY <1>1, <2>2, <3>2 DEF Key, flags, asked
    <3> QED
        BY <2>2, <3>1, <3>2 DEF Key
  <2> QED
      BY <1>2, <1>4, <2>1, <2>2 DEF Watch, Endpoints
<1>5. CASE Teardown
  BY <1>1, <1>5
     DEF Teardown, ResetEndpoint, WaitForTestTransfer, Close,
         FreeVerifyBuffer, FreeTransferParam, flags, asked
<1>6. ASSUME NEW e \in Endpoints, Thread(e) \/ Fails(e)
      PROVE  CancelsForCause'
  <2>1. /\ UNCHANGED <<tests, isCancelled, isUserAborted>>
        /\ \A f \in Endpoints : f # e => thread'[f] = thread[f]
        /\ thread[e] \in {"returning", "exited"} => thread'[e] = "exited"
    BY <1>6 DEF Thread, Fails, Begin, Stops, Leaves, Exits, Moves, flags, asked
  <2> QED
      BY <1>1, <2>1
<1>7. CASE UNCHANGED vars
  BY <1>1, <1>7 DEF vars, flags, asked
<1> QED
    BY <1>3, <1>4, <1>5, <1>6, <1>7 DEF Next, Main

(* CancelsForCause: if threads begin before they are looked at, a test is  *)
(* cancelled by the user or because a thread has ended.                    *)
THEOREM OnlyForCause ==
  ASSUME Prompt
  PROVE  Spec => []CancelsForCause
<1>1. Init => CancelsForCause
  BY DEF Init, CancelsForCause
<1>2. IInv /\ CancelsForCause /\ [Next]_vars => CancelsForCause'
  BY CauseRemains
<1> QED
    BY <1>1, <1>2, Invariance, PTL DEF Spec

-----------------------------------------------------------------------------
(* First(S) is 0 for no element, and else the least one.                   *)
LEMMA FirstIsLeast ==
  ASSUME NEW S \in SUBSET (Nat \ {0})
  PROVE  /\ S = {} <=> First(S) = 0
         /\ S # {} => First(S) \in S /\ \A x \in S : First(S) <= x
<1>1. ASSUME S # {}
      PROVE  Min(S) \in S /\ \A x \in S : Min(S) <= x
  <2>1. PICK x \in S : \A y \in S : <<y, x>> \notin OpToRel(<, Nat)
    BY <1>1, NatLessThanWellFounded, WFMin
  <2>2. \A y, z \in Nat : y < z => <<y, z>> \in OpToRel(<, Nat)
    BY SMT DEF OpToRel
  <2>3. \A y \in S : ~(y < x)
    BY <2>1, <2>2, Zenon
  <2>4. \E z \in S : \A y \in S : z <= y
    BY <2>3
  <2> QED
      BY <2>4, Zenon DEF Min
<1> QED
    BY <1>1 DEF First

(* An interface that is found is one of the device, with a current setting *)
(* whose endpoints are descriptors.                                        *)
LEMMA EndpointsAreTyped ==
  ASSUME devices \in Busses, NEW d \in DOMAIN devices
  PROVE  /\ Interface(d) \in Nat
         /\ Interface(d) # 0 =>
              /\ devices[d].config[Interface(d)].number = test.intf
              /\ \/ test.altf = -1
                 \/ devices[d].config[Interface(d)].settings[1].alt
                      = test.altf
         /\ Interface(d) # 0 =>
              devices[d].config[Interface(d)].settings[1].endpoints
                \in Seq(EndpointDescriptors)
         /\ FirstInterface(devices[d].config) # 0 =>
              devices[d].config[FirstInterface(devices[d].config)].number
                \in Int
<1> DEFINE config == devices[d].config
<1>1. devices \in Seq([ours : BOOLEAN, config : Seq(Interfaces)])
  BY SetupAssumption
<1>2. config \in Seq(Interfaces)
  <2> DEFINE Devices == [ours : BOOLEAN, config : Seq(Interfaces)]
  <2> HIDE DEF Devices
  <2>1. devices \in Seq(Devices)
    BY <1>1 DEF Devices
  <2>2. devices[d] \in Devices
    BY <2>1
  <2> QED
      BY <2>2 DEF Devices
<1> HIDE DEF config
<1>3. ASSUME NEW i \in DOMAIN config
      PROVE  /\ i \in Nat \ {0}
             /\ config[i].number \in Int
             /\ config[i].settings \in Seq(InterfaceSettings)
  <2>1. i \in 1 .. Len(config) /\ config[i] \in Interfaces
    BY <1>2
  <2> QED
      BY <2>1 DEF Interfaces
<1>4. ASSUME NEW i \in DOMAIN config, config[i].settings # <<>>
      PROVE  config[i].settings[1].endpoints \in Seq(EndpointDescriptors)
  <2>1. config[i].settings[1] \in InterfaceSettings
    BY <1>3, <1>4
  <2> QED
      BY <2>1 DEF InterfaceSettings
<1>5. Interface(d) = First({i \in DOMAIN config :
                              /\ config[i].settings # <<>>
                              /\ config[i].number = test.intf
                              /\ \/ test.altf = -1
                                 \/ config[i].settings[1].alt = test.altf})
  BY DEF Interface, FindInterface, config
<1>6. FirstInterface(config) =
        First({i \in DOMAIN config : config[i].settings # <<>>})
  BY DEF FirstInterface
<1>7. \A S \in SUBSET DOMAIN config :
        First(S) \in Nat /\ (First(S) # 0 => First(S) \in S)
  BY <1>3, FirstIsLeast
<1> QED
    BY <1>3, <1>4, <1>5, <1>6, <1>7 DEF config

(* The bits of a number and of an address.                                 *)
LEMMA NumberIsSmall ==
  ASSUME NEW value \in Int
  PROVE  Number(value) \in 0 .. 15
BY DEF Number

(* What matches has the direction of the test, and the number if that is   *)
(* not 0; what has the direction matches if it is 0.                       *)
LEMMA MatchesMeans ==
  ASSUME NEW e \in {"read", "write"}, NEW p \in EndpointDescriptors,
         test.ep \in 0 .. 15
  PROVE  /\ Matches(e, p) =>
              /\ Direction(p.address) = DirectionOf(e)
              /\ test.ep # 0 => p.address = test.ep + DirectionOf(e)
         /\ test.ep = 0 /\ Direction(p.address) = DirectionOf(e) =>
              Matches(e, p)
<1>1. Number(EndpointID(e)) = test.ep
  BY DEF Number, EndpointID, DirectionOf
<1>2. test.ep # 0 => Direction(EndpointID(e)) = DirectionOf(e)
  BY DEF Direction, EndpointID, DirectionOf
<1>3. test.ep = 0 => EndpointID(e) = DirectionOf(e)
  BY DEF EndpointID, DirectionOf
<1> QED
    BY <1>1, <1>2, <1>3 DEF Matches, EndpointID

(* The endpoint of a test is the first that matches.                       *)
LEMMA FirstMatches ==
  ASSUME EndpointList \in Seq(EndpointDescriptors),
         NEW e \in {"read", "write"},
         First(Matching(e)) # 0
  PROVE  /\ First(Matching(e)) \in DOMAIN EndpointList
         /\ Matches(e, EndpointList[First(Matching(e))])
         /\ \A j \in 1 .. First(Matching(e)) - 1 :
              ~Matches(e, EndpointList[j])
<1>1. DOMAIN EndpointList = 1 .. Len(EndpointList)
  OBVIOUS
<1>2. Matching(e) \in SUBSET (Nat \ {0})
  BY <1>1 DEF Matching
<1>3. /\ First(Matching(e)) \in Matching(e)
      /\ \A j \in Matching(e) : First(Matching(e)) <= j
  BY <1>2, FirstIsLeast
<1> HIDE DEF First
<1>4. First(Matching(e)) \in DOMAIN EndpointList
      /\ Matches(e, EndpointList[First(Matching(e))])
  BY <1>3 DEF Matching
<1>5. ASSUME NEW j \in 1 .. First(Matching(e)) - 1
      PROVE  ~Matches(e, EndpointList[j])
  <2>1. j \in DOMAIN EndpointList /\ ~(First(Matching(e)) <= j)
    BY <1>1, <1>4
  <2>2. j \notin Matching(e)
    BY <1>3, <2>1
  <2> QED
      BY <2>1, <2>2 DEF Matching
<1> QED
    BY <1>4, <1>5

(* What an argument makes of the parameters are parameters.                *)
LEMMA ParsedIsTyped ==
  ASSUME NEW t \in TestParams,
         NEW a \in [name : STRING, value : Int], a.name \in Known
  PROVE  Parsed(t, a) \in TestParams
<1>1. a.value \in Int
  OBVIOUS
<1>2. CASE a.name = "buffercount="
  <2>1. (IF a.value > 1 THEN "async" ELSE t.mode) \in {"sync", "async"}
    BY Zenon DEF TestParams
  <2> QED
      BY <1>1, <1>2, <2>1, Zenon DEF Parsed, TestParams
<1>3. CASE a.name = "intf="
  BY <1>1, <1>3, Zenon DEF Parsed, TestParams
<1>4. CASE a.name = "altf="
  BY <1>1, <1>4, Zenon DEF Parsed, TestParams
<1>5. CASE a.name = "ep="
  <2>1. Masked(a.value) \in 0 .. 15
    BY <1>1, NumberIsSmall DEF Masked
  <2> QED
      BY <1>5, <2>1, Zenon DEF Parsed, TestParams
<1>6. CASE a.name \in {"mode=sync", "mode=async"}
  BY <1>6, Zenon DEF Parsed, TestParams
<1>7. CASE a.name \in {"read", "write", "loop"}
  BY <1>7, Zenon DEF Parsed, TestParams
<1>8. CASE a.name = "list"
  BY <1>8, Zenon DEF Parsed, TestParams
<1>9. CASE a.name \in Others
  BY <1>9, Zenon DEF Parsed, Others
<1> QED
    BY <1>2, <1>3, <1>4, <1>5, <1>6, <1>7, <1>8, <1>9 DEF Known

(* What an argument changes of them.                                       *)
LEMMA ParsedSays ==
  ASSUME NEW t \in TestParams, NEW a, a.name \in Known
  PROVE  /\ Parsed(t, a).ep = IF a.name = "ep=" THEN Number(a.value)
                              ELSE t.ep
         /\ Parsed(t, a).intf = IF a.name = "intf=" THEN a.value ELSE t.intf
         /\ Parsed(t, a).altf = IF a.name = "altf=" THEN a.value ELSE t.altf
         /\ Parsed(t, a).list = IF a.name = "list" THEN TRUE ELSE t.list
         /\ Parsed(t, a).tests =
              IF a.name \in {"read", "write"} THEN {a.name}
              ELSE IF a.name = "loop" THEN {"read", "write"} ELSE t.tests
<1>1. CASE a.name \in {"buffercount=", "mode=sync", "mode=async"}
  <2>1. /\ Parsed(t, a).ep = t.ep
        /\ Parsed(t, a).intf = t.intf
        /\ Parsed(t, a).altf = t.altf
        /\ Parsed(t, a).list = t.list
        /\ Parsed(t, a).tests = t.tests
    BY <1>1, Zenon DEF Parsed, TestParams, Masked
  <2> QED
      BY <1>1, <2>1
<1>2. CASE a.name = "intf="
  <2>1. Parsed(t, a) = [t EXCEPT !.intf = a.value]
    BY <1>2 DEF Parsed, Masked, Others
  <2>2. /\ Parsed(t, a).ep = t.ep
        /\ Parsed(t, a).intf = a.value
        /\ Parsed(t, a).altf = t.altf
        /\ Parsed(t, a).list = t.list
        /\ Parsed(t, a).tests = t.tests
    BY <2>1, Zenon DEF TestParams
  <2> QED
      BY <1>2, <2>2
<1>3. CASE a.name = "altf="
  <2>1. Parsed(t, a) = [t EXCEPT !.altf = a.value]
    BY <1>3 DEF Parsed, Masked, Others
  <2>2. /\ Parsed(t, a).ep = t.ep
        /\ Parsed(t, a).intf = t.intf
        /\ Parsed(t, a).altf = a.value
        /\ Parsed(t, a).list = t.list
        /\ Parsed(t, a).tests = t.tests
    BY <2>1, Zenon DEF TestParams
  <2> QED
      BY <1>3, <2>2
<1>4. CASE a.name = "ep="
  <2>1. Parsed(t, a) = [t EXCEPT !.ep = Number(a.value)]
    BY <1>4 DEF Parsed, Masked, Others
  <2>2. /\ Parsed(t, a).ep = Number(a.value)
        /\ Parsed(t, a).intf = t.intf
        /\ Parsed(t, a).altf = t.altf
        /\ Parsed(t, a).list = t.list
        /\ Parsed(t, a).tests = t.tests
    BY <2>1, Zenon DEF TestParams
  <2> QED
      BY <1>4, <2>2
<1>5. CASE a.name \in {"read", "write"}
  <2>1. Parsed(t, a) = [t EXCEPT !.tests = {a.name}]
    BY <1>5 DEF Parsed, Masked, Others
  <2>2. /\ Parsed(t, a).ep = t.ep
        /\ Parsed(t, a).intf = t.intf
        /\ Parsed(t, a).altf = t.altf
        /\ Parsed(t, a).list = t.list
        /\ Parsed(t, a).tests = {a.name}
    BY <2>1, Zenon DEF TestParams
  <2> QED
      BY <1>5, <2>2
<1>6. CASE a.name = "loop"
  <2>1. Parsed(t, a) = [t EXCEPT !.tests = {"read", "write"}]
    BY <1>6 DEF Parsed, Masked, Others
  <2>2. /\ Parsed(t, a).ep = t.ep
        /\ Parsed(t, a).intf = t.intf
        /\ Parsed(t, a).altf = t.altf
        /\ Parsed(t, a).list = t.list
        /\ Parsed(t, a).tests = {"read", "write"}
    BY <2>1, Zenon DEF TestParams
  <2> QED
      BY <1>6, <2>2
<1>7. CASE a.name = "list"
  <2>1. Parsed(t, a) = [t EXCEPT !.list = TRUE]
    BY <1>7 DEF Parsed, Masked, Others
  <2>2. /\ Parsed(t, a).ep = t.ep
        /\ Parsed(t, a).intf = t.intf
        /\ Parsed(t, a).altf = t.altf
        /\ Parsed(t, a).list = TRUE
        /\ Parsed(t, a).tests = t.tests
    BY <2>1, Zenon DEF TestParams
  <2> QED
      BY <1>7, <2>2
<1>8. CASE a.name \in Others
  <2>1. Parsed(t, a) = t
    BY <1>8, Zenon DEF Parsed, Others
  <2>2. a.name \notin {"ep=", "intf=", "altf=", "list", "read", "write",
                      "loop"}
    BY <1>8 DEF Others
  <2> QED
      BY <2>1, <2>2
<1> QED
    BY <1>1, <1>2, <1>3, <1>4, <1>5, <1>6, <1>7, <1>8 DEF Known

(* The later changes of the parameters: of the mode, or of the interface.  *)
LEMMA ChangedParams ==
  ASSUME NEW t \in TestParams
  PROVE  /\ [t EXCEPT !.mode = "async"] \in TestParams
         /\ [t EXCEPT !.mode = "async"].ep = t.ep
         /\ [t EXCEPT !.mode = "async"].intf = t.intf
         /\ [t EXCEPT !.mode = "async"].altf = t.altf
         /\ [t EXCEPT !.mode = "async"].tests = t.tests
         /\ [t EXCEPT !.mode = "async"].list = t.list
         /\ \A n \in Int : /\ [t EXCEPT !.intf = n] \in TestParams
                          /\ [t EXCEPT !.intf = n].list = t.list
                          /\ [t EXCEPT !.intf = n].ep = t.ep
                          /\ [t EXCEPT !.intf = n].altf = t.altf
                          /\ [t EXCEPT !.intf = n].tests = t.tests
BY Zenon DEF TestParams

(* The last of n + 1 arguments with a name is the new one, or the last of  *)
(* the n before.                                                           *)
LEMMA LastOfMore ==
  ASSUME NEW names, NEW n \in Nat
  PROVE  LastOf(names, n + 1) = IF args[n + 1].name \in names THEN {n + 1}
                                ELSE LastOf(names, n)
<1>1. CASE args[n + 1].name \in names
  <2>1. ASSUME NEW k \in 1 .. n PROVE k \notin LastOf(names, n + 1)
    <3>1. n + 1 \in k + 1 .. n + 1
      OBVIOUS
    <3> QED
        BY <1>1, <3>1 DEF LastOf
  <2>2. n + 1 \in LastOf(names, n + 1)
    BY <1>1 DEF LastOf
  <2>3. \A k \in LastOf(names, n + 1) : k \in 1 .. n \/ k = n + 1
    BY DEF LastOf
  <2> QED
      BY <1>1, <2>1, <2>2, <2>3
<1>2. CASE args[n + 1].name \notin names
  <2>1. ASSUME NEW k
        PROVE  k \in LastOf(names, n + 1) <=> k \in LastOf(names, n)
    <3>1. k \in 1 .. n + 1 /\ k # n + 1 <=> k \in 1 .. n
      OBVIOUS
    <3>2. k \in 1 .. n => \A j : j \in k + 1 .. n + 1
                                   <=> j \in k + 1 .. n \/ j = n + 1
      OBVIOUS
    <3> QED
        BY <1>2, <3>1, <3>2 DEF LastOf
  <2> QED
      BY <1>2, <2>1
<1> QED
    BY <1>1, <1>2

-----------------------------------------------------------------------------
(* What the parameters have to do with the n arguments that were read: the *)
(* last word counts.                                                       *)
LastWord(n) ==
  /\ \A e \in {"read", "write"} :
       e \in test.tests
         <=> \A k \in LastOf(TestNames, n) : args[k].name \in {e, "loop"}
  /\ \A k \in LastOf({"ep="}, n) : test.ep = Number(args[k].value)
  /\ test.ep # 0 => LastOf({"ep="}, n) # {}
  /\ \A k \in LastOf({"altf="}, n) : test.altf = args[k].value
  /\ test.list \/ \A k \in LastOf({"intf="}, n) : test.intf = args[k].value

(* All of them are read before a device is looked for.                     *)
ReadInv ==
  /\ argument - 1 <= Len(args)
  /\ step \notin {"arguments", "invalid"} => argument - 1 = Len(args)
  /\ LastWord(argument - 1)

(* The setup of the tests has a device from the search on, and the place   *)
(* of main tells which search it is in.                                    *)
ChosenInv ==
  /\ step \in {"createRead", "createWrite", "ready"} => chosen # 0
  /\ step \in {"arguments", "invalid", "open", "list"} => chosen = 0
  /\ step = "arguments" => place = 1
  /\ step = "open" => ~test.list
  /\ step = "list" => test.list

(* The search has passed no device that could be opened and has the        *)
(* interface.                                                              *)
PassedInv ==
  step = "open" =>
    \A d \in DOMAIN devices \ faulty :
      d < place /\ devices[d].ours => Interface(d) = 0

(* The endpoints are set in order, and what is set fits.                   *)
FitInv ==
  /\ step \in {"arguments", "open", "list", "createRead"} =>
       endpoint = [e \in {"read", "write"} |-> <<>>]
  /\ step = "createWrite" => Fits("read") /\ endpoint["write"] = <<>>

(* The inductive invariant of the setup.                                   *)
SetupInv ==
  /\ SetupTypeOK /\ ReadInv /\ ChosenInv /\ PassedInv /\ FitInv
  /\ EndpointsFit /\ NoneMissed

(* The invariant holds at the beginning.                                   *)
LEMMA InitSetup == SetupInit => SetupInv
<1> SUFFICES ASSUME SetupInit PROVE SetupInv
    OBVIOUS
<1>1. SetTestDefaults \in TestParams /\ ~SetTestDefaults.list
  BY DEF SetTestDefaults, TestParams
<1>5. ReadInv
  <2>1. args \in Seq([name : STRING, value : Int]) /\ argument = 1
    BY SetupAssumption DEF SetupInit
  <2>2. Len(args) \in Nat
    BY <2>1
  <2>3. \A names : LastOf(names, 0) = {}
    BY DEF LastOf
  <2>4. LastWord(0)
    BY <2>3 DEF LastWord, SetupInit, SetTestDefaults
  <2> QED
      BY <2>1, <2>2, <2>4 DEF ReadInv, SetupInit
<1>2. <<>> \in Seq(DOMAIN devices) /\ <<>> \in Seq(EndpointDescriptors)
  OBVIOUS
<1>3. SetupTypeOK
  BY <1>1, <1>2 DEF SetupInit, SetupTypeOK, SetupSteps
<1>4. ChosenInv /\ PassedInv /\ FitInv /\ EndpointsFit /\ NoneMissed
  BY DEF SetupInit, ChosenInv, PassedInv, FitInv, EndpointsFit, NoneMissed
<1> QED
    BY <1>3, <1>4, <1>5 DEF SetupInv

(* What the arguments say still holds when the mode, or the interface of a *)
(* choice from the list, is all that changes.                              *)
LEMMA StaysRead ==
  ASSUME ReadInv, UNCHANGED <<args, argument>>,
         step' \notin {"arguments", "invalid"} =>
           step \notin {"arguments", "invalid"} \/ argument > Len(args),
         SetupTypeOK,
         test'.ep = test.ep, test'.tests = test.tests,
         test'.intf = test.intf \/ test.list,
         test'.altf = test.altf, test'.list = test.list
  PROVE  ReadInv'
<1>1. \A names, n : LastOf(names, n)' = LastOf(names, n)
  BY DEF LastOf
<1>2. \A n : LastWord(n) => LastWord(n)'
  BY <1>1 DEF LastWord
<1>3. args \in Seq([name : STRING, value : Int]) /\ argument \in Nat \ {0}
  BY SetupAssumption DEF SetupTypeOK
<1>4. Len(args) \in Nat
  BY <1>3
<1> QED
    BY <1>2, <1>3, <1>4 DEF ReadInv

(* The last word after one more argument.                                  *)
LEMMA ArgumentIsRead ==
  ASSUME SetupTypeOK, ReadInv, step = "arguments", UNCHANGED <<args, step>>,
         argument <= Len(args), args[argument].name \in Known,
         test' = Parsed(test, args[argument]), argument' = argument + 1
  PROVE  ReadInv'
<1> DEFINE n == argument - 1
<1>1. /\ args \in Seq([name : STRING, value : Int])
      /\ argument \in Nat \ {0} /\ test \in TestParams
  BY SetupAssumption DEF SetupTypeOK
<1>2. /\ n \in Nat /\ n + 1 = argument /\ argument' - 1 = argument
      /\ Len(args) \in Nat
  BY <1>1
<1>3. ASSUME NEW names
      PROVE  LastOf(names, argument - 1)' =
               IF args[argument].name \in names THEN {argument}
               ELSE LastOf(names, n)
  <2>1. LastOf(names, n + 1) =
          IF args[n + 1].name \in names THEN {n + 1} ELSE LastOf(names, n)
    <3> HIDE DEF n
    <3> QED
        BY <1>2, LastOfMore
  <2>2. LastOf(names, argument - 1)' = LastOf(names, n + 1)
    BY <1>2 DEF LastOf
  <2> QED
      BY <1>2, <2>1, <2>2
<1>4. LastWord(n)
  BY DEF ReadInv
<1> DEFINE a == args[argument]
<1> HIDE DEF n
<1>5. /\ test'.ep = IF a.name = "ep=" THEN Number(a.value) ELSE test.ep
      /\ test'.intf = IF a.name = "intf=" THEN a.value ELSE test.intf
      /\ test'.altf = IF a.name = "altf=" THEN a.value ELSE test.altf
      /\ test'.list = IF a.name = "list" THEN TRUE ELSE test.list
      /\ test'.tests = IF a.name \in {"read", "write"} THEN {a.name}
                       ELSE IF a.name = "loop" THEN {"read", "write"}
                       ELSE test.tests
  BY <1>1, ParsedSays
<1>6. ASSUME NEW e \in {"read", "write"}
      PROVE  e \in test'.tests
               <=> \A k \in LastOf(TestNames, argument - 1)' :
                     args[k].name \in {e, "loop"}
  BY <1>3, <1>4, <1>5 DEF LastWord, TestNames
<1>7. /\ \A k \in LastOf({"ep="}, argument - 1)' :
           test'.ep = Number(args[k].value)
      /\ test'.ep # 0 => LastOf({"ep="}, argument - 1)' # {}
  BY <1>3, <1>4, <1>5 DEF LastWord
<1>8. \A k \in LastOf({"altf="}, argument - 1)' : test'.altf = args[k].value
  BY <1>3, <1>4, <1>5 DEF LastWord
<1>9. \/ test'.list
      \/ \A k \in LastOf({"intf="}, argument - 1)' :
           test'.intf = args[k].value
  BY <1>3, <1>4, <1>5 DEF LastWord
<1>10. LastWord(argument - 1)'
  BY <1>6, <1>7, <1>8, <1>9 DEF LastWord
<1>11. /\ (argument - 1)' <= Len(args)'
       /\ step' = "arguments"
  BY <1>1, <1>2
<1> QED
    BY <1>10, <1>11 DEF ReadInv

(* What fits still fits when the mode is all that changes.                 *)
LEMMA StaysFit ==
  ASSUME NEW e \in {"read", "write"}, Fits(e),
         UNCHANGED <<args, devices, chosen>>, endpoint'[e] = endpoint[e],
         test'.list = test.list,
         test'.intf = test.intf, test'.altf = test.altf
  PROVE  Fits(e)'
<1>1. Interface(chosen)' = Interface(chosen)
  BY DEF Interface
<1>2. EndpointList' = EndpointList
  BY <1>1 DEF EndpointList
<1>3. \A names, n : LastOf(names, n)' = LastOf(names, n)
  BY DEF LastOf
<1>4. \A name : Given(name)' = Given(name)
  BY <1>3 DEF Given
<1>5. NumberAsked' = NumberAsked /\ AskedFor(e)' = AskedFor(e)
  BY <1>3, <1>4 DEF NumberAsked, AskedFor
<1>6. \A i : InterfaceAsked(i)' = InterfaceAsked(i)
  BY <1>4 DEF InterfaceAsked
<1> QED
    BY <1>1, <1>2, <1>5, <1>6 DEF Fits

(* What the parameters say is what was asked for.                          *)
LEMMA ReadIsAsked ==
  ASSUME SetupTypeOK, ReadInv, step \notin {"arguments", "invalid"}
  PROVE  /\ \A e \in {"read", "write"} : AskedFor(e) <=> e \in test.tests
         /\ NumberAsked = {test.ep} \ {0}
         /\ test.list \/ \A v \in Given("intf=") : v = test.intf
         /\ \A v \in Given("altf=") : v = test.altf
<1>1. LastWord(Len(args))
  BY DEF ReadInv
<1>2. \A e \in {"read", "write"} : AskedFor(e) <=> e \in test.tests
  BY <1>1 DEF LastWord, AskedFor
<1>3. /\ test.list \/ \A v \in Given("intf=") : v = test.intf
      /\ \A v \in Given("altf=") : v = test.altf
  BY <1>1 DEF LastWord, Given
<1>4. /\ \A v \in Given("ep=") : Number(v) = test.ep
      /\ test.ep # 0 => Given("ep=") # {}
  BY <1>1 DEF LastWord, Given
<1> QED
    BY <1>2, <1>3, <1>4 DEF NumberAsked

(* A step of CreateTransferParam.                                          *)
LEMMA CreateKeepsSetup ==
  ASSUME SetupInv,
         NEW e \in {"read", "write"}, NEW here, NEW next,
         \/ e = "read" /\ here = "createRead" /\ next = "createWrite"
         \/ e = "write" /\ here = "createWrite" /\ next = "ready",
         CreateTransferParam(e, here, next)
  PROVE  SetupInv'
<1>1. /\ step = here /\ chosen \in DOMAIN devices
      /\ UNCHANGED <<args, argument, devices, place, found>>
      /\ SetupTypeOK
  BY DEF CreateTransferParam, SetupInv, ChosenInv, SetupTypeOK
<1>2. /\ test' \in TestParams
      /\ test'.ep = test.ep /\ test'.tests = test.tests
      /\ test'.intf = test.intf /\ test'.altf = test.altf
      /\ test'.list = test.list
  <2>1. UNCHANGED test \/ test' = [test EXCEPT !.mode = "async"]
    BY DEF CreateTransferParam
  <2> QED
      BY <1>1, <2>1, ChangedParams DEF SetupTypeOK
<1>9. /\ ReadInv' /\ ReadInv
      /\ step \notin {"arguments", "invalid"}
      /\ AskedFor(e) <=> e \in test.tests
      /\ NumberAsked = {test.ep} \ {0}
      /\ test.list \/ \A v \in Given("intf=") : v = test.intf
      /\ \A v \in Given("altf=") : v = test.altf
  <2>1. ReadInv /\ step \notin {"arguments", "invalid"}
    BY <1>1 DEF SetupInv
  <2>2. ReadInv'
    BY <1>1, <1>2, <2>1, StaysRead
  <2> QED
      BY <1>1, <2>1, <2>2, ReadIsAsked
<1>3. step' \in {next, "done"}
  BY DEF CreateTransferParam
<1>4. /\ endpoint' \in [{"read", "write"} -> Seq(EndpointDescriptors)]
      /\ \A f \in {"read", "write"} \ {e} : endpoint'[f] = endpoint[f]
      /\ step' = next => Fits(e)'
  <2>1. CASE UNCHANGED endpoint /\ step' = next /\ e \notin test.tests
    <3>1. endpoint[e] = <<>>
      BY <1>1 DEF SetupInv, FitInv
    <3>2. Fits(e)'
      BY <1>1, <1>9, <2>1, <3>1 DEF Fits, AskedFor, LastOf
    <3> QED
        BY <1>1, <2>1, <3>2 DEF SetupTypeOK
  <2>2. CASE UNCHANGED endpoint /\ step' = "done"
    BY <1>1, <2>2 DEF SetupTypeOK
  <2>3. CASE /\ Interface(chosen) # 0 /\ First(Matching(e)) # 0
             /\ EndpointList[First(Matching(e))].address # 0
             /\ e \in test.tests
             /\ endpoint' =
                  [endpoint EXCEPT ![e] = <<EndpointList[First(Matching(e))]>>]
    <3>1. EndpointList \in Seq(EndpointDescriptors)
      BY <1>1, <2>3, EndpointsAreTyped DEF EndpointList, SetupTypeOK
    <3> DEFINE i == First(Matching(e))
    <3>2. /\ i \in DOMAIN EndpointList
          /\ Matches(e, EndpointList[i])
          /\ \A j \in 1 .. i - 1 : ~Matches(e, EndpointList[j])
      BY <2>3, <3>1, FirstMatches
    <3> HIDE DEF i
    <3>3. /\ endpoint' \in [{"read", "write"} -> Seq(EndpointDescriptors)]
          /\ endpoint'[e] = <<EndpointList[i]>>
          /\ \A f \in {"read", "write"} \ {e} : endpoint'[f] = endpoint[f]
      BY <1>1, <2>3, <3>1, <3>2 DEF i, SetupTypeOK
    <3>4. Fits(e)'
      <4>1. test.ep \in 0 .. 15
        BY <1>1 DEF SetupTypeOK, TestParams
      <4> DEFINE E == EndpointDescriptors
      <4>2. \A j \in DOMAIN EndpointList : EndpointList[j] \in E
        <5> HIDE DEF E
        <5>1. EndpointList \in Seq(E)
          BY <3>1 DEF E
        <5> QED
            BY <5>1
      <4>3. /\ Direction(EndpointList[i].address) = DirectionOf(e)
            /\ test.ep # 0 =>
                 EndpointList[i].address = test.ep + DirectionOf(e)
        BY <3>2, <4>1, <4>2, MatchesMeans
      <4>4. \A n \in NumberAsked :
              EndpointList[i].address = n + DirectionOf(e)
        BY <1>9, <4>3
      <4>5. ASSUME NumberAsked = {}, NEW j \in 1 .. i - 1
            PROVE  Direction(EndpointList[j].address) # DirectionOf(e)
        <5>1. j \in DOMAIN EndpointList
          BY <3>1, <3>2
        <5>2. test.ep = 0
          BY <1>9, <4>5
        <5> QED
            BY <3>2, <4>1, <4>2, <5>1, <5>2, MatchesMeans
      <4>6. InterfaceAsked(devices[chosen].config[Interface(chosen)])
        <5>1. LET found1 == devices[chosen].config[Interface(chosen)]
              IN  /\ found1.number = test.intf
                  /\ test.altf = -1 \/ found1.settings[1].alt = test.altf
          BY <1>1, <2>3, EndpointsAreTyped DEF SetupTypeOK
        <5> QED
            BY <1>9, <5>1, Zenon DEF InterfaceAsked
      <4>7. endpoint'[e] = <<EndpointList[i]>>
            /\ EndpointList[i].address # 0
        BY <2>3, <3>3 DEF i
      <4>8. Interface(chosen)' = Interface(chosen)
        BY <1>1, <1>2 DEF Interface, found
      <4>9. EndpointList' = EndpointList
        BY <1>1, <4>8 DEF EndpointList, found
      <4>10. \A names, n : LastOf(names, n)' = LastOf(names, n)
        BY <1>1 DEF LastOf
      <4>11. \A name : Given(name)' = Given(name)
        BY <1>1, <4>10 DEF Given
      <4>12. NumberAsked' = NumberAsked
        BY <4>11 DEF NumberAsked
      <4>13. InterfaceAsked(devices[chosen].config[Interface(chosen)])'
        BY <1>1, <1>2, <4>6, <4>8, <4>11 DEF InterfaceAsked, found
      <4>14. LET address == EndpointList'[i].address
             IN  /\ i \in DOMAIN EndpointList'
                 /\ endpoint'[e] = <<EndpointList'[i]>>
                 /\ address # 0 /\ Direction(address) = DirectionOf(e)
                 /\ \A n \in NumberAsked' : address = n + DirectionOf(e)
                 /\ NumberAsked' = {} =>
                      \A j \in 1 .. i - 1 :
                        Direction(EndpointList'[j].address) # DirectionOf(e)
        BY <3>2, <4>3, <4>4, <4>5, <4>7, <4>9, <4>12, Zenon
      <4>15. AskedFor(e)'
        BY <1>1, <1>9, <2>3, <4>10 DEF AskedFor
      <4> QED
          BY <4>13, <4>14, <4>15, Zenon DEF Fits
    <3> QED
        BY <3>3, <3>4
  <2> QED
      BY <2>1, <2>2, <2>3 DEF CreateTransferParam
<1>5. SetupTypeOK'
  BY <1>1, <1>2, <1>3, <1>4 DEF SetupTypeOK, SetupSteps, found
<1>6. ChosenInv' /\ PassedInv' /\ NoneMissed'
  BY <1>1, <1>3 DEF ChosenInv, PassedInv, NoneMissed, found, SetupInv
<1>7. ASSUME e = "write" PROVE Fits("read")'
  <2>1. Fits("read") /\ endpoint'["read"] = endpoint["read"]
    BY <1>1, <1>4, <1>7 DEF SetupInv, FitInv
  <2> QED
      BY <1>1, <1>2, <2>1, StaysFit DEF found
<1>8. FitInv' /\ EndpointsFit'
  BY <1>1, <1>3, <1>4, <1>7 DEF FitInv, EndpointsFit, SetupInv
<1> QED
    BY <1>5, <1>6, <1>8, <1>9 DEF SetupInv

(* The devices of all busses are numbered from 1.                          *)
LEMMA PlacesFromOne ==
  ASSUME SetupTypeOK
  PROVE  DOMAIN devices = 1 .. Len(devices) /\ Len(devices) \in Nat
<1> DEFINE Devices == [ours : BOOLEAN, config : Seq(Interfaces)]
<1> HIDE DEF Devices
<1>1. devices \in Seq(Devices)
  BY SetupAssumption DEF Devices, SetupTypeOK
<1> QED
    BY <1>1

(* The arguments are read.                                                 *)
LEMMA ArgumentsKeepSetup ==
  ASSUME SetupInv, ShowHelp \/ ParseArgument \/ ValidateArguments
  PROVE  SetupInv'
<1> USE DEF SetupInv, ChosenInv, PassedInv, FitInv, EndpointsFit, NoneMissed,
            found
<1>1. ASSUME UNCHANGED <<args, devices, place, found, endpoint>>,
             argument' \in Nat \ {0}, test' \in TestParams,
             step' \in SetupSteps
      PROVE  SetupTypeOK'
  BY <1>1 DEF SetupTypeOK
<1>2. CASE ParseArgument
  <2>1. step = "arguments" /\ step' \in {"arguments", "invalid"}
        /\ UNCHANGED <<args, devices, place, found, endpoint>>
    BY <1>2 DEF ParseArgument
  <2>2. argument' \in Nat \ {0} /\ test' \in TestParams /\ ReadInv'
    <3>1. CASE UNCHANGED <<argument, test>> /\ step' = "invalid"
      BY <2>1, <3>1, StaysRead DEF SetupTypeOK
    <3>2. CASE /\ argument \in 1 .. Len(args) /\ UNCHANGED step
               /\ args[argument].name \in Known
               /\ test' = Parsed(test, args[argument])
               /\ argument' = argument + 1
      <4> DEFINE Args == [name : STRING, value : Int]
      <4> HIDE DEF Args
      <4>1. args \in Seq(Args)
        BY SetupAssumption DEF Args, SetupTypeOK
      <4>2. args[argument] \in Args
        BY <3>2, <4>1
      <4>3. ReadInv'
        BY <2>1, <3>2, ArgumentIsRead
      <4> QED
          BY <3>2, <4>2, <4>3, ParsedIsTyped DEF Args, SetupTypeOK
    <3>3. args \in Seq([name : STRING, value : Int]) /\ argument \in Nat \ {0}
      BY SetupAssumption DEF SetupTypeOK
    <3> QED
        BY <1>2, <3>1, <3>2, <3>3 DEF ParseArgument
  <2> QED
      BY <1>1, <2>1, <2>2 DEF SetupSteps
<1>3. CASE ValidateArguments
  <2>1. /\ step = "arguments" /\ step' \in {"invalid", "open", "list"}
        /\ step' = "open" => ~test.list
        /\ step' = "list" => test.list
        /\ UNCHANGED <<args, argument, test, devices, place, found, endpoint>>
        /\ argument > Len(args)
    BY <1>3 DEF ValidateArguments
  <2>2. SetupTypeOK'
    BY <1>1, <2>1 DEF SetupTypeOK, SetupSteps
  <2>3. \A d \in DOMAIN devices : ~(d < 1)
    BY PlacesFromOne
  <2>4. ReadInv'
    BY <2>1, StaysRead
  <2> QED
      BY <2>1, <2>2, <2>3, <2>4
<1>4. CASE ShowHelp
  <2>1. /\ step = "arguments" /\ step' = "invalid"
        /\ UNCHANGED <<args, argument, test, devices, place, found, endpoint>>
    BY <1>4 DEF ShowHelp
  <2>2. SetupTypeOK'
    BY <1>1, <2>1 DEF SetupTypeOK, SetupSteps
  <2>3. ReadInv'
    BY <2>1, StaysRead
  <2> QED
      BY <2>1, <2>2, <2>3
<1> QED
    BY <1>2, <1>3, <1>4

(* A device is looked for.                                                 *)
LEMMA SearchKeepsSetup ==
  ASSUME SetupInv, BenchOpen \/ ListDevice \/ NotFound \/ Choose
  PROVE  SetupInv'
<1> USE DEF SetupInv, ChosenInv, PassedInv, FitInv, EndpointsFit, NoneMissed,
            found
<1>1. DOMAIN devices = 1 .. Len(devices) /\ Len(devices) \in Nat
      /\ place \in Nat \ {0}
  BY PlacesFromOne DEF SetupTypeOK
<1>2. CASE BenchOpen
  <2>1. /\ step = "open" /\ place \in DOMAIN devices /\ place' = place + 1
        /\ UNCHANGED <<args, argument, test, devices, listed, endpoint>>
    BY <1>1, <1>2 DEF BenchOpen
  <2>2. \A d : Interface(d)' = Interface(d)
    BY <2>1 DEF Interface
  <2>5. ReadInv'
    <3>1. step' \in {"open", "createRead"}
      BY <1>2, <2>1 DEF BenchOpen
    <3> QED
        BY <2>1, <3>1, StaysRead
  <2>3. CASE /\ UNCHANGED <<open, chosen, step>>
             /\ faulty' \in {faulty, faulty \cup {place}}
             /\ \/ ~devices[place].ours \/ Interface(place) = 0
                \/ place \in faulty'
    <3>1. SetupTypeOK'
      BY <1>1, <2>1, <2>3 DEF SetupTypeOK
    <3>2. PassedInv'
      BY <1>1, <2>1, <2>2, <2>3
    <3> QED
        BY <2>1, <2>3, <2>5, <3>1, <3>2
  <2>4. CASE /\ chosen' = place /\ open' = open \cup {place}
             /\ step' = "createRead" /\ UNCHANGED faulty
    <3>1. SetupTypeOK'
      BY <1>1, <2>1, <2>4 DEF SetupTypeOK, SetupSteps
    <3> QED
        BY <1>1, <2>1, <2>4, <2>5, <3>1
  <2> QED
      BY <1>2, <2>3, <2>4 DEF BenchOpen
<1>3. CASE ListDevice
  <2>1. /\ step = "list" /\ place \in DOMAIN devices /\ place' = place + 1
        /\ UNCHANGED <<args, argument, test, devices, open, chosen, endpoint,
                       step>>
        /\ listed' \in {listed, Append(listed, place)}
        /\ faulty' \in {faulty, faulty \cup {place}}
    BY <1>1, <1>3 DEF ListDevice
  <2> DEFINE Places == DOMAIN devices
  <2>2. listed' \in Seq(Places) /\ faulty' \subseteq Places
    <3>1. listed \in Seq(Places) /\ faulty \subseteq Places /\ place \in Places
      BY <2>1 DEF SetupTypeOK
    <3> HIDE DEF Places
    <3>2. Append(listed, place) \in Seq(Places)
      BY <3>1
    <3> QED
        BY <2>1, <3>1, <3>2
  <2>3. place' \in Nat \ {0}
    BY <1>1, <2>1
  <2>4. SetupTypeOK'
    BY <2>1, <2>2, <2>3 DEF SetupTypeOK
  <2>5. ReadInv'
    BY <2>1, StaysRead
  <2> QED
      BY <2>1, <2>4, <2>5
<1>4. CASE NotFound
  <2>1. /\ step \in {"open", "list"} /\ step' = "done" /\ place > Len(devices)
        /\ UNCHANGED <<args, argument, test, devices, place, found, endpoint>>
    BY <1>4 DEF NotFound
  <2>2. \A d : Interface(d)' = Interface(d)
    BY <2>1 DEF Interface
  <2>3. SetupTypeOK'
    BY <2>1 DEF SetupTypeOK, SetupSteps
  <2>4. ReadInv'
    BY <2>1, StaysRead
  <2> QED
      BY <1>1, <2>1, <2>2, <2>3, <2>4
<1>5. CASE Choose
  <2>1. PICK i \in 1 .. Len(listed) :
          LET d == listed[i]
              first == FirstInterface(devices[d].config)
          IN  /\ chosen' = d /\ open' = open \cup {d}
              /\ test' = IF Interface(d) = 0 /\ first # 0
                         THEN [test EXCEPT
                                 !.intf = devices[d].config[first].number]
                         ELSE test
              /\ step' = IF Interface(d) = 0 /\ first = 0 THEN "done"
                         ELSE "createRead"
    BY <1>5 DEF Choose
  <2>2. listed[i] \in DOMAIN devices /\ listed[i] # 0
    BY <1>1 DEF SetupTypeOK
  <2>3. /\ test' \in TestParams /\ test'.list = test.list
        /\ test'.ep = test.ep /\ test'.altf = test.altf
        /\ test'.tests = test.tests
    BY <2>1, <2>2, EndpointsAreTyped, ChangedParams DEF SetupTypeOK
  <2>4. /\ step = "list" /\ step' \in {"done", "createRead"}
        /\ chosen' = listed[i] /\ open' = open \cup {listed[i]}
        /\ UNCHANGED <<args, argument, devices, place, listed, faulty,
                       endpoint>>
    BY <1>5, <2>1 DEF Choose
  <2>5. SetupTypeOK'
    BY <2>2, <2>3, <2>4 DEF SetupTypeOK, SetupSteps
  <2>6. ReadInv'
    BY <2>3, <2>4, StaysRead
  <2> QED
      BY <2>2, <2>3, <2>4, <2>5, <2>6
<1> QED
    BY <1>2, <1>3, <1>4, <1>5

(* No step breaks the invariant of the setup.                              *)
LEMMA NextSetup == SetupInv /\ [SetupNext]_setupVars => SetupInv'
<1> SUFFICES ASSUME SetupInv, [SetupNext]_setupVars PROVE SetupInv'
    OBVIOUS
<1> USE DEF SetupInv, ChosenInv, PassedInv, FitInv, EndpointsFit, NoneMissed,
            found
<1>1. CASE CreateTransferParam("read", "createRead", "createWrite")
  BY <1>1, CreateKeepsSetup
<1>2. CASE CreateTransferParam("write", "createWrite", "ready")
  BY <1>2, CreateKeepsSetup
<1>3. CASE CloseDevice
  <2>1. /\ step = "done" /\ step' = "failed" /\ open' \subseteq open
        /\ UNCHANGED <<args, argument, test, devices, place, listed, faulty,
                       chosen, endpoint>>
    BY <1>3 DEF CloseDevice
  <2>2. SetupTypeOK'
    BY <2>1 DEF SetupTypeOK, SetupSteps
  <2>3. \A d : Interface(d)' = Interface(d)
    BY <2>1 DEF Interface
  <2>4. ReadInv'
    BY <2>1, StaysRead
  <2> QED
      BY <2>1, <2>2, <2>3, <2>4
<1>4. CASE UNCHANGED setupVars
  <2>1. SetupTypeOK'
    BY <1>4 DEF setupVars, SetupTypeOK
  <2>2. ChosenInv' /\ PassedInv' /\ NoneMissed'
    BY <1>4 DEF setupVars, Interface
  <2>3. \A e \in {"read", "write"} : Fits(e) => Fits(e)'
    BY <1>4, StaysFit DEF setupVars
  <2>4. FitInv' /\ EndpointsFit'
    BY <1>4, <2>3 DEF setupVars
  <2>5. ReadInv'
    BY <1>4, StaysRead DEF setupVars
  <2> QED
      BY <2>1, <2>2, <2>4, <2>5
<1> QED
    BY <1>1, <1>2, <1>3, <1>4, ArgumentsKeepSetup, SearchKeepsSetup
       DEF SetupNext

(* EndpointsFit: whatever the arguments and the devices, the tests begin   *)
(* only with endpoints that fit them.                                      *)
THEOREM EndpointsAreRight == SetupSpec => []EndpointsFit
<1>1. SetupInv => EndpointsFit
  BY DEF SetupInv
<1> QED
    BY <1>1, InitSetup, NextSetup, PTL DEF SetupSpec

(* NoneMissed: the search by numbers gives up only when every device that  *)
(* it could open lacks the interface.                                      *)
THEOREM NoDeviceMissed == SetupSpec => []NoneMissed
<1>1. SetupInv => NoneMissed
  BY DEF SetupInv
<1> QED
    BY <1>1, InitSetup, NextSetup, PTL DEF SetupSpec

(* SetupTypeOK holds in every reachable state.                             *)
THEOREM SetupTypeCorrect == SetupSpec => []SetupTypeOK
<1>1. SetupInv => SetupTypeOK
  BY DEF SetupInv
<1> QED
    BY <1>1, InitSetup, NextSetup, PTL DEF SetupSpec
=============================================================================
