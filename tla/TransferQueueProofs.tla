------------------------- MODULE TransferQueueProofs -------------------------
(***************************************************************************)
(* Proofs about the asynchronous transfers of the examples.  The ring of   *)
(* TransferQueue, for any number of buffers and retries: the types, its    *)
(* order, that nothing is left in flight, and that it is a queue.  The one *)
(* transfer of BulkTransfer, for any dll and any devices: the types, that  *)
(* a success which is printed is one, and that all is given back.          *)
(***************************************************************************)
EXTENDS TransferQueue, BulkTransfer, SequenceTheorems, WellFoundedInduction,
        TLAPS

(* The types at the beginning.                                             *)
LEMMA TypeInit == Init => TypeOK
<1> SUFFICES ASSUME Init PROVE TypeOK
    OBVIOUS
<1>1. /\ isCancelled \in BOOLEAN /\ isUserAborted \in BOOLEAN
      /\ isRunning \in BOOLEAN /\ dead \in BOOLEAN
  BY DEF Init
<1>2. /\ context \in [Slots -> BOOLEAN] /\ inUse \in [Slots -> BOOLEAN]
      /\ transfer \in [Slots -> Good \cup {"none", "pending", "error"}]
  BY DEF Init
<1>3. nextIndex \in Slots /\ waitIndex \in Slots /\ index \in Slots
  BY QueueAssumption DEF Init, Slots
<1>4. outstanding \in 0 .. BufferCount /\ stuck \subseteq Slots
  BY QueueAssumption DEF Init
<1> QED
    BY <1>1, <1>2, <1>3, <1>4 DEF Init, TypeOK, Good, Results

(* No step breaks the types.                                               *)
LEMMA TypeNext == TypeOK /\ [Next]_vars => TypeOK'
<1> SUFFICES ASSUME TypeOK, [Next]_vars PROVE TypeOK'
    OBVIOUS
<1> USE QueueAssumption DEF TypeOK, Slots, Good, Results, ring, counts, flags,
        vars, Returns, IncRoll, Aborted, Outcomes
<1>1. CASE Start
      BY <1>1 DEF Start
<1>2. CASE Loop
      BY <1>2 DEF Loop
<1>3. CASE TransferSync
      BY <1>3 DEF TransferSync
<1>4. CASE Fill
  <2>1. CASE SetupFails \/ SubmitFails
        BY <1>4, <2>1 DEF Fill, SetupFails, SubmitFails
  <2>2. CASE Submits
        BY <1>4, <2>2 DEF Fill, Submits
  <2> QED
      BY <1>4, <2>1, <2>2 DEF Fill
<1>5. CASE Reap
  <2>1. CASE ReapFails
        BY <1>5, <2>1 DEF Reap, ReapFails
  <2>2. CASE Reaps
        BY <1>5, <2>2 DEF Reap, Reaps
  <2> QED
      BY <1>5, <2>1, <2>2 DEF Reap
<1>6. CASE HandleResult
      BY <1>6 DEF HandleResult, UserAborted, TimedOut, FailedWithError,
                  ZeroLength, Short, Complete
<1>7. CASE Cleanup
  <2>1. isRunning' \in BOOLEAN
        BY <1>7 DEF Cleanup
  <2>2. /\ context' \in [Slots -> BOOLEAN]
        /\ inUse' \in [Slots -> BOOLEAN]
        /\ transfer' \in [Slots -> Good \cup {"none", "pending", "error"}]
        /\ stuck' \subseteq Slots
        BY <1>7 DEF Cleanup, Release, Cancels, CancelFails
  <2>3. index' \in Slots /\ pc' \in {"cleanup", "ended"}
        BY <1>7 DEF Cleanup
  <2>4. UNCHANGED <<mode, nextIndex, waitIndex, outstanding, runningTimeouts,
                    runningErrors, isCancelled, isUserAborted, ret, dead>>
        BY <1>7 DEF Cleanup
  <2> QED
      BY <2>1, <2>2, <2>3, <2>4
<1>8. CASE Completion
      BY <1>8 DEF Completion
<1>9. CASE Dies \/ Abort \/ Cancel
  <2>1. dead' \in BOOLEAN /\ isCancelled' \in BOOLEAN
        /\ isUserAborted' \in BOOLEAN
        BY <1>9 DEF Dies, Abort, Cancel
  <2>2. UNCHANGED <<mode, ring, counts, isRunning, pc, ret, index, stuck>>
        BY <1>9 DEF Dies, Abort, Cancel
  <2> QED
      BY <2>1, <2>2
<1>10. CASE ResetEndpoint \/ ResetStatus
  <2>1. stuck' \subseteq Slots
        BY <1>10 DEF ResetEndpoint, ResetStatus
  <2> QED
      BY <1>10, <2>1 DEF ResetEndpoint, ResetStatus
<1>11. CASE UNCHANGED vars
      BY <1>11
<1> QED
    BY <1>1, <1>2, <1>3, <1>4, <1>5, <1>6, <1>7, <1>8, <1>9, <1>10,
       <1>11
       DEF Next, Thread

(* TypeOK holds in every reachable state.                                  *)
THEOREM TypeCorrect == Spec => []TypeOK
BY TypeInit, TypeNext, PTL DEF Spec

-----------------------------------------------------------------------------
(* The handles from the wait index on are all handles, each once.          *)
LEMMA SlotBijective ==
  ASSUME TypeOK
  PROVE  /\ \A i \in Slots : Slot(i) \in Slots
         /\ \A i, j \in Slots : Slot(i) = Slot(j) => i = j
         /\ \A s \in Slots : \E i \in Slots : Slot(i) = s
<1> USE QueueAssumption DEF TypeOK, Slots, Slot
<1>1. \A i \in Slots : Slot(i) \in Slots
  OBVIOUS
<1>2. \A i, j \in Slots : Slot(i) = Slot(j) => i = j
  OBVIOUS
<1>3. ASSUME NEW s \in Slots PROVE \E i \in Slots : Slot(i) = s
  <2>1. CASE s >= waitIndex
    <3>1. s - waitIndex \in Slots /\ Slot(s - waitIndex) = s
      BY <2>1
    <3> QED
        BY <3>1
  <2>2. CASE s < waitIndex
    <3>1. /\ s + BufferCount - waitIndex \in Slots
          /\ Slot(s + BufferCount - waitIndex) = s
      BY <2>2
    <3> QED
        BY <3>1
  <2> QED
      BY <2>1, <2>2
<1> QED
    BY <1>1, <1>2, <1>3

(* The order of the ring, with what it takes to leave nothing behind.      *)
Behind ==
  /\ \A s \in Slots : inUse[s] => context[s]
  /\ ~Ending => index = 0
  /\ pc = "cleanup" => \A s \in Slots : s < index => ~context[s]
  /\ pc = "ended" => \A s \in Slots : ~context[s]

(* The inductive invariant of the ring.                                    *)
IInv == TypeOK /\ RingOrder /\ Behind

(* The ring is ordered at the beginning.                                   *)
LEMMA RingInit == Init => RingOrder
<1> SUFFICES ASSUME Init PROVE RingOrder
    OBVIOUS
<1>1. TypeOK
  BY TypeInit
<1>2. \A s \in Slots : ~inUse[s] /\ transfer[s] = "none"
  BY DEF Init
<1>3. \A i \in Slots : ~inUse[Slot(i)] /\ ~(i < 0)
  BY <1>1, <1>2, SlotBijective, QueueAssumption DEF Slots
<1>4. /\ nextIndex = 0 /\ waitIndex = 0 /\ outstanding = 0
      /\ 0 + 0 < BufferCount /\ BufferCount # 0
  BY QueueAssumption DEF Init
<1>5. nextIndex = IF outstanding = BufferCount THEN waitIndex
                  ELSE Slot(outstanding)
  BY <1>4, QueueAssumption DEF Slot
<1> QED
    BY <1>2, <1>3, <1>4, <1>5 DEF RingOrder

(* The inductive invariant holds at the beginning.                         *)
LEMMA InitIInv == Init => IInv
<1> SUFFICES ASSUME Init PROVE IInv
    OBVIOUS
<1>1. Behind
  BY DEF Init, Behind, Ending
<1> QED
    BY <1>1, TypeInit, RingInit DEF IInv

(* A transfer that is submitted is the last of the ring.                   *)
LEMMA SubmitKeepsOrder ==
  ASSUME IInv, Fill, Submits
  PROVE  RingOrder'
<1> USE QueueAssumption DEF IInv, TypeOK
<1>1. outstanding \in Slots /\ nextIndex = Slot(outstanding) /\ ~Ending
  BY DEF Fill, RingOrder, Ending, Slots
<1>2. /\ inUse' = [inUse EXCEPT ![nextIndex] = TRUE]
      /\ transfer' = [transfer EXCEPT ![nextIndex] = "pending"]
      /\ outstanding' = outstanding + 1
      /\ nextIndex' = IncRoll(nextIndex)
      /\ waitIndex' = waitIndex
      /\ pc' = pc
  BY DEF Submits
<1>3. \A i \in Slots : Slot(i)' = Slot(i)
  BY <1>2 DEF Slot
<1>4. nextIndex' = IF outstanding' = BufferCount THEN waitIndex'
                   ELSE Slot(outstanding)'
  BY <1>1, <1>2 DEF Slot, IncRoll, Slots
<1>5. ASSUME NEW i \in Slots
      PROVE  inUse'[Slot(i)'] <=> i < outstanding'
  <2>1. Slot(i) \in Slots /\ (Slot(i) = nextIndex => i = outstanding)
    BY <1>1, SlotBijective
  <2>2. inUse[Slot(i)] <=> i < outstanding
    BY <1>1 DEF RingOrder
  <2>3. CASE i = outstanding
    BY <1>1, <1>2, <1>3, <2>1, <2>3 DEF Slots
  <2>4. CASE i # outstanding
    <3>1. inUse'[Slot(i)] = inUse[Slot(i)]
      BY <1>2, <2>1, <2>4
    <3>2. i < outstanding' <=> i < outstanding
      BY <1>1, <1>2, <2>4 DEF Slots
    <3> QED
        BY <1>3, <2>2, <3>1, <3>2
  <2> QED
      BY <2>3, <2>4
<1>6. ASSUME NEW s \in Slots \ stuck'
      PROVE  inUse'[s] <=> transfer'[s] # "none"
  <2>1. stuck' = stuck
    BY DEF Fill
  <2> QED
      BY <1>2, <2>1 DEF RingOrder, Slots
<1> QED
    BY <1>4, <1>5, <1>6 DEF RingOrder

(* The transfer that is reaped was the first of the ring.                  *)
LEMMA ReapKeepsOrder ==
  ASSUME IInv, Reap, Reaps
  PROVE  RingOrder'
<1> USE QueueAssumption DEF IInv, TypeOK
<1>1. outstanding = BufferCount /\ nextIndex = waitIndex /\ ~Ending
  BY DEF Reap, RingOrder, Ending, Slots
<1>2. /\ inUse' = [inUse EXCEPT ![waitIndex] = FALSE]
      /\ transfer' = [transfer EXCEPT ![waitIndex] = "none"]
      /\ outstanding' = outstanding - 1
      /\ waitIndex' = IncRoll(waitIndex)
      /\ nextIndex' = nextIndex
  BY DEF Reaps
<1>3. \A s \in Slots : inUse[s]
  <2>1. \A i \in Slots : inUse[Slot(i)]
    BY <1>1 DEF RingOrder, Slots
  <2> QED
      BY <2>1, SlotBijective
<1>4. Slot(outstanding)' = nextIndex' /\ outstanding' < BufferCount
  BY <1>1, <1>2 DEF Slot, IncRoll, Slots
<1>5. ASSUME NEW i \in Slots
      PROVE  inUse'[Slot(i)'] <=> i < outstanding'
  <2>1. Slot(i)' \in Slots
        /\ (Slot(i)' = waitIndex <=> i = BufferCount - 1)
    BY <1>2 DEF Slot, IncRoll, Slots
  <2>2. i < outstanding' <=> i # BufferCount - 1
    BY <1>1, <1>2 DEF Slots
  <2> QED
      BY <1>2, <1>3, <2>1, <2>2
<1>6. ASSUME NEW s \in Slots \ stuck'
      PROVE  inUse'[s] <=> transfer'[s] # "none"
  <2>1. stuck' = stuck
    BY DEF Reap
  <2> QED
      BY <1>2, <2>1 DEF RingOrder, Slots, Good
<1>7. outstanding' # BufferCount
  BY <1>1, <1>2
<1> QED
    BY <1>4, <1>5, <1>6, <1>7 DEF RingOrder

(* A step that leaves the indices alone keeps the ring if it keeps which   *)
(* handles are in use and with the library.                                *)
LEMMA OthersKeepOrder ==
  ASSUME IInv,
         UNCHANGED <<nextIndex, waitIndex, outstanding, inUse, stuck>>,
         Ending => Ending',
         \A s \in Slots : transfer'[s] # "none" <=> transfer[s] # "none"
  PROVE  RingOrder'
<1>1. \A i \in Slots : Slot(i)' = Slot(i)
  BY DEF Slot
<1>2. Slot(outstanding)' = Slot(outstanding)
  BY DEF Slot
<1>3. ~Ending' => ~Ending
  OBVIOUS
<1> QED
    BY <1>1, <1>2, <1>3 DEF IInv, RingOrder

(* The end of the thread takes every handle down.                          *)
LEMMA CleanupKeepsIInv ==
  ASSUME IInv, Cleanup
  PROVE  RingOrder' /\ Behind'
<1> USE QueueAssumption DEF IInv, TypeOK
<1>1. pc = "cleanup" /\ pc' \in {"cleanup", "ended"} /\ Ending'
      /\ index \in Slots
  BY DEF Cleanup, Ending
<1>2. \A s \in Slots : s < index => ~context[s]
  BY <1>1 DEF Behind
<1>3. \A s \in Slots : /\ inUse'[s] => context'[s]
                       /\ s < index + 1 => ~context'[s]
  <2>1. CASE context[index]
    <3>1. Release(index)
      BY <2>1 DEF Cleanup
    <3> QED
        BY <1>1, <1>2, <3>1 DEF Release, Behind, Slots
  <2>2. CASE ~context[index]
    <3>1. UNCHANGED <<context, inUse>>
      BY <2>2 DEF Cleanup
    <3> QED
        BY <1>1, <1>2, <2>2, <3>1 DEF Behind, Slots
  <2> QED
      BY <2>1, <2>2
<1>4. ASSUME NEW s \in Slots \ stuck'
      PROVE  inUse'[s] <=> transfer'[s] # "none"
  <2>1. CASE context[index]
    <3>1. Release(index)
      BY <2>1 DEF Cleanup
    <3>2. CASE Cancels(index)
      BY <1>1, <3>1, <3>2 DEF Release, Cancels, RingOrder
    <3>3. CASE CancelFails(index)
      <4>1. s # index /\ s \in Slots \ stuck
        BY <1>1, <3>3 DEF CancelFails
      <4> QED
          BY <1>1, <3>1, <3>3, <4>1 DEF Release, CancelFails, RingOrder
    <3> QED
        BY <3>1, <3>2, <3>3 DEF Release
  <2>2. CASE ~context[index]
    <3>1. UNCHANGED <<inUse, transfer, stuck>>
      BY <2>2 DEF Cleanup
    <3> QED
        BY <3>1 DEF RingOrder
  <2> QED
      BY <2>1, <2>2
<1>5. CASE index + 1 < BufferCount
  <2>1. index' = index + 1 /\ pc' = "cleanup"
    BY <1>1, <1>5 DEF Cleanup, IncRoll, Slots
  <2> QED
      BY <1>1, <1>3, <1>4, <2>1 DEF RingOrder, Behind
<1>6. CASE ~(index + 1 < BufferCount)
  <2>1. pc' = "ended" /\ \A s \in Slots : s < index + 1
    BY <1>1, <1>6 DEF Cleanup, Slots
  <2> QED
      BY <1>1, <1>3, <1>4, <2>1 DEF RingOrder, Behind
<1> QED
    BY <1>5, <1>6

(* No step breaks the inductive invariant.                                 *)
LEMMA NextIInv ==
  ASSUME IInv, [Next]_vars
  PROVE  IInv'
<1> USE QueueAssumption
<1>1. TypeOK'
  BY TypeNext DEF IInv
<1>2. CASE Start \/ Loop \/ TransferSync
  <2>1. /\ UNCHANGED <<ring, index, stuck>>
        /\ ~Ending
        /\ pc' # "ended"
    BY <1>2 DEF Start, Loop, TransferSync, Returns, Ending
  <2> QED
      BY <1>1, <2>1, OthersKeepOrder DEF IInv, Behind, Ending, ring, Slots
<1>3. CASE Fill
  <2>1. ~Ending /\ ~Ending' /\ index' = index
    BY <1>3 DEF Fill, SetupFails, SubmitFails, Submits, Returns, Ending
  <2>2. \A s \in Slots : inUse'[s] => context'[s]
    BY <1>3 DEF Fill, SetupFails, SubmitFails, Submits, IInv, Behind, ring,
                TypeOK
  <2>3. RingOrder'
    <3>1. CASE SetupFails \/ SubmitFails
      BY <1>3, <2>1, <3>1, OthersKeepOrder
         DEF Fill, SetupFails, SubmitFails, ring
    <3>2. CASE Submits
      BY <1>3, <3>2, SubmitKeepsOrder
    <3> QED
        BY <1>3, <3>1, <3>2 DEF Fill
  <2> QED
      BY <1>1, <2>1, <2>2, <2>3 DEF IInv, Behind, Ending
<1>4. CASE Reap
  <2>1. ~Ending /\ ~Ending' /\ index' = index
    BY <1>4 DEF Reap, ReapFails, Reaps, Returns, Ending
  <2>2. \A s \in Slots : inUse'[s] => context'[s]
    BY <1>4 DEF Reap, ReapFails, Reaps, IInv, Behind, ring, TypeOK
  <2>3. RingOrder'
    <3>1. CASE ReapFails
      BY <1>4, <2>1, <3>1, OthersKeepOrder DEF Reap, ReapFails, ring
    <3>2. CASE Reaps
      BY <1>4, <3>2, ReapKeepsOrder
    <3> QED
        BY <1>4, <3>1, <3>2 DEF Reap
  <2> QED
      BY <1>1, <2>1, <2>2, <2>3 DEF IInv, Behind, Ending
<1>5. CASE HandleResult
  <2>1. /\ pc = "result"
        /\ pc' \in {"loop", "cleanup"}
        /\ UNCHANGED <<nextIndex, waitIndex, outstanding, context, inUse,
                       index, stuck>>
    BY <1>5 DEF HandleResult, UserAborted, TimedOut, FailedWithError,
                ZeroLength, Short, Complete
  <2>2. \A s \in Slots : transfer'[s] # "none" <=> transfer[s] # "none"
    BY <1>5 DEF HandleResult, UserAborted, TimedOut, FailedWithError,
                ZeroLength, Short, Complete, Aborted, IInv, TypeOK
  <2>3. RingOrder'
    BY <2>1, <2>2, OthersKeepOrder DEF Ending
  <2>4. index = 0 /\ \A s \in Slots : inUse[s] => context[s]
    BY <2>1 DEF IInv, Behind, Ending
  <2> QED
      BY <1>1, <2>1, <2>3, <2>4 DEF IInv, Behind, Slots
<1>6. CASE Cleanup
  BY <1>1, <1>6, CleanupKeepsIInv DEF IInv
<1>7. CASE Completion \/ ResetEndpoint
  <2>1. UNCHANGED <<nextIndex, waitIndex, outstanding, context, inUse, pc,
                    index, stuck>>
    BY <1>7 DEF Completion, ResetEndpoint
  <2>2. \A s \in Slots : transfer'[s] # "none" <=> transfer[s] # "none"
    BY <1>7 DEF Completion, ResetEndpoint, Aborted, Outcomes, IInv, TypeOK
  <2>3. RingOrder'
    BY <2>1, <2>2, OthersKeepOrder DEF Ending
  <2> QED
      BY <1>1, <2>1, <2>3 DEF IInv, Behind, Ending
<1>8. CASE Dies \/ Abort \/ Cancel \/ UNCHANGED vars
  <2>1. UNCHANGED <<ring, pc, index, stuck>>
    BY <1>8 DEF Dies, Abort, Cancel, vars
  <2> QED
      BY <1>1, <2>1, OthersKeepOrder DEF IInv, Behind, Ending, ring
<1>9. CASE ResetStatus
  <2>1. /\ UNCHANGED <<ring, index, stuck>>
        /\ pc' = pc \/ (pc = "result" /\ pc' = "loop")
    BY <1>9 DEF ResetStatus
  <2> QED
      BY <1>1, <2>1, OthersKeepOrder DEF IInv, Behind, Ending, ring
<1> QED
    BY <1>2, <1>3, <1>4, <1>5, <1>6, <1>7, <1>8, <1>9 DEF Next, Thread

(* The inductive invariant, whatever fails.                                *)
THEOREM Invariance == Spec => []IInv
BY InitIInv, NextIInv, PTL DEF Spec

(* RingOrder: whatever fails, the handles in use are the outstanding ones  *)
(* in the order of their submission, and the library holds exactly these   *)
(* and those whose cancellation failed.                                    *)
THEOREM RingIsOrdered == Spec => []RingOrder
<1>1. IInv => RingOrder
  BY DEF IInv
<1> QED
    BY <1>1, Invariance, PTL

(* NothingInFlight: a thread that has ended holds no context, and no       *)
(* transfer but what the library refused to cancel.                        *)
THEOREM NothingIsLeft == Spec => []NothingInFlight
<1>1. IInv => NothingInFlight
  BY DEF IInv, NothingInFlight, RingOrder, Behind, TypeOK
<1> QED
    BY <1>1, Invariance, PTL

-----------------------------------------------------------------------------
(* The refinement: the queue is the outstanding handles in ring order.     *)
queue == [i \in 1 .. outstanding |-> Slot(i - 1)]

(* The queue that the ring stands for is a sequence of handles.            *)
LEMMA QueueSeq ==
  ASSUME TypeOK
  PROVE  queue \in Seq(Slots) /\ Len(queue) = outstanding
<1> USE QueueAssumption DEF TypeOK
<1>1. \A i \in 1 .. outstanding : i - 1 \in Slots
  BY DEF Slots
<1>2. \A i \in 1 .. outstanding : Slot(i - 1) \in Slots
  BY <1>1, SlotBijective
<1> QED
    BY <1>2 DEF queue

(* A submission appends to the queue.                                      *)
LEMMA SubmitAppends ==
  ASSUME IInv, Fill, Submits
  PROVE  Fifo!Submit
<1> USE QueueAssumption DEF IInv, TypeOK
<1>1. /\ outstanding \in Slots /\ nextIndex = Slot(outstanding)
      /\ ~Ending /\ ~Ending'
  BY DEF Fill, Submits, RingOrder, Ending, Slots
<1>2. outstanding' = outstanding + 1 /\ waitIndex' = waitIndex
  BY DEF Submits
<1>3. \A i \in 1 .. Len(queue) : queue[i] # nextIndex
  <2>1. \A i \in 1 .. outstanding : Slot(i - 1) # Slot(outstanding)
    BY <1>1, SlotBijective DEF Slots
  <2> QED
      BY <1>1, <2>1, QueueSeq DEF queue
<1>4. queue' = Append(queue, nextIndex)
  <2>1. queue' = [i \in 1 .. outstanding + 1 |-> Slot(i - 1)]
    BY <1>2 DEF queue, Slot
  <2>2. \A i \in 1 .. outstanding + 1 :
          Append(queue, nextIndex)[i] = Slot(i - 1)
    BY <1>1, QueueSeq DEF queue
  <2>3. /\ Append(queue, nextIndex) \in Seq(Slots)
        /\ Len(Append(queue, nextIndex)) = outstanding + 1
    BY QueueSeq
  <2>4. DOMAIN Append(queue, nextIndex) = 1 .. outstanding + 1
        /\ Append(queue, nextIndex)
             = [i \in DOMAIN Append(queue, nextIndex) |->
                  Append(queue, nextIndex)[i]]
    BY <2>3, LenProperties
  <2> QED
      BY <2>1, <2>2, <2>4
<1>5. Ending = FALSE /\ Ending' = FALSE
  BY <1>1 DEF Ending
<1> QED
    BY <1>1, <1>3, <1>4, <1>5 DEF Fifo!Submit, queue

(* Reaping takes the head of the queue.                                    *)
LEMMA ReapTakesOldest ==
  ASSUME IInv, Reap, Reaps
  PROVE  Fifo!Reap
<1> USE QueueAssumption DEF IInv, TypeOK
<1>1. outstanding = BufferCount /\ ~Ending /\ ~Ending'
  BY DEF Reap, Reaps, Returns, Ending
<1>2. outstanding' = outstanding - 1 /\ waitIndex' = IncRoll(waitIndex)
  BY DEF Reaps
<1>3. queue # <<>>
  BY <1>1, QueueSeq
<1>4. queue' = Tail(queue)
  <2>1. \A i \in 1 .. outstanding - 1 : Slot(i - 1)' = Slot(i)
    BY <1>1, <1>2 DEF Slot, IncRoll, Slots
  <2>2. queue' = [i \in 1 .. outstanding - 1 |-> Slot(i)]
    BY <1>2, <2>1 DEF queue
  <2>3. \A i \in 1 .. outstanding - 1 : Tail(queue)[i] = Slot(i)
    BY <1>1, QueueSeq DEF queue
  <2>4. Tail(queue) \in Seq(Slots) /\ Len(Tail(queue)) = outstanding - 1
    BY <1>3, QueueSeq
  <2>5. DOMAIN Tail(queue) = 1 .. outstanding - 1
        /\ Tail(queue) = [i \in DOMAIN Tail(queue) |-> Tail(queue)[i]]
    BY <2>4, LenProperties
  <2> QED
      BY <2>2, <2>3, <2>5
<1>5. Ending = FALSE /\ Ending' = FALSE
  BY <1>1 DEF Ending
<1> QED
    BY <1>1, <1>3, <1>4, <1>5 DEF Fifo!Reap, queue

(* Every step is one of the queue, or none.                                *)
LEMMA StepRefines ==
  ASSUME IInv, [Next]_vars
  PROVE  [Fifo!Next]_(Fifo!vars)
<1> USE DEF Fifo!Next, Fifo!vars
<1>1. ASSUME UNCHANGED <<waitIndex, outstanding>>, Ending' = Ending
      PROVE  UNCHANGED Fifo!vars
  <2>1. queue' = queue
    BY <1>1 DEF queue, Slot
  <2> QED
      BY <1>1, <2>1 DEF queue
<1>2. ASSUME ~Ending, Ending' PROVE Fifo!End
  BY <1>2 DEF Fifo!End
<1>3. CASE Start \/ TransferSync
  BY <1>1, <1>3 DEF Start, TransferSync, Returns, Ending, ring
<1>4. CASE Loop
  <2>1. ~Ending /\ UNCHANGED <<waitIndex, outstanding>>
    BY <1>4 DEF Loop, Ending, ring
  <2>2. Ending = FALSE /\ (Ending' = FALSE \/ Ending')
    BY <2>1 DEF Ending
  <2>3. CASE Ending' = FALSE
    BY <1>1, <2>1, <2>2, <2>3
  <2> QED
      BY <1>2, <2>1, <2>2, <2>3
<1>5. CASE Fill
  <2>1. CASE SetupFails \/ SubmitFails
    BY <1>1, <1>5, <2>1
       DEF Fill, SetupFails, SubmitFails, Returns, Ending, ring
  <2>2. CASE Submits
    BY <1>5, <2>2, SubmitAppends
  <2> QED
      BY <1>5, <2>1, <2>2 DEF Fill
<1>6. CASE Reap
  <2>1. CASE ReapFails
    BY <1>1, <1>6, <2>1 DEF Reap, ReapFails, Returns, Ending, ring
  <2>2. CASE Reaps
    BY <1>6, <2>2, ReapTakesOldest
  <2> QED
      BY <1>6, <2>1, <2>2 DEF Reap
<1>7. CASE HandleResult
  <2>1. pc = "result" /\ UNCHANGED <<waitIndex, outstanding>>
    BY <1>7 DEF HandleResult
  <2>2. Ending = FALSE /\ (Ending' = FALSE \/ Ending')
    BY <2>1 DEF Ending
  <2>3. CASE Ending' = FALSE
    BY <1>1, <2>1, <2>2, <2>3
  <2> QED
      BY <1>2, <2>2, <2>3
<1>8. CASE Cleanup
  BY <1>1, <1>8 DEF Cleanup, Ending
<1>9. CASE Completion \/ Dies \/ Abort \/ Cancel \/ ResetEndpoint
  BY <1>1, <1>9 DEF Completion, Dies, Abort, Cancel, ResetEndpoint, Ending,
                    ring
<1>10. CASE ResetStatus
  BY <1>1, <1>10 DEF ResetStatus, Ending, ring
<1>11. CASE UNCHANGED vars
  BY <1>1, <1>11 DEF vars, ring, Ending
<1> QED
    BY <1>3, <1>4, <1>5, <1>6, <1>7, <1>8, <1>9, <1>10, <1>11
       DEF Next, Thread

(* The queue is empty at the beginning.                                    *)
LEMMA InitRefines == Init => Fifo!Init
<1> SUFFICES ASSUME Init PROVE Fifo!Init
    OBVIOUS
<1>1. queue = <<>>
  BY TypeInit, QueueSeq DEF Init
<1>2. ~Ending
  BY DEF Init, Ending
<1> QED
    BY <1>1, <1>2 DEF Fifo!Init, queue

(* ImplementsFifo: the ring is a queue; the oldest transfer is waited for. *)
THEOREM RingIsQueue == Spec => ImplementsFifo
BY InitRefines, StepRefines, Invariance, PTL
   DEF Spec, ImplementsFifo, Fifo!Spec

-----------------------------------------------------------------------------
(* What main of bulk.c holds, by its place: the device from its opening    *)
(* on, the claim at most that long, the context while it transfers, and in *)
(* the end nothing but what a missing function would have to take back.    *)
BulkInv ==
  /\ step \in {"init", "busses", "devices", "open"} => open = {}
  /\ step \in {"init", "busses", "devices", "open", "config", "claim"} =>
       ~claimed
  /\ step \notin {"init", "busses", "devices", "open", "done"} => open = {dev}
  /\ step = "done" => (open = {} /\ ~claimed) \/ ~Reaches("usb_close")
  /\ step \in {"init", "busses", "devices", "open", "config", "claim",
               "control", "setup"} => ~async
  /\ step \in {"init", "busses", "devices", "open", "config", "claim",
               "control", "setup", "submit"} => flight = "none"
  /\ step \in {"report", "release", "close", "done"} =>
       ~async \/ ~Reaches("usb_free_async")

(* What the result of the read says, and what is printed of it.            *)
ReadInv ==
  /\ step \in {"free", "report"} =>
       result < 0 \/ (result = arrived /\ flight = "none")
  /\ said = "success" => result = arrived /\ flight = "none"
  /\ said # "" => step \in {"release", "close", "done"}

(* The first of some devices is one of them.                               *)
LEMMA FirstIsOne ==
  ASSUME NEW S \in SUBSET Nat, S # {}
  PROVE  First(S) \in S
<1>1. PICK i \in S : \A j \in S : <<j, i>> \notin OpToRel(<, Nat)
  BY NatLessThanWellFounded, WFMin
<1>2. \A j, k \in Nat : j < k => <<j, k>> \in OpToRel(<, Nat)
  BY SMT DEF OpToRel
<1>3. \A j \in S : ~(j < i)
  BY <1>1, <1>2, Zenon
<1>4. \E k \in S : \A j \in S : k <= j
  BY <1>3
<1> QED
    BY <1>4, Zenon DEF First

(* The invariants of bulk.c hold at the beginning.                         *)
LEMMA InitBulk == BulkInit => BulkTypeOK /\ BulkInv /\ ReadInv
<1> SUFFICES ASSUME BulkInit PROVE BulkTypeOK /\ BulkInv /\ ReadInv
    OBVIOUS
<1>1. 0 \in 0 .. BUF_SIZE /\ 0 \in 0 .. 2 /\ 0 \in Int
  BY BulkAssumption
<1>2. Values
  BY <1>1, Zenon DEF BulkInit, LibraryInit, NullPointers, Values
<1>3. Flags
  BY Zenon DEF BulkInit, Flags
<1>4. BulkInv
  BY DEF BulkInit, BulkInv
<1>5. ReadInv
  BY DEF BulkInit, ReadInv
<1> QED
    BY <1>2, <1>3, <1>4, <1>5 DEF BulkTypeOK

(* The flags stay flags.                                                   *)
LEMMA NextFlags ==
  ASSUME Flags, BulkNext
  PROVE  Flags'
<1>1. ASSUME UNCHANGED <<pulled, configured, claimed, async>>
      PROVE  Flags'
  BY <1>1, Zenon DEF Flags
<1>2. CASE SetConfiguration
  <2>1. PICK r : configured' = (r = 0)
    BY <1>2, Zenon DEF SetConfiguration
  <2>2. /\ pulled' = pulled /\ async' = async
        /\ claimed' \in {claimed, FALSE}
    BY <1>2, Zenon DEF SetConfiguration, world, reading, usb_close
  <2>3. configured' \in BOOLEAN
    BY <2>1, Zenon
  <2> QED
      BY <2>2, <2>3, Zenon DEF Flags
<1>3. CASE ClaimInterface
  <2>1. /\ UNCHANGED <<pulled, configured, async>>
        /\ claimed' \in {claimed, TRUE, FALSE}
    BY <1>3, Zenon DEF ClaimInterface, world, reading, usb_close
  <2> QED
      BY <2>1, Zenon DEF Flags
<1>4. CASE ReleaseInterface
  <2>1. /\ UNCHANGED <<pulled, configured, async>>
        /\ claimed' \in BOOLEAN
    BY <1>4, Zenon DEF ReleaseInterface, world, reading
  <2> QED
      BY <2>1, Zenon DEF Flags
<1>5. CASE Close
  <2>1. /\ UNCHANGED <<pulled, configured, async>>
        /\ claimed' \in {claimed, FALSE}
    BY <1>5, Zenon DEF Close, world, reading, usb_close
  <2> QED
      BY <2>1, Zenon DEF Flags
<1>6. CASE Pull
  BY <1>6, Zenon DEF Pull, rest, Flags
<1>7. CASE Setup \/ Submit \/ Free
  <2>1. UNCHANGED <<pulled, configured, claimed>>
    BY <1>7, Zenon DEF Setup, Submit, Free, world, rest
  <2>2. async' \in BOOLEAN
    <3>1. CASE Setup
      <4>1. PICK r : async' = (r >= 0)
        BY <3>1, Zenon DEF Setup
      <4>2. (r >= 0) \in BOOLEAN
        OBVIOUS
      <4> QED
          BY <4>1, <4>2, Zenon
    <3>2. CASE Submit
      BY <3>2, Zenon DEF Submit, usb_free_async, Flags
    <3>3. CASE Free
      BY <3>3, Zenon DEF Free, usb_free_async
    <3> QED
        BY <1>7, <3>1, <3>2, <3>3
  <2> QED
      BY <2>1, <2>2, Zenon DEF Flags
<1> QED
    BY <1>1, <1>2, <1>3, <1>4, <1>5, <1>6, <1>7, Zenon
       DEF BulkNext, Main, Load, FindBusses, FindDevices, OpenDev, ControlMsg,
           ReapAsync, Report, Deliver, world, rest, reading

(* Whatever is called, a number comes back.                                *)
LEMMA ResultsAreNumbers ==
  ASSUME NEW f, NEW results \in SUBSET Int
  PROVE  Number(f, results) \subseteq Int /\ Request(f, results) \subseteq Int
<1>1. Failures \subseteq Int /\ ENOFILE \in Int
  BY DEF Failures, ENOFILE
<1>2. \A S \in SUBSET Int : Number(f, S) \subseteq Int
  BY <1>1, Zenon DEF Number
<1> QED
    BY <1>1, <1>2 DEF Request

(* No step leaves the values.                                              *)
LEMMA NextValues ==
  ASSUME Values, BulkNext
  PROVE  Values'
<1> USE DEF lib, world, rest, reading
<1>1. \A f : /\ Request(f, {0}) \subseteq Int /\ Request(f, {1}) \subseteq Int
            /\ Number(f, {0} \cup Failures) \subseteq Int
            /\ Number(f, Failures) \subseteq Int
            /\ Number(f, {arrived}) \subseteq Int
  <2>1. arrived \in 0 .. BUF_SIZE
    BY Zenon DEF Values
  <2>2. arrived \in Int /\ Failures \subseteq Int
    BY <2>1 DEF Failures
  <2> QED
      BY <2>2, ResultsAreNumbers
<1>2. CASE Load
  BY <1>2, Zenon DEF Load, usb_init, Values
<1>3. CASE FindBusses \/ FindDevices
  <2>1. busses \in 0 .. 2 /\ 1 \in 0 .. 2 /\ 2 \in 0 .. 2
    <3>1. busses \in 0 .. 2
      BY Zenon DEF Values
    <3> QED
        BY <3>1
  <2>2. busses' \in {busses, 1, 2}
    BY <1>3, Zenon DEF FindBusses, FindDevices
  <2> QED
      BY <1>3, <2>1, <2>2, Zenon DEF FindBusses, FindDevices, Values
<1>4. CASE OpenDev
  <2>1. Candidates \subseteq DOMAIN plugged
    BY DEF Candidates, Listed
  <2>2. DOMAIN plugged \subseteq Nat
    <3> DEFINE Devices == [vid : Int, pid : Int]
    <3> HIDE DEF Devices
    <3>1. plugged \in Seq(Devices)
      BY BulkAssumption DEF Devices, Values
    <3> QED
        BY <3>1
  <2>3. Candidates # {} => First(Candidates) \in DOMAIN plugged
    BY <2>1, <2>2, FirstIsOne
  <2>4. PICK d \in {0} \cup DOMAIN plugged :
          /\ dev' = d /\ open' = open \cup ({d} \ {0})
          /\ step' = IF d = 0 THEN "done" ELSE "config"
    BY <1>4, <2>3, Zenon DEF OpenDev, Pointer
  <2>5. /\ dev' \in {0} \cup DOMAIN plugged /\ open' \subseteq DOMAIN plugged
        /\ step' \in {"config", "done"}
    BY <2>4, Zenon DEF Values
  <2>6. UNCHANGED <<lib, plugged, busses, reading>>
    BY <1>4, Zenon DEF OpenDev
  <2> QED
      BY <2>5, <2>6, Zenon DEF Values
<1>5. CASE SetConfiguration \/ ClaimInterface \/ ReleaseInterface \/ Close
  <2>1. /\ open' \in {open, open \ {dev}}
        /\ step' \in {"claim", "control", "close", "done"}
    BY <1>5, Zenon DEF SetConfiguration, ClaimInterface, ReleaseInterface,
       Close, usb_close
  <2>2. open' \subseteq DOMAIN plugged
    BY <2>1, Zenon DEF Values
  <2>3. UNCHANGED <<lib, plugged, busses, dev, reading>>
    BY <1>5, Zenon DEF SetConfiguration, ClaimInterface, ReleaseInterface,
       Close
  <2> QED
      BY <2>1, <2>2, <2>3, Zenon DEF Values
<1>6. CASE ControlMsg \/ Setup \/ Submit \/ ReapAsync \/ Free
  <2>1. result' \in Int
    <3>1. CASE ControlMsg
      BY <1>1, <3>1, Zenon DEF ControlMsg
    <3>2. CASE Setup
      BY <1>1, <3>2, Zenon DEF Setup
    <3>3. CASE Submit
      BY <1>1, <3>3, Zenon DEF Submit
    <3>4. CASE ReapAsync
      BY <1>1, <3>4, Zenon DEF ReapAsync
    <3>5. CASE Free
      BY <3>5, Zenon DEF Free, Values
    <3> QED
        BY <1>6, <3>1, <3>2, <3>3, <3>4, <3>5
  <2>2. /\ flight' \in {flight, "none", "flying"}
        /\ step' \in {"setup", "submit", "reap", "free", "report"}
        /\ UNCHANGED <<lib, world, rest, arrived, said>>
    BY <1>6, Zenon
       DEF ControlMsg, Setup, Submit, ReapAsync, Free, usb_free_async
  <2> QED
      BY <2>1, <2>2, Zenon DEF Values
<1>7. CASE Report
  BY <1>7, Zenon DEF Report, Values
<1>8. CASE Deliver \/ Pull
  BY <1>8, Zenon DEF Deliver, Pull, Values
<1> QED
    BY <1>2, <1>3, <1>4, <1>5, <1>6, <1>7, <1>8 DEF BulkNext, Main

(* No step breaks what main holds.                                         *)
LEMMA NextHolds ==
  ASSUME BulkTypeOK, BulkInv, BulkNext
  PROVE  BulkInv'
<1> USE DEF BulkInv, lib, world, rest, reading, Reaches
<1>1. CASE Load \/ FindBusses \/ FindDevices
  <2>1. /\ step \in {"init", "busses", "devices"}
        /\ step' \in {"busses", "devices", "open"}
        /\ UNCHANGED <<open, claimed, reading>>
    BY <1>1, Zenon DEF Load, FindBusses, FindDevices
  <2> QED
      BY <2>1
<1>2. CASE OpenDev
  <2>1. PICK d : /\ dev' = d /\ open' = open \cup ({d} \ {0})
                 /\ step' = IF d = 0 THEN "done" ELSE "config"
    BY <1>2, Zenon DEF OpenDev
  <2> QED
      BY <1>2, <2>1 DEF OpenDev
<1>3. CASE SetConfiguration
  BY <1>3 DEF SetConfiguration, usb_close
<1>4. CASE ClaimInterface
  BY <1>4 DEF ClaimInterface, usb_close
<1>5. CASE ControlMsg
  BY <1>5 DEF ControlMsg
<1>6. CASE Setup
  <2>1. PICK r : /\ async' = (r >= 0) /\ result' = r
                 /\ step' = IF r < 0 THEN "report" ELSE "submit"
    BY <1>6, Zenon DEF Setup
  <2>2. /\ step = "setup" /\ UNCHANGED <<lib, world, rest, flight>>
    BY <1>6, Zenon DEF Setup
  <2>3. r \in Int
    <3>1. Values'
      <4>1. Values
        BY Zenon DEF BulkTypeOK
      <4> QED
          BY <4>1, NextValues, Zenon
    <3> QED
        BY <2>1, <3>1, Zenon DEF Values
  <2>4. CASE r < 0
    <3>1. (r >= 0) = FALSE
      BY <2>3, <2>4
    <3>2. async' = FALSE /\ step' = "report"
      BY <2>1, <2>4, <3>1, Zenon
    <3> QED
        BY <2>2, <3>2
  <2>5. CASE ~(r < 0)
    <3>1. step' = "submit"
      BY <2>1, <2>5
    <3> QED
        BY <2>2, <3>1
  <2> QED
      BY <2>4, <2>5
<1>7. CASE Submit
  BY <1>7 DEF Submit, usb_free_async, Request, Number, ENOFILE
<1>8. CASE ReapAsync
  BY <1>8 DEF ReapAsync
<1>9. CASE Free
  BY <1>9 DEF Free, usb_free_async
<1>10. CASE Report
  BY <1>10 DEF Report
<1>11. CASE ReleaseInterface
  BY <1>11 DEF ReleaseInterface
<1>12. CASE Close
  BY <1>12 DEF Close, usb_close
<1>13. CASE Deliver
  BY <1>13 DEF Deliver
<1>14. CASE Pull
  BY <1>14 DEF Pull
<1> QED
    BY <1>1, <1>2, <1>3, <1>4, <1>5, <1>6, <1>7, <1>8, <1>9, <1>10, <1>11,
       <1>12, <1>13, <1>14 DEF BulkNext, Main

(* The bytes of the read are a number of bytes.                            *)
LEMMA BytesAreNat == BulkTypeOK => arrived \in Nat /\ result \in Int
<1> SUFFICES ASSUME BulkTypeOK PROVE arrived \in Nat /\ result \in Int
    OBVIOUS
<1>1. arrived \in 0 .. BUF_SIZE /\ result \in Int
  BY Zenon DEF BulkTypeOK, Values
<1>2. BUF_SIZE \in Nat
  BY Zenon, BulkAssumption
<1> QED
    BY <1>1, <1>2

(* What a call fails with is negative.                                     *)
LEMMA ErrorsAreNegative == (-1) < 0 /\ (-2) < 0
OBVIOUS

(* No step makes the result of the read wrong.                             *)
LEMMA NextReads ==
  ASSUME BulkTypeOK, BulkInv, ReadInv, BulkNext
  PROVE  ReadInv'
<1> USE DEF ReadInv, lib, world, rest, reading
<1>1. arrived \in Nat /\ result \in Int
  BY BytesAreNat, Zenon
<1>2. step \notin {"release", "close", "done"} => said = ""
  OBVIOUS
<1>3. CASE Load \/ FindBusses \/ FindDevices
  BY <1>3 DEF Load, FindBusses, FindDevices
<1>4. CASE OpenDev \/ SetConfiguration \/ ClaimInterface
  <2>1. /\ step \in {"open", "config", "claim"} /\ UNCHANGED reading
        /\ step' \in {"config", "claim", "control", "done"}
    BY <1>4, Zenon DEF OpenDev, SetConfiguration, ClaimInterface
  <2> QED
      BY <1>2, <2>1
<1>5. CASE ControlMsg
  BY <1>5 DEF ControlMsg
<1>6. CASE Setup \/ Submit
  <2>1. /\ step \in {"setup", "submit"} /\ UNCHANGED said
        /\ step' \in {"submit", "reap", "report"}
        /\ step' = "report" => result' < 0
    <3>1. CASE Setup
      BY <3>1 DEF Setup, Number, Failures, ENOFILE
    <3>2. CASE Submit
      BY <3>2 DEF Submit
    <3> QED
        BY <1>6, <3>1, <3>2
  <2>2. step' # "free" /\ said' = ""
    BY <1>2, <2>1
  <2>3. step' = "report" => result' < 0
    BY <2>1, Zenon
  <2> QED
      BY <2>2, <2>3, Zenon
<1>7. CASE ReapAsync
  <2>1. step = "reap" /\ step' = "free" /\ said' = ""
    BY <1>2, <1>7 DEF ReapAsync
  <2>2. CASE Reaches("usb_reap_async")
    <3>1. /\ flight' = "none" /\ arrived' = arrived
          /\ result' \in {arrived, -1}
      BY <1>7, <2>2 DEF ReapAsync, Number, Failures
    <3>2. result' < 0 \/ (result' = arrived' /\ flight' = "none")
      BY <3>1, ErrorsAreNegative, Zenon
    <3> QED
        BY <2>1, <3>2, Zenon
  <2>3. CASE ~Reaches("usb_reap_async")
    <3>1. result' = -2
      BY <1>7, <2>3 DEF ReapAsync, Number, ENOFILE
    <3>2. result' < 0
      BY <3>1, ErrorsAreNegative, Zenon
    <3> QED
        BY <2>1, <3>2, Zenon
  <2> QED
      BY <2>2, <2>3
<1>8. CASE Free \/ Report \/ ReleaseInterface \/ Close
  BY <1>1, <1>8 DEF Free, Report, ReleaseInterface, Close
<1>9. CASE Deliver \/ Pull
  BY <1>9 DEF Deliver, Pull
<1> QED
    BY <1>3, <1>4, <1>5, <1>6, <1>7, <1>8, <1>9 DEF BulkNext, Main

(* What the example keeps.                                                 *)
BulkIInv == BulkTypeOK /\ BulkInv /\ ReadInv

(* No step of the example breaks its invariants.                           *)
LEMMA NextBulk == BulkIInv /\ [BulkNext]_bulkVars => BulkIInv'
<1> SUFFICES ASSUME BulkIInv, [BulkNext]_bulkVars
             PROVE  BulkTypeOK' /\ BulkInv' /\ ReadInv'
    BY DEF BulkIInv
<1>1. CASE BulkNext
  <2>1. BulkTypeOK /\ BulkInv /\ ReadInv /\ Flags /\ Values
    BY DEF BulkIInv, BulkTypeOK
  <2>2. Flags' /\ Values' /\ BulkInv' /\ ReadInv'
    BY <1>1, <2>1, NextFlags, NextValues, NextHolds, NextReads, Zenon
  <2> QED
      BY <2>2, Zenon DEF BulkTypeOK
<1>2. CASE UNCHANGED bulkVars
  <2>1. UNCHANGED <<library, pointers, step, plugged, pulled, busses, dev,
                    open, configured, claimed, async, flight, arrived, result,
                    said>>
    BY <1>2, Zenon DEF bulkVars, lib, world, rest, reading
  <2>2. Flags' /\ Values'
    <3>1. Flags'
      BY <2>1, Zenon DEF BulkIInv, BulkTypeOK, Flags
    <3>2. Values'
      BY <2>1, Zenon DEF BulkIInv, BulkTypeOK, Values
    <3> QED
        BY <3>1, <3>2
  <2>3. BulkInv' /\ ReadInv'
    <3>1. BulkInv'
      BY <2>1, Zenon DEF BulkIInv, BulkInv, Reaches
    <3>2. ReadInv'
      BY <2>1, Zenon DEF BulkIInv, ReadInv
    <3> QED
        BY <3>1, <3>2
  <2> QED
      BY <2>2, <2>3 DEF BulkTypeOK
<1> QED
    BY <1>1, <1>2

(* The invariants of bulk.c hold in every reachable state.                 *)
LEMMA BulkInvariance == BulkSpec => []BulkIInv
<1>1. BulkInit => BulkIInv
  BY InitBulk DEF BulkIInv
<1> QED
    BY <1>1, NextBulk, PTL DEF BulkSpec

(* BulkTypeOK holds in every reachable state.                              *)
THEOREM BulkTypeCorrect == BulkSpec => []BulkTypeOK
<1>1. BulkIInv => BulkTypeOK
  BY DEF BulkIInv
<1> QED
    BY <1>1, BulkInvariance, PTL

(* GivenBack: whatever the dll lacks, whatever fails and whenever the      *)
(* device is pulled out, main of bulk.c ends with nothing it could have    *)
(* given back.                                                             *)
THEOREM NothingIsHeld == BulkSpec => []GivenBack
<1>1. BulkIInv => GivenBack
  BY DEF BulkIInv, BulkInv, GivenBack
<1> QED
    BY <1>1, BulkInvariance, PTL

(* SuccessIsTrue: whatever the dll lacks, also if it submits a transfer    *)
(* and cannot wait for it, main prints a success of what the device sent   *)
(* and nothing is under way any longer.                                    *)
THEOREM SuccessIsRead == BulkSpec => []SuccessIsTrue
<1>1. BulkIInv => SuccessIsTrue
  <2>1. BulkIInv => result \in Int
    BY Zenon DEF BulkIInv, BulkTypeOK, Values
  <2> QED
      BY <2>1 DEF BulkIInv, ReadInv, SuccessIsTrue
<1> QED
    BY <1>1, BulkInvariance, PTL
=============================================================================
