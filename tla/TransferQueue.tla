---------------------------- MODULE TransferQueue ----------------------------
(***************************************************************************)
(* A transfer thread of the benchmark: TransferThreadProc, which repeats   *)
(* transfers until the test is cancelled or fails too often, TransferSync, *)
(* and TransferAsync, which keeps a ring of transfers outstanding.  The    *)
(* library and the device complete transfers meanwhile; the main thread    *)
(* may cancel the test, reset the endpoint, and reset the status.          *)
(***************************************************************************)
EXTENDS Naturals

CONSTANTS
  BufferCount,  \* outstanding transfers
  Retry,        \* failures in a row that are retried
  Modes,        \* subset of {"sync", "async"}
  Faults        \* "setup", "submit", "transfer", "cancel", "dead": what may
                \* fail; "status": the user may reset the status

ASSUME QueueAssumption ==
  /\ BufferCount \in Nat \ {0}
  /\ Retry \in Nat
  /\ Modes \subseteq {"sync", "async"}

Slots == 0 .. BufferCount - 1

VARIABLES
  mode,              \* TransferMode
  nextIndex,         \* TransferHandleNextIndex
  waitIndex,         \* TransferHandleWaitIndex
  outstanding,       \* OutstandingTransferCount
  context, inUse,    \* of the handles: has a context, has been submitted
  runningTimeouts,   \* RunningTimeoutCount
  runningErrors,     \* RunningErrorCount
  isCancelled, isUserAborted, isRunning,
  pc,
  ret,               \* what the last transfer returned
  index              \* the handle that is cleaned up next

VARIABLES
  transfer,          \* the library's view of the transfer of each handle
  dead,              \* the device does not answer any more
  stuck              \* the handles whose transfer could not be cancelled

ring == <<nextIndex, waitIndex, outstanding, context, inUse, transfer>>
counts == <<runningTimeouts, runningErrors>>
flags == <<isCancelled, isUserAborted>>
vars == <<mode, ring, counts, flags, isRunning, pc, ret, index, dead, stuck>>

Good == {"full", "short", "zero"}
Results == Good \cup {"timeout", "error"}

-----------------------------------------------------------------------------
Init ==
  /\ mode \in Modes
  /\ nextIndex = 0 /\ waitIndex = 0 /\ outstanding = 0
  /\ context = [s \in Slots |-> FALSE]
  /\ inUse = [s \in Slots |-> FALSE]
  /\ runningTimeouts = 0 /\ runningErrors = 0
  /\ isCancelled = FALSE /\ isUserAborted = FALSE /\ isRunning = FALSE
  /\ pc = "start"
  /\ ret = "full"
  /\ index = 0
  /\ transfer = [s \in Slots |-> "none"]
  /\ dead = FALSE
  /\ stuck = {}

Start ==
  /\ pc = "start"
  /\ isRunning' = TRUE
  /\ pc' = "loop"
  /\ UNCHANGED <<mode, ring, counts, flags, ret, index, dead, stuck>>

(* Mutant: the cancelled test goes on.                                     *)
LoopOn ==
  /\ pc = "loop"
  /\ pc' = IF mode = "sync" THEN "sync" ELSE "async"
  /\ UNCHANGED <<mode, ring, counts, flags, isRunning, ret, index, dead,
                 stuck>>

(* The loop ends when the test is cancelled.                               *)
Loop ==
  /\ pc = "loop"
  /\ pc' = IF isCancelled THEN "cleanup"
           ELSE IF mode = "sync" THEN "sync" ELSE "async"
  /\ UNCHANGED <<mode, ring, counts, flags, isRunning, ret, index, dead,
                 stuck>>

Returns(result) == ret' = result /\ pc' = "result"

-----------------------------------------------------------------------------
(* What a transfer ends with: a live device completes it, and the main     *)
(* thread aborts it when the test is cancelled.                            *)
Outcomes ==
  (IF dead THEN {} ELSE {"full"})
    \cup (IF "transfer" \in Faults /\ ~dead
          THEN {"short", "zero", "error"} ELSE {})
    \cup (IF isCancelled THEN {"error"} ELSE {})

TransferSync ==
  /\ pc = "sync"
  /\ \E result \in Outcomes \cup {"timeout"} : Returns(result)
  /\ UNCHANGED <<mode, ring, counts, flags, isRunning, index, dead, stuck>>

(* INC_ROLL                                                                *)
IncRoll(i) == IF i + 1 >= BufferCount THEN 0 ELSE i + 1

(* TransferAsync, first part: one transfer more is submitted, with a new   *)
(* context if the handle has none.                                         *)
SetupFails ==
  /\ "setup" \in Faults
  /\ ~context[nextIndex]
  /\ Returns("error")
  /\ UNCHANGED ring

SubmitFails ==
  /\ "submit" \in Faults
  /\ context' = [context EXCEPT ![nextIndex] = TRUE]
  /\ Returns("error")
  /\ UNCHANGED <<nextIndex, waitIndex, outstanding, inUse, transfer>>

Submits ==
  /\ context' = [context EXCEPT ![nextIndex] = TRUE]
  /\ transfer' = [transfer EXCEPT ![nextIndex] = "pending"]
  /\ inUse' = [inUse EXCEPT ![nextIndex] = TRUE]
  /\ outstanding' = outstanding + 1
  /\ nextIndex' = IncRoll(nextIndex)
  /\ UNCHANGED <<waitIndex, pc, ret>>

Fill ==
  /\ pc = "async"
  /\ outstanding < BufferCount
  /\ SetupFails \/ SubmitFails \/ Submits
  /\ UNCHANGED <<mode, counts, flags, isRunning, index, dead, stuck>>

(* Mutant: a transfer that timed out does not count as outstanding.        *)
ReapFailsCounted ==
  /\ \/ transfer[waitIndex] = "pending" /\ Returns("timeout")
     \/ transfer[waitIndex] = "error" /\ Returns("error")
  /\ outstanding' = outstanding - 1
  /\ UNCHANGED <<nextIndex, waitIndex, context, inUse, transfer>>

(* TransferAsync, second part: the wait for the oldest transfer.  When it  *)
(* fails or takes too long, the transfer remains outstanding.              *)
ReapFails ==
  /\ \/ transfer[waitIndex] = "pending" /\ Returns("timeout")
     \/ transfer[waitIndex] = "error" /\ Returns("error")
  /\ UNCHANGED ring

(* Mutant: the handle of the transfer that completed stays in use.         *)
ReapsStillInUse ==
  /\ transfer[waitIndex] \in Good
  /\ Returns(transfer[waitIndex])
  /\ transfer' = [transfer EXCEPT ![waitIndex] = "none"]
  /\ outstanding' = outstanding - 1
  /\ waitIndex' = IncRoll(waitIndex)
  /\ UNCHANGED <<nextIndex, context, inUse>>

Reaps ==
  /\ transfer[waitIndex] \in Good
  /\ Returns(transfer[waitIndex])
  /\ transfer' = [transfer EXCEPT ![waitIndex] = "none"]
  /\ inUse' = [inUse EXCEPT ![waitIndex] = FALSE]
  /\ outstanding' = outstanding - 1
  /\ waitIndex' = IncRoll(waitIndex)
  /\ UNCHANGED <<nextIndex, context>>

Reap ==
  /\ pc = "async"
  /\ outstanding = BufferCount
  /\ ReapFails \/ Reaps
  /\ UNCHANGED <<mode, counts, flags, isRunning, index, dead, stuck>>

-----------------------------------------------------------------------------
(* usb_resetep: transfers that are pending end with an error.              *)
Aborted ==
  [s \in Slots |-> IF transfer[s] = "pending" THEN "error" ELSE transfer[s]]

(* What TransferThreadProc does with what a transfer returned.             *)
UserAborted ==
  /\ ret \in {"timeout", "error"}
  /\ isUserAborted
  /\ pc' = "cleanup"
  /\ UNCHANGED <<counts, transfer>>

(* Mutant: every transfer that times out begins to count anew.             *)
TimedOutAnew ==
  /\ ret = "timeout"
  /\ ~isUserAborted
  /\ runningTimeouts' = 1
  /\ pc' = IF runningTimeouts' > Retry THEN "cleanup" ELSE "loop"
  /\ UNCHANGED <<runningErrors, transfer>>

TimedOut ==
  /\ ret = "timeout"
  /\ ~isUserAborted
  /\ runningTimeouts' = runningTimeouts + 1
  /\ pc' = IF runningTimeouts' > Retry THEN "cleanup" ELSE "loop"
  /\ UNCHANGED <<runningErrors, transfer>>

FailedWithError ==
  /\ ret = "error"
  /\ ~isUserAborted
  /\ runningErrors' = runningErrors + 1
  /\ transfer' = Aborted
  /\ pc' = IF runningErrors' > Retry THEN "cleanup" ELSE "loop"
  /\ UNCHANGED runningTimeouts

ZeroLength ==
  /\ ret = "zero"
  /\ ~isCancelled
  /\ runningErrors' = runningErrors + 1
  /\ IF runningErrors' > Retry
     THEN pc' = "cleanup" /\ UNCHANGED transfer
     ELSE pc' = "loop" /\ transfer' = Aborted
  /\ UNCHANGED runningTimeouts

Short ==
  /\ ret = "short"
  /\ ~isCancelled
  /\ pc' = "loop"
  /\ UNCHANGED <<counts, transfer>>

Complete ==
  /\ ret = "full" \/ (ret \in Good /\ isCancelled)
  /\ runningErrors' = 0
  /\ runningTimeouts' = 0
  /\ pc' = "loop"
  /\ UNCHANGED transfer

HandleResult ==
  /\ pc = "result"
  /\ \/ UserAborted \/ TimedOut \/ FailedWithError \/ ZeroLength \/ Short
     \/ Complete
  /\ UNCHANGED <<mode, nextIndex, waitIndex, outstanding, context, inUse,
                 flags, isRunning, ret, index, dead, stuck>>

-----------------------------------------------------------------------------
(* What is done with a handle that has a context: usb_cancel_async if it   *)
(* is in use, and usb_free_async.  A cancellation that fails is reported;  *)
(* the handle is given up all the same, whatever its transfer does.        *)
Cancels(s) ==
  /\ transfer' = [transfer EXCEPT ![s] = IF inUse[s] THEN "none" ELSE @]
  /\ UNCHANGED stuck

CancelFails(s) ==
  /\ "cancel" \in Faults
  /\ inUse[s]
  /\ stuck' = stuck \cup {s}
  /\ UNCHANGED transfer

(* Mutant: the context is freed without cancelling its transfer.           *)
ReleaseUncancelled(s) ==
  /\ inUse' = [inUse EXCEPT ![s] = FALSE]
  /\ context' = [context EXCEPT ![s] = FALSE]
  /\ UNCHANGED <<transfer, stuck>>

Release(s) ==
  /\ Cancels(s) \/ CancelFails(s)
  /\ inUse' = [inUse EXCEPT ![s] = FALSE]
  /\ context' = [context EXCEPT ![s] = FALSE]

(* When the loop is left, every handle with a context is given up.         *)
Cleanup ==
  /\ pc = "cleanup"
  /\ IF context[index]
     THEN Release(index)
     ELSE UNCHANGED <<context, inUse, transfer, stuck>>
  /\ index' = IncRoll(index)
  /\ isRunning' = (index + 1 < BufferCount)
  /\ pc' = IF index + 1 < BufferCount THEN "cleanup" ELSE "ended"
  /\ UNCHANGED <<mode, nextIndex, waitIndex, outstanding, counts, flags, ret,
                 dead>>

Thread ==
  Start \/ Loop \/ TransferSync \/ Fill \/ Reap \/ HandleResult \/ Cleanup

-----------------------------------------------------------------------------
(* The library and the device: transfers complete in any order, until the  *)
(* device stops answering.                                                 *)
Completion ==
  /\ \E s \in Slots, result \in Outcomes :
       /\ transfer[s] = "pending"
       /\ result = "error" => "transfer" \in Faults
       /\ transfer' = [transfer EXCEPT ![s] = result]
  /\ UNCHANGED <<mode, nextIndex, waitIndex, outstanding, context, inUse,
                 counts, flags, isRunning, pc, ret, index, dead, stuck>>

Dies ==
  /\ "dead" \in Faults
  /\ ~dead
  /\ dead' = TRUE
  /\ UNCHANGED <<mode, ring, counts, flags, isRunning, pc, ret, index, stuck>>

(* The main thread: 'Q' sets two flags; the end of the other thread one.   *)
Abort ==
  /\ ~isUserAborted
  /\ ~isCancelled
  /\ isUserAborted' = TRUE
  /\ UNCHANGED <<mode, ring, counts, isCancelled, isRunning, pc, ret, index,
                 dead, stuck>>

Cancel ==
  /\ ~isCancelled
  /\ isCancelled' = TRUE
  /\ UNCHANGED <<mode, ring, counts, isUserAborted, isRunning, pc, ret, index,
                 dead, stuck>>

(* It aborts the endpoint of a thread that still runs.                     *)
ResetEndpoint ==
  /\ isCancelled
  /\ isRunning
  /\ transfer' = Aborted
  /\ UNCHANGED <<mode, nextIndex, waitIndex, outstanding, context, inUse,
                 counts, flags, isRunning, pc, ret, index, dead, stuck>>

(* 'R': ResetRunningStatus clears the count outside the thread's control,  *)
(* also between its increment and its comparison; a clearing that the      *)
(* increment overwrites has no effect.                                     *)
ResetStatus ==
  /\ "status" \in Faults
  /\ ~isCancelled
  /\ runningTimeouts' = 0
  /\ \/ UNCHANGED pc
     \/ pc = "result" /\ ret = "timeout" /\ pc' = "loop"
  /\ UNCHANGED <<mode, ring, runningErrors, flags, isRunning, ret, index,
                 dead, stuck>>

Next ==
  Thread \/ Completion \/ Dies \/ Abort \/ Cancel \/ ResetEndpoint
    \/ ResetStatus

Spec == Init /\ [][Next]_vars

(* The thread keeps running: every wait of it has a timeout.               *)
LiveSpec == Spec /\ WF_vars(Thread)

-----------------------------------------------------------------------------
Ending == pc \in {"cleanup", "ended"}

(* The handle of the i-th oldest transfer.                                 *)
Slot(i) ==
  IF waitIndex + i >= BufferCount THEN waitIndex + i - BufferCount
  ELSE waitIndex + i

(* The values that the variables of the code and of the history take.      *)
TypeOK ==
  /\ mode \in Modes
  /\ nextIndex \in Slots /\ waitIndex \in Slots /\ index \in Slots
  /\ outstanding \in 0 .. BufferCount
  /\ context \in [Slots -> BOOLEAN] /\ inUse \in [Slots -> BOOLEAN]
  /\ runningTimeouts \in Nat /\ runningErrors \in Nat
  /\ isCancelled \in BOOLEAN /\ isUserAborted \in BOOLEAN
  /\ isRunning \in BOOLEAN /\ dead \in BOOLEAN
  /\ pc \in {"start", "loop", "sync", "async", "result", "cleanup", "ended"}
  /\ ret \in Results
  /\ transfer \in [Slots -> Good \cup {"none", "pending", "error"}]
  /\ stuck \subseteq Slots

(* The ring of handles: until the loop is left, the handles in use are the *)
(* outstanding ones from the wait index on, so that the next one is free   *)
(* and the one waited for is the oldest; the library holds exactly these,  *)
(* and in the end those whose cancellation failed.                         *)
RingOrder ==
  /\ ~Ending =>
       /\ nextIndex = IF outstanding = BufferCount THEN waitIndex
                      ELSE Slot(outstanding)
       /\ \A i \in Slots : inUse[Slot(i)] <=> i < outstanding
  /\ \A s \in Slots \ stuck : inUse[s] <=> transfer[s] # "none"

(* The handles' memory is released when the thread has ended (the main     *)
(* thread waits for isRunning): no context is leaked, and nothing is in    *)
(* flight but what the library refused to cancel.                          *)
NothingInFlight ==
  pc = "ended" =>
    \A s \in Slots : ~context[s] /\ (transfer[s] = "none" \/ s \in stuck)

(* The ring is a queue: the oldest transfer is the one waited for.         *)
Fifo ==
  INSTANCE TransferFifo WITH
    fifo <- IF Ending THEN <<>> ELSE [i \in 1 .. outstanding |-> Slot(i - 1)],
    ended <- Ending

(* The thread does what TransferFifo promises of it.                       *)
ImplementsFifo == Fifo!Spec

(* A cancelled test ends, even if the device does not answer any more.     *)
CancelEnds == isCancelled ~> pc = "ended"

(* When the device dies, the thread notices by its timeouts, unless the    *)
(* user keeps resetting the count of them for ever.                        *)
DeadDeviceEnds ==
  <>[][~ResetStatus]_vars => (dead ~> pc = "ended")
=============================================================================
