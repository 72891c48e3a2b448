------------------------------ MODULE Benchmark ------------------------------
(***************************************************************************)
(* The benchmark program: its main thread opens a device, creates a read   *)
(* and a write test, starts their threads, watches them and the keyboard,  *)
(* and takes everything down in the end.  What a transfer thread does      *)
(* between its begin and its end is the module TransferQueue.              *)
(***************************************************************************)
EXTENDS Naturals

CONSTANTS
  Faults,  \* "arguments", "open", "setup", "transfer" and "exitcode": what
           \* may fail
  Prompt   \* a resumed thread begins before the main thread looks at it

ASSUME BenchmarkAssumption == Prompt \in BOOLEAN

Endpoints == {"read", "write"}

VARIABLES
  tests,         \* the endpoints of TestType
  verify,        \* Verify
  device,        \* DeviceHandle: "none", "open" or "closed"
  verifyBuffer,  \* VerifyBuffer: "none", "allocated" or "freed"
  param,         \* ReadTest and WriteTest, likewise
  thread,        \* their threads
  isRunning, isCancelled, isUserAborted,
  unwaited,      \* history: the threads whose exit code could not be got
  pc             \* of the main thread

resources == <<device, verifyBuffer, param>>
flags == <<isCancelled, isUserAborted>>
asked == <<tests, verify, unwaited>>
vars == <<asked, resources, thread, isRunning, flags, pc>>

-----------------------------------------------------------------------------
Init ==
  /\ tests \in (SUBSET Endpoints) \ {{}}
  /\ verify \in BOOLEAN
  /\ device = "none" /\ verifyBuffer = "none"
  /\ param = [e \in Endpoints |-> "none"]
  /\ thread = [e \in Endpoints |-> "none"]
  /\ isRunning = [e \in Endpoints |-> FALSE]
  /\ isCancelled = FALSE /\ isUserAborted = FALSE /\ unwaited = {}
  /\ pc = "arguments"

(* A step that may fail; on failure the main thread goes to Done.          *)
Attempt(fault, success, next) ==
  \/ success /\ pc' = next
  \/ /\ fault \in Faults
     /\ pc' = "close"
     /\ UNCHANGED <<resources, thread>>

(* Arguments that are not understood end the program at once.              *)
Arguments ==
  /\ pc = "arguments"
  /\ pc' \in {"search"} \cup (IF "arguments" \in Faults THEN {"exit"} ELSE {})
  /\ UNCHANGED <<asked, resources, thread, isRunning, flags>>

(* A device from the list may be open and yet without an interface.        *)
Search ==
  /\ pc = "search"
  /\ \/ Attempt("open",
                device' = "open" /\ UNCHANGED <<verifyBuffer, param, thread>>,
                "select")
     \/ /\ "open" \in Faults
        /\ device' = "open"
        /\ pc' = "close"
        /\ UNCHANGED <<verifyBuffer, param, thread>>
  /\ UNCHANGED <<asked, isRunning, flags>>

SelectTest ==
  /\ pc = "select"
  /\ Attempt("setup", UNCHANGED <<resources, thread>>, "createRead")
  /\ UNCHANGED <<asked, isRunning, flags>>

(* CreateTransferParam: the memory of a test and its suspended thread.     *)
Created(e) ==
  /\ param' = [param EXCEPT ![e] = "allocated"]
  /\ thread' = [thread EXCEPT ![e] = "suspended"]
  /\ UNCHANGED <<device, verifyBuffer>>

(* Mutant: a test that cannot be created ends the program at once.         *)
CreateOrExit(e, here, next) ==
  /\ pc = here
  /\ IF e \in tests
     THEN \/ Created(e) /\ pc' = next
          \/ /\ "setup" \in Faults
             /\ pc' = "exit"
             /\ UNCHANGED <<resources, thread>>
     ELSE pc' = next /\ UNCHANGED <<resources, thread>>
  /\ UNCHANGED <<asked, isRunning, flags>>

Create(e, here, next) ==
  /\ pc = here
  /\ IF e \in tests
     THEN Attempt("setup", Created(e), next)
     ELSE pc' = next /\ UNCHANGED <<resources, thread>>
  /\ UNCHANGED <<asked, isRunning, flags>>

(* The configuration, the interface, and its alternate setting.            *)
Configure ==
  /\ pc = "configure"
  /\ Attempt("setup", UNCHANGED <<resources, thread>>, "verify")
  /\ UNCHANGED <<asked, isRunning, flags>>

Verified ==
  /\ verifyBuffer' = "allocated"
  /\ UNCHANGED <<device, param, thread>>

VerifyBuffer ==
  /\ pc = "verify"
  /\ IF verify /\ "read" \in tests
     THEN Attempt("setup", Verified, "prompt")
     ELSE pc' = "prompt" /\ UNCHANGED <<resources, thread>>
  /\ UNCHANGED <<asked, isRunning, flags>>

(* 'Q' ends the program before the threads are started.                    *)
AskToBegin ==
  /\ pc = "prompt"
  /\ pc' \in {"startRead", "close"}
  /\ UNCHANGED <<asked, resources, thread, isRunning, flags>>

Resume(e, here, next) ==
  /\ pc = here
  /\ thread' = IF e \in tests THEN [thread EXCEPT ![e] = "ready"] ELSE thread
  /\ pc' = next
  /\ UNCHANGED <<asked, resources, isRunning, flags>>

-----------------------------------------------------------------------------
(* The loop of the main thread.                                            *)
While ==
  /\ pc = "while"
  /\ pc' = IF isCancelled THEN "resetRead" ELSE "key"
  /\ UNCHANGED <<asked, resources, thread, isRunning, flags>>

(* After a sleep a key may have been pressed: 'Q', or one that leaves this *)
(* state alone.  The two flags matter one by one in TransferQueue only.    *)
Key ==
  /\ pc = "key"
  /\ Prompt => \A e \in Endpoints : thread[e] # "ready"
  /\ \/ isUserAborted' = TRUE /\ isCancelled' = TRUE
     \/ UNCHANGED flags
  /\ pc' = "lookRead"
  /\ UNCHANGED <<asked, resources, thread, isRunning>>

(* Mutant: only the thread of the read test is looked at.                  *)
LookAtRead(e, here, next) ==
  /\ pc = here
  /\ IF e = "read" /\ e \in tests /\ ~isRunning[e]
     THEN isCancelled' = TRUE /\ pc' = "resetRead"
     ELSE pc' = next /\ UNCHANGED isCancelled
  /\ UNCHANGED <<asked, resources, thread, isRunning, isUserAborted>>

(* A thread that does not run cancels the test.                            *)
Look(e, here, next) ==
  /\ pc = here
  /\ IF e \in tests /\ ~isRunning[e]
     THEN isCancelled' = TRUE /\ pc' = "resetRead"
     ELSE pc' = next /\ UNCHANGED isCancelled
  /\ UNCHANGED <<asked, resources, thread, isRunning, isUserAborted>>

(* usb_resetep has its effect in TransferQueue.                            *)
ResetEndpoint(here, next) ==
  /\ pc = here
  /\ pc' = next
  /\ UNCHANGED <<asked, resources, thread, isRunning, flags>>

(* Mutant: the exit code of the thread is not waited for.                  *)
WaitForFlag(e, here, next) ==
  /\ pc = here
  /\ e \in tests => ~isRunning[e]
  /\ pc' = next
  /\ UNCHANGED <<asked, resources, thread, isRunning, flags>>

(* The exit code is 0 when the thread has returned; main does not wait for *)
(* it if it cannot be got.                                                 *)
WaitForTestTransfer(e, here, next) ==
  /\ pc = here
  /\ \/ /\ e \in tests => ~isRunning[e] /\ thread[e] = "exited"
        /\ UNCHANGED asked
     \/ /\ "exitcode" \in Faults /\ e \in tests /\ ~isRunning[e]
        /\ unwaited' = unwaited \cup {e}
        /\ UNCHANGED <<tests, verify>>
  /\ pc' = next
  /\ UNCHANGED <<resources, thread, isRunning, flags>>

-----------------------------------------------------------------------------
Freed(what) == IF what = "allocated" THEN "freed" ELSE what

(* Done: everything is closed and freed.  A thread that was never resumed  *)
(* stays suspended.                                                        *)
Close ==
  /\ pc = "close"
  /\ device' = IF device = "open" THEN "closed" ELSE device
  /\ pc' = "freeVerify"
  /\ UNCHANGED <<asked, verifyBuffer, param, thread, isRunning, flags>>

FreeVerifyBuffer ==
  /\ pc = "freeVerify"
  /\ verifyBuffer' = Freed(verifyBuffer)
  /\ pc' = "freeRead"
  /\ UNCHANGED <<asked, device, param, thread, isRunning, flags>>

FreeTransferParam(e, here, next) ==
  /\ pc = here
  /\ param' = [param EXCEPT ![e] = Freed(@)]
  /\ pc' = next
  /\ UNCHANGED <<asked, device, verifyBuffer, thread, isRunning,
                 flags>>

Setup ==
  \/ Arguments \/ Search \/ SelectTest
  \/ Create("read", "createRead", "createWrite")
  \/ Create("write", "createWrite", "configure")
  \/ Configure \/ VerifyBuffer \/ AskToBegin
  \/ Resume("read", "startRead", "startWrite")
  \/ Resume("write", "startWrite", "while")

Watch ==
  \/ While \/ Key
  \/ Look("read", "lookRead", "lookWrite")
  \/ Look("write", "lookWrite", "while")

Teardown ==
  \/ ResetEndpoint("resetRead", "resetWrite")
  \/ ResetEndpoint("resetWrite", "waitRead")
  \/ WaitForTestTransfer("read", "waitRead", "waitWrite")
  \/ WaitForTestTransfer("write", "waitWrite", "close")
  \/ Close \/ FreeVerifyBuffer
  \/ FreeTransferParam("read", "freeRead", "freeWrite")
  \/ FreeTransferParam("write", "freeWrite", "exit")

Main == Setup \/ Watch \/ Teardown

-----------------------------------------------------------------------------
(* TransferThreadProc, from outside.                                       *)
Moves(e, from, to) ==
  /\ thread[e] = from
  /\ thread' = [thread EXCEPT ![e] = to]
  /\ UNCHANGED <<asked, resources, flags, pc>>

Begin(e) ==
  /\ Moves(e, "ready", "running")
  /\ isRunning' = [isRunning EXCEPT ![e] = TRUE]

Fails(e) ==
  /\ "transfer" \in Faults
  /\ Moves(e, "running", "leaving")
  /\ UNCHANGED isRunning

Stops(e) ==
  /\ isCancelled
  /\ Moves(e, "running", "leaving")
  /\ UNCHANGED isRunning

Leaves(e) ==
  /\ Moves(e, "leaving", "returning")
  /\ isRunning' = [isRunning EXCEPT ![e] = FALSE]

Exits(e) ==
  /\ Moves(e, "returning", "exited")
  /\ UNCHANGED isRunning

Thread(e) == Begin(e) \/ Stops(e) \/ Leaves(e) \/ Exits(e)

Next == Main \/ \E e \in Endpoints : Thread(e) \/ Fails(e)

Spec == Init /\ [][Next]_vars

(* Both threads are scheduled; a cancelled thread stops                    *)
(* (TransferQueue!CancelEnds).                                             *)
LiveSpec ==
  Spec /\ WF_vars(Main) /\ \A e \in Endpoints : WF_vars(Thread(e))

-----------------------------------------------------------------------------
MainSteps ==
  {"arguments", "search", "select", "createRead", "createWrite", "configure",
   "verify", "prompt", "startRead", "startWrite", "while", "key", "lookRead",
   "lookWrite", "resetRead", "resetWrite", "waitRead", "waitWrite", "close",
   "freeVerify", "freeRead", "freeWrite", "exit"}

Active == {"ready", "running", "leaving", "returning"}

(* The values that the variables of the code and of the history take.      *)
TypeOK ==
  /\ tests \in (SUBSET Endpoints) \ {{}}
  /\ verify \in BOOLEAN
  /\ device \in {"none", "open", "closed"}
  /\ verifyBuffer \in {"none", "allocated", "freed"}
  /\ param \in [Endpoints -> {"none", "allocated", "freed"}]
  /\ thread \in [Endpoints -> Active \cup {"none", "suspended", "exited"}]
  /\ isRunning \in [Endpoints -> BOOLEAN]
  /\ \A e \in Endpoints \ tests :
       param[e] = "none" /\ thread[e] = "none" /\ ~isRunning[e]
  /\ isCancelled \in BOOLEAN /\ isUserAborted \in BOOLEAN
  /\ unwaited \subseteq Endpoints
  /\ pc \in MainSteps

(* A thread that may still run has what it uses: the device, the memory of *)
(* its test, and the buffer it verifies with; unless main could not get    *)
(* its exit code and has not waited for it.                                *)
ThreadsAreSafe ==
  \A e \in Endpoints \ unwaited : thread[e] \in Active =>
    /\ device = "open"
    /\ param[e] = "allocated"
    /\ e = "read" /\ verify => verifyBuffer = "allocated"

(* On every path everything that was taken is given back, once no thread   *)
(* that main could wait for can run any more.                              *)
NothingKept ==
  pc = "exit" =>
    /\ device # "open" /\ verifyBuffer # "allocated"
    /\ \A e \in Endpoints : param[e] # "allocated"
    /\ \A e \in Endpoints \ unwaited : thread[e] \notin Active

(* "If the read test should be running and it isn't, cancel the test.": a  *)
(* test is cancelled only by the user, or because one of its threads has   *)
(* ended.                                                                  *)
CancelsForCause ==
  isCancelled => \/ isUserAborted
                 \/ \E e \in tests : thread[e] \in {"returning", "exited"}

(* When a thread has ended by itself, so does the program.                 *)
FailureEnds == \A e \in Endpoints : thread[e] = "leaving" ~> pc = "exit"
=============================================================================
