---------------------------- MODULE TransferFifo ----------------------------
(***************************************************************************)
(* What the queue of a benchmark thread promises: transfers wait in the    *)
(* order in which they were submitted, each with a buffer of its own, and  *)
(* the oldest is waited for; then all are dropped at once.                 *)
(***************************************************************************)
EXTENDS Naturals, Sequences

CONSTANT Slots  \* the buffers

VARIABLES fifo, ended

vars == <<fifo, ended>>

Init == fifo = <<>> /\ ended = FALSE

Submit ==
  /\ ~ended
  /\ \E s \in Slots :
       /\ \A i \in 1 .. Len(fifo) : fifo[i] # s
       /\ fifo' = Append(fifo, s)
  /\ UNCHANGED ended

Reap ==
  /\ ~ended
  /\ fifo # <<>>
  /\ fifo' = Tail(fifo)
  /\ UNCHANGED ended

End ==
  /\ ~ended
  /\ fifo' = <<>>
  /\ ended' = TRUE

Next == Submit \/ Reap \/ End

Spec == Init /\ [][Next]_vars
=============================================================================
