------------------------------ MODULE BoundedFifo ------------------------------
(***************************************************************************)
(* What a bounded queue between one writer and one reader promises: items  *)
(* come out in the order they went in, each exactly once, and never more   *)
(* than Capacity of them are inside.  How, when or in how many steps an    *)
(* item moves is not said here; SPSCRing is shown to implement it.         *)
(***************************************************************************)
EXTENDS Naturals, Sequences

CONSTANTS Msgs,       \* what the queue carries
          Capacity    \* how many items fit

VARIABLES queue,      \* the items inside, oldest first
          delivered   \* every item handed to the reader so far, oldest first

fifoVars == <<queue, delivered>>

Init == queue = <<>> /\ delivered = <<>>

Enqueue(m) ==
  /\ Len(queue) < Capacity
  /\ queue' = Append(queue, m)
  /\ UNCHANGED delivered

Dequeue ==
  /\ queue # <<>>
  /\ queue' = Tail(queue)
  /\ delivered' = Append(delivered, Head(queue))

Next == Dequeue \/ \E m \in Msgs : Enqueue(m)

Spec == Init /\ [][Next]_fifoVars

================================================================================
