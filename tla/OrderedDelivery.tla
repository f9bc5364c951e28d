---------------------------- MODULE OrderedDelivery ----------------------------
(***************************************************************************)
(* What line arbitration promises the order book: the messages 1, 2, 3 ...  *)
(* of one stream, in sequence and each once, and only messages that some   *)
(* feed brought.  How early arrivals are kept is not said here.            *)
(***************************************************************************)
EXTENDS Naturals, Sequences

CONSTANT Stream     \* the sequence numbers of the stream

VARIABLES arrived,   \* messages that reached the receiver on any feed
          delivered  \* messages handed to the book, oldest first

deliveryVars == <<arrived, delivered>>

NextInLine == Len(delivered) + 1

Init == arrived = {} /\ delivered = <<>>

\* A copy arrives; at most the message next in line is handed on.
Arrive(n) ==
  /\ arrived' = arrived \cup {n}
  /\ \/ delivered' = delivered
     \/ n = NextInLine /\ delivered' = Append(delivered, n)

\* A message that arrived earlier is handed on.
Deliver ==
  /\ NextInLine \in arrived
  /\ delivered' = Append(delivered, NextInLine)
  /\ UNCHANGED arrived

Next == Deliver \/ \E n \in Stream : Arrive(n)

Spec == Init /\ [][Next]_deliveryVars

================================================================================
