--------------------------- MODULE DualFeedArbitrator ---------------------------
(***************************************************************************)
(* DualFeedArbitrator (feed_arbitrator.hpp): one consumer is fed by two    *)
(* redundant feeds, each of which may lose, delay and reorder messages;    *)
(* ingest hands on what is in sequence, drops what it has handed on, and   *)
(* parks what is early in slot seqNo % MaxBufferedGaps until               *)
(* tryDrainBuffered finds it next in line.                                 *)
(*                                                                         *)
(* Both feeds carry the same payload under a sequence number, so a message *)
(* is its sequence number.  ingest never looks at its source argument.     *)
(***************************************************************************)
EXTENDS Integers, Sequences, FiniteSets

CONSTANTS Feeds,            \* FeedSource: FeedA, FeedB
          MaxBufferedGaps,  \* template parameter
          LastSeqNo         \* bound of the checked instances: length of the stream

ASSUME ArbitratorAssumption ==
  /\ MaxBufferedGaps \in Nat \ {0}
  /\ LastSeqNo \in Nat

VARIABLES
  expectedSeqNo, duplicatesDropped, sequenceGapsDetected, retransmitRequests,
  gapBuffer,        \* the slots, each [active, msg]
  published,        \* messages the exchange has sent on every feed
  inFlight, lost,   \* copies <<feed, seqNo>> on their way, and dropped
  arrived,          \* messages of which a copy reached ingest
  delivered,        \* what the caller was handed, oldest first
  lead              \* history: by how many messages the consumer was behind at most

counters == <<duplicatesDropped, sequenceGapsDetected, retransmitRequests>>
feedVars == <<published, inFlight, lost, lead>>
arbVars == <<expectedSeqNo, counters, gapBuffer, feedVars, arrived, delivered>>

Stream == 1 .. LastSeqNo
Slots == 0 .. MaxBufferedGaps - 1
Slot(seq) == seq % MaxBufferedGaps
Empty == [active |-> FALSE, msg |-> 0]

\* The constructor calls reset().
Init ==
  /\ expectedSeqNo = 1
  /\ duplicatesDropped = 0 /\ sequenceGapsDetected = 0 /\ retransmitRequests = 0
  /\ gapBuffer = [s \in Slots |-> Empty]
  /\ published = 0 /\ inFlight = {} /\ lost = {}
  /\ arrived = {} /\ delivered = <<>> /\ lead = 0

--------------------------------------------------------------------------------
(* The exchange and the two feeds *)

Publish ==
  /\ published < LastSeqNo
  /\ published' = published + 1
  /\ lead' = IF published' < expectedSeqNo + lead THEN lead
             ELSE published' - expectedSeqNo + 1
  /\ inFlight' = inFlight \cup (Feeds \X {published + 1})
  /\ UNCHANGED <<expectedSeqNo, counters, gapBuffer, lost, arrived, delivered>>

Lose(f, seq) ==
  /\ <<f, seq>> \in inFlight
  /\ inFlight' = inFlight \ {<<f, seq>>}
  /\ lost' = lost \cup {<<f, seq>>}
  /\ UNCHANGED <<expectedSeqNo, counters, gapBuffer, published, lead, arrived,
                 delivered>>

\* A copy leaves the wire; every ingest below begins with it.
Arrives(f, seq) ==
  /\ <<f, seq>> \in inFlight
  /\ inFlight' = inFlight \ {<<f, seq>>}
  /\ arrived' = arrived \cup {seq}
  /\ UNCHANGED <<published, lost, lead>>

--------------------------------------------------------------------------------
(* bool ingest(source, msg, outMsg), one action per outcome *)

DropDuplicate(f, seq) ==
  /\ Arrives(f, seq)
  /\ seq < expectedSeqNo
  /\ duplicatesDropped' = duplicatesDropped + 1
  /\ UNCHANGED <<expectedSeqNo, sequenceGapsDetected, retransmitRequests, gapBuffer,
                 delivered>>

\* Mutant of PassInSequence: takes a gap for the message next in line.
PassAnyNewer(f, seq) ==
  /\ Arrives(f, seq)
  /\ seq >= expectedSeqNo
  /\ delivered' = Append(delivered, seq)
  /\ expectedSeqNo' = expectedSeqNo + 1
  /\ UNCHANGED <<counters, gapBuffer>>

PassInSequence(f, seq) ==
  /\ Arrives(f, seq)
  /\ seq = expectedSeqNo
  /\ delivered' = Append(delivered, seq)
  /\ expectedSeqNo' = expectedSeqNo + 1
  /\ UNCHANGED <<counters, gapBuffer>>

\* Mutants of BufferEarly: the gap measured backwards; the message parked where the
\* missing one belongs; the slot not marked as in use.
BufferEarlyNegativeGap(f, seq) ==
  /\ Arrives(f, seq)
  /\ seq > expectedSeqNo
  /\ sequenceGapsDetected' = sequenceGapsDetected + (expectedSeqNo - seq)
  /\ retransmitRequests' = retransmitRequests + 1
  /\ gapBuffer' = [gapBuffer EXCEPT ![Slot(seq)] = [active |-> TRUE, msg |-> seq]]
  /\ UNCHANGED <<expectedSeqNo, duplicatesDropped, delivered>>

BufferEarlyWrongSlot(f, seq) ==
  /\ Arrives(f, seq)
  /\ seq > expectedSeqNo
  /\ sequenceGapsDetected' = sequenceGapsDetected + (seq - expectedSeqNo)
  /\ retransmitRequests' = retransmitRequests + 1
  /\ gapBuffer' = [gapBuffer EXCEPT ![Slot(expectedSeqNo)] = [active |-> TRUE, msg |-> seq]]
  /\ UNCHANGED <<expectedSeqNo, duplicatesDropped, delivered>>

BufferEarlyInactive(f, seq) ==
  /\ Arrives(f, seq)
  /\ seq > expectedSeqNo
  /\ sequenceGapsDetected' = sequenceGapsDetected + (seq - expectedSeqNo)
  /\ retransmitRequests' = retransmitRequests + 1
  /\ gapBuffer' = [gapBuffer EXCEPT ![Slot(seq)] = [active |-> FALSE, msg |-> seq]]
  /\ UNCHANGED <<expectedSeqNo, duplicatesDropped, delivered>>

BufferEarly(f, seq) ==
  /\ Arrives(f, seq)
  /\ seq > expectedSeqNo
  /\ sequenceGapsDetected' = sequenceGapsDetected + (seq - expectedSeqNo)
  /\ retransmitRequests' = retransmitRequests + 1
  /\ gapBuffer' = [gapBuffer EXCEPT ![Slot(seq)] = [active |-> TRUE, msg |-> seq]]
  /\ UNCHANGED <<expectedSeqNo, duplicatesDropped, delivered>>

\* Mutant of TryDrainBuffered: hands on whatever lies in the slot.
DrainUnchecked ==
  LET slot == Slot(expectedSeqNo) IN
  /\ gapBuffer[slot].active
  /\ delivered' = Append(delivered, gapBuffer[slot].msg)
  /\ gapBuffer' = [gapBuffer EXCEPT ![slot].active = FALSE]
  /\ expectedSeqNo' = expectedSeqNo + 1
  /\ UNCHANGED <<counters, feedVars, arrived>>

\* bool tryDrainBuffered(outMsg) that returns true; otherwise it changes nothing.
TryDrainBuffered ==
  LET slot == Slot(expectedSeqNo) IN
  /\ gapBuffer[slot].active /\ gapBuffer[slot].msg = expectedSeqNo
  /\ delivered' = Append(delivered, gapBuffer[slot].msg)
  /\ gapBuffer' = [gapBuffer EXCEPT ![slot].active = FALSE]
  /\ expectedSeqNo' = expectedSeqNo + 1
  /\ UNCHANGED <<counters, feedVars, arrived>>

--------------------------------------------------------------------------------

Ingest(f, seq) ==
  DropDuplicate(f, seq) \/ PassInSequence(f, seq) \/ BufferEarly(f, seq)

Next ==
  \/ Publish
  \/ \E f \in Feeds, seq \in Stream : Lose(f, seq) \/ Ingest(f, seq)
  \/ TryDrainBuffered

Spec == Init /\ [][Next]_arbVars

\* The exchange goes on sending, a copy that is not lost arrives, and the caller
\* drains the buffer whenever it can.
FairSpec ==
  /\ Spec
  /\ WF_arbVars(Publish)
  /\ \A f \in Feeds, seq \in Stream : WF_arbVars(Ingest(f, seq))
  /\ WF_arbVars(TryDrainBuffered)

--------------------------------------------------------------------------------
(* Properties *)

TypeOK ==
  /\ expectedSeqNo \in Nat \ {0}
  /\ duplicatesDropped \in Nat /\ sequenceGapsDetected \in Nat
  /\ retransmitRequests \in Nat
  /\ gapBuffer \in [Slots -> [active : BOOLEAN, msg : Nat]]
  /\ published \in Nat
  /\ inFlight \subseteq Feeds \X Stream /\ lost \subseteq Feeds \X Stream
  /\ arrived \subseteq Stream
  /\ delivered \in Seq(Stream)
  /\ lead \in Nat

\* What the book is handed is the stream from its first message on: in sequence,
\* without repetition or omission, however the feeds reorder and lose copies.
InSequence ==
  /\ Len(delivered) = expectedSeqNo - 1
  /\ \A k \in 1 .. Len(delivered) : delivered[k] = k

\* A parked message is one that arrived, and lies in its own slot.
BufferHoldsArrivals ==
  \A s \in Slots : gapBuffer[s].active =>
    gapBuffer[s].msg \in arrived /\ s = Slot(gapBuffer[s].msg)

\* Nothing arrives that was not sent, and the exchange is at most lead ahead.
FeedsCarryStream ==
  /\ published < expectedSeqNo + lead
  /\ \A c \in inFlight : c[2] <= published
  /\ \A n \in arrived : n <= published

Parked(n) == gapBuffer[Slot(n)].active /\ gapBuffer[Slot(n)].msg = n

\* As long as the consumer was never more than MaxBufferedGaps messages behind, slots
\* do not collide: what arrived was delivered or waits in its slot.
NothingForgotten ==
  lead <= MaxBufferedGaps => \A n \in arrived : n < expectedSeqNo \/ Parked(n)

\* The inductive invariant.
ArbInv ==
  TypeOK /\ InSequence /\ BufferHoldsArrivals /\ FeedsCarryStream /\ NothingForgotten

Delivery == INSTANCE OrderedDelivery

\* Arbitration hands the book one stream in order, made of what arrived.
ImplementsDelivery == Delivery!Spec

LostOnAllFeeds(n) == \A f \in Feeds : <<f, n>> \in lost

\* The whole stream is delivered, unless a message is lost on every feed or the
\* consumer falls further behind than the buffer reaches.  (Then it may wait for ever:
\* nothing here gives up on a message or asks for it again.)
WholeStreamDelivered ==
  <>(\/ Len(delivered) = LastSeqNo
     \/ \E n \in Stream : LostOnAllFeeds(n)
     \/ lead > MaxBufferedGaps)

================================================================================
