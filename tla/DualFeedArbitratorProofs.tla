------------------------ MODULE DualFeedArbitratorProofs ------------------------
(***************************************************************************)
(* Proofs about DualFeedArbitrator, for every buffer size, stream length   *)
(* and set of feeds.                                                       *)
(***************************************************************************)
EXTENDS DualFeedArbitrator, Arithmetic, SequenceTheorems, TLAPS

USE ArbitratorAssumption

LEMMA SlotInRange ==
  ASSUME NEW seq \in Nat
  PROVE  Slot(seq) \in Slots
BY DivMod DEF Slot, Slots

LEMMA SlotsDistinct ==
  ASSUME NEW a \in Nat, NEW b \in Nat, a # b,
         a - b < MaxBufferedGaps, b - a < MaxBufferedGaps
  PROVE  Slot(a) # Slot(b)
<1>0. MaxBufferedGaps \in Nat /\ MaxBufferedGaps >= 1 OBVIOUS
<1>1. CASE a < b BY <1>0, <1>1, RemaindersDistinct DEF Slot
<1>2. CASE b < a BY <1>0, <1>2, RemaindersDistinct DEF Slot
<1> QED BY <1>1, <1>2

--------------------------------------------------------------------------------

(* What holds also when slots collide                                      *)

StreamInv == TypeOK /\ InSequence /\ BufferHoldsArrivals /\ FeedsCarryStream

LEMMA InitStreamInv == Init => StreamInv
BY DEF Init, StreamInv, TypeOK, InSequence, BufferHoldsArrivals, FeedsCarryStream, Empty

\* Handing on the message next in line keeps the stream in sequence.
LEMMA DeliverNext ==
  ASSUME InSequence, delivered \in Seq(Stream), expectedSeqNo \in Nat \ {0},
         expectedSeqNo \in Stream,
         expectedSeqNo' = expectedSeqNo + 1,
         delivered' = Append(delivered, expectedSeqNo)
  PROVE  InSequence' /\ delivered' \in Seq(Stream)
<1>1. Len(delivered) = expectedSeqNo - 1 BY DEF InSequence
<1>2. /\ delivered' \in Seq(Stream) /\ Len(delivered') = expectedSeqNo
      /\ delivered'[expectedSeqNo] = expectedSeqNo
      /\ \A k \in 1 .. expectedSeqNo - 1 : delivered'[k] = delivered[k]
  BY <1>1
<1> QED BY <1>1, <1>2 DEF InSequence

LEMMA NextStreamInv == StreamInv /\ [Next]_arbVars => StreamInv'
<1> SUFFICES ASSUME StreamInv, [Next]_arbVars PROVE StreamInv' OBVIOUS
<1> USE DEF StreamInv
<1>1. CASE Publish
  <2> USE <1>1 DEF Publish, counters
  <2>1. published + 1 \in Stream BY DEF TypeOK, Stream
  <2>2. TypeOK'
    <3>1. lead' \in Nat BY DEF TypeOK
    <3> QED BY <2>1, <3>1 DEF TypeOK
  <2>3. InSequence' /\ BufferHoldsArrivals' BY DEF InSequence, BufferHoldsArrivals
  <2>4. FeedsCarryStream'
    <3>1. \A c \in inFlight' : c \in inFlight \/ c[2] = published + 1 OBVIOUS
    <3>2. \A c \in inFlight : c \in Feeds \X Stream BY DEF TypeOK
    <3>3. \A c \in inFlight : c[2] \in Nat BY <3>2 DEF Stream
    <3>4. arrived \subseteq Nat BY DEF TypeOK, Stream
    <3>5. published' < expectedSeqNo + lead' BY DEF FeedsCarryStream, TypeOK
    <3> QED BY <3>1, <3>3, <3>4, <3>5 DEF FeedsCarryStream, TypeOK
  <2> QED BY <2>2, <2>3, <2>4
<1>2. ASSUME NEW f \in Feeds, NEW seq \in Stream, Lose(f, seq) PROVE StreamInv'
  BY <1>2 DEF Lose, counters, TypeOK, InSequence, BufferHoldsArrivals, FeedsCarryStream
<1>3. ASSUME NEW f \in Feeds, NEW seq \in Stream, Arrives(f, seq)
      PROVE  /\ seq \in Nat /\ seq <= published /\ arrived' = arrived \cup {seq}
             /\ arrived' \subseteq Stream
             /\ inFlight' \subseteq inFlight /\ inFlight' \subseteq Feeds \X Stream
             /\ published' = published /\ lost' = lost /\ lead' = lead
             /\ \A n \in arrived' : n <= published
  BY <1>3 DEF Arrives, Stream, FeedsCarryStream, TypeOK
<1>4. ASSUME NEW f \in Feeds, NEW seq \in Stream, DropDuplicate(f, seq) PROVE StreamInv'
  <2> USE <1>4 DEF DropDuplicate
  <2>0. /\ seq \in Nat /\ seq <= published /\ arrived' = arrived \cup {seq}
        /\ arrived' \subseteq Stream
        /\ inFlight' \subseteq inFlight /\ inFlight' \subseteq Feeds \X Stream
        /\ published' = published /\ lost' = lost /\ lead' = lead
        /\ \A n \in arrived' : n <= published
    BY <1>3
  <2>1. TypeOK' BY <2>0 DEF TypeOK
  <2>2. InSequence' /\ BufferHoldsArrivals'
    BY <2>0 DEF InSequence, BufferHoldsArrivals
  <2>3. FeedsCarryStream' BY <2>0 DEF FeedsCarryStream
  <2> QED BY <2>1, <2>2, <2>3
<1>5. ASSUME NEW f \in Feeds, NEW seq \in Stream, PassInSequence(f, seq) PROVE StreamInv'
  <2> USE <1>5 DEF PassInSequence, counters
  <2>0. /\ seq \in Nat /\ seq <= published /\ arrived' = arrived \cup {seq}
        /\ arrived' \subseteq Stream
        /\ inFlight' \subseteq inFlight /\ inFlight' \subseteq Feeds \X Stream
        /\ published' = published /\ lost' = lost /\ lead' = lead
        /\ \A n \in arrived' : n <= published
    BY <1>3
  <2>1. InSequence' /\ delivered' \in Seq(Stream) BY DeliverNext DEF TypeOK
  <2>2. TypeOK' BY <2>0, <2>1 DEF TypeOK
  <2>3. BufferHoldsArrivals' BY <2>0 DEF BufferHoldsArrivals
  <2>4. FeedsCarryStream' BY <2>0 DEF FeedsCarryStream, TypeOK
  <2> QED BY <2>1, <2>2, <2>3, <2>4
<1>6. ASSUME NEW f \in Feeds, NEW seq \in Stream, BufferEarly(f, seq) PROVE StreamInv'
  <2> USE <1>6 DEF BufferEarly
  <2>0. /\ seq \in Nat /\ seq <= published /\ arrived' = arrived \cup {seq}
        /\ arrived' \subseteq Stream
        /\ inFlight' \subseteq inFlight /\ inFlight' \subseteq Feeds \X Stream
        /\ published' = published /\ lost' = lost /\ lead' = lead
        /\ \A n \in arrived' : n <= published
    BY <1>3
  <2>1. Slot(seq) \in Slots /\ seq - expectedSeqNo \in Nat
    BY <2>0, SlotInRange DEF TypeOK
  <2>2. TypeOK' BY <2>0, <2>1 DEF TypeOK
  <2>3. InSequence' BY DEF InSequence
  <2>4. BufferHoldsArrivals' BY <2>0, <2>1 DEF BufferHoldsArrivals, TypeOK
  <2>5. FeedsCarryStream' BY <2>0 DEF FeedsCarryStream
  <2> QED BY <2>2, <2>3, <2>4, <2>5
<1>7. CASE TryDrainBuffered
  <2> USE <1>7 DEF TryDrainBuffered, counters, feedVars
  <2>1. Slot(expectedSeqNo) \in Slots /\ expectedSeqNo \in Nat BY SlotInRange DEF TypeOK
  <2>2. expectedSeqNo \in arrived BY <2>1 DEF BufferHoldsArrivals
  <2>3. InSequence' /\ delivered' \in Seq(Stream)
    BY <2>2, DeliverNext DEF TypeOK
  <2>4. TypeOK'
    <3>1. gapBuffer' \in [Slots -> [active : BOOLEAN, msg : Nat]]
      BY <2>1 DEF TypeOK
    <3>2. expectedSeqNo' \in Nat \ {0} BY <2>1
    <3>3. UNCHANGED <<counters, feedVars, arrived>> OBVIOUS
    <3> HIDE DEF TryDrainBuffered
    <3> QED BY <2>3, <3>1, <3>2, <3>3 DEF TypeOK
  <2>5. BufferHoldsArrivals'
    <3>1. /\ arrived' = arrived
          /\ gapBuffer' = [gapBuffer EXCEPT ![Slot(expectedSeqNo)].active = FALSE]
      OBVIOUS
    <3>2. ASSUME NEW s \in Slots, gapBuffer'[s].active
          PROVE  gapBuffer[s].active /\ gapBuffer'[s].msg = gapBuffer[s].msg
      BY <2>1, <3>1, <3>2 DEF TypeOK
    <3> QED BY <3>1, <3>2 DEF BufferHoldsArrivals
  <2>6. FeedsCarryStream' BY DEF FeedsCarryStream, TypeOK
  <2> QED BY <2>3, <2>4, <2>5, <2>6
<1>8. CASE UNCHANGED arbVars
  BY <1>8 DEF arbVars, counters, feedVars, TypeOK, InSequence, BufferHoldsArrivals,
    FeedsCarryStream
<1> QED BY <1>1, <1>2, <1>4, <1>5, <1>6, <1>7, <1>8 DEF Next, Ingest

--------------------------------------------------------------------------------
(* A consumer that was never too far behind                                *)

LEMMA NextNothingForgotten ==
  ASSUME StreamInv, StreamInv', NothingForgotten, [Next]_arbVars
  PROVE  NothingForgotten'
<1> SUFFICES ASSUME lead' <= MaxBufferedGaps
             PROVE  \A n \in arrived' : n < expectedSeqNo' \/ Parked(n)'
  BY DEF NothingForgotten
<1>0. lead <= MaxBufferedGaps /\ lead \in Nat
  <2>1. lead \in Nat /\ lead' \in Nat /\ expectedSeqNo \in Nat /\ published \in Nat
    BY DEF StreamInv, TypeOK
  <2>2. CASE Publish BY <2>1, <2>2 DEF Publish
  <2>3. ASSUME NEW f \in Feeds, NEW seq \in Stream, Lose(f, seq) \/ Ingest(f, seq)
        PROVE  lead' = lead
    BY <2>3 DEF Lose, Ingest, DropDuplicate, PassInSequence, BufferEarly, Arrives
  <2>4. CASE TryDrainBuffered \/ UNCHANGED arbVars
    BY <2>1, <2>4 DEF TryDrainBuffered, arbVars, feedVars
  <2> QED BY <2>1, <2>2, <2>3, <2>4 DEF Next
<1>a. \A n \in arrived : n < expectedSeqNo \/ Parked(n)
  BY <1>0 DEF NothingForgotten
<1>1. /\ expectedSeqNo \in Nat \ {0} /\ published \in Nat
      /\ gapBuffer \in [Slots -> [active : BOOLEAN, msg : Nat]]
      /\ published < expectedSeqNo + lead
      /\ \A n \in arrived : n \in Nat /\ n <= published
  BY DEF StreamInv, TypeOK, FeedsCarryStream, Stream
<1>2. \A a, b \in expectedSeqNo .. published : a # b => Slot(a) # Slot(b)
  <2> SUFFICES ASSUME NEW a \in expectedSeqNo .. published,
                      NEW b \in expectedSeqNo .. published, a # b
               PROVE  Slot(a) # Slot(b)
    OBVIOUS
  <2>1. a \in Nat /\ b \in Nat /\ a - b < MaxBufferedGaps /\ b - a < MaxBufferedGaps
    BY <1>0, <1>1
  <2> QED BY <2>1, SlotsDistinct
<1>3. CASE UNCHANGED <<arrived, expectedSeqNo, gapBuffer>>
  BY <1>a, <1>3 DEF Parked
<1>4. ASSUME NEW f \in Feeds, NEW seq \in Stream, DropDuplicate(f, seq)
      PROVE  \A n \in arrived' : n < expectedSeqNo' \/ Parked(n)'
  BY <1>a, <1>1, <1>4 DEF DropDuplicate, Arrives, Parked
<1>5. ASSUME NEW f \in Feeds, NEW seq \in Stream, PassInSequence(f, seq)
      PROVE  \A n \in arrived' : n < expectedSeqNo' \/ Parked(n)'
  BY <1>a, <1>1, <1>5 DEF PassInSequence, Arrives, Stream, Parked
<1>6. ASSUME NEW f \in Feeds, NEW seq \in Stream, BufferEarly(f, seq)
      PROVE  \A n \in arrived' : n < expectedSeqNo' \/ Parked(n)'
  <2>1. /\ arrived' = arrived \cup {seq} /\ expectedSeqNo' = expectedSeqNo
        /\ gapBuffer' = [gapBuffer EXCEPT ![Slot(seq)] = [active |-> TRUE, msg |-> seq]]
        /\ seq > expectedSeqNo /\ seq \in Nat /\ published' = published
    BY <1>6 DEF BufferEarly, Arrives, Stream
  <2>2. seq <= published BY <2>1 DEF StreamInv, FeedsCarryStream
  <2>3. Slot(seq) \in Slots BY <2>1, SlotInRange
  <2>4. ASSUME NEW n \in arrived', n >= expectedSeqNo
        PROVE  gapBuffer'[Slot(n)].active /\ gapBuffer'[Slot(n)].msg = n
    <3>1. CASE n = seq BY <1>1, <2>1, <2>3, <3>1
    <3>2. CASE n # seq
      <4>1. n \in arrived /\ n \in expectedSeqNo .. published BY <1>1, <2>1, <2>4, <3>2
      <4>2. Slot(n) # Slot(seq) /\ Slot(n) \in Slots
        BY <1>1, <1>2, <2>1, <2>2, <3>2, <4>1, SlotInRange
      <4>3. gapBuffer[Slot(n)].active /\ gapBuffer[Slot(n)].msg = n
        BY <1>a, <1>1, <4>1 DEF Parked
      <4> QED BY <1>1, <2>1, <4>2, <4>3
    <3> QED BY <3>1, <3>2
  <2>5. \A n \in arrived' : n \in Nat BY <1>1, <2>1
  <2> QED BY <1>1, <2>1, <2>4, <2>5 DEF Parked
<1>7. CASE TryDrainBuffered
  <2>1. /\ arrived' = arrived /\ expectedSeqNo' = expectedSeqNo + 1
        /\ gapBuffer' = [gapBuffer EXCEPT ![Slot(expectedSeqNo)].active = FALSE]
        /\ gapBuffer[Slot(expectedSeqNo)].active
        /\ gapBuffer[Slot(expectedSeqNo)].msg = expectedSeqNo
    BY <1>7 DEF TryDrainBuffered
  <2>2. Slot(expectedSeqNo) \in Slots BY <1>1, SlotInRange
  <2>3. expectedSeqNo \in arrived BY <2>1, <2>2 DEF StreamInv, BufferHoldsArrivals
  <2>4. ASSUME NEW n \in arrived', n >= expectedSeqNo + 1
        PROVE  gapBuffer'[Slot(n)].active /\ gapBuffer'[Slot(n)].msg = n
    <3>1. n \in arrived /\ n \in expectedSeqNo .. published /\ n # expectedSeqNo
      BY <1>1, <2>1, <2>4
    <3>2. Slot(n) # Slot(expectedSeqNo) BY <1>1, <1>2, <2>3, <3>1
    <3>3. gapBuffer[Slot(n)].active /\ gapBuffer[Slot(n)].msg = n
      BY <1>a, <1>1, <3>1 DEF Parked
    <3>4. Slot(n) \in Slots BY <1>1, <3>1, SlotInRange
    <3> QED BY <1>1, <2>1, <3>2, <3>3, <3>4
  <2>5. \A n \in arrived' : n \in Nat BY <1>1, <2>1
  <2> QED BY <1>1, <2>1, <2>4, <2>5 DEF Parked
<1>8. CASE Publish BY <1>3, <1>8 DEF Publish
<1>9. ASSUME NEW f \in Feeds, NEW seq \in Stream, Lose(f, seq) PROVE \A n \in arrived' : n < expectedSeqNo' \/ Parked(n)'
  BY <1>3, <1>9 DEF Lose
<1>10. CASE UNCHANGED arbVars BY <1>3, <1>10 DEF arbVars
<1> QED BY <1>4, <1>5, <1>6, <1>7, <1>8, <1>9, <1>10 DEF Next, Ingest

\* ArbInv is an invariant of the arbitrator, whatever its feeds lose and reorder.
THEOREM ArbitratorInvariant == Spec => []ArbInv
<1>1. Init => StreamInv /\ NothingForgotten
  BY InitStreamInv DEF Init, NothingForgotten
<1>2. StreamInv /\ NothingForgotten /\ [Next]_arbVars => StreamInv' /\ NothingForgotten'
  BY NextStreamInv, NextNothingForgotten
<1>3. StreamInv /\ NothingForgotten => ArbInv BY DEF StreamInv, ArbInv
<1> QED BY <1>1, <1>2, <1>3, PTL DEF Spec

\* Numbers and counters never go below zero, whichever copy ingest gets: a gap is only
\* counted forwards, and the buffer holds numbers of the stream.
THEOREM ArbitratorTypes == Spec => []TypeOK
<1>1. ArbInv => TypeOK BY DEF ArbInv
<1> QED BY <1>1, ArbitratorInvariant, PTL

\* ingest and tryDrainBuffered hand on 1, 2, 3, ... with no repetition or omission,
\* also when the buffer collides and when both feeds lose a message.
THEOREM DeliveredInSequence == Spec => []InSequence
<1>1. ArbInv => InSequence BY DEF ArbInv
<1> QED BY <1>1, ArbitratorInvariant, PTL

\* With the consumer never more than MaxBufferedGaps messages behind, slots never
\* collide: whatever reached ingest was delivered or still waits in its slot.
THEOREM NoCollisionWithinBuffer == Spec => []NothingForgotten
<1>1. ArbInv => NothingForgotten BY DEF ArbInv
<1> QED BY <1>1, ArbitratorInvariant, PTL

--------------------------------------------------------------------------------

\* Arbitration implements the ordered channel: what it hands on is next in line and
\* came from a feed; losing, parking and dropping copies is invisible in it.
THEOREM ArbitratorImplementsDelivery == Spec => ImplementsDelivery
<1>1. Init => Delivery!Init BY DEF Init, Delivery!Init
<1>2. ArbInv /\ [Next]_arbVars => [Delivery!Next]_Delivery!deliveryVars
  <2> SUFFICES ASSUME ArbInv, [Next]_arbVars
               PROVE  Delivery!Next \/ UNCHANGED Delivery!deliveryVars
    OBVIOUS
  <2>1. Delivery!NextInLine = expectedSeqNo /\ expectedSeqNo \in Nat
    BY DEF ArbInv, TypeOK, InSequence, Delivery!NextInLine
  <2>2. ASSUME NEW f \in Feeds, NEW seq \in Stream, Ingest(f, seq)
        PROVE  Delivery!Arrive(seq)
    BY <2>1, <2>2
    DEF Ingest, DropDuplicate, PassInSequence, BufferEarly, Arrives, Delivery!Arrive
  <2>3. CASE TryDrainBuffered
    <3>1. expectedSeqNo \in arrived
      BY <2>1, <2>3, SlotInRange DEF TryDrainBuffered, ArbInv, BufferHoldsArrivals
    <3>2. Delivery!Deliver BY <2>1, <2>3, <3>1 DEF TryDrainBuffered, Delivery!Deliver
    <3> QED BY <3>2 DEF Delivery!Next
  <2>4. CASE Publish BY <2>4 DEF Publish, Delivery!deliveryVars
  <2>5. ASSUME NEW f \in Feeds, NEW seq \in Stream, Lose(f, seq)
        PROVE  UNCHANGED Delivery!deliveryVars
    BY <2>5 DEF Lose, Delivery!deliveryVars
  <2>6. CASE UNCHANGED arbVars BY <2>6 DEF arbVars, Delivery!deliveryVars
  <2> QED BY <2>2, <2>3, <2>4, <2>5, <2>6 DEF Next, Delivery!Next
<1> QED
  BY <1>1, <1>2, ArbitratorInvariant, PTL DEF Spec, ImplementsDelivery, Delivery!Spec

================================================================================
