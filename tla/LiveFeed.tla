-------------------------------- MODULE LiveFeed --------------------------------
(***************************************************************************)
(* Live mode end to end: a publisher (mock_exchange.cpp or                 *)
(* pcap_replayer.cpp) sends datagrams, a network that loses and reorders   *)
(* brings some of them to the socket (udp_receiver.hpp), the receiving     *)
(* thread of runLiveUDP (main.cpp) pushes them into the ring and its       *)
(* worker thread pops and processes.                                       *)
(*                                                                         *)
(* A message's 34 bytes are four segments, cut where the structs end and   *)
(* begin their fields, each marked with the message whose bytes it holds:  *)
(* the receive buffer is reused, so after a short datagram its tail still  *)
(* belongs to an older message.  The ring is the queue BoundedFifo, which  *)
(* SPSCRing implements for one producer, and one thread pushes here.  Of   *)
(* the book only the sequence check is kept.  Nothing ever clears running, *)
(* so neither loop ends.                                                   *)
(***************************************************************************)
EXTENDS WireProtocol, FiniteSets, FiniteSetsExt, SequencesExt

CONSTANTS
  Captures,     \* capture files: sequences of frames, see Extract
  SyntheticCount, \* messages the replayer makes up without a capture
  Capacity,     \* of the ring
  SocketRoom,   \* datagrams the kernel's receive buffer holds
  NoMessage,    \* a buffer never written
  MaxMessages   \* bound of the checked instances: messages of the mock exchange

WireMessages == [msgType : DOMAIN SizeOf, seqNo : Nat, orderId : Nat,
                 side : Sides \cup {""}, price : Int, quantity : Int]

ASSUME FeedAssumption ==
  /\ Capacity \in Nat \ {0} /\ SocketRoom \in Nat \ {0}
  /\ MaxMessages \in Nat /\ SyntheticCount \in Nat
  /\ \A capture \in Captures :
       capture \in Seq([messages : Seq(WireMessages), trailer : Nat])

VARIABLES
  toReplay,       \* messagesToReplay, from the next one on
  seqNo,          \* the mock exchange's next number, 0 when the replayer is the publisher
  activeOrders,   \* how many orders the mock exchange takes for live
  network,        \* datagrams under way, in the order of sending
  listening,      \* the socket is bound
  socket,         \* the kernel's queue
  packet, at,     \* the receiving thread: its buffer, and "bind", "receive" or "push"
  queue, delivered,     \* the ring, and what the worker took out of it
  expectedSeqNo, sequenceGapsDetected, totalMessagesProcessed,  \* of the book
  accepted,       \* history: numbers that reached the socket's queue
  overtaken       \* history: has a message overtaken another, in the network or already
                  \* in the capture?

publisherVars == <<toReplay, seqNo, activeOrders>>
bookVars == <<expectedSeqNo, sequenceGapsDetected, totalMessagesProcessed>>
feedVars == <<publisherVars, network, listening, socket, packet, at, queue, delivered,
              bookVars, accepted, overtaken>>

Segments == 1 .. 4
SegmentEnd == <<25, 29, 33, 34>>
Covered(bytes) == {s \in Segments : SegmentEnd[s] <= bytes}

Ring == INSTANCE BoundedFifo WITH
          Msgs <- [Segments -> WireMessages \cup {NoMessage}]

--------------------------------------------------------------------------------
(* The publishers *)

\* Bytes from the i-th message of a frame to the frame's end.  A frame is the messages
\* packed into one captured packet and the number of bytes after them.
BytesFrom(frame, i) ==
  frame.trailer + MapThenSumSet(LAMBDA k : SizeOf[frame.messages[k].msgType],
                                i .. Len(frame.messages))

\* The first message of a frame that validates.  Only offsets with a whole AddOrderMsg
\* after them are tried: a shorter message at the end of a frame is passed over, and so
\* is everything behind the first.  Offsets in the frame's headers and inside a message
\* are taken not to spell one.
Extract(frame) ==
  LET Found == {i \in DOMAIN frame.messages :
                  /\ BytesFrom(frame, i) >= SizeOf["A"]
                  /\ ValidateAndParse(frame.messages[i], BytesFrom(frame, i)) = "Valid"}
  IN  IF Found = {} THEN <<>> ELSE <<frame.messages[Min(Found)]>>

Synthetic ==
  [i \in 1 .. SyntheticCount |->
    LET k == (i - 1) % 10 IN
    IF k < 7 THEN Message("A", i, i, IF k % 2 = 0 THEN "B" ELSE "S", 100, 100)
    ELSE IF k < 9 THEN Message("X", i, 1, "", 0, 0)
    ELSE Message("E", i, 1, "", 100, 50)]

MessagesToReplay(capture) ==
  LET found == FlattenSeq([k \in DOMAIN capture |-> Extract(capture[k])])
  IN  IF found = <<>> THEN Synthetic ELSE found

Send(m, bytes) == network' = Append(network, [message |-> m, bytes |-> bytes])

\* The whole union is sent, with zeros behind a short message.
MockSends(type) ==
  /\ seqNo \in 1 .. MaxMessages
  /\ type # "A" => activeOrders > 0
  /\ activeOrders' \in CASE type = "A" -> {activeOrders + 1}
                         [] type = "X" -> {activeOrders, activeOrders - 1}
                         [] type = "E" -> {activeOrders}
  /\ Send(Message(type, seqNo, 1, IF type = "A" THEN "B" ELSE "",
                  IF type = "X" THEN 0 ELSE 100, 1), SizeOf["A"])
  /\ seqNo' = seqNo + 1
  /\ UNCHANGED <<toReplay, listening, socket, packet, at, queue, delivered, bookVars,
                 accepted, overtaken>>

ReplayerSends ==
  /\ toReplay # <<>>
  /\ Send(Head(toReplay), ExpectedSize(Head(toReplay).msgType))
  /\ toReplay' = Tail(toReplay)
  /\ UNCHANGED <<seqNo, activeOrders, listening, socket, packet, at, queue, delivered,
                 bookVars, accepted, overtaken>>

--------------------------------------------------------------------------------
(* The network and the kernel *)

\* A datagram reaches the host, perhaps before older ones.  It is lost when nobody
\* listens or the receive buffer is full.
Arrives(i) ==
  /\ network' = RemoveAt(network, i)
  /\ overtaken' = (overtaken \/ i > 1)
  /\ IF listening /\ Len(socket) < SocketRoom
     THEN /\ socket' = Append(socket, network[i])
          /\ accepted' = accepted \cup {network[i].message.seqNo}
     ELSE UNCHANGED <<socket, accepted>>
  /\ UNCHANGED <<publisherVars, listening, packet, at, queue, delivered, bookVars>>

Lost(i) ==
  /\ network' = RemoveAt(network, i)
  /\ UNCHANGED <<publisherVars, listening, socket, packet, at, queue, delivered,
                 bookVars, accepted, overtaken>>

--------------------------------------------------------------------------------
(* runLiveUDP *)

\* bind; on failure the program ends.
Bind ==
  /\ at = "bind"
  /\ \/ listening' = TRUE /\ at' = "receive"
     \/ listening' = FALSE /\ at' = "failed"
  /\ UNCHANGED <<publisherVars, network, socket, packet, queue, delivered, bookVars,
                 accepted, overtaken>>

\* recv overwrites as much of the buffer as the datagram has bytes.  With nothing waiting
\* the loop comes round again.
Receive ==
  /\ at = "receive" /\ socket # <<>>
  /\ packet' = [s \in Segments |-> IF s \in Covered(Head(socket).bytes)
                                   THEN Head(socket).message ELSE packet[s]]
  /\ socket' = Tail(socket)
  /\ at' = "push"
  /\ UNCHANGED <<publisherVars, network, listening, queue, delivered, bookVars,
                 accepted, overtaken>>

\* Mutant of Push: a full ring drops the packet.
PushOrDrop ==
  /\ at = "push"
  /\ Ring!Enqueue(packet) \/ (Len(queue) >= Capacity /\ UNCHANGED <<queue, delivered>>)
  /\ at' = "receive"
  /\ UNCHANGED <<publisherVars, network, listening, socket, packet, bookVars,
                 accepted, overtaken>>

\* while (!tryPush(packet)): nothing is received while the ring is full.
Push ==
  /\ at = "push"
  /\ Ring!Enqueue(packet)
  /\ at' = "receive"
  /\ UNCHANGED <<publisherVars, network, listening, socket, packet, bookVars,
                 accepted, overtaken>>

ReceivingThread == Bind \/ Receive \/ Push

\* Mutant of CheckSequence: a gap counted as one.
CheckSequenceOnce(n) ==
  /\ totalMessagesProcessed' = totalMessagesProcessed + 1
  /\ sequenceGapsDetected' = sequenceGapsDetected + (IF n > expectedSeqNo THEN 1 ELSE 0)
  /\ expectedSeqNo' = n + 1

\* The beginning of processMessage.
CheckSequence(n) ==
  /\ totalMessagesProcessed' = totalMessagesProcessed + 1
  /\ sequenceGapsDetected' =
       sequenceGapsDetected + (IF n > expectedSeqNo THEN n - expectedSeqNo ELSE 0)
  /\ expectedSeqNo' = n + 1

WorkerThread ==
  /\ Ring!Dequeue
  /\ CheckSequence(Head(queue)[1].seqNo)
  /\ UNCHANGED <<publisherVars, network, listening, socket, packet, at, accepted,
                 overtaken>>

--------------------------------------------------------------------------------

Init ==
  /\ \/ seqNo = 1 /\ toReplay = <<>>
     \/ seqNo = 0 /\ \E capture \in Captures : toReplay = MessagesToReplay(capture)
  /\ activeOrders = 0
  /\ network = <<>> /\ listening = FALSE /\ socket = <<>>
  /\ packet = [s \in Segments |-> NoMessage] /\ at = "bind"
  /\ Ring!Init
  /\ expectedSeqNo = 1 /\ sequenceGapsDetected = 0 /\ totalMessagesProcessed = 0
  /\ accepted = {}
  /\ overtaken = (\E j, k \in DOMAIN toReplay :
                    j < k /\ toReplay[j].seqNo >= toReplay[k].seqNo)

Network == \E i \in DOMAIN network : Arrives(i) \/ Lost(i)

Next ==
  \/ \E type \in {"A", "X", "E"} : MockSends(type)
  \/ ReplayerSends
  \/ Network
  \/ ReceivingThread
  \/ WorkerThread

\* Both threads of the engine run, and neither blocks but in its own spin.
Fairness == WF_feedVars(ReceivingThread) /\ WF_feedVars(WorkerThread)

Spec == Init /\ [][Next]_feedVars /\ Fairness

--------------------------------------------------------------------------------
(* Properties *)

\* Whatever short message follows a long one in the same buffer, every field the book
\* reads of a message comes from the datagram that brought the message: expectedSize,
\* by which the replayer sends, the structs the book casts to and the reused buffer agree.
WholeMessagesOnly ==
  \A k \in DOMAIN delivered :
    LET m == delivered[k][1] IN
    \A s \in Covered(SizeOf[m.msgType]) : delivered[k][s] = m

Processed == {delivered[k][1].seqNo : k \in DOMAIN delivered}
Missing == (1 .. expectedSeqNo - 1) \ Processed

\* The gap counter is an account of the losses on the way, in the network, before bind
\* and at the full socket alike: exact while datagrams keep their order, never too
\* small with those that overtake or are late, or of which the capture has two.
LossAccounted ==
  /\ sequenceGapsDetected >= Cardinality(Missing)
  /\ ~overtaken => sequenceGapsDetected = Cardinality(Missing)
  /\ totalMessagesProcessed = Len(delivered)

\* Behind the socket nothing is lost: what the kernel accepted is processed in the end,
\* although the receiving thread stops receiving while the ring is full.
AcceptedIsProcessed ==
  \A n \in 1 .. MaxMessages : n \in accepted ~> n \in Processed

================================================================================
