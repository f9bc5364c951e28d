----------------------------- MODULE SPSCRingProofs -----------------------------
(***************************************************************************)
(* Proofs about SPSCRing, for every capacity, every set of items, fresh or *)
(* stale loads, and a single producer thread: the contract of the class;   *)
(* and about SPSCBenchmark, whose main thread is that producer, for every  *)
(* feed.                                                                   *)
(***************************************************************************)
EXTENDS SPSCBenchmark, Arithmetic, SequenceTheorems, TLAPS

USE CapacityAssumption, ParameterAssumption

--------------------------------------------------------------------------------
(* Indices less than Capacity apart lie in different slots.                *)

LEMMA SlotInRange ==
  ASSUME NEW a \in Nat
  PROVE  Slot(a) \in 0 .. Capacity - 1
BY DivMod DEF Slot

LEMMA SlotsDistinct ==
  ASSUME NEW a \in Nat, NEW b \in Nat, a < b, b - a < Capacity
  PROVE  Slot(a) # Slot(b)
<1>1. Capacity \in Nat /\ Capacity >= 1 OBVIOUS
<1> QED BY <1>1, RemaindersDistinct DEF Slot

--------------------------------------------------------------------------------

LEMMA InitRingInv == Init => RingInv
BY SlotInRange DEF Init, RingInv, TypeOK, CachesAreConservative, ConclusionsHold,
  SlotsHoldQueue, InOrderExactlyOnce, PushStates, PopStates

\* A load returns something between what was seen before and what is there now.
LEMMA VisibleRange ==
  ASSUME NEW last \in Nat, NEW newest \in Nat, last <= newest,
         NEW v \in Visible(last, newest)
  PROVE  v \in Nat /\ last <= v /\ v <= newest
BY DEF Visible

\* What the proof needs of the contract: no two threads are inside tryPush at once.
OneAtATime == \A p, q \in Producers : ppc[p] # "idle" /\ ppc[q] # "idle" => p = q

\* A step of a call of the class, whoever makes it.
RingStep ==
  \/ \E p \in Producers, m \in Msgs : PushCheck(p, m)
  \/ \E p \in Producers : PushStep(p)
  \/ Pop

LEMMA RingStepInv ==
  OneAtATime /\ OneAtATime' /\ RingInv /\ [RingStep]_ringVars => RingInv'
<1> SUFFICES ASSUME OneAtATime, OneAtATime', RingInv, [RingStep]_ringVars
             PROVE  RingInv'
  OBVIOUS
<1> USE DEF RingInv, PushStates, PopStates
<1>1. ASSUME NEW p \in Producers, NEW m \in Msgs, PushCheck(p, m) PROVE RingInv'
  <2> USE <1>1 DEF PushCheck, consumerVars
  <2>1. TypeOK' BY DEF TypeOK
  <2>2. CachesAreConservative' BY DEF CachesAreConservative
  <2>0. \A q \in Producers : q # p => ppc'[q] = "idle"
    BY <2>1 DEF OneAtATime, TypeOK
  <2>3. ConclusionsHold'
    BY <2>0 DEF TypeOK, ConclusionsHold, CachesAreConservative, NoRoom
  <2>4. SlotsHoldQueue' BY DEF SlotsHoldQueue
  <2>5. InOrderExactlyOnce' BY DEF InOrderExactlyOnce
  <2> QED BY <2>1, <2>2, <2>3, <2>4, <2>5
<1>2. ASSUME NEW p \in Producers, NEW t \in Visible(cachedTail, tail),
             PushRefresh(p, t) \/ PushFull(p, t)
      PROVE RingInv'
  <2> USE <1>2 DEF PushRefresh, PushFull, consumerVars
  <2>1. t \in Nat /\ cachedTail <= t /\ t <= tail
    BY VisibleRange DEF TypeOK, CachesAreConservative
  <2>2. TypeOK' BY <2>1 DEF TypeOK
  <2>3. CachesAreConservative' BY <2>1 DEF CachesAreConservative
  <2>0. \A q \in Producers : q # p => ppc'[q] = "idle"
    BY DEF OneAtATime, TypeOK
  <2>a. currentHead[p] = head /\ ppc'[p] \in {"write", "idle"} /\ cachedTail' = t
    BY DEF TypeOK, ConclusionsHold
  <2>b. ppc'[p] = "write" => head - cachedTail' < Capacity
    BY <2>a, <2>1 DEF TypeOK, NoRoom
  <2>c. UNCHANGED <<head, tail, cachedHead, buffer, currentHead, pmsg, sent, cpc, item>>
    OBVIOUS
  <2>4. ConclusionsHold' BY <2>0, <2>a, <2>b, <2>c DEF ConclusionsHold
  <2>5. SlotsHoldQueue' BY DEF SlotsHoldQueue
  <2>6. InOrderExactlyOnce' BY DEF InOrderExactlyOnce
  <2> QED BY <2>2, <2>3, <2>4, <2>5, <2>6
<1>3. ASSUME NEW p \in Producers, PushWrite(p) PROVE RingInv'
  <2> USE <1>3 DEF PushWrite, consumerVars
  <2>1. currentHead[p] = head /\ head - tail < Capacity /\ head \in Nat /\ tail \in Nat
    BY DEF ConclusionsHold, CachesAreConservative, TypeOK
  <2>2. Slot(head) \in 0 .. Capacity - 1 BY <2>1, SlotInRange
  <2>3. TypeOK' BY <2>1, <2>2 DEF TypeOK
  <2>4. CachesAreConservative' BY DEF CachesAreConservative
  <2>0. \A q \in Producers : q # p => ppc'[q] = "idle"
    BY DEF OneAtATime, TypeOK
  <2>5. ConclusionsHold' BY <2>0, <2>1, <2>2 DEF TypeOK, ConclusionsHold
  <2>6. ASSUME NEW k \in tail .. head - 1 PROVE buffer'[Slot(k)] = buffer[Slot(k)]
    <3>1. Slot(k) # Slot(head) BY <2>1, SlotsDistinct
    <3> QED BY <2>1, <3>1 DEF TypeOK
  <2>7. SlotsHoldQueue' BY <2>6 DEF SlotsHoldQueue
  <2>8. InOrderExactlyOnce' BY DEF InOrderExactlyOnce
  <2> QED BY <2>3, <2>4, <2>5, <2>7, <2>8
<1>4. ASSUME NEW p \in Producers, PushPublish(p) PROVE RingInv'
  <2> USE <1>4 DEF PushPublish, consumerVars
  <2>1. /\ currentHead[p] = head /\ head \in Nat /\ tail \in Nat
        /\ head - tail < Capacity /\ tail <= head
        /\ buffer[Slot(head)] = pmsg[p]
        /\ Len(sent) = head /\ pmsg[p] \in Msgs
        /\ sent \in Seq(Msgs)
    BY DEF ConclusionsHold, CachesAreConservative, SlotsHoldQueue, TypeOK
  <2>2. /\ sent' \in Seq(Msgs) /\ Len(sent') = head + 1
        /\ sent'[head + 1] = pmsg[p]
        /\ \A k \in 1 .. head : sent'[k] = sent[k]
    BY <2>1
  <2>3. TypeOK' BY <2>1, <2>2 DEF TypeOK
  <2>4. CachesAreConservative' BY <2>1 DEF CachesAreConservative, TypeOK
  <2>0. \A q \in Producers : q # p => ppc'[q] = "idle"
    BY DEF OneAtATime, TypeOK
  <2>5. ConclusionsHold'
    BY <2>0, <2>1, <2>2 DEF TypeOK, ConclusionsHold, CachesAreConservative
  <2>6. SlotsHoldQueue' BY <2>1, <2>2 DEF SlotsHoldQueue
  <2>7. InOrderExactlyOnce' BY <2>1, <2>2 DEF InOrderExactlyOnce, SlotsHoldQueue
  <2> QED BY <2>3, <2>4, <2>5, <2>6, <2>7
<1>5. ASSUME PopCheck PROVE RingInv'
  <2> USE <1>5 DEF PopCheck, producerVars
  <2>1. TypeOK' BY DEF TypeOK
  <2>2. CachesAreConservative' BY DEF CachesAreConservative
  <2>3. ConclusionsHold' BY DEF TypeOK, ConclusionsHold, CachesAreConservative
  <2>4. SlotsHoldQueue' BY DEF SlotsHoldQueue
  <2>5. InOrderExactlyOnce' BY DEF InOrderExactlyOnce
  <2> QED BY <2>1, <2>2, <2>3, <2>4, <2>5
<1>6. ASSUME NEW h \in Visible(cachedHead, head), PopRefresh(h) \/ PopEmpty(h)
      PROVE RingInv'
  <2> USE <1>6 DEF PopRefresh, PopEmpty, producerVars
  <2>1. h \in Nat /\ cachedHead <= h /\ h <= head
    BY VisibleRange DEF TypeOK, CachesAreConservative
  <2>2. TypeOK' BY <2>1 DEF TypeOK
  <2>3. CachesAreConservative' BY <2>1 DEF CachesAreConservative, TypeOK
  <2>4. ConclusionsHold'
    <3>1. cpc' = "read" => tail' < cachedHead'
      BY <2>1 DEF TypeOK, CachesAreConservative
    <3>2. cpc' \in {"idle", "read"} BY DEF TypeOK
    <3>3. /\ ppc' = ppc /\ currentHead' = currentHead /\ head' = head
          /\ cachedTail' = cachedTail /\ buffer' = buffer /\ pmsg' = pmsg
      OBVIOUS
    <3> QED BY <3>1, <3>2, <3>3 DEF ConclusionsHold
  <2>5. SlotsHoldQueue' BY DEF SlotsHoldQueue
  <2>6. InOrderExactlyOnce' BY DEF InOrderExactlyOnce
  <2> QED BY <2>2, <2>3, <2>4, <2>5, <2>6
<1>7. ASSUME PopRead PROVE RingInv'
  <2> USE <1>7 DEF PopRead, producerVars
  <2>1. tail \in Nat /\ head \in Nat /\ tail < head
    BY DEF TypeOK, ConclusionsHold, CachesAreConservative
  <2>2. Slot(tail) \in 0 .. Capacity - 1 BY <2>1, SlotInRange
  <2>3. item' = sent[tail + 1] BY <2>1 DEF SlotsHoldQueue
  <2>4. TypeOK' BY <2>2 DEF TypeOK
  <2>5. CachesAreConservative' BY DEF CachesAreConservative
  <2>6. ConclusionsHold' BY <2>3 DEF ConclusionsHold
  <2>7. SlotsHoldQueue' BY DEF SlotsHoldQueue
  <2>8. InOrderExactlyOnce' BY DEF InOrderExactlyOnce
  <2> QED BY <2>4, <2>5, <2>6, <2>7, <2>8
<1>8. ASSUME PopRelease PROVE RingInv'
  <2> USE <1>8 DEF PopRelease, producerVars
  <2>1. /\ tail \in Nat /\ head \in Nat /\ cachedHead \in Nat /\ tail < cachedHead
        /\ cachedHead <= head
        /\ item = sent[tail + 1] /\ Len(received) = tail /\ Len(sent) = head
        /\ sent \in Seq(Msgs) /\ received \in Seq(Msgs)
    BY DEF TypeOK, ConclusionsHold, CachesAreConservative, SlotsHoldQueue
  <2>0. item \in Msgs BY <2>1, ElementOfSeq
  <2>2. /\ received' \in Seq(Msgs) /\ Len(received') = tail + 1
        /\ received'[tail + 1] = sent[tail + 1]
        /\ \A k \in 1 .. tail : received'[k] = received[k]
    BY <2>0, <2>1
  <2>3. TypeOK' BY <2>1, <2>2 DEF TypeOK
  <2>4. CachesAreConservative' BY <2>1 DEF CachesAreConservative, TypeOK
  <2>5. ConclusionsHold' BY <2>1 DEF ConclusionsHold
  <2>6. SlotsHoldQueue' BY <2>1, <2>2 DEF SlotsHoldQueue
  <2>7. InOrderExactlyOnce' BY <2>1, <2>2 DEF InOrderExactlyOnce
  <2> QED BY <2>3, <2>4, <2>5, <2>6, <2>7
<1>9. CASE UNCHANGED ringVars
  BY <1>9 DEF ringVars, producerVars, consumerVars, TypeOK, CachesAreConservative,
    ConclusionsHold, SlotsHoldQueue, InOrderExactlyOnce
<1> QED
  BY <1>1, <1>2, <1>3, <1>4, <1>5, <1>6, <1>7, <1>8, <1>9
  DEF RingStep, Pop, PushStep, PopStep

LEMMA NextIsRingStep == Next => RingStep
BY DEF Next, RingStep, Push

LEMMA NextRingInv ==
  ASSUME OneProducer
  PROVE  RingInv /\ [Next]_ringVars => RingInv'
<1>1. OneAtATime /\ OneAtATime' BY DEF OneProducer, OneAtATime
<1> QED BY <1>1, NextIsRingStep, RingStepInv

\* RingInv is an invariant of the ring: both sides' cached indices are conservative,
\* what a side concluded stays true, the slots hold what is queued.
THEOREM RingInvariant ==
  ASSUME OneProducer
  PROVE  Spec => []RingInv
<1>1. Init => RingInv BY InitRingInv
<1>2. RingInv /\ [Next]_ringVars => RingInv' BY NextRingInv
<1> QED BY <1>1, <1>2, PTL DEF Spec

\* What the consumer was handed is what was published, in order, each item once:
\* tryPush never overwrites a slot that tryPop has yet to read.
THEOREM InOrderDelivery ==
  ASSUME OneProducer
  PROVE  Spec => []InOrderExactlyOnce
<1>1. RingInv => InOrderExactlyOnce BY DEF RingInv
<1> QED BY <1>1, RingInvariant, PTL

LEMMA RingInvNoRace == RingInv => NoSlotRace
<1> SUFFICES ASSUME RingInv, NEW p \in Producers, ppc[p] = "write", cpc = "read"
             PROVE  Slot(currentHead[p]) # Slot(tail)
  BY DEF NoSlotRace
<1>1. /\ head \in Nat /\ tail \in Nat /\ cachedTail \in Nat /\ cachedHead \in Nat
      /\ currentHead[p] = head /\ head - cachedTail < Capacity
      /\ cachedTail <= tail /\ tail < cachedHead /\ cachedHead <= head
  BY DEF RingInv, TypeOK, ConclusionsHold, CachesAreConservative
<1>2. tail < head /\ head - tail < Capacity BY <1>1
<1> QED BY <1>1, <1>2, SlotsDistinct

\* The copy into a slot and the copy out of it never overlap on one slot, so the
\* plain accesses to buffer_ are free of data races.
THEOREM SlotsNeverRace ==
  ASSUME OneProducer
  PROVE  Spec => []NoSlotRace
BY RingInvNoRace, RingInvariant, PTL

--------------------------------------------------------------------------------
(* The ring implements the queue: publishing is Enqueue, releasing is      *)
(* Dequeue, every other step changes nothing the queue can see.            *)

LEMMA QueueIsSeq ==
  ASSUME RingInv
  PROVE  /\ Queue \in Seq(Msgs)
         /\ Len(Queue) = head - tail
         /\ \A j \in 1 .. head - tail : Queue[j] = sent[tail + j]
<1>1. head - tail \in Nat /\ head \in Nat /\ tail \in Nat
  BY DEF RingInv, TypeOK, CachesAreConservative
<1>2. \A j \in 1 .. head - tail : tail + j \in 1 .. Len(sent)
  BY <1>1 DEF RingInv, SlotsHoldQueue
<1>3. \A j \in 1 .. head - tail : sent[tail + j] \in Msgs
  BY <1>2, ElementOfSeq DEF RingInv, TypeOK
<1> QED BY <1>1, <1>3 DEF Queue

LEMMA PublishIsEnqueue ==
  ASSUME RingInv, RingInv', NEW p \in Producers, PushPublish(p)
  PROVE  pmsg[p] \in Msgs /\ Fifo!Enqueue(pmsg[p])
<1>a. head \in Nat /\ tail \in Nat /\ cachedTail \in Nat /\ sent \in Seq(Msgs)
  BY DEF RingInv, TypeOK
<1>b. /\ ppc[p] = "publish" /\ head' = currentHead[p] + 1
      /\ tail' = tail /\ received' = received /\ sent' = Append(sent, pmsg[p])
  BY DEF PushPublish, consumerVars
<1>c. pmsg[p] \in Msgs BY <1>b DEF RingInv, TypeOK
<1>d. currentHead[p] = head /\ head - cachedTail < Capacity
  BY <1>b DEF RingInv, ConclusionsHold
<1>e. cachedTail <= tail /\ tail <= head
  BY <1>a DEF RingInv, TypeOK, CachesAreConservative
<1>f. Len(sent) = head BY DEF RingInv, SlotsHoldQueue
<1>g. head - tail < Capacity BY <1>a, <1>d, <1>e, CapacityAssumption
<1>1. /\ head \in Nat /\ tail \in Nat /\ tail <= head /\ head - tail < Capacity
      /\ head' = head + 1 /\ tail' = tail /\ received' = received
      /\ Len(sent) = head /\ sent \in Seq(Msgs)
      /\ sent' = Append(sent, pmsg[p]) /\ pmsg[p] \in Msgs
  BY <1>a, <1>b, <1>c, <1>d, <1>e, <1>f, <1>g
<1>2. Len(Queue) < Capacity BY <1>1, QueueIsSeq
<1>3. Queue' = Append(Queue, pmsg[p])
  <2>1. Append(Queue, pmsg[p]) =
          [j \in 1 .. head - tail + 1 |->
             IF j = head - tail + 1 THEN pmsg[p] ELSE Queue[j]]
    BY <1>1, QueueIsSeq
  <2>2. \A j \in 1 .. head - tail : sent'[tail + j] = sent[tail + j] BY <1>1
  <2>3. sent'[head + 1] = pmsg[p] BY <1>1
  <2>4. Queue' = [j \in 1 .. head - tail + 1 |-> sent'[tail + j]] BY <1>1 DEF Queue
  <2>5. \A j \in 1 .. head - tail + 1 :
          sent'[tail + j] = IF j = head - tail + 1 THEN pmsg[p] ELSE Queue[j]
    BY <1>1, <2>2, <2>3, QueueIsSeq
  <2> QED BY <2>1, <2>4, <2>5
<1> QED BY <1>1, <1>2, <1>3 DEF Fifo!Enqueue

LEMMA ReleaseIsDequeue ==
  ASSUME RingInv, RingInv', PopRelease
  PROVE  Fifo!Dequeue
<1>1. /\ head \in Nat /\ tail \in Nat /\ tail < head
      /\ head' = head /\ tail' = tail + 1 /\ sent' = sent
      /\ Len(sent) = head /\ sent \in Seq(Msgs)
      /\ received' = Append(received, sent[tail + 1])
  BY DEF RingInv, TypeOK, ConclusionsHold, CachesAreConservative, SlotsHoldQueue,
    PopRelease, producerVars
<1>2. Queue # <<>> /\ Head(Queue) = sent[tail + 1] BY <1>1, QueueIsSeq
<1>3. Queue' = Tail(Queue)
  <2>a. /\ Queue \in Seq(Msgs) /\ Len(Queue) = head - tail
        /\ \A j \in 1 .. head - tail : Queue[j] = sent[tail + j]
    BY QueueIsSeq
  <2>b. /\ Tail(Queue) \in Seq(Msgs) /\ Len(Tail(Queue)) = Len(Queue) - 1
        /\ \A j \in 1 .. Len(Tail(Queue)) : Tail(Queue)[j] = Queue[j + 1]
    BY <1>2, <2>a, HeadTailProperties
  <2>c. ASSUME NEW j \in 1 .. head - tail - 1 PROVE Tail(Queue)[j] = sent[tail + 1 + j]
    <3>1. j \in Nat /\ j + 1 \in 1 .. head - tail /\ tail + (j + 1) = tail + 1 + j
      BY <1>1
    <3> QED BY <2>a, <2>b, <3>1
  <2>1. /\ Tail(Queue) \in Seq(Msgs)
        /\ Len(Tail(Queue)) = head - tail - 1
        /\ \A j \in 1 .. head - tail - 1 : Tail(Queue)[j] = sent[tail + 1 + j]
    BY <2>a, <2>b, <2>c
  <2>2. /\ Queue' \in Seq(Msgs)
        /\ Len(Queue') = head - tail - 1
        /\ \A j \in 1 .. head - tail - 1 : Queue'[j] = sent[tail + 1 + j]
    <3>1. Queue' = [j \in 1 .. head - tail - 1 |-> sent[tail + 1 + j]]
      BY <1>1 DEF Queue
    <3>2. \A j \in 1 .. head - tail - 1 : sent[tail + 1 + j] \in Msgs
      BY <1>1, ElementOfSeq
    <3> QED BY <1>1, <3>1, <3>2
  <2> QED BY <2>1, <2>2, SeqEqual
<1> QED BY <1>1, <1>2, <1>3 DEF Fifo!Dequeue

LEMMA RingStepFifo ==
  RingInv /\ RingInv' /\ [RingStep]_ringVars => [Fifo!Next]_Fifo!fifoVars
<1> SUFFICES ASSUME RingInv, RingInv', [RingStep]_ringVars
             PROVE  Fifo!Next \/ UNCHANGED Fifo!fifoVars
  OBVIOUS
<1>1. ASSUME UNCHANGED <<head, tail, sent, received>>
      PROVE  UNCHANGED Fifo!fifoVars
  BY <1>1 DEF Fifo!fifoVars, Queue
<1>2. ASSUME NEW p \in Producers, PushPublish(p) PROVE Fifo!Next
  BY <1>2, PublishIsEnqueue DEF Fifo!Next
<1>3. ASSUME PopRelease PROVE Fifo!Next
  BY <1>3, ReleaseIsDequeue DEF Fifo!Next
<1>4. CASE UNCHANGED ringVars
  BY <1>1, <1>4 DEF ringVars, producerVars, consumerVars
<1>5. ASSUME NEW p \in Producers, NEW m \in Msgs, PushCheck(p, m)
      PROVE  UNCHANGED Fifo!fifoVars
  BY <1>1, <1>5 DEF PushCheck, consumerVars
<1>6. ASSUME NEW p \in Producers, PushStep(p)
      PROVE  Fifo!Next \/ UNCHANGED Fifo!fifoVars
  BY <1>1, <1>2, <1>6 DEF PushStep, PushRefresh, PushFull, PushWrite, consumerVars
<1>7. CASE Pop
  BY <1>1, <1>3, <1>7
  DEF Pop, PopStep, PopCheck, PopRefresh, PopEmpty, PopRead, producerVars
<1> QED BY <1>4, <1>5, <1>6, <1>7 DEF RingStep

LEMMA InitFifo == Init => Fifo!Init
BY DEF Init, Fifo!Init, Queue

\* The ring, with its cached indices, its loads that may be stale and its copies in
\* steps of their own, does what BoundedFifo promises and nothing else.
THEOREM RingImplementsFifo ==
  ASSUME OneProducer
  PROVE  Spec => ImplementsFifo
<1>1. RingInv /\ RingInv' /\ [Next]_ringVars => [Fifo!Next]_Fifo!fifoVars
  BY NextIsRingStep, RingStepFifo
<1> QED BY <1>1, InitFifo, RingInvariant, PTL DEF Spec, ImplementsFifo, Fifo!Spec

--------------------------------------------------------------------------------
(* The benchmark: its main thread is the one that calls tryPush.           *)

LEMMA BenchConstants == Feed \in Seq(Msgs) /\ Main \in Producers
BY FeedAssumption

LEMMA FeedIsMsgs ==
  ASSUME NEW n \in Nat, n < messageCount
  PROVE  Feed[n + 1] \in Msgs
BY BenchConstants, ElementOfSeq DEF messageCount

\* Every step of the benchmark is a step of the ring or leaves it alone, and nobody
\* but the main thread is ever inside tryPush.
LEMMA BenchIsRingStep ==
  RingInv /\ OnlyMainPushes /\ FeedInOrder /\ [BenchNext]_benchVars
    => [RingStep]_ringVars /\ OnlyMainPushes'
<1> SUFFICES ASSUME RingInv, OnlyMainPushes, FeedInOrder, [BenchNext]_benchVars
             PROVE  [RingStep]_ringVars /\ OnlyMainPushes'
  OBVIOUS
<1> USE BenchConstants
<1>1. pushed \in Nat /\ messageCount \in Nat /\ ppc \in [Producers -> PushStates]
  BY DEF FeedInOrder, RingInv, TypeOK, messageCount
<1>2. ASSUME UNCHANGED ringVars PROVE [RingStep]_ringVars /\ OnlyMainPushes'
  BY <1>2 DEF ringVars, producerVars, OnlyMainPushes
<1>3. CASE CallTryPush
  <2>1. Feed[pushed + 1] \in Msgs BY <1>1, <1>3, FeedIsMsgs DEF CallTryPush
  <2>2. PushCheck(Main, Feed[pushed + 1]) BY <1>3 DEF CallTryPush
  <2> QED BY <1>1, <2>1, <2>2 DEF RingStep, PushCheck, OnlyMainPushes
<1>4. CASE InsideTryPush
  <2>1. PushStep(Main) BY <1>4 DEF InsideTryPush
  <2>2. OnlyMainPushes'
    BY <1>1, <2>1
    DEF PushStep, PushRefresh, PushFull, PushWrite, PushPublish, OnlyMainPushes
  <2> QED BY <2>1, <2>2 DEF RingStep
<1>5. ASSUME Pop PROVE [RingStep]_ringVars /\ OnlyMainPushes'
  BY <1>5 DEF RingStep, OnlyMainPushes, Pop, PopStep, PopCheck, PopRefresh, PopEmpty,
    PopRead, PopRelease, producerVars
<1>6. CASE CallTryPop BY <1>5, <1>6 DEF CallTryPop, Pop
<1>7. CASE InsideTryPop BY <1>5, <1>7 DEF InsideTryPop, Pop
<1>8. CASE Start \/ Finish \/ Join \/ AwaitStart \/ Done \/ UNCHANGED benchVars
  BY <1>2, <1>8 DEF Start, Finish, Join, AwaitStart, Done, benchVars
<1>9. ASSUME NEW seen \in VisibleFinished, TestFinished(seen) \/ TestEmpty(head)
      PROVE  [RingStep]_ringVars /\ OnlyMainPushes'
  BY <1>2, <1>9 DEF TestFinished, TestEmpty
<1>10. VisibleFinished # {} BY DEF VisibleFinished
<1> QED BY <1>3, <1>4, <1>6, <1>7, <1>8, <1>9, <1>10
  DEF BenchNext, BenchMain, BenchConsumer

LEMMA BenchNextInv == BenchInv /\ [BenchNext]_benchVars => BenchInv'
<1> SUFFICES ASSUME BenchInv, [BenchNext]_benchVars PROVE BenchInv'
  OBVIOUS
<1> USE BenchConstants
<1>1. RingInv /\ OnlyMainPushes /\ FeedInOrder /\ FinishedMeansAll BY DEF BenchInv
<1>2. [RingStep]_ringVars /\ OnlyMainPushes' BY <1>1, BenchIsRingStep
<1>3. OneAtATime /\ OneAtATime' BY <1>1, <1>2 DEF OnlyMainPushes, OneAtATime
<1>4. RingInv' BY <1>1, <1>2, <1>3, RingStepInv
<1>5. /\ pushed \in Nat /\ messageCount \in Nat /\ ppc \in [Producers -> PushStates]
      /\ pmsg \in [Producers -> Msgs \cup {NoMsg}] /\ pushed = head
      /\ head <= messageCount /\ tail \in Nat /\ tail <= head
      /\ sent \in Seq(Msgs) /\ Len(sent) = head
      /\ \A k \in 1 .. Len(sent) : sent[k] = Feed[k]
      /\ ppc[Main] # "idle" =>
           pushed < messageCount /\ pmsg[Main] = Feed[pushed + 1]
           /\ currentHead[Main] = head
  BY <1>1 DEF RingInv, TypeOK, CachesAreConservative, ConclusionsHold, SlotsHoldQueue,
    FeedInOrder, messageCount
<1>6. SUFFICES FeedInOrder' /\ FinishedMeansAll' BY <1>2, <1>4 DEF BenchInv
<1>7. ASSUME UNCHANGED ringVars, UNCHANGED pushed PROVE FeedInOrder'
  BY <1>7, <1>1 DEF FeedInOrder, ringVars, producerVars, messageCount
<1>8. CASE Start
  BY <1>1, <1>7, <1>8
  DEF Start, FinishedMeansAll, ringVars, producerVars, consumerVars, messageCount
<1>9. CASE CallTryPush
  <2>1. PushCheck(Main, Feed[pushed + 1]) /\ pushed < messageCount /\ UNCHANGED flags
    BY <1>9 DEF CallTryPush
  <2>2. FeedInOrder' BY <1>5, <2>1 DEF PushCheck, FeedInOrder, flags, messageCount
  <2>3. FinishedMeansAll'
    BY <1>1, <2>1 DEF PushCheck, FinishedMeansAll, flags, messageCount, consumerVars
  <2> QED BY <2>2, <2>3
<1>10. CASE InsideTryPush
  <2>1. /\ PushStep(Main) /\ ppc[Main] # "idle"
        /\ pushed' = IF ppc[Main] = "publish" THEN pushed + 1 ELSE pushed
        /\ UNCHANGED <<producerFinished, consumerThread, consumerVars>>
    BY <1>10 DEF InsideTryPush, PushStep, PushRefresh, PushFull, PushWrite, PushPublish
  <2>2. CASE PushPublish(Main)
    <3>1. /\ head' = head + 1 /\ pushed' = pushed + 1 /\ ppc'[Main] = "idle"
          /\ sent' = Append(sent, Feed[head + 1]) /\ Feed[head + 1] \in Msgs
      BY <1>5, <2>1, <2>2, FeedIsMsgs DEF PushPublish
    <3>2. /\ Len(sent') = head + 1 /\ sent'[head + 1] = Feed[head + 1]
          /\ \A k \in 1 .. head : sent'[k] = sent[k]
      BY <1>5, <3>1
    <3>3. FeedInOrder' BY <1>5, <2>1, <3>1, <3>2 DEF FeedInOrder, messageCount
    <3>4. ~producerFinished BY <1>1, <1>5, <2>1 DEF FinishedMeansAll
    <3> QED BY <1>1, <2>1, <3>3, <3>4 DEF FinishedMeansAll, consumerVars
  <2>3. CASE ~PushPublish(Main)
    <3>1. /\ ppc[Main] # "publish" /\ UNCHANGED <<head, sent, pmsg>>
      BY <1>5, <2>1, <2>3 DEF PushStep, PushRefresh, PushFull, PushWrite, PushPublish
    <3>2. FeedInOrder' BY <1>5, <2>1, <3>1 DEF FeedInOrder, messageCount
    <3> QED BY <1>1, <2>1, <3>1, <3>2 DEF FinishedMeansAll, consumerVars, messageCount
  <2> QED BY <2>2, <2>3
<1>11. CASE Finish
  BY <1>1, <1>7, <1>11
  DEF Finish, FinishedMeansAll, ringVars, producerVars, consumerVars, messageCount
<1>12. CASE Join \/ AwaitStart
  BY <1>1, <1>7, <1>12
  DEF Join, AwaitStart, FinishedMeansAll, ringVars, producerVars, consumerVars, messageCount
<1>13. ASSUME NEW seen \in VisibleFinished, TestFinished(seen)
       PROVE  FeedInOrder' /\ FinishedMeansAll'
  <2>1. seen => producerFinished BY DEF VisibleFinished
  <2> QED BY <1>1, <1>7, <1>13, <2>1
    DEF TestFinished, FinishedMeansAll, ringVars, producerVars, consumerVars, messageCount
<1>14. CASE TestEmpty(head)
  BY <1>1, <1>7, <1>14
  DEF TestEmpty, FinishedMeansAll, ringVars, producerVars, consumerVars, messageCount
<1>15. CASE CallTryPop \/ InsideTryPop
  <2>1. /\ UNCHANGED <<producerVars, producerFinished, pushed>>
        /\ consumerThread' = "popping" \/ (cpc' = "idle" /\ consumerThread' = "finished?")
    BY <1>15 DEF CallTryPop, InsideTryPop, PopCheck, PopStep, PopRefresh, PopEmpty,
      PopRead, PopRelease
  <2>2. FeedInOrder' BY <1>1, <2>1 DEF FeedInOrder, producerVars, messageCount
  <2> QED BY <1>1, <2>1, <2>2 DEF FinishedMeansAll, messageCount
<1>16. CASE Done \/ UNCHANGED benchVars
  BY <1>1, <1>7, <1>16 DEF Done, benchVars, flags, FinishedMeansAll, ringVars,
    producerVars, consumerVars, messageCount
<1> QED BY <1>8, <1>9, <1>10, <1>11, <1>12, <1>13, <1>14, <1>15, <1>16
  DEF BenchNext, BenchMain, BenchConsumer

\* The benchmark's inductive invariant: what was published is the feed so far, and
\* once the flag is set that is all of it.
THEOREM BenchInvariant == BenchSpec => []BenchInv
<1>1. BenchInit => BenchInv
  BY BenchConstants, InitRingInv
  DEF BenchInit, BenchInv, Init, OnlyMainPushes, FeedInOrder, FinishedMeansAll,
    messageCount
<1> QED BY <1>1, BenchNextInv, PTL DEF BenchSpec

\* When the consumer leaves its loop it has processed the whole feed, in order,
\* however stale the flag and the indices it read on the way.
THEOREM BenchmarkProcessesAll == BenchSpec => []WholeFeedProcessed
<1>1. BenchInv => WholeFeedProcessed
  <2> SUFFICES ASSUME BenchInv, consumerThread = "exit" PROVE received = Feed
    BY DEF WholeFeedProcessed
  <2>1. /\ received \in Seq(Msgs) /\ sent \in Seq(Msgs) /\ Feed \in Seq(Msgs)
        /\ Len(received) = tail /\ Len(sent) = head
        /\ \A k \in 1 .. Len(received) : received[k] = sent[k]
    BY BenchConstants DEF BenchInv, RingInv, TypeOK, SlotsHoldQueue, InOrderExactlyOnce
  <2>2. tail = head /\ head = Len(Feed) /\ \A k \in 1 .. Len(sent) : sent[k] = Feed[k]
    BY DEF BenchInv, FeedInOrder, FinishedMeansAll, messageCount
  <2> QED BY <2>1, <2>2, SeqEqual
<1> QED BY <1>1, BenchInvariant, PTL

\* The benchmark's two threads never touch one slot of the buffer at once.
THEOREM BenchmarkNeverRaces == BenchSpec => []NoSlotRace
<1>1. BenchInv => NoSlotRace BY RingInvNoRace DEF BenchInv
<1> QED BY <1>1, BenchInvariant, PTL

\* Driven by the benchmark's two threads the ring is a bounded FIFO queue.
THEOREM BenchmarkImplementsFifo == BenchSpec => ImplementsFifo
<1>1. BenchInit => Fifo!Init BY InitFifo DEF BenchInit
<1>2. BenchInv /\ BenchInv' /\ [BenchNext]_benchVars => [Fifo!Next]_Fifo!fifoVars
  BY BenchIsRingStep, RingStepFifo DEF BenchInv
<1> QED BY <1>1, <1>2, BenchInvariant, PTL DEF BenchSpec, ImplementsFifo, Fifo!Spec

================================================================================
