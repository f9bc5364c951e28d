--------------------------- MODULE StreamServerProofs ---------------------------
(***************************************************************************)
(* Proofs about StreamServer with a patient operator, for every capacity,   *)
(* burst, file and number of commands, fresh or stale loads of the ring's  *)
(* indices: two threads push into a ring made for one, and no message is   *)
(* lost, reordered or miscounted.                                          *)
(***************************************************************************)
EXTENDS StreamServer, SPSCRingProofs, FiniteSetTheorems

LEMMA ServerConstants ==
  /\ Producers = {Producer, Command} /\ Producer # Command
  /\ BurstSizes \subseteq Nat \ {0} /\ LineCounts \subseteq Nat \ {0}
  /\ Patient \in BOOLEAN /\ MaxCommands \in Nat /\ MaxSeqNo \in Nat
  /\ UserMsgs \subseteq Msgs
BY ServerAssumption

USE ServerConstants

--------------------------------------------------------------------------------
(* The ring: the threads take turns in tryPush, so its invariant holds.     *)

LEMMA TurnsAreOneAtATime == ThreadsTakeTurns => OneAtATime
BY DEF ThreadsTakeTurns, OneAtATime, Sending, Making

\* What the ring sees of a step.
LEMMA ServerRingStep ==
  ASSUME ServerTypeOK, ThreadsTakeTurns, [ServerNext]_serverVars
  PROVE  [RingStep]_ringVars
<1>1. ASSUME NEW p \in Producers, CallPush(p) PROVE RingStep
  <2>1. made[p] \in Msgs BY <1>1 DEF CallPush, ThreadsTakeTurns, Making
  <2> QED BY <1>1, <2>1 DEF CallPush, RingStep
<1>2. ASSUME NEW p \in Producers, InsidePush(p) PROVE RingStep
  BY <1>2 DEF InsidePush, RingStep
<1>3. ASSUME NEW p \in Producers, PushOne(p) PROVE [RingStep]_ringVars
  BY <1>1, <1>2, <1>3 DEF PushOne, Number, Count
<1>4. CASE ProducerStep
  BY <1>3, <1>4 DEF ProducerStep, TakeBurst, ProducerExits
<1>5. CASE CommandStep
  BY <1>3, <1>5 DEF CommandStep, OrderLines, Burst, Reject, ResetBook, ResetIngested,
    ResetProcessed, ResetSeqNo
<1>6. CASE ConsumerStep
  BY <1>6 DEF ConsumerStep, ConsumerPops, ConsumerExits, InsidePop, Compare, Store,
    CountProcessed, RingStep, Pop
<1>7. CASE Quit \/ MainStep \/ Exited \/ UNCHANGED serverVars
  BY <1>7 DEF Quit, MainStep, JoinCommander, JoinProducer, JoinConsumer, Exited,
    serverVars
<1> QED BY <1>4, <1>5, <1>6, <1>7 DEF ServerNext

--------------------------------------------------------------------------------
(* The numbers: no command gives out more than it may.                      *)

LEMMA Products ==
  ASSUME NEW c \in Nat, NEW d \in Nat, NEW n \in Nat, NEW k \in Nat
  PROVE  /\ c * n \in Nat
         /\ c <= d => c * n <= d * n
         /\ n <= k => c * n + k <= (c + 1) * k
         /\ c * n + n = (c + 1) * n
OBVIOUS

LEMMA AskedForType ==
  ASSUME ServerTypeOK, ThreadsTakeTurns
  PROVE  /\ ToNumber(Producer) \in Nat /\ ToNumber(Command) \in Nat
         /\ burstPending \in Nat /\ NumbersAskedFor \in Nat
         /\ userSeqNo \in Nat /\ commands \in Nat
BY DEF ServerTypeOK, ThreadsTakeTurns, ToNumber, NumbersAskedFor, Sending

LEMMA AskedForTypeNext ==
  (ServerTypeOK /\ ThreadsTakeTurns => NumbersAskedFor \in Nat)'
<1>1. ServerTypeOK /\ ThreadsTakeTurns => NumbersAskedFor \in Nat BY AskedForType
<1> QED BY <1>1, PTL

LEMMA NumbersFit ==
  ASSUME ServerTypeOK, ThreadsTakeTurns, NumbersWithinBounds
  PROVE  userSeqNo - 1 + NumbersAskedFor <= MaxSeqNo
<1>1. userSeqNo \in Nat /\ NumbersAskedFor \in Nat /\ commands \in 0 .. MaxCommands
  BY AskedForType DEF ServerTypeOK
<1>2. CASE userSeqNo - 1 + NumbersAskedFor = 0 BY <1>1, <1>2
<1>3. CASE \E n \in BurstSizes \cup LineCounts :
             userSeqNo - 1 + NumbersAskedFor <= commands * n
  <2>1. PICK n \in BurstSizes \cup LineCounts :
               userSeqNo - 1 + NumbersAskedFor <= commands * n
    BY <1>3
  <2>2. n \in Nat /\ commands * n <= MaxCommands * n /\ MaxCommands * n <= MaxSeqNo
        /\ commands * n \in Nat /\ MaxCommands * n \in Nat
    BY <1>1, Products, ServerAssumption
  <2> QED BY <1>1, <2>1, <2>2
<1> QED BY <1>2, <1>3 DEF NumbersWithinBounds

LEMMA NumberFits ==
  ASSUME ServerTypeOK, ThreadsTakeTurns, NumbersWithinBounds, NEW p \in Producers,
         at[p] = "number"
  PROVE  userSeqNo \in 1 .. MaxSeqNo /\ resets \in 0 .. MaxCommands
<1>1. userSeqNo - 1 + NumbersAskedFor <= MaxSeqNo BY NumbersFit
<1>2. ToNumber(p) > 0 /\ NumbersAskedFor >= ToNumber(p)
  BY AskedForType DEF ThreadsTakeTurns, Sending, ToNumber, NumbersAskedFor
<1> QED BY <1>1, <1>2, AskedForType DEF ServerTypeOK, NumbersWithinBounds

\* What the book is about to take the number of.
LEMMA ItemInSequence ==
  ASSUME ServerTypeOK, ThreadsTakeTurns, SlotsHoldQueue, CachesAreConservative,
         consumerAt \in {"compare", "store"}, NEW base \in 0 .. head, Accounts(base)
  PROVE  /\ tail \in base + 1 .. head /\ item = sent[tail] /\ item \in UserMsgs
         /\ item.epoch = resets /\ ItemSeqNo = item.seqNo
<1>1. tail \in Nat /\ head \in Nat /\ tail <= head /\ tail > 0 /\ item = sent[tail]
  BY DEF ThreadsTakeTurns, ServerTypeOK, TypeOK, CachesAreConservative
<1>2. tail \in base + 1 .. head BY <1>1 DEF Accounts, Processed, Stored
<1>3. item \in UserMsgs /\ item.epoch = resets
  BY <1>1, <1>2 DEF Accounts, InSequence
<1> QED BY <1>1, <1>2, <1>3, ParameterAssumption DEF ItemSeqNo

--------------------------------------------------------------------------------
(* Types                                                                    *)

LEMMA GoToType ==
  ASSUME at \in [Producers -> Places], NEW p \in Producers, NEW place \in Places,
         GoTo(p, place)
  PROVE  at' \in [Producers -> Places]
BY DEF GoTo

LEMMA OneDoneType ==
  ASSUME at \in [Producers -> Places], left \in [Producers -> Nat],
         NEW p \in Producers, left[p] > 0, OneDone(p)
  PROVE  at' \in [Producers -> Places] /\ left' \in [Producers -> Nat]
BY DEF OneDone, GoTo, Places

LEMMA PushOneTypes ==
  ASSUME ServerTypeOK, TypeOK', ThreadsTakeTurns, NumbersWithinBounds,
         NEW p \in Producers, PushOne(p)
  PROVE  ServerTypeOK'
<1>1. CASE Number(p)
  <2>1. userSeqNo \in 1 .. MaxSeqNo /\ resets \in 0 .. MaxCommands
    BY <1>1, NumberFits DEF Number
  <2>2. [seqNo |-> userSeqNo, epoch |-> resets] \in Msgs BY <2>1 DEF UserMsgs
  <2>3. made' \in [Producers -> Msgs \cup {NoMsg}]
    BY <1>1, <2>2 DEF Number, ServerTypeOK
  <2>4. at' \in [Producers -> Places]
    BY <1>1, GoToType DEF Number, ServerTypeOK, Places
  <2>5. userSeqNo' \in 1 .. MaxSeqNo + 1 BY <1>1, <2>1 DEF Number
  <2> QED BY <1>1, <2>3, <2>4, <2>5
        DEF Number, ServerTypeOK, totals, book, histories
<1>2. CASE CallPush(p)
  <2>1. at' \in [Producers -> Places]
    BY <1>2, GoToType DEF CallPush, ServerTypeOK, Places
  <2> QED BY <1>2, <2>1 DEF CallPush, ServerTypeOK, control, totals, book, histories
<1>3. CASE InsidePush(p)
  <2>1. at' \in [Producers -> Places]
    <3>1. {"count", "push", "pushing"} \subseteq Places BY DEF Places
    <3> QED BY <1>3, <3>1, GoToType DEF InsidePush, ServerTypeOK
  <2> QED BY <1>3, <2>1 DEF InsidePush, ServerTypeOK, control, totals, book, histories
<1>4. CASE Count(p)
  <2>1. at' \in [Producers -> Places] /\ left' \in [Producers -> Nat]
    BY <1>4, OneDoneType DEF Count, ServerTypeOK, ThreadsTakeTurns, Sending
  <2> QED BY <1>4, <2>1 DEF Count, ServerTypeOK, control, book, histories
<1> QED BY <1>1, <1>2, <1>3, <1>4 DEF PushOne

LEMMA CommandTypes ==
  ASSUME ServerTypeOK, TypeOK', ThreadsTakeTurns, NumbersWithinBounds, CommandStep
  PROVE  ServerTypeOK'
<1>0. Command \in Producers /\ commands \in 0 .. MaxCommands BY DEF ServerTypeOK
<1>1. ASSUME NEW n \in LineCounts, OrderLines(n) PROVE ServerTypeOK'
  <2>1. at' \in [Producers -> Places]
    BY <1>0, <1>1, GoToType DEF OrderLines, ServerTypeOK, Places
  <2>2. left' \in [Producers -> Nat] BY <1>1 DEF OrderLines, ServerTypeOK
  <2> QED BY <1>1, <2>1, <2>2
        DEF OrderLines, ReadCommand, ServerTypeOK, control, totals, book
<1>2. ASSUME NEW n \in BurstSizes, Burst(n) PROVE ServerTypeOK'
  BY <1>2 DEF Burst, ReadCommand, ServerTypeOK, totals, pushers, book
<1>3. CASE Reject
  <2>1. userSeqNo \in 1 .. MaxSeqNo BY <1>0, <1>3, NumberFits DEF Reject
  <2>2. at' \in [Producers -> Places] /\ left' \in [Producers -> Nat]
    BY <1>0, <1>3, OneDoneType DEF Reject, ServerTypeOK, ThreadsTakeTurns, Sending
  <2> QED BY <1>3, <2>1, <2>2 DEF Reject, ServerTypeOK, totals, book
<1>4. CASE PushOne(Command) BY <1>0, <1>4, PushOneTypes
<1>5. CASE ResetBook
  <2>1. at' \in [Producers -> Places]
    BY <1>0, <1>5, GoToType DEF ResetBook, ServerTypeOK, Places
  <2> QED BY <1>5, <2>1 DEF ResetBook, ReadCommand, ServerTypeOK, control, totals
<1>6. CASE ResetIngested
  <2>1. at' \in [Producers -> Places]
    BY <1>0, <1>6, GoToType DEF ResetIngested, ServerTypeOK, Places
  <2> QED BY <1>6, <2>1 DEF ResetIngested, ServerTypeOK, control, book, histories
<1>7. CASE ResetProcessed
  <2>1. at' \in [Producers -> Places]
    BY <1>0, <1>7, GoToType DEF ResetProcessed, ServerTypeOK, Places
  <2> QED BY <1>7, <2>1 DEF ResetProcessed, ServerTypeOK, control, book, histories
<1>8. CASE ResetSeqNo
  <2>1. at' \in [Producers -> Places]
    BY <1>0, <1>8, GoToType DEF ResetSeqNo, ServerTypeOK, Places
  <2> QED BY <1>8, <2>1 DEF ResetSeqNo, ServerTypeOK, totals, book, histories
<1> QED BY <1>1, <1>2, <1>3, <1>4, <1>5, <1>6, <1>7, <1>8 DEF CommandStep

LEMMA ConsumerTypes ==
  ASSUME ServerTypeOK, TypeOK', ThreadsTakeTurns, ConsumerStep,
         consumerAt = "store" => item \in UserMsgs
  PROVE  ServerTypeOK'
<1> USE DEF ServerTypeOK, control, totals, pushers, book, histories
<1>1. CASE ConsumerPops \/ ConsumerExits BY <1>1 DEF ConsumerPops, ConsumerExits
<1>2. CASE InsidePop BY <1>2 DEF InsidePop
<1>3. CASE Compare BY <1>3 DEF Compare
<1>4. CASE Store
  <2>1. ItemSeqNo \in Nat BY <1>4 DEF Store, ItemSeqNo, UserMsgs
  <2> QED BY <1>4, <2>1 DEF Store
<1>5. CASE CountProcessed BY <1>5 DEF CountProcessed
<1> QED BY <1>1, <1>2, <1>3, <1>4, <1>5 DEF ConsumerStep

LEMMA OtherTypes ==
  ASSUME ServerTypeOK, TypeOK', ProducerStep \/ Quit \/ MainStep \/ Exited
                                \/ UNCHANGED serverVars,
         ThreadsTakeTurns, NumbersWithinBounds
  PROVE  ServerTypeOK'
<1>0. Producer \in Producers /\ Command \in Producers OBVIOUS
<1>1. CASE TakeBurst
  <2>1. at' \in [Producers -> Places]
    BY <1>0, <1>1, GoToType DEF TakeBurst, ServerTypeOK, Places
  <2>2. left' \in [Producers -> Nat] BY <1>1 DEF TakeBurst, ServerTypeOK
  <2> QED BY <1>1, <2>1, <2>2 DEF TakeBurst, ServerTypeOK, totals, book, histories
<1>2. CASE ProducerExits
  <2>1. at' \in [Producers -> Places]
    BY <1>0, <1>2, GoToType DEF ProducerExits, ServerTypeOK, Places
  <2> QED BY <1>2, <2>1
        DEF ProducerExits, ServerTypeOK, control, totals, book, histories
<1>3. CASE PushOne(Producer) BY <1>0, <1>3, PushOneTypes
<1>4. CASE Quit
  <2>1. at' \in [Producers -> Places]
    BY <1>0, <1>4, GoToType DEF Quit, ServerTypeOK, Places
  <2> QED BY <1>4, <2>1 DEF Quit, ServerTypeOK, totals, book, histories
<1>5. CASE MainStep
  BY <1>5 DEF MainStep, JoinCommander, JoinProducer, JoinConsumer, ServerTypeOK, control,
    totals, pushers, book, histories
<1>6. CASE Exited \/ UNCHANGED serverVars
  BY <1>6 DEF Exited, serverVars, ServerTypeOK, control, totals, pushers, book, histories
<1> QED BY <1>1, <1>2, <1>3, <1>4, <1>5, <1>6 DEF ProducerStep

--------------------------------------------------------------------------------
(* The threads take turns                                                   *)

\* What was sent stays sent.
LEMMA SentGrows ==
  ASSUME TypeOK, SlotsHoldQueue, [RingStep]_ringVars
  PROVE  \A i \in 1 .. head : sent'[i] = sent[i]
<1>1. head \in Nat /\ Len(sent) = head /\ sent \in Seq(Msgs)
  BY DEF TypeOK, SlotsHoldQueue
<1>2. ASSUME NEW p \in Producers, PushPublish(p)
      PROVE  \A i \in 1 .. head : sent'[i] = sent[i]
  <2>1. sent' = Append(sent, pmsg[p]) BY <1>2 DEF PushPublish
  <2> QED BY <1>1, <2>1
<1>3. ASSUME NEW p \in Producers, PushStep(p), ~PushPublish(p) PROVE sent' = sent
  BY <1>3 DEF PushStep, PushRefresh, PushFull, PushWrite
<1>4. ASSUME NEW p \in Producers, NEW m \in Msgs, PushCheck(p, m) PROVE sent' = sent
  BY <1>4 DEF PushCheck
<1>5. ASSUME Pop PROVE sent' = sent
  BY <1>5 DEF Pop, PopStep, PopCheck, PopRefresh, PopEmpty, PopRead, PopRelease,
    producerVars
<1>6. CASE UNCHANGED ringVars BY <1>6 DEF ringVars, producerVars
<1> QED BY <1>2, <1>3, <1>4, <1>5, <1>6 DEF RingStep

\* The step of a thread inside tryPush.
LEMMA PushStepMoves ==
  ASSUME TypeOK, NEW p \in Producers, PushStep(p)
  PROVE  /\ ppc[p] # "idle"
         /\ ppc' \in [Producers -> PushStates]
         /\ \A q \in Producers : q # p => ppc'[q] = ppc[q]
         /\ ppc[p] = "publish" => ppc'[p] = "idle"
         /\ UNCHANGED <<pmsg, consumerVars>>
BY DEF TypeOK, PushStep, PushRefresh, PushFull, PushWrite, PushPublish, PushStates

\* Of a step of one thread: the others are where they were.
LEMMA PushTurns ==
  ASSUME ServerTypeOK, SlotsHoldQueue, CachesAreConservative, ThreadsTakeTurns,
         NumbersWithinBounds, [RingStep]_ringVars, NEW p \in Producers, PushOne(p)
  PROVE  ThreadsTakeTurns'
<1>0. /\ at \in [Producers -> Places] /\ left \in [Producers -> Nat]
      /\ made \in [Producers -> Msgs \cup {NoMsg}]
      /\ TypeOK /\ tail \in Nat /\ head \in Nat /\ tail <= head
      /\ ppc \in [Producers -> PushStates] /\ pmsg \in [Producers -> Msgs \cup {NoMsg}]
  BY DEF ServerTypeOK, TypeOK, CachesAreConservative
<1>1. Sending(p) BY DEF PushOne, Number, CallPush, InsidePush, Count, PushStep,
    ThreadsTakeTurns, Sending, Making, PushRefresh, PushFull, PushWrite, PushPublish
<1>2. UNCHANGED <<burstPending, cpc, consumerAt, item, tail, expectedRead, expectedSeqNo>>
  BY <1>0, PushStepMoves DEF PushOne, Number, CallPush, InsidePush, Count, ringVars,
    consumerVars, producerVars, control, book, PushCheck
<1>3. /\ \A q \in Producers : q # p => at'[q] = at[q] /\ left'[q] = left[q]
                                      /\ made'[q] = made[q] /\ ppc'[q] = ppc[q]
                                      /\ pmsg'[q] = pmsg[q]
      /\ at'[p] \in {"number", "push", "pushing", "count", "loop"}
  BY <1>0, PushStepMoves DEF PushOne, Number, CallPush, InsidePush, Count, OneDone, GoTo,
    ringVars, producerVars, PushCheck
<1>4. /\ ppc'[p] # "idle" <=> at'[p] = "pushing"
      /\ Sending(p)' => left'[p] > 0
      /\ Making(p)' => made'[p] \in UserMsgs
      /\ at'[p] = "pushing" => pmsg'[p] = made'[p]
  <2>0. /\ ppc[p] # "idle" <=> at[p] = "pushing"
        /\ left[p] > 0 /\ left[p] \in Nat
        /\ Making(p) => made[p] \in UserMsgs
        /\ at[p] = "pushing" => pmsg[p] = made[p]
    BY <1>0, <1>1 DEF ThreadsTakeTurns
  <2>1. CASE Number(p)
    <3>1. [seqNo |-> userSeqNo, epoch |-> resets] \in UserMsgs
      BY <2>1, NumberFits DEF Number, UserMsgs
    <3> QED BY <1>0, <2>0, <2>1, <3>1
          DEF Number, GoTo, Sending, Making, ringVars, producerVars
  <2>2. CASE CallPush(p)
    BY <1>0, <2>0, <2>2 DEF CallPush, GoTo, Sending, Making, PushCheck, control
  <2>3. CASE InsidePush(p)
    BY <1>0, <2>0, <2>3, PushStepMoves DEF InsidePush, GoTo, Sending, Making
  <2>4. CASE Count(p)
    BY <1>0, <2>0, <2>4 DEF Count, OneDone, GoTo, Sending, Making, ringVars, producerVars
  <2> QED BY <2>1, <2>2, <2>3, <2>4 DEF PushOne
<1>5. /\ at'[Producer] \in {"loop", "exit"} \/ Sending(Producer)'
      /\ at'[Command] \notin {"loop", "exit"} =>
           burstPending = 0 /\ at'[Producer] \in {"loop", "exit"}
  BY <1>1, <1>3 DEF ThreadsTakeTurns, Sending, Making
<1>6. consumerAt \in {"compare", "store"} => tail > 0 /\ item = sent'[tail]
  BY <1>0, SentGrows DEF ThreadsTakeTurns
<1> QED BY <1>2, <1>3, <1>4, <1>5, <1>6 DEF ThreadsTakeTurns, Sending, Making

\* A step of the consumer inside tryPop.
LEMMA PopStepMoves ==
  ASSUME TypeOK, SlotsHoldQueue, CachesAreConservative, ConclusionsHold, PopStep
  PROVE  /\ cpc # "idle" /\ UNCHANGED producerVars
         /\ IF cpc = "release"
            THEN cpc' = "idle" /\ tail' = tail + 1 /\ item' = sent[tail + 1] /\ tail < head
            ELSE tail' = tail
<1>1. CASE \E h \in Visible(cachedHead, head) : PopRefresh(h) \/ PopEmpty(h)
  BY <1>1 DEF PopRefresh, PopEmpty
<1>2. CASE PopRead BY <1>2 DEF PopRead
<1>3. CASE PopRelease
  BY <1>3 DEF PopRelease, ConclusionsHold, CachesAreConservative, TypeOK
<1> QED BY <1>1, <1>2, <1>3 DEF PopStep

LEMMA ConsumerTurns ==
  ASSUME ServerTypeOK, RingInv, ThreadsTakeTurns, ConsumerStep
  PROVE  ThreadsTakeTurns'
<1>0. RingInv /\ TypeOK /\ tail \in Nat /\ cpc \in PopStates BY DEF RingInv, TypeOK
<1>1. UNCHANGED <<producerVars, pushers, control>>
  BY <1>0, PopStepMoves DEF ConsumerStep, ConsumerPops, ConsumerExits, InsidePop, Compare, Store,
    CountProcessed, PopCheck, ringVars, RingInv
<1>2. /\ cpc' # "idle" <=> consumerAt' = "popping"
      /\ consumerAt' \in {"compare", "store"} => tail' > 0 /\ item' = sent[tail']
      /\ consumerAt' = "store" => expectedRead' = expectedSeqNo'
  <2>0. /\ cpc # "idle" <=> consumerAt = "popping"
        /\ consumerAt \in {"compare", "store"} => tail > 0 /\ item = sent[tail]
    BY DEF ThreadsTakeTurns
  <2>1. CASE ConsumerPops BY <2>0, <2>1 DEF ConsumerPops, PopCheck
  <2>2. CASE ConsumerExits BY <2>0, <2>2 DEF ConsumerExits, ringVars, consumerVars
  <2>3. CASE InsidePop BY <1>0, <2>0, <2>3, PopStepMoves DEF InsidePop, RingInv, PopStates
  <2>4. CASE Compare BY <2>0, <2>4 DEF Compare, ringVars, consumerVars
  <2>5. CASE Store BY <2>0, <2>5 DEF Store, ringVars, consumerVars
  <2>6. CASE CountProcessed BY <2>0, <2>6 DEF CountProcessed, ringVars, consumerVars
  <2> QED BY <2>1, <2>2, <2>3, <2>4, <2>5, <2>6 DEF ConsumerStep
<1> QED BY <1>1, <1>2
      DEF ThreadsTakeTurns, producerVars, pushers, control, Sending, Making

LEMMA OrderLinesMoves ==
  ASSUME Patient, NEW n \in LineCounts, OrderLines(n)
  PROVE  /\ at' = [at EXCEPT ![Command] = "number"]
         /\ left' = [left EXCEPT ![Command] = n] /\ n > 0 /\ n \in Nat
         /\ made' = made /\ burstPending' = 0 /\ at[Producer] = "loop"
         /\ at[Command] = "loop" /\ burstPending = 0
<1>1. n > 0 /\ n \in Nat OBVIOUS
<1> QED BY <1>1 DEF OrderLines, ReadCommand, MayPush, GoTo, control

\* A step that leaves the ring and the consumer.
LEMMA OtherTurns ==
  ASSUME Patient, ServerTypeOK, ThreadsTakeTurns, NumbersWithinBounds,
         UNCHANGED <<ringVars, consumerAt, expectedRead>>,
         consumerAt = "store" => expectedSeqNo' = expectedSeqNo,
         \/ TakeBurst \/ ProducerExits \/ Quit \/ Reject \/ ResetBook \/ ResetIngested
         \/ ResetProcessed \/ ResetSeqNo \/ UNCHANGED <<control, pushers>>
         \/ UNCHANGED <<burstPending, pushers>>
         \/ \E n \in LineCounts : OrderLines(n)
         \/ \E n \in BurstSizes : Burst(n)
  PROVE  ThreadsTakeTurns'
<1>0. /\ at \in [Producers -> Places] /\ left \in [Producers -> Nat]
      /\ Producer \in Producers /\ Command \in Producers
  BY DEF ServerTypeOK
<1>1. UNCHANGED <<ppc, pmsg, cpc, item, tail, sent>>
  BY DEF ringVars, producerVars, consumerVars
<1> SUFFICES
      /\ at'[Producer] \in {"loop", "exit"} \/ Sending(Producer)'
      /\ at'[Command] \notin {"loop", "exit"} =>
           burstPending' = 0 /\ at'[Producer] \in {"loop", "exit"}
      /\ \A p \in Producers :
           /\ at[p] = "pushing" <=> at'[p] = "pushing"
           /\ Sending(p)' => left'[p] > 0
           /\ Making(p)' => Making(p)
           /\ made'[p] = made[p]
  BY <1>1 DEF ThreadsTakeTurns
<1> USE <1>0 DEF ThreadsTakeTurns, Sending, Making
<1>2. CASE TakeBurst BY <1>2 DEF TakeBurst, GoTo, ServerTypeOK
<1>3. CASE ProducerExits BY <1>3 DEF ProducerExits, GoTo, control
<1>4. CASE Quit BY <1>4 DEF Quit, GoTo
<1>5. CASE Reject BY <1>5 DEF Reject, OneDone, GoTo
<1>6. CASE ResetBook
  BY <1>6 DEF ResetBook, ReadCommand, MayReset, Drained, GoTo, control
<1>7. CASE ResetIngested \/ ResetProcessed \/ ResetSeqNo
  BY <1>7 DEF ResetIngested, ResetProcessed, ResetSeqNo, GoTo, control
<1>8. CASE UNCHANGED <<control, pushers>> \/ UNCHANGED <<burstPending, pushers>>
  BY <1>8 DEF control, pushers
<1>10. CASE \E n \in LineCounts : OrderLines(n) BY <1>10, OrderLinesMoves
<1>11. CASE \E n \in BurstSizes : Burst(n)
  BY <1>11 DEF Burst, ReadCommand, pushers
<1> QED BY <1>2, <1>3, <1>4, <1>5, <1>6, <1>7, <1>8, <1>10, <1>11

--------------------------------------------------------------------------------
(* No command gives out more numbers than it asks for                       *)

\* u is the next number, a what is asked for, c and r the commands and resets so far.
Within(u, a, c, r) ==
  /\ r <= c
  /\ u - 1 + a = 0 \/ \E n \in BurstSizes \cup LineCounts : u - 1 + a <= c * n

LEMMA NoMoreNumbers ==
  ASSUME NEW u \in Nat \ {0}, NEW a \in Nat, NEW c \in Nat, NEW r \in Nat,
         NEW v \in Nat \ {0}, NEW b \in Nat, NEW d \in Nat, NEW t \in Nat,
         Within(u, a, c, r), c <= d, t - r <= d - c, v + b <= u + a
  PROVE  Within(v, b, d, t)
<1>1. r <= c /\ t <= d BY DEF Within
<1>2. CASE u - 1 + a = 0
  <2>1. v - 1 + b = 0 BY <1>2
  <2> QED BY <1>1, <2>1 DEF Within
<1>3. ASSUME NEW n \in BurstSizes \cup LineCounts, u - 1 + a <= c * n
      PROVE  Within(v, b, d, t)
  <2>1. n \in Nat /\ c * n \in Nat /\ d * n \in Nat /\ c * n <= d * n BY Products
  <2>2. v - 1 + b <= d * n BY <1>3, <2>1
  <2> QED BY <1>1, <2>2 DEF Within
<1> QED BY <1>2, <1>3 DEF Within

\* A command asks for n more.
LEMMA MoreNumbers ==
  ASSUME NEW u \in Nat \ {0}, NEW a \in Nat, NEW c \in Nat, NEW r \in Nat, NEW b \in Nat,
         Within(u, a, c, r), NEW n \in BurstSizes \cup LineCounts, b <= a + n
  PROVE  Within(u, b, c + 1, r)
<1>1. r <= c + 1 /\ n \in Nat BY DEF Within
<1>2. CASE u - 1 + a = 0
  <2>1. c * n \in Nat /\ c * n + n = (c + 1) * n BY <1>1, Products
  <2>2. u - 1 + b <= (c + 1) * n BY <1>1, <1>2, <2>1
  <2> QED BY <1>1, <2>2 DEF Within
<1>3. ASSUME NEW k \in BurstSizes \cup LineCounts, u - 1 + a <= c * k
      PROVE  Within(u, b, c + 1, r)
  <2>1. /\ k \in Nat /\ c * k \in Nat /\ c * n \in Nat
        /\ (c + 1) * k = c * k + k /\ (c + 1) * n = c * n + n
    BY <1>1, Products
  <2>2. CASE n <= k
    <3>1. u - 1 + b <= (c + 1) * k BY <1>1, <1>3, <2>1, <2>2
    <3> QED BY <1>1, <3>1 DEF Within
  <2>3. CASE k < n
    <3>1. c * k + n <= (c + 1) * n BY <1>1, <2>1, <2>3, Products
    <3>2. u - 1 + b <= (c + 1) * n BY <1>1, <1>3, <2>1, <3>1
    <3> QED BY <1>1, <3>2 DEF Within
  <2> QED BY <1>1, <2>1, <2>2, <2>3
<1> QED BY <1>2, <1>3 DEF Within

LEMMA NumbersAreWithin ==
  NumbersWithinBounds <=> Within(userSeqNo, NumbersAskedFor, commands, resets)
BY DEF NumbersWithinBounds, Within

\* Making a message spends a number that was asked for.
LEMMA PushNumbers ==
  ASSUME ServerTypeOK, ThreadsTakeTurns, NEW p \in Producers, PushOne(p)
  PROVE  /\ userSeqNo' + NumbersAskedFor' = userSeqNo + NumbersAskedFor
         /\ UNCHANGED <<commands, resets>>
<1>0. /\ at \in [Producers -> Places] /\ left \in [Producers -> Nat] /\ TypeOK
      /\ Producer \in Producers /\ Command \in Producers
      /\ userSeqNo \in Nat /\ burstPending \in Nat
  BY AskedForType DEF ServerTypeOK
<1>1. UNCHANGED <<burstPending, commands, resets>>
  BY DEF PushOne, Number, CallPush, InsidePush, Count, control, histories
<1>2. /\ \A q \in Producers : q # p => ToNumber(q)' = ToNumber(q)
      /\ userSeqNo' + ToNumber(p)' = userSeqNo + ToNumber(p)
      /\ userSeqNo' \in Nat /\ ToNumber(p)' \in Nat
  <2>1. CASE Number(p)
    <3>1. left[p] > 0 BY <2>1 DEF Number, ThreadsTakeTurns, Sending
    <3> QED BY <1>0, <2>1, <3>1 DEF Number, GoTo, ToNumber, Sending, Making
  <2>2. CASE CallPush(p)
    <3>1. left[p] > 0 BY <2>2 DEF CallPush, ThreadsTakeTurns, Sending, Making
    <3> QED BY <1>0, <2>2, <3>1 DEF CallPush, GoTo, ToNumber, Sending, Making, control
  <2>3. CASE InsidePush(p)
    <3>1. at[p] = "pushing" /\ left[p] > 0
      BY <1>0, <2>3, PushStepMoves DEF InsidePush, ThreadsTakeTurns, Sending, Making
    <3> QED BY <1>0, <2>3, <3>1 DEF InsidePush, GoTo, ToNumber, Sending, Making, control
  <2>4. CASE Count(p)
    <3>1. left[p] > 0 BY <2>4 DEF Count, ThreadsTakeTurns, Sending
    <3> QED BY <1>0, <2>4, <3>1
          DEF Count, OneDone, GoTo, ToNumber, Sending, Making, control
  <2> QED BY <2>1, <2>2, <2>3, <2>4 DEF PushOne
<1>3. ToNumber(Producer) \in Nat /\ ToNumber(Command) \in Nat BY AskedForType
<1>4. CASE p = Producer
  <2>1. ToNumber(Command)' = ToNumber(Command) BY <1>0, <1>2, <1>4
  <2>2. /\ userSeqNo' + ToNumber(Producer)' = userSeqNo + ToNumber(Producer)
        /\ userSeqNo' \in Nat /\ ToNumber(Producer)' \in Nat
    BY <1>2, <1>4
  <2> QED BY <1>0, <1>1, <1>3, <2>1, <2>2 DEF NumbersAskedFor
<1>5. CASE p = Command
  <2>1. ToNumber(Producer)' = ToNumber(Producer) BY <1>0, <1>2, <1>5
  <2>2. /\ userSeqNo' + ToNumber(Command)' = userSeqNo + ToNumber(Command)
        /\ userSeqNo' \in Nat /\ ToNumber(Command)' \in Nat
    BY <1>2, <1>5
  <2> QED BY <1>0, <1>1, <1>3, <2>1, <2>2 DEF NumbersAskedFor
<1> QED BY <1>1, <1>4, <1>5

LEMMA CommandNumbers ==
  ASSUME ServerTypeOK, ThreadsTakeTurns,
         Reject \/ ResetBook \/ ResetIngested \/ ResetProcessed \/ ResetSeqNo \/ Quit
           \/ ProducerExits \/ TakeBurst
  PROVE  /\ userSeqNo' + NumbersAskedFor' <= userSeqNo + NumbersAskedFor
         /\ commands <= commands' /\ resets' - resets <= commands' - commands
<1>0. /\ at \in [Producers -> Places] /\ left \in [Producers -> Nat]
      /\ Producer \in Producers /\ Command \in Producers
      /\ userSeqNo \in Nat /\ userSeqNo >= 1 /\ burstPending \in Nat /\ commands \in Nat
      /\ resets \in Nat /\ ToNumber(Producer) \in Nat /\ ToNumber(Command) \in Nat
  BY AskedForType DEF ServerTypeOK
<1>1. CASE Reject
  <2>1. left[Command] > 0 BY <1>0, <1>1 DEF Reject, ThreadsTakeTurns, Sending
  <2>2. /\ ToNumber(Producer)' = ToNumber(Producer)
        /\ ToNumber(Command)' = ToNumber(Command) - 1
        /\ userSeqNo' = userSeqNo + 1 /\ UNCHANGED <<burstPending, commands, resets>>
    BY <1>0, <1>1, <2>1 DEF Reject, OneDone, GoTo, ToNumber, Sending, Making
  <2> QED BY <1>0, <2>2 DEF NumbersAskedFor
<1>2. CASE ResetBook
  <2>1. /\ ToNumber(Producer)' = ToNumber(Producer)
        /\ ToNumber(Command)' = ToNumber(Command)
        /\ UNCHANGED <<userSeqNo, burstPending>>
        /\ commands' = commands + 1 /\ resets' = resets + 1
    BY <1>0, <1>2
    DEF ResetBook, ReadCommand, GoTo, ToNumber, Sending, Making, control
  <2> QED BY <1>0, <2>1 DEF NumbersAskedFor
<1>3. CASE ResetIngested \/ ResetProcessed \/ ResetSeqNo
  <2>1. /\ ToNumber(Producer)' = ToNumber(Producer)
        /\ ToNumber(Command)' = ToNumber(Command)
        /\ userSeqNo' \in {1, userSeqNo} /\ UNCHANGED <<burstPending, commands, resets>>
    BY <1>0, <1>3 DEF ResetIngested, ResetProcessed, ResetSeqNo, GoTo, ToNumber, Sending,
      Making, control, histories
  <2> QED BY <1>0, <2>1 DEF NumbersAskedFor
<1>4. CASE Quit \/ ProducerExits
  <2>1. /\ ToNumber(Producer)' = ToNumber(Producer)
        /\ ToNumber(Command)' = ToNumber(Command)
        /\ UNCHANGED <<userSeqNo, burstPending, commands, resets>>
    BY <1>0, <1>4 DEF Quit, ProducerExits, GoTo, ToNumber, Sending, Making, control,
      histories
  <2> QED BY <1>0, <2>1 DEF NumbersAskedFor
<1>5. CASE TakeBurst
  <2>1. /\ ToNumber(Producer) = 0 /\ ToNumber(Producer)' = burstPending
        /\ ToNumber(Command)' = ToNumber(Command) /\ burstPending' = 0
        /\ UNCHANGED <<userSeqNo, commands, resets>>
    BY <1>0, <1>5 DEF TakeBurst, GoTo, ToNumber, Sending, Making, histories
  <2> QED BY <1>0, <2>1 DEF NumbersAskedFor
<1> QED BY <1>1, <1>2, <1>3, <1>4, <1>5

LEMMA AskingNumbers ==
  ASSUME ServerTypeOK, ThreadsTakeTurns, NEW n \in BurstSizes \cup LineCounts,
         OrderLines(n) \/ Burst(n)
  PROVE  /\ NumbersAskedFor' <= NumbersAskedFor + n
         /\ userSeqNo' = userSeqNo /\ commands' = commands + 1 /\ resets' = resets
<1>0. /\ at \in [Producers -> Places] /\ left \in [Producers -> Nat]
      /\ Producer \in Producers /\ Command \in Producers /\ n \in Nat
      /\ burstPending \in Nat
      /\ ToNumber(Producer) \in Nat /\ ToNumber(Command) \in Nat
  BY AskedForType DEF ServerTypeOK
<1>1. CASE OrderLines(n)
  <2>1. /\ ToNumber(Producer)' = ToNumber(Producer)
        /\ ToNumber(Command) = 0 /\ ToNumber(Command)' = n
        /\ UNCHANGED <<userSeqNo, burstPending, resets>> /\ commands' = commands + 1
    BY <1>0, <1>1 DEF OrderLines, ReadCommand, GoTo, ToNumber, Sending, Making, control
  <2> QED BY <1>0, <2>1 DEF NumbersAskedFor
<1>2. CASE Burst(n)
  <2>1. /\ ToNumber(Producer)' = ToNumber(Producer)
        /\ ToNumber(Command)' = ToNumber(Command) /\ burstPending' = n
        /\ UNCHANGED <<userSeqNo, resets>> /\ commands' = commands + 1
    BY <1>0, <1>2 DEF Burst, ReadCommand, ToNumber, Sending, Making, pushers
  <2> QED BY <1>0, <2>1 DEF NumbersAskedFor
<1> QED BY <1>1, <1>2

LEMMA NumbersTyped ==
  ASSUME ServerTypeOK, ServerTypeOK', ThreadsTakeTurns, ThreadsTakeTurns'
  PROVE  /\ userSeqNo \in Nat \ {0} /\ NumbersAskedFor \in Nat
         /\ commands \in Nat /\ resets \in Nat
         /\ userSeqNo' \in Nat \ {0} /\ NumbersAskedFor' \in Nat
         /\ commands' \in Nat /\ resets' \in Nat
<1>1. NumbersAskedFor \in Nat /\ NumbersAskedFor' \in Nat
  BY AskedForType, AskedForTypeNext
<1> QED BY <1>1 DEF ServerTypeOK

LEMMA NextNumbers ==
  ASSUME ServerTypeOK, ServerTypeOK', ThreadsTakeTurns, ThreadsTakeTurns',
         NumbersWithinBounds, [ServerNext]_serverVars
  PROVE  NumbersWithinBounds'
<1>0. Within(userSeqNo, NumbersAskedFor, commands, resets) BY NumbersAreWithin
<1>1. ASSUME Within(userSeqNo', NumbersAskedFor', commands', resets')
      PROVE  NumbersWithinBounds'
  BY <1>1 DEF NumbersWithinBounds, Within
<1>2. ASSUME userSeqNo' + NumbersAskedFor' <= userSeqNo + NumbersAskedFor,
             commands <= commands', resets' - resets <= commands' - commands
      PROVE  NumbersWithinBounds'
  BY <1>0, <1>1, <1>2, NumbersTyped, NoMoreNumbers
<1>3. ASSUME userSeqNo' + NumbersAskedFor' = userSeqNo + NumbersAskedFor,
             UNCHANGED <<commands, resets>>
      PROVE  NumbersWithinBounds'
  <2>1. userSeqNo' + NumbersAskedFor' <= userSeqNo + NumbersAskedFor
    BY <1>3, NumbersTyped
  <2>2. commands <= commands' /\ resets' - resets <= commands' - commands
    BY <1>3, NumbersTyped
  <2> QED BY <1>2, <2>1, <2>2
<1>4. ASSUME UNCHANGED <<userSeqNo, commands, resets, at, left, burstPending>>
      PROVE  NumbersWithinBounds'
  <2>1. NumbersAskedFor' = NumbersAskedFor
    BY <1>4 DEF NumbersAskedFor, ToNumber, Sending, Making
  <2> QED BY <1>3, <1>4, <2>1
<1>5. ASSUME NEW p \in Producers, PushOne(p) PROVE NumbersWithinBounds'
  BY <1>3, <1>5, PushNumbers
<1>6. CASE ProducerStep
  BY <1>2, <1>5, <1>6, CommandNumbers DEF ProducerStep
<1>7. ASSUME NEW n \in BurstSizes \cup LineCounts,
             OrderLines(n) \/ Burst(n)
      PROVE  NumbersWithinBounds'
  <2>1. /\ NumbersAskedFor' <= NumbersAskedFor + n
        /\ userSeqNo' = userSeqNo /\ commands' = commands + 1 /\ resets' = resets
    BY <1>7, AskingNumbers
  <2>2. Within(userSeqNo, NumbersAskedFor', commands + 1, resets)
    BY <1>0, <2>1, NumbersTyped, MoreNumbers
  <2>3. Within(userSeqNo', NumbersAskedFor', commands', resets') BY <2>1, <2>2
  <2> QED BY <1>1, <2>3
<1>8. CASE CommandStep \/ Quit
  <2>1. ASSUME \/ Reject \/ ResetBook \/ ResetIngested \/ ResetProcessed \/ ResetSeqNo
               \/ Quit
        PROVE  NumbersWithinBounds'
    BY <1>2, <2>1, CommandNumbers
  <2>2. ASSUME PushOne(Command) PROVE NumbersWithinBounds' BY <1>5, <2>2
  <2> QED BY <1>7, <1>8, <2>1, <2>2 DEF CommandStep
<1>9. CASE ConsumerStep
  BY <1>4, <1>9 DEF ConsumerStep, ConsumerPops, ConsumerExits, InsidePop, Compare, Store,
    CountProcessed, control, pushers, histories
<1>10. CASE MainStep \/ Exited \/ UNCHANGED serverVars
  BY <1>4, <1>10 DEF MainStep, JoinCommander, JoinProducer, JoinConsumer, Exited,
    serverVars, control, pushers, histories
<1> QED BY <1>6, <1>8, <1>9, <1>10 DEF ServerNext

--------------------------------------------------------------------------------
(* The ring, types and turns together                                       *)

LEMMA NextTurns ==
  ASSUME Patient, ServerTypeOK, RingInv, ThreadsTakeTurns, NumbersWithinBounds,
         [ServerNext]_serverVars
  PROVE  ThreadsTakeTurns'
<1>0. SlotsHoldQueue /\ CachesAreConservative BY DEF RingInv
<1>1. [RingStep]_ringVars BY ServerRingStep
<1>2. ASSUME NEW p \in Producers, PushOne(p) PROVE ThreadsTakeTurns'
  BY <1>0, <1>1, <1>2, PushTurns
<1>3. CASE ProducerStep
  <2>1. ASSUME TakeBurst \/ ProducerExits PROVE ThreadsTakeTurns'
    BY <2>1, OtherTurns DEF TakeBurst, ProducerExits, book
  <2> QED BY <1>2, <1>3, <2>1 DEF ProducerStep
<1>4. CASE CommandStep
  <2>1. ASSUME NEW n \in LineCounts, OrderLines(n) PROVE ThreadsTakeTurns'
    BY <2>1, OtherTurns DEF OrderLines, book
  <2>2. ASSUME NEW n \in BurstSizes, Burst(n) PROVE ThreadsTakeTurns'
    BY <2>2, OtherTurns DEF Burst, book
  <2>3. CASE Reject BY <2>3, OtherTurns DEF Reject, book
  <2>4. CASE ResetBook
    <3>1. consumerAt # "store" BY <2>4 DEF ResetBook, MayReset, Drained
    <3> QED BY <2>4, <3>1, OtherTurns DEF ResetBook
  <2>5. CASE ResetIngested \/ ResetProcessed \/ ResetSeqNo
    BY <2>5, OtherTurns DEF ResetIngested, ResetProcessed, ResetSeqNo, book
  <2>6. CASE PushOne(Command) BY <1>2, <2>6
  <2> QED BY <1>4, <2>1, <2>2, <2>3, <2>4, <2>5, <2>6 DEF CommandStep
<1>5. CASE ConsumerStep BY <1>5, ConsumerTurns
<1>6. CASE Quit BY <1>6, OtherTurns DEF Quit, book
<1>7. CASE MainStep
  BY <1>7, OtherTurns
  DEF MainStep, JoinCommander, JoinProducer, JoinConsumer, book, control
<1>8. CASE Exited \/ UNCHANGED serverVars
  BY <1>8, OtherTurns DEF Exited, serverVars, book, control
<1> QED BY <1>3, <1>4, <1>5, <1>6, <1>7, <1>8 DEF ServerNext

LEMMA NextRing ==
  ASSUME ServerTypeOK, RingInv, ThreadsTakeTurns, ThreadsTakeTurns',
         [ServerNext]_serverVars
  PROVE  RingInv'
<1>1. OneAtATime /\ OneAtATime'
  <2>1. OneAtATime BY TurnsAreOneAtATime
  <2>2. (ThreadsTakeTurns => OneAtATime)' BY TurnsAreOneAtATime, PTL
  <2> QED BY <2>1, <2>2
<1>2. [RingStep]_ringVars BY ServerRingStep
<1> QED BY <1>1, <1>2, RingStepInv

LEMMA NextTypes ==
  ASSUME ServerTypeOK, RingInv, RingInv', ThreadsTakeTurns, NumbersWithinBounds,
         NEW base \in 0 .. head, Accounts(base), [ServerNext]_serverVars
  PROVE  ServerTypeOK'
<1>1. TypeOK' /\ SlotsHoldQueue /\ CachesAreConservative BY DEF RingInv
<1>2. consumerAt = "store" => item \in UserMsgs BY <1>1, ItemInSequence
<1>3. CASE CommandStep BY <1>1, <1>3, CommandTypes
<1>4. CASE ConsumerStep BY <1>1, <1>2, <1>4, ConsumerTypes
<1>5. CASE ProducerStep \/ Quit \/ MainStep \/ Exited \/ UNCHANGED serverVars
  BY <1>1, <1>5, OtherTypes
<1> QED BY <1>3, <1>4, <1>5 DEF ServerNext

--------------------------------------------------------------------------------
(* The accounts: the numbers on their way, the gaps and the totals since the *)
(* last RESET.                                                             *)

LEMMA OnlyOneSends ==
  ASSUME ThreadsTakeTurns, NEW p \in Producers, Sending(p)
  PROVE  /\ ~Resetting
         /\ \A q \in Producers : q # p => ~Sending(q) /\ ~Making(q) /\ at[q] # "count"
BY DEF ThreadsTakeTurns, Sending, Making, Resetting

\* Threads between a push and its count.
Uncounted == IF \E p \in Producers : at[p] = "count" THEN 1 ELSE 0

LEMMA UncountedIs ==
  ThreadsTakeTurns => Cardinality({p \in Producers : at[p] = "count"}) = Uncounted
<1> SUFFICES ASSUME ThreadsTakeTurns
             PROVE  Cardinality({p \in Producers : at[p] = "count"}) = Uncounted
  OBVIOUS
<1>1. CASE \E p \in Producers : at[p] = "count"
  <2>1. PICK p \in Producers : at[p] = "count" BY <1>1
  <2>2. {q \in Producers : at[q] = "count"} = {p}
    BY <2>1, OnlyOneSends DEF Sending
  <2> QED BY <1>1, <2>2, FS_Singleton DEF Uncounted
<1>2. CASE ~\E p \in Producers : at[p] = "count"
  <2>1. {q \in Producers : at[q] = "count"} = {} BY <1>2
  <2> QED BY <1>2, <2>1, FS_EmptySet DEF Uncounted
<1> QED BY <1>1, <1>2

\* What the counters are, case by case.
Totals(base) ==
  /\ at[Command] = "resetIngested" => totalIngested = totalProcessed
  /\ at[Command] = "resetProcessed" => totalIngested = 0
  /\ at[Command] = "resetSeqNo" => totalIngested = 0 /\ totalProcessed = 0
  /\ ~Resetting => totalIngested + Uncounted = head - base
                   /\ totalProcessed = Processed - base

LEMMA TotalsAs ==
  \A base : ThreadsTakeTurns => (TotalsAddUp(base) <=> Totals(base))
<1> SUFFICES ASSUME NEW base, ThreadsTakeTurns PROVE TotalsAddUp(base) <=> Totals(base)
  OBVIOUS
<1>1. Cardinality({p \in Producers : at[p] = "count"}) = Uncounted BY UncountedIs
<1>2. CASE at[Command] = "resetIngested"
  BY <1>2 DEF TotalsAddUp, Totals, Resetting
<1>3. CASE at[Command] = "resetProcessed"
  BY <1>3 DEF TotalsAddUp, Totals, Resetting
<1>4. CASE at[Command] = "resetSeqNo"
  BY <1>4 DEF TotalsAddUp, Totals, Resetting
<1>5. CASE ~Resetting BY <1>1, <1>5 DEF TotalsAddUp, Totals, Resetting
<1> QED BY <1>2, <1>3, <1>4, <1>5 DEF Resetting

LEMMA TotalsAsNext ==
  (\A base : ThreadsTakeTurns => (TotalsAddUp(base) <=> Totals(base)))'
BY TotalsAs, PTL

\* The numbers the accounts are kept in.
LEMMA AccountTypes ==
  ASSUME ServerTypeOK, RingInv, ThreadsTakeTurns, NEW base \in 0 .. head, Accounts(base)
  PROVE  /\ base \in Nat /\ head \in Nat /\ tail \in Nat /\ tail <= head
         /\ Len(sent) = head /\ sent \in Seq(Msgs)
         /\ Stored \in Nat /\ Processed \in Nat /\ base <= Processed
         /\ Processed <= Stored /\ Stored <= tail
         /\ userSeqNo \in Nat /\ NextSeqNo \in Nat /\ rejected \in Nat /\ resets \in Nat
         /\ expectedSeqNo \in Nat \ {0} /\ sequenceGapsDetected \in Nat
         /\ totalIngested \in Nat /\ totalProcessed \in Nat
         /\ consumerAt \in {"loop", "popping", "compare", "store", "count", "exit"}
         /\ at \in [Producers -> Places] /\ made \in [Producers -> Msgs \cup {NoMsg}]
<1>1. /\ base \in Nat /\ head \in Nat /\ tail \in Nat /\ tail <= head
      /\ Len(sent) = head /\ sent \in Seq(Msgs)
  BY DEF RingInv, TypeOK, CachesAreConservative, SlotsHoldQueue
<1>2. /\ userSeqNo \in Nat /\ NextSeqNo \in Nat /\ rejected \in Nat /\ resets \in Nat
      /\ expectedSeqNo \in Nat \ {0} /\ sequenceGapsDetected \in Nat
      /\ totalIngested \in Nat /\ totalProcessed \in Nat
      /\ consumerAt \in {"loop", "popping", "compare", "store", "count", "exit"}
      /\ at \in [Producers -> Places] /\ made \in [Producers -> Msgs \cup {NoMsg}]
  BY DEF ServerTypeOK, NextSeqNo
<1>3. /\ Stored \in Int /\ Processed \in Int /\ Processed <= Stored /\ Stored <= tail
      /\ base <= Processed
  BY <1>1, <1>2 DEF Stored, Processed, Accounts
<1> QED BY <1>1, <1>2, <1>3

LEMMA SentInSequence ==
  ASSUME ServerTypeOK, RingInv, ThreadsTakeTurns, NEW base \in 0 .. head, Accounts(base)
  PROVE  /\ \A i \in base + 1 .. head : sent[i].seqNo \in 1 .. MaxSeqNo
         /\ \A p \in Producers : Making(p) => made[p].seqNo \in 1 .. MaxSeqNo
BY DEF Accounts, InSequence, ThreadsTakeTurns, UserMsgs

\* A step the accounts do not see.
LEMMA AccountsStay ==
  ASSUME ThreadsTakeTurns, ThreadsTakeTurns', NEW base, Accounts(base),
         UNCHANGED <<head, sent, NextSeqNo, resets, rejected, expectedSeqNo,
                     sequenceGapsDetected, totals, made, Stored, Processed, Resetting>>,
         Resetting => at'[Command] = at[Command],
         \A p \in Producers : /\ Making(p)' <=> Making(p)
                              /\ at'[p] = "count" <=> at[p] = "count"
  PROVE  Accounts(base)'
<1>1. InSequence(base)' BY DEF Accounts, InSequence
<1>2. GapsAddUp(base)' BY DEF Accounts, GapsAddUp
<1>3. TotalsAddUp(base)'
  <2>1. Totals(base) BY TotalsAs DEF Accounts
  <2>2. Totals(base)' BY <2>1 DEF Totals, Uncounted, totals, Resetting
  <2> QED BY <2>2, TotalsAsNext
<1>4. base <= Processed' /\ (Resetting' => base = head') BY DEF Accounts
<1> QED BY <1>1, <1>2, <1>3, <1>4 DEF Accounts

\* A message gets its number: the next one.
LEMMA AccountsNumber ==
  ASSUME ServerTypeOK, RingInv, ThreadsTakeTurns, ThreadsTakeTurns',
         NEW base \in 0 .. head, Accounts(base), NEW p \in Producers, Number(p)
  PROVE  Accounts(base)'
<1>0. /\ Sending(p) /\ ~Making(p) /\ at[p] # "count" BY DEF Number, Sending, Making
<1>1. /\ ~Resetting /\ \A q \in Producers : q # p => ~Sending(q) /\ ~Making(q)
      /\ \A q \in Producers : at[q] # "count"
  BY <1>0, OnlyOneSends
<1>2. at \in [Producers -> Places] /\ made \in [Producers -> Msgs \cup {NoMsg}]
  BY AccountTypes
<1>3. /\ at'[p] = "push" /\ \A q \in Producers : q # p => at'[q] = at[q] /\ made'[q] = made[q]
      /\ made'[p] = [seqNo |-> userSeqNo, epoch |-> resets]
      /\ userSeqNo' = userSeqNo + 1
      /\ UNCHANGED <<head, tail, sent, resets, rejected, expectedSeqNo,
                     sequenceGapsDetected, totalIngested, totalProcessed, consumerAt>>
  BY <1>2 DEF Number, GoTo, ringVars, producerVars, consumerVars, totals, book, histories
<1>4. /\ ~Resetting' /\ NextSeqNo = userSeqNo /\ NextSeqNo' = userSeqNo + 1
      /\ userSeqNo \in Nat
  <2>1. userSeqNo \in Nat BY AccountTypes
  <2>2. ~Resetting' BY <1>1, <1>3 DEF Resetting
  <2> QED BY <1>1, <1>3, <2>1, <2>2 DEF NextSeqNo
<1>5. Stored' = Stored /\ Processed' = Processed BY <1>3 DEF Stored, Processed
<1>6. InSequence(base)'
  <2>1. \A i \in base + 1 .. head :
          /\ sent[i] \in UserMsgs /\ sent[i].epoch = resets
          /\ sent[i].seqNo < userSeqNo /\ sent[i].seqNo \in Nat
    BY <1>4, SentInSequence DEF Accounts, InSequence
  <2>2. \A q \in Producers : Making(q)' => q = p BY <1>1, <1>3 DEF Making
  <2> QED BY <1>3, <1>4, <2>1, <2>2 DEF Accounts, InSequence
<1>7. GapsAddUp(base)'
  <2>1. ~(\E q \in Producers : Making(q)) BY <1>0, <1>1
  <2>2. (\E q \in Producers : Making(q))' BY <1>3 DEF Making
  <2>3. /\ NextSeqNo - 1 = rejected + (head - base) + 0
        /\ rejected \in Nat /\ head \in Nat /\ base \in Nat
    BY <2>1, AccountTypes DEF Accounts, GapsAddUp
  <2>4. NextSeqNo' - 1 = rejected + (head - base) + 1 BY <1>4, <2>3
  <2> QED BY <1>3, <1>5, <2>2, <2>4 DEF Accounts, GapsAddUp
<1>8. TotalsAddUp(base)'
  <2>1. Totals(base) BY TotalsAs DEF Accounts
  <2>2. Uncounted' = Uncounted BY <1>1, <1>3 DEF Uncounted
  <2>3. Totals(base)' BY <1>1, <1>3, <1>4, <1>5, <2>1, <2>2 DEF Totals, Resetting
  <2> QED BY <2>3, TotalsAsNext
<1> QED BY <1>3, <1>4, <1>5, <1>6, <1>7, <1>8 DEF Accounts

\* A message is published.
LEMMA AccountsPublish ==
  ASSUME ServerTypeOK, RingInv, RingInv', ThreadsTakeTurns, ThreadsTakeTurns',
         NEW base \in 0 .. head, Accounts(base), NEW p \in Producers, InsidePush(p),
         PushPublish(p)
  PROVE  Accounts(base)'
<1>0. /\ at[p] = "pushing" /\ Making(p) /\ Sending(p) /\ pmsg[p] = made[p]
      /\ made[p] \in UserMsgs
  BY DEF PushPublish, ThreadsTakeTurns, Making, Sending
<1>1. /\ ~Resetting /\ \A q \in Producers : q # p => ~Sending(q) /\ ~Making(q)
      /\ \A q \in Producers : at[q] # "count"
  BY <1>0, OnlyOneSends
<1>2. /\ at \in [Producers -> Places] /\ base \in Nat /\ head \in Nat /\ Len(sent) = head
      /\ sent \in Seq(Msgs) /\ Stored \in Nat /\ Stored <= tail /\ tail \in Nat
      /\ tail <= head /\ rejected \in Nat /\ totalIngested \in Nat
  BY AccountTypes
<1>3. /\ at'[p] = "count" /\ \A q \in Producers : q # p => at'[q] = at[q]
      /\ sent' = Append(sent, made[p])
      /\ UNCHANGED <<tail, resets, rejected, expectedSeqNo, sequenceGapsDetected, made,
                     totalIngested, totalProcessed, consumerAt, userSeqNo>>
  BY <1>0, <1>2 DEF InsidePush, PushPublish, GoTo, consumerVars, totals, book, histories,
    control
<1>a. head' = head + 1
  <2>1. ppc[p] # "idle" /\ head' = currentHead[p] + 1 BY DEF PushPublish
  <2> QED BY <2>1 DEF RingInv, ConclusionsHold
<1>4. /\ \A i \in 1 .. head : sent'[i] = sent[i]
      /\ sent'[head + 1] = made[p]
  BY <1>0, <1>2, <1>3
<1>5. ~Resetting' /\ NextSeqNo' = NextSeqNo
  BY <1>1, <1>3 DEF Resetting, NextSeqNo
<1>6. Stored' = Stored /\ Processed' = Processed BY <1>3 DEF Stored, Processed
<1>7. InSequence(base)'
  <2>1. \A i \in base + 1 .. head :
          /\ sent'[i] = sent[i] /\ sent[i] \in UserMsgs /\ sent[i].epoch = resets
          /\ sent[i].seqNo < NextSeqNo /\ sent[i].seqNo < made[p].seqNo
    BY <1>0, <1>2, <1>4 DEF Accounts, InSequence
  <2>2. made[p].epoch = resets /\ made[p].seqNo < NextSeqNo
    BY <1>0 DEF Accounts, InSequence
  <2>3. \A q \in Producers : ~Making(q)' BY <1>1, <1>3 DEF Making
  <2>4. \A i \in base + 1 .. head' : i \in base + 1 .. head \/ i = head + 1
    BY <1>2, <1>a
  <2>5. \A i, j \in base + 1 .. head : i < j => sent[i].seqNo < sent[j].seqNo
    BY DEF Accounts, InSequence
  <2>6. \A i, j \in base + 1 .. head' : i < j => sent'[i].seqNo < sent'[j].seqNo
    BY <1>2, <1>4, <2>1, <2>4, <2>5
  <2>7. \A i \in base + 1 .. head' : /\ sent'[i] \in UserMsgs /\ sent'[i].epoch = resets
                                      /\ sent'[i].seqNo < NextSeqNo
    BY <1>0, <1>4, <2>1, <2>2, <2>4
  <2> QED BY <1>3, <1>5, <2>3, <2>6, <2>7 DEF InSequence
<1>8. GapsAddUp(base)'
  <2>1. \E q \in Producers : Making(q) BY <1>0
  <2>2. ~(\E q \in Producers : Making(q)') BY <1>1, <1>3 DEF Making
  <2>3. NextSeqNo - 1 = rejected + (head - base) + 1
    BY <2>1 DEF Accounts, GapsAddUp
  <2>4. NextSeqNo' - 1 = rejected + (head' - base) + 0
    BY <1>2, <1>5, <1>a, <2>3, AccountTypes
  <2>5. Stored # base => sent'[Stored] = sent[Stored]
    <3>1. Stored # base => Stored \in 1 .. head BY <1>2, AccountTypes
    <3> QED BY <1>4, <3>1
  <2> QED BY <1>3, <1>6, <2>2, <2>4, <2>5 DEF Accounts, GapsAddUp
<1>9. TotalsAddUp(base)'
  <2>1. Totals(base) BY TotalsAs DEF Accounts
  <2>2. Uncounted' = 1 /\ Uncounted = 0 BY <1>1, <1>3 DEF Uncounted
  <2>3. totalIngested' + Uncounted' = head' - base
    BY <1>1, <1>2, <1>3, <1>a, <2>1, <2>2 DEF Totals
  <2>4. Totals(base)' BY <1>1, <1>3, <1>5, <1>6, <2>1, <2>3 DEF Totals, Resetting
  <2> QED BY <2>4, TotalsAsNext
<1> QED BY <1>3, <1>5, <1>6, <1>7, <1>8, <1>9 DEF Accounts

\* ... and counted.
LEMMA AccountsCount ==
  ASSUME ServerTypeOK, RingInv, ThreadsTakeTurns, ThreadsTakeTurns',
         NEW base \in 0 .. head, Accounts(base), NEW p \in Producers, Count(p)
  PROVE  Accounts(base)'
<1>0. Sending(p) /\ ~Making(p) /\ at[p] = "count" BY DEF Count, Sending, Making
<1>1. /\ ~Resetting
      /\ \A q \in Producers : q # p => ~Making(q) /\ at[q] # "count"
  BY <1>0, OnlyOneSends
<1>2. at \in [Producers -> Places] /\ totalIngested \in Nat BY AccountTypes
<1>3. /\ at'[p] \in {"loop", "number"}
      /\ \A q \in Producers : q # p => at'[q] = at[q]
      /\ totalIngested' = totalIngested + 1
      /\ UNCHANGED <<head, tail, sent, resets, rejected, expectedSeqNo, made,
                     sequenceGapsDetected, totalProcessed, consumerAt, userSeqNo>>
  BY <1>2 DEF Count, OneDone, GoTo, ringVars, producerVars, consumerVars, book,
    histories, control
<1>4. ~Resetting' /\ NextSeqNo' = NextSeqNo BY <1>1, <1>3 DEF Resetting, NextSeqNo
<1>5. Stored' = Stored /\ Processed' = Processed BY <1>3 DEF Stored, Processed
<1>6. \A q \in Producers : ~Making(q) /\ ~Making(q)' BY <1>0, <1>1, <1>3 DEF Making
<1>7. InSequence(base)' BY <1>3, <1>4, <1>6 DEF Accounts, InSequence
<1>8. GapsAddUp(base)' BY <1>3, <1>4, <1>5, <1>6 DEF Accounts, GapsAddUp
<1>9. TotalsAddUp(base)'
  <2>1. Totals(base) BY TotalsAs DEF Accounts
  <2>2. Uncounted' = 0 /\ Uncounted = 1 BY <1>0, <1>1, <1>3 DEF Uncounted
  <2>3. totalIngested' + Uncounted' = head' - base
    BY <1>1, <1>2, <1>3, <2>1, <2>2 DEF Totals
  <2>4. Totals(base)' BY <1>1, <1>3, <1>4, <1>5, <2>1, <2>3 DEF Totals, Resetting
  <2> QED BY <2>4, TotalsAsNext
<1> QED BY <1>3, <1>4, <1>5, <1>7, <1>8, <1>9 DEF Accounts

\* A line is rejected, and its number spent.
LEMMA AccountsReject ==
  ASSUME ServerTypeOK, RingInv, ThreadsTakeTurns, ThreadsTakeTurns',
         NEW base \in 0 .. head, Accounts(base), Reject
  PROVE  Accounts(base)'
<1>0. /\ Command \in Producers /\ at[Command] = "number" /\ Sending(Command)
      /\ ~Making(Command)
  BY DEF Reject, Sending, Making
<1>1. /\ ~Resetting /\ \A q \in Producers : ~Making(q) /\ at[q] # "count"
  BY <1>0, OnlyOneSends
<1>2. /\ at \in [Producers -> Places] /\ userSeqNo \in Nat /\ rejected \in Nat
      /\ head \in Nat /\ base \in Nat
  BY AccountTypes
<1>3. /\ at'[Command] \in {"loop", "number"}
      /\ \A q \in Producers : q # Command => at'[q] = at[q]
      /\ userSeqNo' = userSeqNo + 1 /\ rejected' = rejected + 1
      /\ UNCHANGED <<head, tail, sent, resets, expectedSeqNo, made, totalIngested,
                     sequenceGapsDetected, totalProcessed, consumerAt>>
  BY <1>0, <1>2 DEF Reject, OneDone, GoTo, ringVars, producerVars, consumerVars, book,
    totals
<1>4. ~Resetting' /\ NextSeqNo = userSeqNo /\ NextSeqNo' = userSeqNo + 1
  BY <1>1, <1>3 DEF Resetting, NextSeqNo
<1>5. Stored' = Stored /\ Processed' = Processed BY <1>3 DEF Stored, Processed
<1>6. \A q \in Producers : ~Making(q)' BY <1>0, <1>1, <1>3 DEF Making
<1>7. InSequence(base)'
  <2>1. \A i \in base + 1 .. head : sent[i].seqNo < userSeqNo /\ sent[i].seqNo \in Nat
    BY <1>4, SentInSequence DEF Accounts, InSequence
  <2> QED BY <1>2, <1>3, <1>4, <1>6, <2>1 DEF Accounts, InSequence
<1>8. GapsAddUp(base)'
  <2>1. NextSeqNo - 1 = rejected + (head - base) + 0
    BY <1>1 DEF Accounts, GapsAddUp
  <2>2. NextSeqNo' - 1 = rejected' + (head - base) + 0 BY <1>2, <1>3, <1>4, <2>1
  <2> QED BY <1>3, <1>5, <1>6, <2>2 DEF Accounts, GapsAddUp
<1>9. TotalsAddUp(base)'
  <2>1. Totals(base) BY TotalsAs DEF Accounts
  <2>2. Uncounted' = Uncounted BY <1>1, <1>3 DEF Uncounted
  <2>3. Totals(base)' BY <1>1, <1>3, <1>4, <1>5, <2>1, <2>2 DEF Totals, Resetting
  <2> QED BY <2>3, TotalsAsNext
<1> QED BY <1>3, <1>4, <1>5, <1>7, <1>8, <1>9 DEF Accounts

\* RESET, of a server that has processed everything, opens new accounts.
LEMMA AccountsReset ==
  ASSUME Patient, ServerTypeOK, RingInv, ThreadsTakeTurns, ThreadsTakeTurns',
         NEW base \in 0 .. head, Accounts(base), ResetBook
  PROVE  Accounts(head)'
<1>0. /\ at[Command] = "loop" /\ at[Producer] = "loop" /\ head = tail
      /\ consumerAt \in {"loop", "popping"} /\ ~Resetting
  BY DEF ResetBook, ReadCommand, MayReset, Drained, Resetting
<1>1. /\ at \in [Producers -> Places] /\ head \in Nat /\ base \in Nat
      /\ totalIngested \in Nat /\ totalProcessed \in Nat
  BY AccountTypes
<1>2. /\ at'[Command] = "resetIngested" /\ at'[Producer] = "loop"
      /\ expectedSeqNo' = 1 /\ sequenceGapsDetected' = 0 /\ rejected' = 0
      /\ UNCHANGED <<head, tail, consumerAt, totalIngested, totalProcessed>>
  BY <1>0, <1>1 DEF ResetBook, GoTo, ringVars, producerVars, consumerVars, totals
<1>3. /\ Stored = head /\ Processed = head /\ Stored' = head /\ Processed' = head
      /\ Resetting' /\ NextSeqNo' = 1
  BY <1>0, <1>2 DEF Stored, Processed, Resetting, NextSeqNo
<1>4. /\ ~(\E p \in Producers : Making(p)') /\ Uncounted = 0 /\ Uncounted' = 0
  BY <1>0, <1>2 DEF Making, Uncounted
<1>5. InSequence(head)' BY <1>1, <1>2, <1>4 DEF InSequence
<1>6. GapsAddUp(head)' BY <1>1, <1>2, <1>3, <1>4 DEF GapsAddUp
<1>7. TotalsAddUp(head)'
  <2>1. Totals(base) BY TotalsAs DEF Accounts
  <2>2. totalIngested = totalProcessed
    BY <1>0, <1>1, <1>3, <1>4, <2>1 DEF Totals
  <2>3. Totals(head)' BY <1>2, <1>3, <2>2 DEF Totals
  <2> QED BY <2>3, TotalsAsNext
<1> QED BY <1>1, <1>2, <1>3, <1>5, <1>6, <1>7 DEF Accounts

\* The rest of a RESET.
LEMMA AccountsRest ==
  ASSUME ServerTypeOK, RingInv, ThreadsTakeTurns, ThreadsTakeTurns',
         NEW base \in 0 .. head, Accounts(base),
         ResetIngested \/ ResetProcessed \/ ResetSeqNo
  PROVE  Accounts(base)'
<1>0. /\ Resetting /\ base = head /\ at[Producer] \in {"loop", "exit"}
  BY DEF ResetIngested, ResetProcessed, ResetSeqNo, Resetting, Accounts, ThreadsTakeTurns
<1>1. /\ at \in [Producers -> Places] /\ head \in Nat /\ tail \in Nat /\ tail <= head
      /\ base <= Processed /\ Processed <= Stored /\ Stored <= tail
      /\ Processed \in Nat /\ Stored \in Nat
  BY AccountTypes
<1>2. /\ at'[Producer] = at[Producer]
      /\ at'[Command] \in {"resetProcessed", "resetSeqNo", "loop"}
      /\ UNCHANGED <<head, tail, sent, consumerAt, resets, rejected, expectedSeqNo, made,
                     sequenceGapsDetected>>
  BY <1>1 DEF ResetIngested, ResetProcessed, ResetSeqNo, GoTo, ringVars, producerVars,
    consumerVars, book, histories
<1>3. NextSeqNo = 1 /\ NextSeqNo' = 1
  BY <1>0, <1>1 DEF ResetIngested, ResetProcessed, ResetSeqNo, GoTo, Resetting, NextSeqNo
<1>4. Stored' = Stored /\ Processed' = Processed BY <1>2 DEF Stored, Processed
<1>5. /\ \A p \in Producers : ~Making(p)' /\ at'[p] # "count"
      /\ \A p \in Producers : ~Making(p)
  BY <1>0, <1>2 DEF Making, Resetting
<1>6. InSequence(base)' BY <1>2, <1>3, <1>5 DEF Accounts, InSequence
<1>7. GapsAddUp(base)' BY <1>2, <1>3, <1>4, <1>5 DEF Accounts, GapsAddUp
<1>8. TotalsAddUp(base)'
  <2>1. Totals(base) BY TotalsAs DEF Accounts
  <2>2. Uncounted' = 0 BY <1>5 DEF Uncounted
  <2>3. Processed' - base = 0 /\ head' - base = 0
    BY <1>0, <1>1, <1>2, <1>4
  <2>4. ASSUME ResetIngested PROVE Totals(base)'
    <3>1. at'[Command] = "resetProcessed" /\ totalIngested' = 0
      BY <1>1, <2>4 DEF ResetIngested, GoTo
    <3> QED BY <3>1 DEF Totals, Resetting
  <2>5. ASSUME ResetProcessed PROVE Totals(base)'
    <3>1. at'[Command] = "resetSeqNo" /\ totalIngested' = 0 /\ totalProcessed' = 0
      BY <1>1, <2>1, <2>5 DEF ResetProcessed, GoTo, Totals
    <3> QED BY <3>1 DEF Totals, Resetting
  <2>6. ASSUME ResetSeqNo PROVE Totals(base)'
    <3>1. totalIngested' = 0 /\ totalProcessed' = 0 /\ at'[Command] = "loop"
      BY <1>1, <2>1, <2>6 DEF ResetSeqNo, GoTo, Totals, totals
    <3> QED BY <2>2, <2>3, <3>1 DEF Totals, Resetting
  <2>7. Totals(base)' BY <2>4, <2>5, <2>6
  <2> QED BY <2>7, TotalsAsNext
<1>9. base <= Processed' /\ base = head' BY <1>0, <1>1, <1>2, <1>4
<1> QED BY <1>6, <1>7, <1>8, <1>9 DEF Accounts

LEMMA GapArithmetic ==
  ASSUME NEW g \in Nat, NEW s \in Nat, NEW b \in Nat, NEW e \in Nat \ {0}, NEW n \in Nat,
         g + (s - b) = e - 1, e <= n
  PROVE  /\ g + (n - e) + (s + 1 - b) = n
         /\ g + (IF n > e THEN n - e ELSE 0) + (s + 1 - b) = n
OBVIOUS

\* The book takes the number of a message: never one it expected to be past.
LEMMA AccountsStore ==
  ASSUME ServerTypeOK, RingInv, ThreadsTakeTurns, ThreadsTakeTurns',
         NEW base \in 0 .. head, Accounts(base), Store
  PROVE  Accounts(base)'
<1>0. /\ consumerAt = "store" /\ consumerAt' = "count" /\ expectedRead = expectedSeqNo
  BY DEF Store, ThreadsTakeTurns
<1>1. /\ tail \in base + 1 .. head /\ item = sent[tail] /\ item \in UserMsgs
      /\ ItemSeqNo = sent[tail].seqNo
  BY <1>0, ItemInSequence DEF RingInv
<1>2. /\ base \in Nat /\ head \in Nat /\ tail \in Nat /\ expectedSeqNo \in Nat \ {0}
      /\ sequenceGapsDetected \in Nat /\ base <= Processed
  BY AccountTypes
<1>3. sent[tail].seqNo \in Nat \ {0} BY <1>1, SentInSequence
<1>4. /\ UNCHANGED <<head, tail, sent, resets, rejected, made, at, totalIngested,
                     totalProcessed, userSeqNo>>
      /\ expectedSeqNo' = sent[tail].seqNo + 1
      /\ sequenceGapsDetected' = sequenceGapsDetected +
           (IF sent[tail].seqNo > expectedSeqNo THEN sent[tail].seqNo - expectedSeqNo ELSE 0)
  BY <1>0, <1>1 DEF Store, ringVars, producerVars, consumerVars, pushers, histories, totals,
    control
<1>5. Stored = tail - 1 /\ Processed = tail - 1 /\ Stored' = tail /\ Processed' = tail - 1
  BY <1>0, <1>4 DEF Stored, Processed
<1>6. expectedSeqNo <= sent[tail].seqNo
  <2>1. CASE Stored = base BY <1>3, <2>1 DEF Accounts, GapsAddUp
  <2>2. CASE Stored # base
    <3>1. tail - 1 \in base + 1 .. head /\ tail - 1 < tail BY <1>1, <1>2, <1>5, <2>2
    <3>2. sent[tail - 1].seqNo < sent[tail].seqNo
      BY <1>1, <3>1 DEF Accounts, InSequence
    <3>3. sent[tail - 1].seqNo \in Nat BY <3>1, SentInSequence
    <3>4. expectedSeqNo = sent[tail - 1].seqNo + 1 BY <1>5, <2>2 DEF Accounts, GapsAddUp
    <3> QED BY <1>3, <3>2, <3>3, <3>4
  <2> QED BY <2>1, <2>2
<1>7. InSequence(base)'
  BY <1>4 DEF Accounts, InSequence, NextSeqNo, Resetting, Making
<1>8. GapsAddUp(base)'
  <2>1. sequenceGapsDetected + (tail - 1 - base) = expectedSeqNo - 1
    BY <1>5 DEF Accounts, GapsAddUp
  <2>2. tail - 1 \in Nat /\ tail - 1 + 1 = tail BY <1>1, <1>2
  <2>3. sequenceGapsDetected' + (tail - base) = sent[tail].seqNo
    BY <1>2, <1>3, <1>4, <1>6, <2>1, <2>2, GapArithmetic
  <2>4. sequenceGapsDetected' + (Stored' - base) = expectedSeqNo' - 1
    BY <1>3, <1>4, <1>5, <2>3
  <2>5. Stored' # base BY <1>1, <1>2, <1>5
  <2>6. /\ NextSeqNo' = NextSeqNo
        /\ \A p \in Producers : Making(p)' <=> Making(p)
    BY <1>4 DEF NextSeqNo, Resetting, Making
  <2> QED BY <1>4, <1>5, <2>4, <2>5, <2>6 DEF Accounts, GapsAddUp
<1>9. TotalsAddUp(base)'
  <2>1. Totals(base) BY TotalsAs DEF Accounts
  <2>2. Totals(base)' BY <1>4, <1>5, <2>1 DEF Totals, Uncounted, Resetting
  <2> QED BY <2>2, TotalsAsNext
<1> QED BY <1>2, <1>4, <1>5, <1>7, <1>8, <1>9 DEF Accounts, Resetting

LEMMA AccountsProcessed ==
  ASSUME ServerTypeOK, RingInv, ThreadsTakeTurns, ThreadsTakeTurns',
         NEW base \in 0 .. head, Accounts(base), CountProcessed
  PROVE  Accounts(base)'
<1>0. consumerAt = "count" /\ consumerAt' = "loop" BY DEF CountProcessed
<1>1. /\ UNCHANGED <<head, tail, sent, resets, rejected, made, at, totalIngested,
                     expectedSeqNo, sequenceGapsDetected, userSeqNo>>
      /\ totalProcessed' = totalProcessed + 1
  BY DEF CountProcessed, ringVars, producerVars, consumerVars, pushers, histories, book,
    control
<1>2. /\ base \in Nat /\ head \in Nat /\ tail \in Nat /\ tail <= head
      /\ base <= Processed /\ totalProcessed \in Nat
  BY AccountTypes
<1>3. Stored = tail /\ Processed = tail - 1 /\ Stored' = tail /\ Processed' = tail
  BY <1>0, <1>1 DEF Stored, Processed
<1>4. ~Resetting BY <1>2, <1>3 DEF Accounts
<1>5. InSequence(base)'
  BY <1>1 DEF Accounts, InSequence, NextSeqNo, Resetting, Making
<1>6. GapsAddUp(base)'
  BY <1>1, <1>3 DEF Accounts, GapsAddUp, NextSeqNo, Resetting, Making
<1>7. TotalsAddUp(base)'
  <2>1. Totals(base) BY TotalsAs DEF Accounts
  <2>2. totalProcessed' = Processed' - base BY <1>1, <1>2, <1>3, <1>4, <2>1 DEF Totals
  <2>3. Totals(base)' BY <1>1, <1>4, <2>1, <2>2 DEF Totals, Uncounted, Resetting
  <2> QED BY <2>3, TotalsAsNext
<1>8. base <= Processed' /\ ~Resetting' BY <1>1, <1>2, <1>3, <1>4 DEF Resetting
<1> QED BY <1>5, <1>6, <1>7, <1>8 DEF Accounts

\* Of a thread, what the accounts do not see.
LEMMA AccountsThread ==
  ASSUME ServerTypeOK, RingInv, ThreadsTakeTurns, ThreadsTakeTurns',
         NEW base \in 0 .. head, Accounts(base), NEW p \in Producers,
         UNCHANGED <<head, tail, sent, resets, rejected, made, totals, expectedSeqNo,
                     sequenceGapsDetected, userSeqNo, consumerAt>>,
         NEW place, at' = [at EXCEPT ![p] = place],
         \/ at[p] = "loop" /\ place \in {"number", "exit"}
         \/ Making(p) /\ place \in {"push", "pushing"}
  PROVE  Accounts(base)'
<1>1. at \in [Producers -> Places] BY AccountTypes
<1>2. /\ Resetting' <=> Resetting
      /\ Resetting => at'[Command] = at[Command]
      /\ \A q \in Producers : /\ Making(q)' <=> Making(q)
                              /\ at'[q] = "count" <=> at[q] = "count"
  BY <1>1 DEF Making, Resetting
<1>3. Resetting' = Resetting BY <1>2 DEF Resetting
<1>4. Stored' = Stored /\ Processed' = Processed /\ NextSeqNo' = NextSeqNo
  BY <1>2 DEF Stored, Processed, NextSeqNo
<1> QED BY <1>2, <1>3, <1>4, AccountsStay

\* Of the consumer and main.
LEMMA AccountsElse ==
  ASSUME ThreadsTakeTurns, ThreadsTakeTurns', NEW base, Accounts(base),
         UNCHANGED <<head, sent, resets, rejected, made, totals, expectedSeqNo,
                     sequenceGapsDetected, userSeqNo, at, Stored, Processed>>
  PROVE  Accounts(base)'
<1>1. Resetting' = Resetting /\ NextSeqNo' = NextSeqNo BY DEF Resetting, NextSeqNo
<1>2. \A p \in Producers : /\ Making(p)' <=> Making(p)
                           /\ at'[p] = "count" <=> at[p] = "count"
  BY DEF Making
<1> QED BY <1>1, <1>2, AccountsStay

LEMMA NextAccounts ==
  ASSUME Patient, ServerTypeOK, RingInv, RingInv', ThreadsTakeTurns, ThreadsTakeTurns',
         NEW base \in 0 .. head, Accounts(base), [ServerNext]_serverVars
  PROVE  Accounts(base)' \/ Accounts(head)'
<1>0. TypeOK /\ SlotsHoldQueue /\ CachesAreConservative /\ ConclusionsHold BY DEF RingInv
<1>1. ASSUME NEW p \in Producers, PushOne(p) PROVE Accounts(base)'
  <2>1. CASE Number(p) BY <2>1, AccountsNumber
  <2>2. CASE CallPush(p)
    <3>1. Making(p) BY <2>2 DEF CallPush, Making
    <3>2. /\ UNCHANGED <<head, tail, sent, resets, rejected, made, totals, expectedSeqNo,
                         sequenceGapsDetected, userSeqNo, consumerAt>>
          /\ at' = [at EXCEPT ![p] = "pushing"]
      BY <2>2 DEF CallPush, GoTo, PushCheck, consumerVars, book, histories, control
    <3> QED BY <3>1, <3>2, AccountsThread
  <2>3. CASE InsidePush(p) /\ PushPublish(p) BY <2>3, AccountsPublish
  <2>4. CASE InsidePush(p) /\ ~PushPublish(p)
    <3>1. ppc[p] \in {"refresh", "write"} /\ UNCHANGED <<head, tail, sent>>
      BY <2>4 DEF InsidePush, PushStep, PushRefresh, PushFull, PushWrite, consumerVars
    <3>2. Making(p) BY <3>1 DEF ThreadsTakeTurns, Making
    <3>3. UNCHANGED <<resets, rejected, made, totals, expectedSeqNo,
                      sequenceGapsDetected, userSeqNo, consumerAt>>
      BY <2>4 DEF InsidePush, book, histories, control
    <3>4. \/ at' = [at EXCEPT ![p] = "push"] \/ at' = [at EXCEPT ![p] = "pushing"]
      BY <2>4, <3>1 DEF InsidePush, GoTo
    <3> QED BY <3>1, <3>2, <3>3, <3>4, AccountsThread
  <2>5. CASE Count(p) BY <2>5, AccountsCount
  <2> QED BY <1>1, <2>1, <2>2, <2>3, <2>4, <2>5 DEF PushOne
<1>2. CASE ProducerStep
  <2>1. CASE TakeBurst \/ ProducerExits
    <3>1. /\ UNCHANGED <<head, tail, sent, resets, rejected, made, totals, expectedSeqNo,
                         sequenceGapsDetected, userSeqNo, consumerAt>>
          /\ at[Producer] = "loop"
          /\ \/ at' = [at EXCEPT ![Producer] = "number"]
             \/ at' = [at EXCEPT ![Producer] = "exit"]
      BY <2>1 DEF TakeBurst, ProducerExits, GoTo, ringVars, producerVars, consumerVars,
        book, histories, control
    <3> QED BY <3>1, AccountsThread
  <2> QED BY <1>1, <1>2, <2>1 DEF ProducerStep
<1>3. CASE CommandStep \/ Quit
  <2>1. CASE Quit \/ \E n \in LineCounts : OrderLines(n)
    <3>1. /\ UNCHANGED <<head, tail, sent, resets, rejected, made, totals, expectedSeqNo,
                         sequenceGapsDetected, userSeqNo, consumerAt>>
          /\ at[Command] = "loop"
          /\ \/ at' = [at EXCEPT ![Command] = "number"]
             \/ at' = [at EXCEPT ![Command] = "exit"]
      BY <2>1 DEF Quit, OrderLines, ReadCommand, GoTo, ringVars, producerVars,
        consumerVars, book, histories, control
    <3> QED BY <3>1, AccountsThread
  <2>2. CASE \E n \in BurstSizes : Burst(n)
    <3>1. UNCHANGED <<head, tail, sent, resets, rejected, made, totals, expectedSeqNo,
                      sequenceGapsDetected, userSeqNo, consumerAt, at>>
      BY <2>2 DEF Burst, ReadCommand, ringVars, producerVars, consumerVars, book, pushers
    <3>2. UNCHANGED <<Stored, Processed>> BY <3>1 DEF Stored, Processed
    <3> QED BY <3>1, <3>2, AccountsElse
  <2>3. CASE Reject BY <2>3, AccountsReject
  <2>4. CASE PushOne(Command) BY <1>1, <2>4
  <2>5. CASE ResetBook BY <2>5, AccountsReset
  <2>6. CASE ResetIngested \/ ResetProcessed \/ ResetSeqNo BY <2>6, AccountsRest
  <2> QED BY <1>3, <2>1, <2>2, <2>3, <2>4, <2>5, <2>6 DEF CommandStep
<1>4. CASE ConsumerStep
  <2>0. tail \in Nat BY <1>0 DEF TypeOK
  <2>1. CASE Store BY <2>1, AccountsStore
  <2>2. CASE CountProcessed BY <2>2, AccountsProcessed
  <2>3. CASE ConsumerPops \/ ConsumerExits \/ InsidePop \/ Compare
    <3>1. UNCHANGED <<head, sent, resets, rejected, made, totals, expectedSeqNo,
                      sequenceGapsDetected, userSeqNo, at>>
      BY <1>0, <2>3, PopStepMoves
      DEF ConsumerPops, ConsumerExits, InsidePop, Compare, PopCheck, ringVars,
        producerVars, book, pushers, histories, control
    <3>2. Stored' = Stored /\ Processed' = Processed
      <4>1. CASE ConsumerPops \/ ConsumerExits \/ Compare
        <5>1. tail' = tail
          BY <4>1 DEF ConsumerPops, ConsumerExits, Compare, PopCheck, ringVars,
            consumerVars
        <5> QED BY <4>1, <5>1 DEF ConsumerPops, ConsumerExits, Compare, Stored, Processed
      <4>2. CASE InsidePop /\ cpc = "release"
        <5>1. consumerAt = "popping" /\ consumerAt' = "compare" /\ tail' = tail + 1
          BY <1>0, <4>2, PopStepMoves DEF InsidePop, ThreadsTakeTurns
        <5> QED BY <2>0, <5>1 DEF Stored, Processed
      <4>3. CASE InsidePop /\ cpc # "release"
        <5>1. /\ consumerAt = "popping" /\ consumerAt' \in {"loop", "popping"}
              /\ tail' = tail
          BY <1>0, <4>3, PopStepMoves DEF InsidePop, ThreadsTakeTurns
        <5> QED BY <5>1 DEF Stored, Processed
      <4> QED BY <2>3, <4>1, <4>2, <4>3
    <3> QED BY <3>1, <3>2, AccountsElse
  <2> QED BY <1>4, <2>1, <2>2, <2>3 DEF ConsumerStep
<1>5. CASE MainStep \/ Exited \/ UNCHANGED serverVars
  <2>1. UNCHANGED <<head, tail, sent, resets, rejected, made, totals, expectedSeqNo,
                    sequenceGapsDetected, userSeqNo, at, consumerAt>>
    BY <1>5 DEF MainStep, JoinCommander, JoinProducer, JoinConsumer, Exited, serverVars,
      ringVars, producerVars, consumerVars, book, pushers, histories, control
  <2>2. UNCHANGED <<Stored, Processed>> BY <2>1 DEF Stored, Processed
  <2> QED BY <2>1, <2>2, AccountsElse
<1> QED BY <1>2, <1>3, <1>4, <1>5 DEF ServerNext

--------------------------------------------------------------------------------

LEMMA InitServerInv == ServerInit => ServerInv
<1> SUFFICES ASSUME ServerInit PROVE ServerInv OBVIOUS
<1>0. Init /\ head = 0 /\ tail = 0 /\ sent = <<>> BY DEF ServerInit, Init
<1>1. RingInv BY <1>0, InitRingInv
<1>2. ServerTypeOK BY <1>1 DEF ServerInit, ServerTypeOK, RingInv, Places
<1>3. ThreadsTakeTurns
  BY <1>0 DEF ServerInit, Init, ThreadsTakeTurns, Sending, Making
<1>4. NumbersWithinBounds
  BY DEF ServerInit, NumbersWithinBounds, NumbersAskedFor, ToNumber, Sending, Making
<1>5. Accounts(0)
  <2>1. /\ ~Resetting /\ \A p \in Producers : ~Making(p) /\ at[p] # "count"
    BY DEF ServerInit, Resetting, Making
  <2>2. Stored = 0 /\ Processed = 0 /\ NextSeqNo = 1 /\ Uncounted = 0
    BY <1>0, <2>1 DEF ServerInit, Stored, Processed, NextSeqNo, Uncounted
  <2>3. InSequence(0) BY <1>0, <2>1 DEF InSequence
  <2>4. GapsAddUp(0) BY <1>0, <2>1, <2>2 DEF ServerInit, GapsAddUp
  <2>5. Totals(0) BY <1>0, <2>1, <2>2 DEF ServerInit, Totals, Resetting
  <2> QED BY <1>0, <1>3, <2>1, <2>2, <2>3, <2>4, <2>5, TotalsAs DEF Accounts
<1> QED BY <1>0, <1>1, <1>2, <1>3, <1>4, <1>5 DEF ServerInv

LEMMA NextServerInv ==
  ASSUME Patient
  PROVE  ServerInv /\ [ServerNext]_serverVars => ServerInv'
<1> SUFFICES ASSUME ServerInv, [ServerNext]_serverVars PROVE ServerInv' OBVIOUS
<1>0. ServerTypeOK /\ RingInv /\ ThreadsTakeTurns /\ NumbersWithinBounds
  BY DEF ServerInv
<1>1. PICK base \in 0 .. head : Accounts(base) BY DEF ServerInv
<1>2. ThreadsTakeTurns' BY <1>0, NextTurns
<1>3. RingInv' BY <1>0, <1>2, NextRing
<1>4. ServerTypeOK' BY <1>0, <1>1, <1>3, NextTypes
<1>5. NumbersWithinBounds' BY <1>0, <1>2, <1>4, NextNumbers
<1>6. Accounts(base)' \/ Accounts(head)' BY <1>0, <1>1, <1>2, <1>3, NextAccounts
<1>7. \E b \in 0 .. head' : Accounts(b)'
  <2>1. tail' <= head' /\ head' \in Nat /\ tail' \in Nat /\ base \in Nat
    BY <1>0, <1>3 DEF RingInv, TypeOK, CachesAreConservative
  <2>2. ASSUME Accounts(base)' PROVE base <= head'
    <3>1. base <= Processed' BY <2>2 DEF Accounts
    <3>2. Processed' = tail' \/ Processed' = tail' - 1 BY <2>1 DEF Processed, Stored
    <3> QED BY <2>1, <3>1, <3>2
  <2>3. CASE Accounts(base)' BY <2>1, <2>2, <2>3
  <2>4. CASE Accounts(head)' BY <2>1, <2>4
  <2> QED BY <1>6, <2>3, <2>4
<1> QED BY <1>2, <1>3, <1>4, <1>5, <1>7 DEF ServerInv

\* With a patient operator every reachable state of the server satisfies the inductive
\* invariant: its types, that of the ring, the turns its threads take, and the accounts.
THEOREM ServerInvariant ==
  ASSUME Patient
  PROVE  ServerSpec => []ServerInv
<1>1. ServerInit => ServerInv BY InitServerInv
<1>2. ServerInv /\ [ServerNext]_serverVars => ServerInv' BY NextServerInv
<1> QED BY <1>1, <1>2, PTL DEF ServerSpec

\* The ring, made for one producer thread, hands on what two threads push, in order and
\* each message once, because a patient operator has them take turns.
THEOREM ServerDeliversInOrder ==
  ASSUME Patient
  PROVE  ServerSpec => []InOrderExactlyOnce
<1>1. ServerInv => InOrderExactlyOnce BY DEF ServerInv, RingInv
<1> QED BY <1>1, ServerInvariant, PTL

\* Two threads push and one pops, and still no slot is copied in and out at once.
THEOREM ServerNeverRaces ==
  ASSUME Patient
  PROVE  ServerSpec => []NoSlotRace
<1>1. ServerInv => NoSlotRace BY RingInvNoRace DEF ServerInv
<1> QED BY <1>1, ServerInvariant, PTL

\* With bursts, files, RESETs and QUIT around it, the server's ring does what BoundedFifo
\* promises and nothing else, each step of the threads an enqueue, a dequeue or neither.
THEOREM ServerImplementsFifo ==
  ASSUME Patient
  PROVE  ServerSpec => ImplementsFifo
<1>1. ServerInit => Fifo!Init BY InitFifo DEF ServerInit
<1>2. ServerInv /\ ServerInv' /\ [ServerNext]_serverVars => [Fifo!Next]_Fifo!fifoVars
  BY ServerRingStep, RingStepFifo DEF ServerInv
<1> QED BY <1>1, <1>2, ServerInvariant, PTL DEF ServerSpec, ImplementsFifo, Fifo!Spec

LEMMA InvariantGaps == ServerInv => GapsAreRejections
<1> SUFFICES ASSUME ServerInv, Drained, at[Command] = "loop"
             PROVE  sequenceGapsDetected + (userSeqNo - expectedSeqNo) = rejected
  BY DEF GapsAreRejections
<1>1. PICK base \in 0 .. head : Accounts(base) BY DEF ServerInv
<1>2. /\ base \in Nat /\ head \in Nat /\ userSeqNo \in Nat /\ rejected \in Nat
      /\ expectedSeqNo \in Nat /\ sequenceGapsDetected \in Nat
  BY <1>1, AccountTypes DEF ServerInv
<1>3. Stored = head /\ NextSeqNo = userSeqNo
  BY DEF Drained, Stored, NextSeqNo, Resetting
<1>4. ~\E p \in Producers : Making(p) BY DEF Drained, Making
<1>5. /\ sequenceGapsDetected + (head - base) = expectedSeqNo - 1
      /\ userSeqNo - 1 = rejected + (head - base) + 0
  BY <1>1, <1>3, <1>4 DEF Accounts, GapsAddUp
<1> QED BY <1>2, <1>5

\* Once everything is processed, the gaps the book counted are the numbers spent on
\* lines that do not parse, for every burst, file and number of commands.
THEOREM GapsAreRejectedLines ==
  ASSUME Patient
  PROVE  ServerSpec => []GapsAreRejections
BY ServerInvariant, InvariantGaps, PTL

LEMMA InvariantCounters == ServerInv => CountersAgree
<1> SUFFICES ASSUME ServerInv PROVE CountersAgree OBVIOUS
<1>1. PICK base \in 0 .. head : Accounts(base) BY DEF ServerInv
<1>2. /\ base \in Nat /\ head \in Nat /\ tail \in Nat /\ tail <= head
      /\ Processed \in Nat /\ Processed <= Stored /\ Stored <= tail /\ Stored \in Nat
      /\ totalIngested \in Nat /\ totalProcessed \in Nat /\ Uncounted \in {0, 1}
  BY <1>1, AccountTypes DEF ServerInv, Uncounted
<1>3. Totals(base) /\ Cardinality({p \in Producers : at[p] = "count"}) = Uncounted
  BY <1>1, TotalsAs, UncountedIs DEF Accounts, ServerInv
<1>4. ASSUME at[Command] # "resetProcessed"
      PROVE  totalProcessed <= totalIngested + Uncounted
  <2>1. CASE ~Resetting
    <3>1. totalIngested + Uncounted = head - base /\ totalProcessed = Processed - base
      BY <1>3, <2>1 DEF Totals
    <3>2. Processed <= head BY <1>2
    <3> QED BY <1>2, <3>1, <3>2
  <2>2. CASE Resetting BY <1>2, <1>3, <1>4, <2>2 DEF Totals, Resetting
  <2> QED BY <2>1, <2>2
<1>5. ASSUME Drained, at[Command] = "loop" PROVE totalProcessed = totalIngested
  <2>1. Processed = head /\ Uncounted = 0 /\ ~Resetting
    BY <1>5 DEF Drained, Processed, Stored, Uncounted, Resetting
  <2> QED BY <1>2, <1>3, <2>1 DEF Totals
<1> QED BY <1>3, <1>4, <1>5 DEF CountersAgree

\* The two totals differ by what is in the ring or under way, and by no more than one
\* message the other way round; they agree once everything is processed.
THEOREM TotalsAgree ==
  ASSUME Patient
  PROVE  ServerSpec => []CountersAgree
BY ServerInvariant, InvariantCounters, PTL

LEMMA InvariantResets == ServerInv => ResetClears
<1> SUFFICES ASSUME ServerInv, consumerAt = "compare" PROVE item.epoch = resets
  BY DEF ResetClears
<1>1. PICK base \in 0 .. head : Accounts(base) BY DEF ServerInv
<1> QED BY <1>1, ItemInSequence DEF ServerInv, RingInv

\* No message sent before a RESET enters the book that it cleared.
THEOREM ResetIsClean ==
  ASSUME Patient
  PROVE  ServerSpec => []ResetClears
BY ServerInvariant, InvariantResets, PTL

================================================================================
