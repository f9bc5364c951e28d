------------------------------ MODULE StreamServer ------------------------------
(***************************************************************************)
(* stream_server.cpp: the producer thread pushes bursts it was asked for,  *)
(* the command thread reads commands and pushes the orders among them, the *)
(* consumer thread pops and processes, and main joins them all.  Composes  *)
(* the threads' loops with SPSCRing, into which two threads push here.     *)
(*                                                                         *)
(* A message is its sequence number and the number of RESETs before it was *)
(* numbered.  Of the order book only the sequence check is kept: OrderBook *)
(* models the rest.  The flags and counters are relaxed atomics, each one  *)
(* read and written as of a single step.  The thread that prints snapshots *)
(* changes nothing here.                                                   *)
(***************************************************************************)
EXTENDS SPSCRing, FiniteSets

CONSTANTS
  Producer, Command,   \* the threads that push
  BurstSizes,          \* n of BURST n
  LineCounts,          \* order lines of a command: 1, or those of a loaded file
  Patient,             \* does the operator wait, see MayPush and MayReset?
  MaxCommands,         \* bound of the checked instances: commands read
  MaxSeqNo             \* ... and the highest number they can give out

UserMsgs == [seqNo : 1 .. MaxSeqNo, epoch : 0 .. MaxCommands]

ASSUME ServerAssumption ==
  /\ Producers = {Producer, Command} /\ Producer # Command
  /\ BurstSizes \subseteq Nat \ {0} /\ LineCounts \subseteq Nat \ {0}
  /\ Patient \in BOOLEAN
  /\ MaxCommands \in Nat /\ MaxSeqNo \in Nat
  /\ \A n \in BurstSizes \cup LineCounts : MaxCommands * n <= MaxSeqNo
  /\ UserMsgs \subseteq Msgs

VARIABLES
  running, burstPending, userSeqNo,       \* control state
  totalIngested, totalProcessed,
  at,              \* at[p]: where a pushing thread is
  left,            \* left[p]: messages it still has to push
  made,            \* made[p]: the message it is pushing
  consumerAt,
  expectedSeqNo, sequenceGapsDetected,    \* of g_orderBook
  expectedRead,    \* the expectedSeqNo processMessage compared with
  mainAt,          \* the thread main waits for, then "done"
  commands, resets, rejected  \* histories: commands read, RESETs, lines rejected since

control == <<running, burstPending, userSeqNo>>
totals == <<totalIngested, totalProcessed>>
pushers == <<at, left, made>>
book == <<expectedSeqNo, sequenceGapsDetected, expectedRead>>
histories == <<commands, resets, rejected>>
serverVars == <<ringVars, control, totals, pushers, consumerAt, book, mainAt, histories>>

ServerInit ==
  /\ Init
  /\ running = TRUE /\ burstPending = 0 /\ userSeqNo = 1
  /\ totalIngested = 0 /\ totalProcessed = 0
  /\ at = [p \in Producers |-> "loop"]
  /\ left = [p \in Producers |-> 0]
  /\ made = [p \in Producers |-> NoMsg]
  /\ consumerAt = "loop"
  /\ expectedSeqNo = 1 /\ sequenceGapsDetected = 0 /\ expectedRead = 1
  /\ mainAt = "commander"
  /\ commands = 0 /\ resets = 0 /\ rejected = 0

GoTo(p, place) == at' = [at EXCEPT ![p] = place]

\* One message less; back to the loop of the thread after the last one.
OneDone(p) ==
  /\ left' = [left EXCEPT ![p] = @ - 1]
  /\ GoTo(p, IF left[p] = 1 THEN "loop" ELSE "number")

--------------------------------------------------------------------------------
(* Number a message and push it, in either thread: pushWireMessage spins   *)
(* while the ring is full and counts the message afterwards.               *)

Number(p) ==
  /\ at[p] = "number"
  /\ made' = [made EXCEPT ![p] = [seqNo |-> userSeqNo, epoch |-> resets]]
  /\ userSeqNo' = userSeqNo + 1
  /\ GoTo(p, "push")
  /\ UNCHANGED <<ringVars, running, burstPending, totals, left, consumerAt, book,
                 mainAt, histories>>

\* The line does not parse.  Its number is spent all the same.
Reject ==
  /\ at[Command] = "number"
  /\ userSeqNo' = userSeqNo + 1
  /\ rejected' = rejected + 1
  /\ OneDone(Command)
  /\ UNCHANGED <<ringVars, running, burstPending, totals, made, consumerAt, book,
                 mainAt, commands, resets>>

CallPush(p) ==
  /\ at[p] = "push"
  /\ PushCheck(p, made[p])
  /\ GoTo(p, "pushing")
  /\ UNCHANGED <<control, totals, left, made, consumerAt, book, mainAt, histories>>

\* Mutant of InsidePush: a push that fails is taken for one that succeeded.
InsidePushOnce(p) ==
  /\ PushStep(p)
  /\ GoTo(p, IF ppc'[p] = "idle" THEN "count" ELSE "pushing")
  /\ UNCHANGED <<control, totals, left, made, consumerAt, book, mainAt, histories>>

\* tryPush returns: true goes on to count, false calls it again.
InsidePush(p) ==
  /\ PushStep(p)
  /\ GoTo(p, IF ppc[p] = "publish" THEN "count"
             ELSE IF ppc'[p] = "idle" THEN "push" ELSE "pushing")
  /\ UNCHANGED <<control, totals, left, made, consumerAt, book, mainAt, histories>>

Count(p) ==
  /\ at[p] = "count"
  /\ totalIngested' = totalIngested + 1
  /\ OneDone(p)
  /\ UNCHANGED <<ringVars, control, totalProcessed, made, consumerAt, book, mainAt,
                 histories>>

PushOne(p) == Number(p) \/ CallPush(p) \/ InsidePush(p) \/ Count(p)

--------------------------------------------------------------------------------
(* The producer thread.  A burst once begun runs to its end: running is    *)
(* tested between bursts only.                                             *)

TakeBurst ==
  /\ at[Producer] = "loop" /\ running /\ burstPending > 0
  /\ left' = [left EXCEPT ![Producer] = burstPending]
  /\ burstPending' = 0
  /\ GoTo(Producer, "number")
  /\ UNCHANGED <<ringVars, running, userSeqNo, totals, made, consumerAt, book, mainAt,
                 histories>>

ProducerExits ==
  /\ at[Producer] = "loop" /\ ~running
  /\ GoTo(Producer, "exit")
  /\ UNCHANGED <<ringVars, control, totals, left, made, consumerAt, book, mainAt,
                 histories>>

ProducerStep == TakeBurst \/ ProducerExits \/ PushOne(Producer)

--------------------------------------------------------------------------------
(* The command thread *)

\* The ring is empty and no thread has anything under way.
Drained ==
  /\ burstPending = 0
  /\ at[Producer] = "loop"
  /\ head = tail /\ consumerAt \in {"loop", "popping"}

\* A patient operator sends orders while no burst is pending or being pushed, and
\* RESET when everything was processed.
MayPush == Patient => burstPending = 0 /\ at[Producer] = "loop"
MayReset == Patient => Drained

ReadCommand ==
  /\ at[Command] = "loop" /\ running
  /\ commands < MaxCommands
  /\ commands' = commands + 1

\* ORDER, CROSS, FILE and LOAD_EXAMPLE: one or more lines to push.
OrderLines(n) ==
  /\ ReadCommand
  /\ MayPush
  /\ left' = [left EXCEPT ![Command] = n]
  /\ GoTo(Command, "number")
  /\ UNCHANGED <<ringVars, control, totals, made, consumerAt, book, mainAt, resets,
                 rejected>>

\* Mutant of Burst: added to the one that is pending.
BurstAdds(n) ==
  /\ ReadCommand
  /\ burstPending' = burstPending + n
  /\ UNCHANGED <<ringVars, running, userSeqNo, totals, pushers, consumerAt, book,
                 mainAt, resets, rejected>>

\* A burst still pending is replaced.
Burst(n) ==
  /\ ReadCommand
  /\ burstPending' = n
  /\ UNCHANGED <<ringVars, running, userSeqNo, totals, pushers, consumerAt, book,
                 mainAt, resets, rejected>>

\* RESET: the book, then each counter.  What is in the ring stays there.
ResetBook ==
  /\ ReadCommand
  /\ MayReset
  /\ expectedSeqNo' = 1 /\ sequenceGapsDetected' = 0
  /\ resets' = resets + 1 /\ rejected' = 0
  /\ GoTo(Command, "resetIngested")
  /\ UNCHANGED <<ringVars, control, totals, left, made, consumerAt, expectedRead, mainAt>>

ResetIngested ==
  /\ at[Command] = "resetIngested"
  /\ totalIngested' = 0
  /\ GoTo(Command, "resetProcessed")
  /\ UNCHANGED <<ringVars, control, totalProcessed, left, made, consumerAt, book,
                 mainAt, histories>>

\* Mutant of ResetProcessed: the counter forgotten.
ResetProcessedForgotten ==
  /\ at[Command] = "resetProcessed"
  /\ GoTo(Command, "resetSeqNo")
  /\ UNCHANGED <<ringVars, control, totals, left, made, consumerAt, book, mainAt,
                 histories>>

ResetProcessed ==
  /\ at[Command] = "resetProcessed"
  /\ totalProcessed' = 0
  /\ GoTo(Command, "resetSeqNo")
  /\ UNCHANGED <<ringVars, control, totalIngested, left, made, consumerAt, book,
                 mainAt, histories>>

ResetSeqNo ==
  /\ at[Command] = "resetSeqNo"
  /\ userSeqNo' = 1
  /\ GoTo(Command, "loop")
  /\ UNCHANGED <<ringVars, running, burstPending, totals, left, made, consumerAt, book,
                 mainAt, histories>>

\* QUIT, or the end of stdin, after which main clears running.
Quit ==
  /\ at[Command] = "loop"
  /\ running' \in {running, FALSE}
  /\ GoTo(Command, "exit")
  /\ UNCHANGED <<ringVars, burstPending, userSeqNo, totals, left, made, consumerAt,
                 book, mainAt, histories>>

CommandStep ==
  \/ \E n \in LineCounts : OrderLines(n)
  \/ \E n \in BurstSizes : Burst(n)
  \/ Reject \/ PushOne(Command)
  \/ ResetBook \/ ResetIngested \/ ResetProcessed \/ ResetSeqNo

--------------------------------------------------------------------------------
(* The consumer thread.  processMessage compares the number with the       *)
(* expected one and stores the next: a RESET may come between the two.     *)

ConsumerPops ==
  /\ consumerAt = "loop" /\ running
  /\ PopCheck
  /\ consumerAt' = "popping"
  /\ UNCHANGED <<control, totals, pushers, book, mainAt, histories>>

ConsumerExits ==
  /\ consumerAt = "loop" /\ ~running
  /\ consumerAt' = "exit"
  /\ UNCHANGED <<ringVars, control, totals, pushers, book, mainAt, histories>>

\* Mutant of InsidePop: the result of tryPop ignored.
InsidePopUnchecked ==
  /\ PopStep
  /\ consumerAt' = IF cpc' = "idle" /\ item # NoMsg THEN "compare"
                   ELSE IF cpc' = "idle" THEN "loop" ELSE "popping"
  /\ UNCHANGED <<control, totals, pushers, book, mainAt, histories>>

InsidePop ==
  /\ PopStep
  /\ consumerAt' = IF cpc = "release" THEN "compare"
                   ELSE IF cpc' = "idle" THEN "loop" ELSE "popping"
  /\ UNCHANGED <<control, totals, pushers, book, mainAt, histories>>

Compare ==
  /\ consumerAt = "compare"
  /\ expectedRead' = expectedSeqNo
  /\ consumerAt' = "store"
  /\ UNCHANGED <<ringVars, control, totals, pushers, expectedSeqNo,
                 sequenceGapsDetected, mainAt, histories>>

\* seqNo() of a slot that was never written is 0.
ItemSeqNo == IF item = NoMsg THEN 0 ELSE item.seqNo

Store ==
  /\ consumerAt = "store"
  /\ expectedSeqNo' = ItemSeqNo + 1
  /\ sequenceGapsDetected' = sequenceGapsDetected +
       (IF ItemSeqNo > expectedRead THEN ItemSeqNo - expectedRead ELSE 0)
  /\ consumerAt' = "count"
  /\ UNCHANGED <<ringVars, control, totals, pushers, expectedRead, mainAt, histories>>

CountProcessed ==
  /\ consumerAt = "count"
  /\ totalProcessed' = totalProcessed + 1
  /\ consumerAt' = "loop"
  /\ UNCHANGED <<ringVars, control, totalIngested, pushers, book, mainAt, histories>>

ConsumerStep ==
  ConsumerPops \/ ConsumerExits \/ InsidePop \/ Compare \/ Store \/ CountProcessed

--------------------------------------------------------------------------------
(* main joins the command thread, clears running, joins the others in turn *)

\* Mutant of JoinCommander: relies on QUIT to have cleared running.
JoinCommanderOnly ==
  /\ mainAt = "commander" /\ at[Command] = "exit"
  /\ mainAt' = "producer"
  /\ UNCHANGED <<ringVars, control, totals, pushers, consumerAt, book, histories>>

JoinCommander ==
  /\ mainAt = "commander" /\ at[Command] = "exit"
  /\ running' = FALSE
  /\ mainAt' = "producer"
  /\ UNCHANGED <<ringVars, burstPending, userSeqNo, totals, pushers, consumerAt, book,
                 histories>>

JoinProducer ==
  /\ mainAt = "producer" /\ at[Producer] = "exit"
  /\ mainAt' = "consumer"
  /\ UNCHANGED <<ringVars, control, totals, pushers, consumerAt, book, histories>>

JoinConsumer ==
  /\ mainAt = "consumer" /\ consumerAt = "exit"
  /\ mainAt' = "done"
  /\ UNCHANGED <<ringVars, control, totals, pushers, consumerAt, book, histories>>

MainStep == JoinCommander \/ JoinProducer \/ JoinConsumer

--------------------------------------------------------------------------------

Exited == mainAt = "done" /\ UNCHANGED serverVars

ServerNext == ProducerStep \/ CommandStep \/ Quit \/ ConsumerStep \/ MainStep \/ Exited

\* Every thread is scheduled again and again.  Nobody has to send a command, so the
\* command thread is only obliged to go on with one it has begun.
ServerFairness ==
  /\ WF_serverVars(ProducerStep)
  /\ WF_serverVars(PushOne(Command))
  /\ WF_serverVars(ResetIngested \/ ResetProcessed \/ ResetSeqNo)
  /\ WF_serverVars(ConsumerStep)
  /\ WF_serverVars(MainStep)

ServerSpec == ServerInit /\ [][ServerNext]_serverVars
FairServerSpec == ServerSpec /\ ServerFairness

--------------------------------------------------------------------------------
(* Properties; NoSlotRace and InOrderExactlyOnce of SPSCRing hold too when *)
(* the operator waits, although two threads take turns as the producer.    *)

Places == {"loop", "number", "push", "pushing", "count", "exit",
           "resetIngested", "resetProcessed", "resetSeqNo"}

ServerTypeOK ==
  /\ TypeOK
  /\ running \in BOOLEAN /\ burstPending \in BurstSizes \cup {0}
  /\ userSeqNo \in 1 .. MaxSeqNo + 1
  /\ totalIngested \in Nat /\ totalProcessed \in Nat
  /\ at \in [Producers -> Places]
  /\ left \in [Producers -> Nat]
  /\ made \in [Producers -> Msgs \cup {NoMsg}]
  /\ consumerAt \in {"loop", "popping", "compare", "store", "count", "exit"}
  /\ expectedSeqNo \in Nat \ {0} /\ sequenceGapsDetected \in Nat
  /\ expectedRead \in Nat \ {0}
  /\ mainAt \in {"commander", "producer", "consumer", "done"}
  /\ commands \in 0 .. MaxCommands /\ resets \in Nat /\ rejected \in Nat

\* Why the properties below hold when the operator waits.  The two threads take turns:
\* the producer has no burst while the command thread does anything; a thread is inside
\* tryPush or tryPop when its loop says so, with the message it made.
Making(p) == at[p] \in {"push", "pushing"}
Sending(p) == Making(p) \/ at[p] \in {"number", "count"}
Resetting == at[Command] \in {"resetIngested", "resetProcessed", "resetSeqNo"}

ThreadsTakeTurns ==
  /\ at[Producer] \in {"loop", "exit"} \/ Sending(Producer)
  /\ at[Command] \notin {"loop", "exit"} =>
       burstPending = 0 /\ at[Producer] \in {"loop", "exit"}
  /\ \A p \in Producers :
       /\ ppc[p] # "idle" <=> at[p] = "pushing"
       /\ Sending(p) => left[p] > 0
       /\ Making(p) => made[p] \in UserMsgs
       /\ at[p] = "pushing" => pmsg[p] = made[p]
  /\ cpc # "idle" <=> consumerAt = "popping"
  /\ consumerAt \in {"compare", "store"} => tail > 0 /\ item = sent[tail]
  /\ consumerAt = "store" => expectedRead = expectedSeqNo

\* No command gives out more numbers than the longest one asks for.
ToNumber(p) ==
  IF at[p] = "number" THEN left[p] ELSE IF Sending(p) THEN left[p] - 1 ELSE 0

NumbersAskedFor == ToNumber(Producer) + ToNumber(Command) + burstPending

NumbersWithinBounds ==
  /\ resets <= commands
  /\ \/ userSeqNo - 1 + NumbersAskedFor = 0
     \/ \E n \in BurstSizes \cup LineCounts :
          userSeqNo - 1 + NumbersAskedFor <= commands * n

\* Messages the book took the number of, and messages counted as processed.
Stored == IF consumerAt \in {"compare", "store"} THEN tail - 1 ELSE tail
Processed == IF consumerAt = "count" THEN tail - 1 ELSE Stored

\* The number the next message gets, once a RESET is through.
NextSeqNo == IF Resetting THEN 1 ELSE userSeqNo

\* Since the last RESET, when `base` messages had been sent, the numbers in the ring and
\* of a message being made rise from 1 up to the next one; those the book has not met
\* are the rejected ones, and each counter is that many messages behind the ring.
InSequence(base) ==
  /\ \A i \in base + 1 .. head :
       sent[i] \in UserMsgs /\ sent[i].epoch = resets /\ sent[i].seqNo < NextSeqNo
  /\ \A i, j \in base + 1 .. head : i < j => sent[i].seqNo < sent[j].seqNo
  /\ \A p \in Producers : Making(p) =>
       /\ made[p].epoch = resets /\ made[p].seqNo < NextSeqNo
       /\ \A i \in base + 1 .. head : sent[i].seqNo < made[p].seqNo

GapsAddUp(base) ==
  /\ expectedSeqNo = IF Stored = base THEN 1 ELSE sent[Stored].seqNo + 1
  /\ sequenceGapsDetected + (Stored - base) = expectedSeqNo - 1
  /\ NextSeqNo - 1 =
       rejected + (head - base) + (IF \E p \in Producers : Making(p) THEN 1 ELSE 0)

TotalsAddUp(base) ==
  CASE at[Command] = "resetIngested" -> totalIngested = totalProcessed
    [] at[Command] = "resetProcessed" -> totalIngested = 0
    [] at[Command] = "resetSeqNo" -> totalIngested = 0 /\ totalProcessed = 0
    [] OTHER -> /\ totalIngested + Cardinality({p \in Producers : at[p] = "count"})
                     = head - base
                /\ totalProcessed = Processed - base

Accounts(base) ==
  /\ base <= Processed /\ (Resetting => base = head)
  /\ InSequence(base)
  /\ GapsAddUp(base)
  /\ TotalsAddUp(base)

\* The inductive invariant of the server with a patient operator.
ServerInv ==
  /\ ServerTypeOK
  /\ RingInv
  /\ ThreadsTakeTurns
  /\ NumbersWithinBounds
  /\ \E base \in 0 .. head : Accounts(base)

\* A gap is a rejected line and nothing else: when all is processed, the numbers the
\* book missed are those spent on lines that do not parse, though numbers come from
\* two threads and pass through the ring.
GapsAreRejections ==
  Drained /\ at[Command] = "loop" =>
    sequenceGapsDetected + (userSeqNo - expectedSeqNo) = rejected

\* What the two totals of a snapshot may disagree by: a message is counted in after it
\* was pushed, so the consumer can be ahead of the count, by one for each thread.
CountersAgree ==
  /\ at[Command] # "resetProcessed" =>
       totalProcessed <= totalIngested + Cardinality({p \in Producers : at[p] = "count"})
  /\ Drained /\ at[Command] = "loop" => totalProcessed = totalIngested

\* RESET clears all orders: no message from before it enters the cleared book (if it
\* was sent with the ring drained; the ring itself is not cleared).
ResetClears == consumerAt = "compare" => item.epoch = resets

\* A push against a full ring succeeds in the end, as long as the server runs.
BackpressureEnds ==
  \A p \in Producers : at[p] = "push" ~> at[p] = "count" \/ ~running

\* QUIT, or the end of the input, ends the server whatever is still in the ring, if no
\* burst is pending or being pushed at that time.
QuietShutdownCompletes ==
  at[Command] = "exit" /\ at[Producer] = "loop" /\ burstPending = 0 ~> mainAt = "done"

\* ... and if a burst meets the shutdown, the producer does not wait for ever on a full
\* ring that nobody empties.
ShutdownCompletes == at[Command] = "exit" ~> mainAt = "done"

================================================================================
