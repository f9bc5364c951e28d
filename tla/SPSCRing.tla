-------------------------------- MODULE SPSCRing --------------------------------
(***************************************************************************)
(* SPSCRingBuffer (ring_buffer.hpp), one action per access to memory that  *)
(* the two sides share: the check against the cached index, the acquire    *)
(* load that refreshes the cache, the copy into or out of the slot, the    *)
(* release store that publishes the index.                                 *)
(*                                                                         *)
(* The class is written for one producer thread ("Producer thread only").  *)
(* Producers is a set all the same, because the threads that call tryPush  *)
(* are the caller's choice: one in the benchmark, two in the stream        *)
(* server.  What a producer thread holds in registers is per thread, the   *)
(* fields of the class are shared.                                         *)
(*                                                                         *)
(* head_ and tail_ are 64 bit counters that are never reduced; they cannot *)
(* reach 2^64 here and are natural numbers.  Only their difference is      *)
(* taken in unsigned arithmetic, see NoRoom.                               *)
(***************************************************************************)
EXTENDS Integers, Sequences

CONSTANTS Producers,   \* threads that call tryPush
          Msgs,        \* the items
          NoMsg,       \* a slot nothing was ever copied into
          Capacity,    \* template parameter, a power of two, at least 2
          StaleReads,  \* may an atomic load return an older value of the index?
          MaxSends     \* bound of the checked instances: tryPush calls started

ASSUME CapacityAssumption == Capacity \in Nat /\ Capacity >= 2
ASSUME ParameterAssumption == /\ NoMsg \notin Msgs
                              /\ StaleReads \in BOOLEAN
                              /\ MaxSends \in Nat

\* The contract of the class, which its users may or may not keep.
OneProducer == \E p \in Producers : Producers = {p}

VARIABLES
  head, tail,              \* the published indices
  cachedTail, cachedHead,  \* what each side last saw of the other's index
  buffer,                  \* the slots
  ppc,                     \* ppc[p]: where producer p is inside tryPush
  currentHead,             \* currentHead[p]: p's local copy of head
  pmsg,                    \* pmsg[p]: the argument of p's tryPush
  cpc,                     \* where the consumer is inside tryPop
  item,                    \* the output argument of tryPop
  sent, received           \* histories: published, and handed to the consumer

producerVars == <<head, cachedTail, buffer, ppc, currentHead, pmsg, sent>>
consumerVars == <<tail, cachedHead, cpc, item, received>>
ringVars == <<producerVars, consumerVars>>

Slot(i) == i % Capacity

\* Mutant of NoRoom: lets one item more in than there are slots.
NoRoomOffByOne(h, t) == h < t \/ h - t > Capacity

\* (h - t) >= Capacity in size_t: a negative difference is a huge one.
NoRoom(h, t) == h < t \/ h - t >= Capacity

\* What an atomic load may return to a thread that saw `last` before: the newest
\* value or, by coherence, any value stored since.
Visible(last, newest) ==
  {newest} \cup (IF StaleReads THEN last .. newest ELSE {})

Init ==
  /\ head = 0 /\ tail = 0 /\ cachedTail = 0 /\ cachedHead = 0
  /\ buffer = [s \in 0 .. Capacity - 1 |-> NoMsg]
  /\ ppc = [p \in Producers |-> "idle"]
  /\ currentHead = [p \in Producers |-> 0]
  /\ pmsg = [p \in Producers |-> NoMsg]
  /\ cpc = "idle" /\ item = NoMsg
  /\ sent = <<>> /\ received = <<>>

--------------------------------------------------------------------------------
(* bool tryPush(const T& item) *)

\* The relaxed load of head and the test against the cached tail.
PushCheck(p, m) ==
  /\ ppc[p] = "idle"
  /\ ppc' = [ppc EXCEPT ![p] = IF NoRoom(head, cachedTail) THEN "refresh" ELSE "write"]
  /\ currentHead' = [currentHead EXCEPT ![p] = head]
  /\ pmsg' = [pmsg EXCEPT ![p] = m]
  /\ UNCHANGED <<head, cachedTail, buffer, sent, consumerVars>>

\* Mutant of PushRefresh: caches the index of its own side.
PushRefreshWrongIndex(p, t) ==
  /\ ppc[p] = "refresh"
  /\ ~NoRoom(currentHead[p], t)
  /\ cachedTail' = currentHead[p]
  /\ ppc' = [ppc EXCEPT ![p] = "write"]
  /\ UNCHANGED <<head, buffer, currentHead, pmsg, sent, consumerVars>>

\* The acquire load of tail found room after all.
PushRefresh(p, t) ==
  /\ ppc[p] = "refresh"
  /\ ~NoRoom(currentHead[p], t)
  /\ cachedTail' = t
  /\ ppc' = [ppc EXCEPT ![p] = "write"]
  /\ UNCHANGED <<head, buffer, currentHead, pmsg, sent, consumerVars>>

\* The acquire load of tail still shows a full queue: return false.
PushFull(p, t) ==
  /\ ppc[p] = "refresh"
  /\ NoRoom(currentHead[p], t)
  /\ cachedTail' = t
  /\ ppc' = [ppc EXCEPT ![p] = "idle"]
  /\ UNCHANGED <<head, buffer, currentHead, pmsg, sent, consumerVars>>

\* buffer_[currentHead & MASK] = item
PushWrite(p) ==
  /\ ppc[p] = "write"
  /\ buffer' = [buffer EXCEPT ![Slot(currentHead[p])] = pmsg[p]]
  /\ ppc' = [ppc EXCEPT ![p] = "publish"]
  /\ UNCHANGED <<head, cachedTail, currentHead, pmsg, sent, consumerVars>>

\* head_.store(currentHead + 1, release), return true
PushPublish(p) ==
  /\ ppc[p] = "publish"
  /\ head' = currentHead[p] + 1
  /\ sent' = Append(sent, pmsg[p])
  /\ ppc' = [ppc EXCEPT ![p] = "idle"]
  /\ UNCHANGED <<cachedTail, buffer, currentHead, pmsg, consumerVars>>

--------------------------------------------------------------------------------
(* bool tryPop(T& item); the consumer is the only writer of tail, so the   *)
(* local currentTail is tail itself.                                       *)

\* Mutant of PopCheck: trusts the cached head and never looks again.
PopCheckNoRefresh ==
  /\ cpc = "idle"
  /\ cpc' = IF tail = cachedHead THEN "idle" ELSE "read"
  /\ UNCHANGED <<tail, cachedHead, item, received, producerVars>>

PopCheck ==
  /\ cpc = "idle"
  /\ cpc' = IF tail = cachedHead THEN "refresh" ELSE "read"
  /\ UNCHANGED <<tail, cachedHead, item, received, producerVars>>

PopRefresh(h) ==
  /\ cpc = "refresh"
  /\ h # tail
  /\ cachedHead' = h
  /\ cpc' = "read"
  /\ UNCHANGED <<tail, item, received, producerVars>>

\* Nothing to take: return false.
PopEmpty(h) ==
  /\ cpc = "refresh"
  /\ h = tail
  /\ cachedHead' = h
  /\ cpc' = "idle"
  /\ UNCHANGED <<tail, item, received, producerVars>>

\* item = buffer_[currentTail & MASK]
PopRead ==
  /\ cpc = "read"
  /\ item' = buffer[Slot(tail)]
  /\ cpc' = "release"
  /\ UNCHANGED <<tail, cachedHead, received, producerVars>>

\* Mutant of PopRelease: releases all it knows of, having copied one out.
PopReleaseAll ==
  /\ cpc = "release"
  /\ tail' = cachedHead
  /\ received' = Append(received, item)
  /\ cpc' = "idle"
  /\ UNCHANGED <<cachedHead, item, producerVars>>

\* tail_.store(currentTail + 1, release), return true
PopRelease ==
  /\ cpc = "release"
  /\ tail' = tail + 1
  /\ received' = Append(received, item)
  /\ cpc' = "idle"
  /\ UNCHANGED <<cachedHead, item, producerVars>>

--------------------------------------------------------------------------------
(* The steps of a call already begun, and the ring used on its own: every  *)
(* producer calls tryPush with anything, the consumer calls tryPop.        *)

PushStep(p) ==
  \/ \E t \in Visible(cachedTail, tail) : PushRefresh(p, t) \/ PushFull(p, t)
  \/ PushWrite(p)
  \/ PushPublish(p)

PopStep ==
  \/ \E h \in Visible(cachedHead, head) : PopRefresh(h) \/ PopEmpty(h)
  \/ PopRead
  \/ PopRelease

Push == \E p \in Producers :
  \/ Len(sent) < MaxSends /\ \E m \in Msgs : PushCheck(p, m)
  \/ PushStep(p)

Pop == PopCheck \/ PopStep

Next == Push \/ Pop

Spec == Init /\ [][Next]_ringVars

--------------------------------------------------------------------------------
(* Properties *)

PushStates == {"idle", "refresh", "write", "publish"}
PopStates == {"idle", "refresh", "read", "release"}

\* Types; a producer inside tryPush has an item to push, and only items travel.
TypeOK ==
  /\ head \in Nat /\ tail \in Nat /\ cachedTail \in Nat /\ cachedHead \in Nat
  /\ buffer \in [0 .. Capacity - 1 -> Msgs \cup {NoMsg}]
  /\ ppc \in [Producers -> PushStates]
  /\ currentHead \in [Producers -> Nat]
  /\ pmsg \in [Producers -> Msgs \cup {NoMsg}]
  /\ cpc \in PopStates
  /\ item \in Msgs \cup {NoMsg}
  /\ \A p \in Producers : ppc[p] # "idle" => pmsg[p] \in Msgs
  /\ sent \in Seq(Msgs) /\ received \in Seq(Msgs)

\* The plain (non-atomic) copies into and out of a slot never overlap: while the
\* consumer copies slot tail & MASK out, no producer is copying into that slot.
\* This is what makes the unlocked buffer free of a data race.
NoSlotRace ==
  \A p \in Producers :
    ~(ppc[p] = "write" /\ cpc = "read" /\ Slot(currentHead[p]) = Slot(tail))

\* Everything the consumer was handed is what was published, in that order, with
\* no item lost, repeated or overwritten on the way.
InOrderExactlyOnce ==
  /\ Len(received) <= Len(sent)
  /\ \A i \in 1 .. Len(received) : received[i] = sent[i]

\* Neither side is misled by its cached copy of the other side's index: the
\* consumer never believes in items that were not published, the producer never
\* in slots that were not released.
CachesAreConservative ==
  /\ tail <= cachedHead /\ cachedHead <= head
  /\ cachedTail <= tail
  /\ head - tail <= Capacity

\* What a side has concluded and not yet acted on still holds, whatever the other
\* side did meanwhile.
ConclusionsHold ==
  /\ \A p \in Producers :
       /\ ppc[p] # "idle" => currentHead[p] = head
       /\ ppc[p] \in {"write", "publish"} => head - cachedTail < Capacity
       /\ ppc[p] = "publish" => buffer[Slot(head)] = pmsg[p]
  /\ cpc \in {"read", "release"} => tail < cachedHead
  /\ cpc = "release" => item = sent[tail + 1]

\* Every slot between the two indices holds the item published at its index.
SlotsHoldQueue ==
  /\ Len(sent) = head /\ Len(received) = tail
  /\ \A k \in tail .. head - 1 : buffer[Slot(k)] = sent[k + 1]

\* The inductive invariant: with one producer, why the queue keeps its promise
\* although both indices are read late and the slots are not atomic.
RingInv ==
  /\ TypeOK
  /\ CachesAreConservative
  /\ ConclusionsHold
  /\ SlotsHoldQueue
  /\ InOrderExactlyOnce

\* What is published and not yet taken.
Queue == [i \in 1 .. head - tail |-> sent[tail + i]]

Fifo == INSTANCE BoundedFifo WITH queue <- Queue, delivered <- received

\* The ring, memory accesses and all, is a bounded FIFO queue.
ImplementsFifo == Fifo!Spec

================================================================================
