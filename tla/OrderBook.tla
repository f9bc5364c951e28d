-------------------------------- MODULE OrderBook --------------------------------
(***************************************************************************)
(* LimitOrderBook (order_book.hpp): add, cancel/reduce and execute messages *)
(* keep an order store and, per side, an array of the Depth best price     *)
(* levels, updated by signed deltas.  Levels that do not make the cut are  *)
(* not kept anywhere.                                                      *)
(*                                                                         *)
(* The order store is the map OrderMap; OrderTable, the hash table the     *)
(* code uses, implements it.  processAdd, processCancel and processExecute *)
(* are private steps of processMessage, so each action below is a whole    *)
(* processMessage, with the sequence check and the counters.               *)
(***************************************************************************)
EXTENDS Integers, FiniteSets, FiniteSetsExt, Functions

CONSTANTS
  Depth, TableCapacity,       \* template parameters
  OrderIds, Prices,           \* what messages name
  AddQuantities,              \* quantity of an 'A': the parser lets positive ones pass
  CancelQuantities,           \* remaining quantity of an 'X': any sign
  ExecQuantities,             \* execQuantity of an 'E': positive
  NoOrder,
  Skews,                      \* how far a sequence number may be from the expected
  MaxMessages                 \* bound of the checked instances

ASSUME BookAssumption ==
  /\ Depth \in Nat \ {0} /\ TableCapacity \in Nat \ {0}
  /\ Prices \subseteq Int
  /\ AddQuantities \subseteq Nat \ {0}
  /\ CancelQuantities \subseteq Int
  /\ ExecQuantities \subseteq Nat \ {0}
  /\ Skews \subseteq Int
  /\ MaxMessages \in Nat

\* Ids are 64-bit numbers.
ASSUME FiniteIds == IsFiniteSet(OrderIds)

Sides == {"B", "S"}
Orders == [side : Sides, price : Prices, quantity : Int]

VARIABLES
  orders,                  \* orderTable_
  bids, asks,              \* the level arrays
  totalMessagesProcessed, expectedSeqNo, sequenceGapsDetected, tradesExecutedCount,
  seen,                    \* history: sequence numbers of the messages so far
  irregular                \* history: see Mark

bookVars == <<orders, bids, asks, totalMessagesProcessed, expectedSeqNo,
              sequenceGapsDetected, tradesExecutedCount, seen, irregular>>

Store == INSTANCE OrderMap WITH Values <- Orders, Capacity <- TableCapacity

ASSUME NoOrderAssumption == NoOrder \notin Store!Records

--------------------------------------------------------------------------------
(* Price levels *)

Levels == 0 .. Depth - 1
EmptyLevel == [price |-> 0, quantity |-> 0, orderCount |-> 0, active |-> FALSE]

\* Is price p ahead of price q on this side?
Ahead(p, q, ascending) == IF ascending THEN p < q ELSE p > q

RemoveLevel(L, idx) ==
  [i \in Levels |-> IF i < idx THEN L[i]
                    ELSE IF i + 1 < Depth THEN L[i + 1] ELSE EmptyLevel]

\* An existing level takes the deltas and goes when either runs out.
UpdateLevel(L, idx, qtyDelta, orderDelta) ==
  LET quantity == L[idx].quantity + qtyDelta
      orderCount == L[idx].orderCount + orderDelta
  IN  IF quantity <= 0 \/ orderCount <= 0
      THEN RemoveLevel(L, idx)
      ELSE [L EXCEPT ![idx].quantity = quantity, ![idx].orderCount = orderCount]

\* Where a level put at pos comes to rest: it moves up past the levels it is
\* ahead of and stops at the first one it is not.
Landing(L, pos, price, ascending) ==
  CHOOSE j \in 0 .. pos :
    /\ \A i \in j .. pos - 1 : Ahead(price, L[i].price, ascending)
    /\ j > 0 => ~Ahead(price, L[j - 1].price, ascending)

\* Mutant of PlaceLevel: left where it was put.
PlaceLevelUnsorted(L, pos, level, ascending) == [L EXCEPT ![pos] = level]

\* The level overwrites slot pos and bubbles up to its place.
PlaceLevel(L, pos, level, ascending) ==
  LET j == Landing(L, pos, level.price, ascending)
  IN  [i \in Levels |-> IF i = j THEN level
                        ELSE IF j < i /\ i <= pos THEN L[i - 1] ELSE L[i]]

NewLevel(price, qtyDelta, orderDelta) ==
  [price |-> price, quantity |-> qtyDelta,
   orderCount |-> IF orderDelta > 0 THEN orderDelta ELSE 1, active |-> TRUE]

\* Mutant of ApplyDelta: evicts the worst level for any other price.
ApplyDeltaAlwaysEvicts(L, price, qtyDelta, orderDelta, ascending) ==
  LET Here == {i \in Levels : L[i].active /\ L[i].price = price}
      Free == {i \in Levels : ~L[i].active}
      level == NewLevel(price, qtyDelta, orderDelta)
  IN  IF Here # {}
        THEN UpdateLevel(L, Min(Here), qtyDelta, orderDelta)
      ELSE IF qtyDelta <= 0
        THEN L
      ELSE PlaceLevel(L, Min(Free \cup {Depth - 1}), level, ascending)

\* The loop finds the first active level at the price, then the first free slot.
ApplyDelta(L, price, qtyDelta, orderDelta, ascending) ==
  LET Here == {i \in Levels : L[i].active /\ L[i].price = price}
      Free == {i \in Levels : ~L[i].active}
      level == NewLevel(price, qtyDelta, orderDelta)
  IN  IF Here # {}
        THEN UpdateLevel(L, Min(Here), qtyDelta, orderDelta)
      ELSE IF qtyDelta <= 0
        THEN L
      ELSE IF Free # {}
        THEN PlaceLevel(L, Min(Free), level, ascending)
      ELSE IF Ahead(price, L[Depth - 1].price, ascending)
        THEN PlaceLevel(L, Depth - 1, level, ascending)
      ELSE L

\* The deltas of one message go to the side of its order.
ApplyToSide(side, price, qtyDelta, orderDelta) ==
  IF side = "B"
  THEN bids' = ApplyDelta(bids, price, qtyDelta, orderDelta, FALSE) /\ UNCHANGED asks
  ELSE asks' = ApplyDelta(asks, price, qtyDelta, orderDelta, TRUE) /\ UNCHANGED bids

--------------------------------------------------------------------------------
(* processMessage *)

\* reset(), which the constructor calls.
Init ==
  /\ Store!Init
  /\ bids = [i \in Levels |-> EmptyLevel] /\ asks = [i \in Levels |-> EmptyLevel]
  /\ totalMessagesProcessed = 0 /\ expectedSeqNo = 1
  /\ sequenceGapsDetected = 0 /\ tradesExecutedCount = 0
  /\ seen = {} /\ irregular = {}

\* Mutant of CheckSequence: a gap counted as one.
CheckSequenceOnce(seqNo) ==
  /\ totalMessagesProcessed' = totalMessagesProcessed + 1
  /\ sequenceGapsDetected' = sequenceGapsDetected + (IF seqNo > expectedSeqNo THEN 1 ELSE 0)
  /\ expectedSeqNo' = seqNo + 1
  /\ seen' = seen \cup {seqNo}

\* The message counter and the sequence check, before the dispatch.
CheckSequence(seqNo) ==
  /\ totalMessagesProcessed' = totalMessagesProcessed + 1
  /\ sequenceGapsDetected' =
       sequenceGapsDetected + (IF seqNo > expectedSeqNo THEN seqNo - expectedSeqNo ELSE 0)
  /\ expectedSeqNo' = seqNo + 1
  /\ seen' = seen \cup {seqNo}

\* reset(), on a RESET of the operator; the histories begin anew too.
Reset ==
  /\ Store!Clear
  /\ bids' = [i \in Levels |-> EmptyLevel] /\ asks' = [i \in Levels |-> EmptyLevel]
  /\ totalMessagesProcessed' = 0 /\ expectedSeqNo' = 1
  /\ sequenceGapsDetected' = 0 /\ tradesExecutedCount' = 0
  /\ seen' = {} /\ irregular' = {}

Live(id) == id \in Store!Known /\ ~orders[id].cancelled

\* The table has no slot for the id: insert returns nullptr.
NoRoom(id) == id \notin Store!Known /\ Cardinality(Store!Known) >= TableCapacity

\* Prices at which orders of a side rest, visible or not.
RestingPrices(side) ==
  {orders[id].val.price : id \in {i \in OrderIds : Live(i) /\ orders[i].val.side = side}}

\* What happened so far that the level arrays do not keep track of: an 'A' for an order
\* that is live ("reuse"), a message that takes more than an order has ("excess"), and
\* orders at more prices than a side has levels ("overflow").
Mark(what, happened) ==
  irregular' = irregular \cup (IF happened THEN {what} ELSE {})
    \cup (IF \E side \in Sides : Cardinality(RestingPrices(side)') > Depth
          THEN {"overflow"} ELSE {})

Add(seqNo, id, side, price, quantity) ==
  /\ CheckSequence(seqNo)
  /\ Store!Put(id, [side |-> side, price |-> price, quantity |-> quantity])
  /\ ApplyToSide(side, price, quantity, 1)
  /\ Mark("reuse", Live(id))
  /\ UNCHANGED tradesExecutedCount

AddRefused(seqNo, id) ==
  /\ CheckSequence(seqNo)
  /\ NoRoom(id)
  /\ UNCHANGED <<orders, bids, asks, tradesExecutedCount, irregular>>

\* rec->quantity = quantity, cancelled when nothing is left.
Remaining(id, quantity) ==
  Store!Amend(id, [val |-> [orders[id].val EXCEPT !.quantity = quantity],
                   cancelled |-> quantity <= 0])

\* Mutant of Cancel: takes the remaining quantity for the change.
CancelAbsolute(seqNo, id, quantity) ==
  /\ CheckSequence(seqNo)
  /\ Live(id)
  /\ ApplyToSide(orders[id].val.side, orders[id].val.price,
                 quantity, IF quantity <= 0 THEN -1 ELSE 0)
  /\ Remaining(id, quantity)
  /\ Mark("excess", quantity < 0)
  /\ UNCHANGED tradesExecutedCount

Cancel(seqNo, id, quantity) ==
  /\ CheckSequence(seqNo)
  /\ Live(id)
  /\ ApplyToSide(orders[id].val.side, orders[id].val.price,
                 quantity - orders[id].val.quantity, IF quantity <= 0 THEN -1 ELSE 0)
  /\ Remaining(id, quantity)
  /\ Mark("excess", quantity < 0)
  /\ UNCHANGED tradesExecutedCount

\* Mutant of Execute: a partial fill takes the order off the level's count.
ExecuteDropsOrder(seqNo, id, execQuantity) ==
  LET quantity == orders[id].val.quantity
      newQty == IF quantity > execQuantity THEN quantity - execQuantity ELSE 0
  IN
  /\ CheckSequence(seqNo)
  /\ tradesExecutedCount' = tradesExecutedCount + 1
  /\ Live(id)
  /\ ApplyToSide(orders[id].val.side, orders[id].val.price, -execQuantity, -1)
  /\ Remaining(id, newQty)
  /\ Mark("excess", execQuantity > quantity)

Execute(seqNo, id, execQuantity) ==
  LET quantity == orders[id].val.quantity
      newQty == IF quantity > execQuantity THEN quantity - execQuantity ELSE 0
  IN
  /\ CheckSequence(seqNo)
  /\ tradesExecutedCount' = tradesExecutedCount + 1
  /\ Live(id)
  /\ ApplyToSide(orders[id].val.side, orders[id].val.price,
                 -execQuantity, IF newQty = 0 THEN -1 ELSE 0)
  /\ Remaining(id, newQty)
  /\ Mark("excess", execQuantity > quantity)

\* 'X' or 'E' for an order that is unknown or gone; an 'E' counts as a trade all
\* the same.  A message of unknown type ends like such an 'X'.
Ignored(seqNo, id, isExecute) ==
  /\ CheckSequence(seqNo)
  /\ ~Live(id)
  /\ tradesExecutedCount' = tradesExecutedCount + (IF isExecute THEN 1 ELSE 0)
  /\ UNCHANGED <<orders, bids, asks, irregular>>

--------------------------------------------------------------------------------
(* The feed: anything the parser lets pass, and gaps, repetitions and late *)
(* messages in its sequence numbers.                                       *)

SeqNos == {n \in {expectedSeqNo + d : d \in Skews} : n >= 1}

ProcessMessage(seqNo, id) ==
  \/ \E side \in Sides, price \in Prices, q \in AddQuantities :
       Add(seqNo, id, side, price, q)
  \/ AddRefused(seqNo, id)
  \/ \E q \in CancelQuantities : Cancel(seqNo, id, q)
  \/ \E q \in ExecQuantities : Execute(seqNo, id, q)
  \/ Ignored(seqNo, id, TRUE)
  \/ Ignored(seqNo, id, FALSE)

Next ==
  \/ /\ totalMessagesProcessed < MaxMessages
     /\ \E seqNo \in SeqNos, id \in OrderIds : ProcessMessage(seqNo, id)
  \/ Reset

Spec == Init /\ [][Next]_bookVars

--------------------------------------------------------------------------------
(* Properties *)

LevelType == [price : Int, quantity : Int, orderCount : Int, active : BOOLEAN]

TypeOK ==
  /\ orders \in [OrderIds -> Store!Records \cup {NoOrder}]
  /\ bids \in [Levels -> LevelType] /\ asks \in [Levels -> LevelType]
  /\ totalMessagesProcessed \in Nat /\ expectedSeqNo \in Nat \ {0}
  /\ sequenceGapsDetected \in Nat /\ tradesExecutedCount \in Nat
  /\ seen \subseteq Nat \ {0}
  /\ irregular \subseteq {"reuse", "excess", "overflow"}

\* The active levels come first, strictly ordered from the best price on; each has
\* quantity and orders; a slot not in use is clean.
WellOrdered(L, ascending) ==
  /\ \A i \in Levels : IF L[i].active THEN L[i].quantity > 0 /\ L[i].orderCount > 0
                                      ELSE L[i] = EmptyLevel
  /\ \A i, j \in Levels : i < j /\ L[j].active =>
       L[i].active /\ Ahead(L[i].price, L[j].price, ascending)

\* Both sides of the book are well ordered after any sequence of messages: what
\* bestBidPrice() and bestAskPrice() read at index 0 is the best visible price.
LevelsOrdered == WellOrdered(bids, FALSE) /\ WellOrdered(asks, TRUE)

\* The quantity that rests at a price on a side, from the orders themselves.
RestingAt(side, price) ==
  {id \in OrderIds : Live(id) /\ orders[id].val.side = side /\ orders[id].val.price = price}
Resting(side, price) ==
  SumFunction([id \in OrderIds |->
                 IF id \in RestingAt(side, price) THEN orders[id].val.quantity ELSE 0])

\* The book never shows more than rests: no level has more quantity than the live
\* orders at its price, though levels come and go at the edge of the array and though
\* cancels and executions may ask for more than there is.  Only the id of a live order
\* must not be added again: that leaves its old quantity behind.
VisibleIsBacked ==
  "reuse" \notin irregular =>
    \A i \in Levels :
      /\ bids[i].active => bids[i].quantity <= Resting("B", bids[i].price)
      /\ asks[i].active => asks[i].quantity <= Resting("S", asks[i].price)

TotalsExact ==
  \A side \in Sides, i \in Levels :
    LET level == IF side = "B" THEN bids[i] ELSE asks[i] IN
    level.active => /\ level.quantity = Resting(side, level.price)
                    /\ level.orderCount = Cardinality(RestingAt(side, level.price))

EveryOrderShown ==
  \A id \in OrderIds : Live(id) =>
    LET L == IF orders[id].val.side = "B" THEN bids ELSE asks
    IN  \E i \in Levels : L[i].active /\ L[i].price = orders[id].val.price

\* As long as nothing irregular happened the levels are exactly the live orders, summed
\* per side and price: incremental deltas and removals lose nothing.
BookMirrorsOrders == irregular = {} => TotalsExact /\ EveryOrderShown

\* No loss goes unnoticed: the gap counter is at least the number of messages
\* missing below the highest one seen, in whatever order messages come.
LossNoticed ==
  seen # {} => sequenceGapsDetected >= Cardinality((1 .. Max(seen)) \ seen)

ActivePrices(L) == {L[i].price : i \in {i \in Levels : L[i].active}}

\* A message makes at most one price leave a side and one enter; if both, the side
\* was full, the worst price left and the one that entered is ahead of it.
OneLevelMoves(L, M, ascending) ==
  LET gone == ActivePrices(L) \ ActivePrices(M)
      new == ActivePrices(M) \ ActivePrices(L)
  IN  /\ Cardinality(gone) <= 1 /\ Cardinality(new) <= 1
      /\ \A g \in gone, n \in new :
           /\ Ahead(n, g, ascending)
           /\ Cardinality(ActivePrices(L)) = Depth
           /\ \A p \in ActivePrices(L) : ~Ahead(g, p, ascending)

EvictsOnlyWorst ==
  [][totalMessagesProcessed' > totalMessagesProcessed =>
       OneLevelMoves(bids, bids', FALSE) /\ OneLevelMoves(asks, asks', TRUE)]_<<bids, asks>>

================================================================================
