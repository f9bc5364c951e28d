----------------------------- MODULE OrderBookProofs -----------------------------
(***************************************************************************)
(* Proofs about OrderBook, for every depth, table size and set of          *)
(* messages: both sides stay sorted, no lost message goes unnoticed, only  *)
(* the worst price of a full side gives way to another, and what the       *)
(* levels show is what the live orders add up to.                          *)
(***************************************************************************)
EXTENDS OrderBook, Arithmetic, TLAPS

USE BookAssumption

LevelArrays == [Levels -> LevelType]

--------------------------------------------------------------------------------
(* The loop that moves a level up stops at the first slot that qualifies.  *)

LEMMA LandingStops ==
  ASSUME NEW L \in LevelArrays, NEW pos \in Levels, NEW price \in Int,
         NEW asc \in BOOLEAN
  PROVE  LET j == Landing(L, pos, price, asc) IN
         /\ j \in 0 .. pos
         /\ \A i \in j .. pos - 1 : Ahead(price, L[i].price, asc)
         /\ j > 0 => ~Ahead(price, L[j - 1].price, asc)
<1> DEFINE T == {k \in 0 .. pos : \A i \in k .. pos - 1 : Ahead(price, L[i].price, asc)}
<1>1. pos \in Nat BY DEF Levels
<1>2. pos \in T BY <1>1
<1>3. T \subseteq Nat /\ T # {} BY <1>1, <1>2
<1>4. PICK j \in T : \A k \in T : j <= k BY <1>3, SmallestIn
<1>5. j \in Nat /\ j \in 0 .. pos BY <1>1, <1>4
<1>6. ASSUME j > 0, Ahead(price, L[j - 1].price, asc) PROVE FALSE
  <2>1. j - 1 \in 0 .. pos BY <1>1, <1>5, <1>6
  <2>2. ASSUME NEW i \in j - 1 .. pos - 1 PROVE Ahead(price, L[i].price, asc)
    <3>1. i = j - 1 \/ i \in j .. pos - 1 BY <1>1, <1>5
    <3> QED BY <1>4, <1>6, <3>1
  <2>3. j - 1 \in T BY <2>1, <2>2
  <2>4. j <= j - 1 BY <1>4, <2>3
  <2> QED BY <1>5, <2>4
<1> HIDE DEF T
<1>7. /\ j \in 0 .. pos
      /\ \A i \in j .. pos - 1 : Ahead(price, L[i].price, asc)
      /\ j > 0 => ~Ahead(price, L[j - 1].price, asc)
  BY <1>4, <1>5, <1>6 DEF T
<1> QED BY <1>7 DEF Landing

--------------------------------------------------------------------------------
(* Every step of applyDelta keeps a side well ordered                      *)

LEMMA LevelsFacts ==
  /\ Depth \in Nat /\ Depth >= 1 /\ Depth - 1 \in Levels
  /\ \A i \in Levels : i \in Nat /\ i < Depth
BY DEF Levels

LEMMA RemoveKeepsOrder ==
  ASSUME NEW L \in LevelArrays, NEW asc \in BOOLEAN, WellOrdered(L, asc),
         NEW idx \in Levels
  PROVE  RemoveLevel(L, idx) \in LevelArrays /\ WellOrdered(RemoveLevel(L, idx), asc)
<1> DEFINE M == RemoveLevel(L, idx)
<1>1. EmptyLevel \in LevelType /\ ~EmptyLevel.active BY DEF EmptyLevel, LevelType
<1>2. ASSUME NEW i \in Levels
      PROVE  /\ i < idx => M[i] = L[i]
             /\ i >= idx /\ i + 1 < Depth => i + 1 \in Levels /\ M[i] = L[i + 1]
             /\ i >= idx /\ ~(i + 1 < Depth) => M[i] = EmptyLevel
  BY LevelsFacts DEF RemoveLevel, Levels
<1>3. M \in LevelArrays
  BY <1>1, LevelsFacts DEF RemoveLevel, LevelArrays, Levels
<1>4. ASSUME NEW i \in Levels
      PROVE  IF M[i].active THEN M[i].quantity > 0 /\ M[i].orderCount > 0
                            ELSE M[i] = EmptyLevel
  BY <1>1, <1>2, LevelsFacts DEF WellOrdered
<1>5. ASSUME NEW i \in Levels, NEW j \in Levels, i < j, M[j].active
      PROVE  M[i].active /\ Ahead(M[i].price, M[j].price, asc)
  <2>1. CASE j < idx BY <1>2, <1>5, <2>1, LevelsFacts DEF WellOrdered
  <2>2. CASE j >= idx
    <3>1. j + 1 \in Levels /\ M[j] = L[j + 1] BY <1>1, <1>2, <1>5, <2>2, LevelsFacts
    <3>2. CASE i < idx
      <4>1. i < j + 1 /\ M[i] = L[i] BY <1>2, <1>5, <3>2, LevelsFacts
      <4> QED BY <1>5, <3>1, <4>1 DEF WellOrdered
    <3>3. CASE i >= idx
      <4>1. i + 1 \in Levels /\ M[i] = L[i + 1] /\ i + 1 < j + 1
        BY <1>2, <1>5, <3>3, LevelsFacts
      <4> QED BY <1>5, <3>1, <4>1 DEF WellOrdered
    <3> QED BY <3>2, <3>3, LevelsFacts
  <2> QED BY <2>1, <2>2, LevelsFacts
<1> QED BY <1>3, <1>4, <1>5 DEF WellOrdered

LEMMA UpdateKeepsOrder ==
  ASSUME NEW L \in LevelArrays, NEW asc \in BOOLEAN, WellOrdered(L, asc),
         NEW idx \in Levels, L[idx].active, NEW q \in Int, NEW n \in Int
  PROVE  UpdateLevel(L, idx, q, n) \in LevelArrays
         /\ WellOrdered(UpdateLevel(L, idx, q, n), asc)
<1> DEFINE quantity == L[idx].quantity + q
           orderCount == L[idx].orderCount + n
           M == [L EXCEPT ![idx].quantity = quantity, ![idx].orderCount = orderCount]
<1>1. L[idx] \in LevelType BY DEF LevelArrays
<1>2. quantity \in Int /\ orderCount \in Int BY <1>1 DEF LevelType
<1>3. CASE quantity <= 0 \/ orderCount <= 0
  BY <1>3, RemoveKeepsOrder DEF UpdateLevel
<1>4. CASE quantity > 0 /\ orderCount > 0
  <2>1. \A i \in Levels : /\ M[i].price = L[i].price /\ M[i].active = L[i].active
                          /\ i # idx => M[i] = L[i]
    BY DEF LevelArrays, LevelType
  <2>2. M[idx].quantity = quantity /\ M[idx].orderCount = orderCount
    BY DEF LevelArrays, LevelType
  <2>3. M \in LevelArrays BY <1>2 DEF LevelArrays, LevelType
  <2> HIDE DEF M
  <2>4. WellOrdered(M, asc) BY <1>4, <2>1, <2>2 DEF WellOrdered
  <2>5. UpdateLevel(L, idx, q, n) = M BY <1>2, <1>4 DEF UpdateLevel, M
  <2> QED BY <2>3, <2>4, <2>5
<1> QED BY <1>2, <1>3, <1>4

LEMMA PlaceKeepsOrder ==
  ASSUME NEW L \in LevelArrays, NEW asc \in BOOLEAN, WellOrdered(L, asc),
         NEW pos \in Levels, NEW level \in LevelType,
         level.active, level.quantity > 0, level.orderCount > 0,
         \A i \in Levels : i < pos => L[i].active /\ L[i].price # level.price,
         \A i \in Levels : i > pos => ~L[i].active
  PROVE  PlaceLevel(L, pos, level, asc) \in LevelArrays
         /\ WellOrdered(PlaceLevel(L, pos, level, asc), asc)
<1> DEFINE price == level.price
           at == Landing(L, pos, price, asc)
           M == PlaceLevel(L, pos, level, asc)
<1>1. price \in Int /\ pos \in Nat /\ pos < Depth BY LevelsFacts DEF LevelType
<1>2. /\ at \in 0 .. pos
      /\ \A i \in at .. pos - 1 : Ahead(price, L[i].price, asc)
      /\ at > 0 => ~Ahead(price, L[at - 1].price, asc)
  BY <1>1, LandingStops
<1> HIDE DEF at, price
<1>3. ASSUME NEW i \in Levels
      PROVE  /\ i < at => M[i] = L[i]
             /\ i = at => M[i] = level
             /\ at < i /\ i <= pos => i - 1 \in Levels /\ i - 1 < pos /\ M[i] = L[i - 1]
             /\ i > pos => M[i] = L[i] /\ ~M[i].active
  BY <1>1, <1>2, LevelsFacts DEF PlaceLevel, Levels, at, price
<1>4. M \in LevelArrays
  <2>1. M = [i \in Levels |-> M[i]] BY DEF PlaceLevel
  <2>2. \A i \in Levels : M[i] \in LevelType
    BY <1>1, <1>2, <1>3, LevelsFacts DEF LevelArrays
  <2> QED BY <2>1, <2>2 DEF LevelArrays
<1> HIDE DEF M
<1>5. ASSUME NEW i \in Levels
      PROVE  IF M[i].active THEN M[i].quantity > 0 /\ M[i].orderCount > 0
                            ELSE M[i] = EmptyLevel
  BY <1>1, <1>2, <1>3, LevelsFacts DEF WellOrdered
\* Before the landing place the prices are ahead of the new one, after it behind.
<1>6. ASSUME NEW i \in Levels, i < at PROVE Ahead(L[i].price, price, asc)
  <2>1. at - 1 \in Levels /\ at - 1 < pos /\ i <= at - 1
    BY <1>1, <1>2, <1>6, LevelsFacts DEF Levels
  <2>2. L[i].price \in Int /\ L[at - 1].price \in Int
    BY <2>1 DEF LevelArrays, LevelType
  <2>3. Ahead(L[at - 1].price, price, asc)
    BY <1>1, <1>2, <1>6, <2>1, <2>2, LevelsFacts DEF Ahead, price
  <2>4. i = at - 1 \/ Ahead(L[i].price, L[at - 1].price, asc)
    BY <1>1, <1>2, <2>1, LevelsFacts DEF WellOrdered
  <2> QED BY <1>1, <2>2, <2>3, <2>4 DEF Ahead
<1>7. ASSUME NEW i \in Levels, NEW j \in Levels, i < j, M[j].active
      PROVE  M[i].active /\ Ahead(M[i].price, M[j].price, asc)
  <2>0. i \in Nat /\ j \in Nat /\ at \in Nat BY <1>1, <1>2, LevelsFacts
  <2>1. j <= pos
    <3>1. j > pos => ~M[j].active BY <1>3
    <3> QED BY <1>1, <1>7, <2>0, <3>1
  <2>2. CASE j < at
    BY <1>1, <1>2, <1>3, <1>7, <2>2, LevelsFacts DEF WellOrdered
  <2>3. CASE j = at
    BY <1>1, <1>2, <1>3, <1>6, <1>7, <2>3, LevelsFacts DEF price
  <2>4. CASE at < j
    <3>1. j - 1 \in Levels /\ j - 1 < pos /\ M[j] = L[j - 1] BY <1>3, <2>1, <2>4
    <3>2. CASE i < at
      <4>1. i < j - 1 /\ M[i] = L[i] BY <1>1, <1>2, <1>3, <2>4, <3>2, LevelsFacts
      <4> QED BY <1>7, <3>1, <4>1 DEF WellOrdered
    <3>3. CASE i = at
      <4>1. j - 1 \in at .. pos - 1 BY <1>1, <2>0, <2>4, <3>1
      <4> QED BY <1>2, <1>3, <3>1, <3>3, <4>1 DEF price
    <3>4. CASE at < i
      <4>1. i - 1 \in Levels /\ M[i] = L[i - 1] /\ i - 1 < j - 1
        BY <1>1, <1>3, <1>7, <2>1, <3>4, LevelsFacts
      <4> QED BY <1>7, <3>1, <4>1 DEF WellOrdered
    <3> QED BY <1>1, <1>2, <3>2, <3>3, <3>4, LevelsFacts
  <2> QED BY <1>1, <1>2, <2>2, <2>3, <2>4, LevelsFacts
<1> QED BY <1>4, <1>5, <1>7 DEF WellOrdered, M

LEMMA ApplyDeltaKeepsOrder ==
  ASSUME NEW L \in LevelArrays, NEW asc \in BOOLEAN, WellOrdered(L, asc),
         NEW price \in Int, NEW q \in Int, NEW n \in Int
  PROVE  ApplyDelta(L, price, q, n, asc) \in LevelArrays
         /\ WellOrdered(ApplyDelta(L, price, q, n, asc), asc)
<1> DEFINE Here == {i \in Levels : L[i].active /\ L[i].price = price}
           Free == {i \in Levels : ~L[i].active}
           level == NewLevel(price, q, n)
           M == ApplyDelta(L, price, q, n, asc)
<1>1. Levels \subseteq Nat BY LevelsFacts
<1>2. CASE Here # {}
  <2>1. Min(Here) \in Here BY <1>1, <1>2, MinIn
  <2>2. M = UpdateLevel(L, Min(Here), q, n) BY <1>2 DEF ApplyDelta
  <2> HIDE DEF M
  <2> QED BY <2>1, <2>2, UpdateKeepsOrder DEF M
<1>3. CASE Here = {} /\ q <= 0
  BY <1>3 DEF ApplyDelta
<1>4. CASE Here = {} /\ q > 0
  <2>1. level \in LevelType /\ level.active /\ level.quantity > 0
        /\ level.orderCount > 0 /\ level.price = price
    BY <1>4 DEF NewLevel, LevelType
  <2>2. CASE Free # {}
    <3>1. Min(Free) \in Free /\ \A i \in Free : Min(Free) <= i BY <1>1, <2>2, MinIn
    <3>2. PICK pos \in Levels : pos = Min(Free) BY <3>1
    <3>3. \A i \in Levels : i < pos => L[i].active /\ L[i].price # price
      BY <1>4, <3>1, <3>2, LevelsFacts
    <3>4. \A i \in Levels : i > pos => ~L[i].active
      BY <3>1, <3>2, LevelsFacts DEF WellOrdered
    <3>5. M = PlaceLevel(L, pos, level, asc) BY <1>4, <2>2, <3>2 DEF ApplyDelta
    <3> HIDE DEF M, level, Free, Here
    <3> QED BY <2>1, <3>3, <3>4, <3>5, PlaceKeepsOrder DEF M
  <2>3. CASE Free = {} /\ Ahead(price, L[Depth - 1].price, asc)
    <3>1. \A i \in Levels : i < Depth - 1 => L[i].active /\ L[i].price # price
      BY <1>4, <2>3
    <3>2. \A i \in Levels : i > Depth - 1 => ~L[i].active BY LevelsFacts
    <3>3. M = PlaceLevel(L, Depth - 1, level, asc) BY <1>4, <2>3 DEF ApplyDelta
    <3> HIDE DEF M, level, Free, Here
    <3> QED BY <2>1, <3>1, <3>2, <3>3, LevelsFacts, PlaceKeepsOrder DEF M
  <2>4. CASE Free = {} /\ ~Ahead(price, L[Depth - 1].price, asc)
    BY <1>4, <2>4 DEF ApplyDelta
  <2> QED BY <2>2, <2>3, <2>4
<1> QED BY <1>2, <1>3, <1>4

--------------------------------------------------------------------------------
(* Types and sorted sides                                                  *)

BookInv == TypeOK /\ LevelsOrdered

LEMMA InitBookInv == Init => BookInv
<1> SUFFICES ASSUME Init PROVE BookInv OBVIOUS
<1>1. EmptyLevel \in LevelType /\ ~EmptyLevel.active BY DEF EmptyLevel, LevelType
<1>2. orders \in [OrderIds -> Store!Records \cup {NoOrder}] BY DEF Init, Store!Init
<1>3. bids \in [Levels -> LevelType] /\ asks \in [Levels -> LevelType]
  BY <1>1 DEF Init
<1>4. LevelsOrdered BY <1>1 DEF Init, LevelsOrdered, WellOrdered
<1> QED BY <1>2, <1>3, <1>4 DEF Init, BookInv, TypeOK

\* A message whose deltas go to one side leaves both sides sorted.
LEMMA ApplyToSideKeepsOrder ==
  ASSUME BookInv, NEW side \in Sides, NEW price \in Int, NEW q \in Int, NEW n \in Int,
         ApplyToSide(side, price, q, n)
  PROVE  bids' \in LevelArrays /\ asks' \in LevelArrays /\ LevelsOrdered'
<1>1. bids \in LevelArrays /\ asks \in LevelArrays BY DEF BookInv, TypeOK, LevelArrays
<1>2. WellOrdered(bids, FALSE) /\ WellOrdered(asks, TRUE) BY DEF BookInv, LevelsOrdered
<1>3. CASE side = "B"
  <2>1. bids' = ApplyDelta(bids, price, q, n, FALSE) /\ asks' = asks
    BY <1>3 DEF ApplyToSide
  <2>2. bids' \in LevelArrays /\ WellOrdered(bids', FALSE)
    BY <1>1, <1>2, <2>1, ApplyDeltaKeepsOrder
  <2> QED BY <1>1, <1>2, <2>1, <2>2 DEF LevelsOrdered
<1>4. CASE side = "S"
  <2>1. asks' = ApplyDelta(asks, price, q, n, TRUE) /\ bids' = bids
    BY <1>4 DEF ApplyToSide
  <2>2. asks' \in LevelArrays /\ WellOrdered(asks', TRUE)
    BY <1>1, <1>2, <2>1, ApplyDeltaKeepsOrder
  <2> QED BY <1>1, <1>2, <2>1, <2>2 DEF LevelsOrdered
<1> QED BY <1>3, <1>4 DEF Sides

\* The sequence check keeps the types of what it writes.
LEMMA CheckSequenceTypes ==
  ASSUME TypeOK, NEW seqNo \in SeqNos, CheckSequence(seqNo)
  PROVE  /\ totalMessagesProcessed' \in Nat /\ expectedSeqNo' \in Nat \ {0}
         /\ sequenceGapsDetected' \in Nat /\ seen' \subseteq Nat \ {0}
<1>1. seqNo \in Nat \ {0}
  <2>1. PICK d \in Skews : seqNo = expectedSeqNo + d /\ seqNo >= 1 BY DEF SeqNos
  <2>2. expectedSeqNo \in Nat /\ d \in Int BY DEF TypeOK
  <2> QED BY <2>1, <2>2
<1> QED BY <1>1 DEF TypeOK, CheckSequence

LEMMA MarkTypes ==
  ASSUME TypeOK, NEW what \in {"reuse", "excess"}, NEW happened, Mark(what, happened)
  PROVE  irregular' \subseteq {"reuse", "excess", "overflow"}
BY DEF TypeOK, Mark

LEMMA LiveRecord ==
  ASSUME TypeOK, NEW id \in OrderIds, Live(id)
  PROVE  orders[id].val \in Orders /\ orders[id].val.side \in Sides
         /\ orders[id].val.price \in Int /\ orders[id].val.quantity \in Int
BY DEF TypeOK, Live, Store!Known, Store!Records, Orders

LEMMA RemainingTypes ==
  ASSUME TypeOK, NEW id \in OrderIds, Live(id), NEW q \in Int, Remaining(id, q)
  PROVE  orders' \in [OrderIds -> Store!Records \cup {NoOrder}]
<1>1. [orders[id].val EXCEPT !.quantity = q] \in Orders BY LiveRecord DEF Orders
<1>2. [val |-> [orders[id].val EXCEPT !.quantity = q], cancelled |-> q <= 0]
        \in Store!Records
  BY <1>1 DEF Store!Records
<1> QED BY <1>2 DEF TypeOK, Remaining, Store!Amend

LEMMA AddInv ==
  ASSUME BookInv, NEW seqNo \in SeqNos, NEW id \in OrderIds, NEW side \in Sides,
         NEW price \in Prices, NEW q \in AddQuantities, Add(seqNo, id, side, price, q)
  PROVE  BookInv'
<1>1. TypeOK BY DEF BookInv
<1>2. price \in Int /\ q \in Int OBVIOUS
<1>3. bids' \in LevelArrays /\ asks' \in LevelArrays /\ LevelsOrdered'
  BY <1>2, ApplyToSideKeepsOrder DEF Add
<1>4. [val |-> [side |-> side, price |-> price, quantity |-> q], cancelled |-> FALSE]
        \in Store!Records
  BY DEF Store!Records, Orders
<1>5. orders' \in [OrderIds -> Store!Records \cup {NoOrder}]
  BY <1>1, <1>4 DEF Add, Store!Put, TypeOK
<1>6. tradesExecutedCount' \in Nat BY <1>1 DEF Add, TypeOK
<1>7. irregular' \subseteq {"reuse", "excess", "overflow"} BY <1>1, MarkTypes DEF Add
<1> QED BY <1>1, <1>3, <1>5, <1>6, <1>7, CheckSequenceTypes
    DEF Add, BookInv, TypeOK, LevelArrays

LEMMA CancelInv ==
  ASSUME BookInv, NEW seqNo \in SeqNos, NEW id \in OrderIds,
         NEW q \in CancelQuantities, Cancel(seqNo, id, q)
  PROVE  BookInv'
<1>1. TypeOK /\ Live(id) BY DEF BookInv, Cancel
<1>2. q \in Int /\ q - orders[id].val.quantity \in Int
      /\ (IF q <= 0 THEN -1 ELSE 0) \in Int
  <2>1. q \in Int /\ orders[id].val.quantity \in Int BY <1>1, LiveRecord
  <2> QED BY <2>1
<1>3. bids' \in LevelArrays /\ asks' \in LevelArrays /\ LevelsOrdered'
  BY <1>1, <1>2, LiveRecord, ApplyToSideKeepsOrder DEF Cancel
<1>4. orders' \in [OrderIds -> Store!Records \cup {NoOrder}]
  BY <1>1, <1>2, RemainingTypes DEF Cancel
<1>5. tradesExecutedCount' \in Nat BY <1>1 DEF Cancel, TypeOK
<1>6. irregular' \subseteq {"reuse", "excess", "overflow"} BY <1>1, MarkTypes DEF Cancel
<1> QED BY <1>1, <1>3, <1>4, <1>5, <1>6, CheckSequenceTypes
    DEF Cancel, BookInv, TypeOK, LevelArrays

LEMMA ExecuteInv ==
  ASSUME BookInv, NEW seqNo \in SeqNos, NEW id \in OrderIds,
         NEW q \in ExecQuantities, Execute(seqNo, id, q)
  PROVE  BookInv'
<1> DEFINE quantity == orders[id].val.quantity
           newQty == IF quantity > q THEN quantity - q ELSE 0
<1>1. TypeOK /\ Live(id) BY DEF BookInv, Execute
<1>2. q \in Int /\ -q \in Int /\ newQty \in Int
      /\ (IF newQty = 0 THEN -1 ELSE 0) \in Int
  <2>1. q \in Int OBVIOUS
  <2>2. quantity \in Int BY <1>1, LiveRecord
  <2> QED BY <2>1, <2>2
<1>3. /\ ApplyToSide(orders[id].val.side, orders[id].val.price, -q,
                     IF newQty = 0 THEN -1 ELSE 0)
      /\ Remaining(id, newQty)
      /\ tradesExecutedCount' = tradesExecutedCount + 1
  BY DEF Execute
<1> HIDE DEF newQty
<1>4. bids' \in LevelArrays /\ asks' \in LevelArrays /\ LevelsOrdered'
  BY <1>1, <1>2, <1>3, LiveRecord, ApplyToSideKeepsOrder
<1>5. orders' \in [OrderIds -> Store!Records \cup {NoOrder}]
  BY <1>1, <1>2, <1>3, RemainingTypes
<1>6. tradesExecutedCount' \in Nat BY <1>1, <1>3 DEF TypeOK
<1>7. CheckSequence(seqNo) BY DEF Execute
<1>8. irregular' \subseteq {"reuse", "excess", "overflow"} BY <1>1, MarkTypes DEF Execute
<1> QED BY <1>1, <1>4, <1>5, <1>6, <1>7, <1>8, CheckSequenceTypes
    DEF BookInv, TypeOK, LevelArrays

LEMMA UntouchedInv ==
  ASSUME BookInv, NEW seqNo \in SeqNos, CheckSequence(seqNo),
         UNCHANGED <<orders, bids, asks, irregular>>, tradesExecutedCount' \in Nat
  PROVE  BookInv'
<1>1. TypeOK BY DEF BookInv
<1> QED BY <1>1, CheckSequenceTypes DEF BookInv, TypeOK, LevelsOrdered

LEMMA ResetInv == Reset => BookInv'
<1> SUFFICES ASSUME Reset PROVE BookInv' OBVIOUS
<1>1. EmptyLevel \in LevelType /\ ~EmptyLevel.active BY DEF EmptyLevel, LevelType
<1>2. orders' \in [OrderIds -> Store!Records \cup {NoOrder}] BY DEF Reset, Store!Clear
<1>3. bids' \in [Levels -> LevelType] /\ asks' \in [Levels -> LevelType]
  BY <1>1 DEF Reset
<1>4. LevelsOrdered' BY <1>1 DEF Reset, LevelsOrdered, WellOrdered
<1> QED BY <1>2, <1>3, <1>4 DEF Reset, BookInv, TypeOK

LEMMA NextBookInv == BookInv /\ [Next]_bookVars => BookInv'
<1> SUFFICES ASSUME BookInv, [Next]_bookVars PROVE BookInv' OBVIOUS
<1>1. CASE UNCHANGED bookVars
  BY <1>1 DEF bookVars, BookInv, TypeOK, LevelsOrdered, Store!Records
<1>2. ASSUME NEW seqNo \in SeqNos, NEW id \in OrderIds, ProcessMessage(seqNo, id)
      PROVE  BookInv'
  <2>2. CASE \E side \in Sides, price \in Prices, q \in AddQuantities :
               Add(seqNo, id, side, price, q)
    BY <2>2, AddInv
  <2>3. CASE AddRefused(seqNo, id)
    <3>1. tradesExecutedCount' \in Nat BY <2>3 DEF AddRefused, BookInv, TypeOK
    <3> QED BY <2>3, <3>1, UntouchedInv DEF AddRefused
  <2>4. CASE \E q \in CancelQuantities : Cancel(seqNo, id, q)
    BY <2>4, CancelInv
  <2>5. CASE \E q \in ExecQuantities : Execute(seqNo, id, q)
    BY <2>5, ExecuteInv
  <2>6. CASE \E e \in BOOLEAN : Ignored(seqNo, id, e)
    <3>1. tradesExecutedCount' \in Nat BY <2>6 DEF Ignored, BookInv, TypeOK
    <3> QED BY <2>6, <3>1, UntouchedInv DEF Ignored
  <2> QED BY <1>2, <2>2, <2>3, <2>4, <2>5, <2>6 DEF ProcessMessage
<1>3. CASE Reset
  BY <1>3, ResetInv
<1> QED BY <1>1, <1>2, <1>3 DEF Next

\* Whatever messages come, with whatever ids, prices, quantities and sequence
\* numbers, applyDelta and removeLevel leave both sides of the book typed and sorted.
THEOREM BookInvariant == Spec => []BookInv
<1> QED BY InitBookInv, NextBookInv, PTL DEF Spec

\* The levels of both sides stay sorted from the best price on, without holes, so
\* that index 0 is what bestBidPrice() and bestAskPrice() may read.
THEOREM BookStaysSorted == Spec => []LevelsOrdered
<1>1. BookInv => LevelsOrdered BY DEF BookInv
<1> QED BY <1>1, BookInvariant, PTL

--------------------------------------------------------------------------------
(* The gap counter                                                         *)

Highest(S, m) == m \in S /\ \A k \in S : k <= m

Missing(S, m) == (1 .. m) \ S

\* The last message that was checked is one that was seen, and the highest one
\* exists; both hold of the first message by fiat.
SeqInv ==
  /\ TypeOK
  /\ seen = {} => expectedSeqNo = 1
  /\ seen # {} => expectedSeqNo - 1 \in seen
  /\ seen # {} => \E m \in seen :
       Highest(seen, m) /\ sequenceGapsDetected >= Cardinality(Missing(seen, m))

LEMMA MissingFinite ==
  ASSUME NEW m \in Int, NEW S
  PROVE  IsFiniteSet(Missing(S, m)) /\ Cardinality(Missing(S, m)) \in Nat
<1>1. IsFiniteSet(1 .. m) BY FS_Interval
<1>2. IsFiniteSet(Missing(S, m)) BY <1>1, FS_Subset DEF Missing
<1> QED BY <1>2, FS_CardinalityType

LEMMA HighestIsMax ==
  ASSUME NEW S \in SUBSET Nat, NEW m, Highest(S, m)
  PROVE  m = Max(S)
<1>1. \A x \in S : (\A y \in S : x >= y) => x = m BY DEF Highest
<1>2. m \in S /\ \A y \in S : m >= y BY DEF Highest
<1> QED BY <1>1, <1>2 DEF Max

\* What one message adds to the counter covers what it leaves out.
LEMMA CheckSequenceCounts ==
  ASSUME SeqInv, TypeOK', NEW n \in SeqNos, CheckSequence(n)
  PROVE  SeqInv'
<1>1. n \in Nat \ {0} BY DEF SeqNos, SeqInv, TypeOK
<1>2. /\ expectedSeqNo' = n + 1 /\ seen' = seen \cup {n}
      /\ sequenceGapsDetected' = sequenceGapsDetected +
           (IF n > expectedSeqNo THEN n - expectedSeqNo ELSE 0)
  BY DEF CheckSequence
<1>3. expectedSeqNo \in Nat /\ sequenceGapsDetected \in Nat /\ seen \subseteq Nat \ {0}
  BY DEF SeqInv, TypeOK
<1>4. \E m \in seen' :
        Highest(seen', m) /\ sequenceGapsDetected' >= Cardinality(Missing(seen', m))
  <2>1. CASE seen = {}
    <3>1. Missing(seen', n) = 1 .. n - 1 BY <1>1, <1>2, <2>1 DEF Missing
    <3>2. Cardinality(1 .. n - 1) = n - 1
      <4>1. 1 \in Int /\ n - 1 \in Int BY <1>1
      <4>2. Cardinality(1 .. n - 1) = IF 1 > n - 1 THEN 0 ELSE (n - 1) - 1 + 1
        BY <4>1, FS_Interval
      <4> QED BY <1>1, <4>2
    <3>3. expectedSeqNo = 1 BY <2>1 DEF SeqInv
    <3>4. sequenceGapsDetected' >= n - 1 BY <1>1, <1>2, <1>3, <3>3
    <3>5. Highest(seen', n) /\ n \in seen' BY <1>1, <1>2, <2>1 DEF Highest
    <3> QED BY <3>1, <3>2, <3>4, <3>5
  <2>2. CASE seen # {}
    <3>1. PICK m \in seen :
            Highest(seen, m) /\ sequenceGapsDetected >= Cardinality(Missing(seen, m))
      BY <2>2 DEF SeqInv
    <3>2. m \in Nat BY <1>3
    <3>3. expectedSeqNo - 1 <= m BY <2>2, <3>1 DEF SeqInv, Highest
    <3>4. Cardinality(Missing(seen, m)) \in Nat /\ IsFiniteSet(Missing(seen, m))
      BY <3>2, MissingFinite
    <3>5. CASE n <= m
      <4>1. Highest(seen', m) /\ m \in seen' BY <1>2, <3>1, <3>5 DEF Highest
      <4>2. Missing(seen', m) \subseteq Missing(seen, m) BY <1>2 DEF Missing
      <4>3. Cardinality(Missing(seen', m)) <= Cardinality(Missing(seen, m))
        BY <3>4, <4>2, FS_Subset
      <4>4. Cardinality(Missing(seen', m)) \in Nat BY <3>2, MissingFinite
      <4>5. sequenceGapsDetected' >= sequenceGapsDetected /\ sequenceGapsDetected' \in Nat
        BY <1>1, <1>2, <1>3
      <4> QED BY <1>3, <3>1, <3>4, <4>1, <4>3, <4>4, <4>5
    <3>6. CASE n > m
      <4> DEFINE Between == m + 1 .. n - 1
      <4>1. Highest(seen', n) /\ n \in seen'
        BY <1>1, <1>2, <1>3, <3>1, <3>2, <3>6 DEF Highest
      <4>2. Missing(seen', n) \subseteq Missing(seen, m) \cup Between
        BY <1>1, <1>2, <3>2 DEF Missing
      <4>3. IsFiniteSet(Between) /\ Cardinality(Between) = n - 1 - m
        <5>1. m + 1 \in Int /\ n - 1 \in Int BY <1>1, <3>2
        <5>2. IsFiniteSet(Between) /\ Cardinality(Between) =
                IF m + 1 > n - 1 THEN 0 ELSE (n - 1) - (m + 1) + 1
          BY <5>1, FS_Interval
        <5> QED BY <1>1, <3>2, <3>6, <5>2
      <4> HIDE DEF Between
      <4>4. /\ IsFiniteSet(Missing(seen, m) \cup Between)
            /\ Cardinality(Missing(seen, m) \cup Between) =
                 Cardinality(Missing(seen, m)) + Cardinality(Between)
                 - Cardinality(Missing(seen, m) \cap Between)
        BY <3>4, <4>3, FS_Union
      <4>5. Cardinality(Missing(seen, m) \cap Between) \in Nat
        <5>1. IsFiniteSet(Missing(seen, m) \cap Between) BY <4>3, FS_Subset
        <5> QED BY <5>1, FS_CardinalityType
      <4>6. Cardinality(Missing(seen', n))
              <= Cardinality(Missing(seen, m) \cup Between)
        BY <4>2, <4>4, FS_Subset
      <4>7. Cardinality(Missing(seen', n)) \in Nat BY <1>1, MissingFinite
      <4>8. sequenceGapsDetected' >= sequenceGapsDetected + (n - 1 - m)
        BY <1>1, <1>2, <1>3, <3>2, <3>3, <3>6
      <4>9. sequenceGapsDetected' \in Nat BY <1>1, <1>2, <1>3
      <4>10. Cardinality(Missing(seen', n))
               <= Cardinality(Missing(seen, m)) + (n - 1 - m)
        BY <1>1, <3>2, <3>4, <4>3, <4>4, <4>5, <4>6, <4>7
      <4>11. sequenceGapsDetected' >= Cardinality(Missing(seen', n))
        BY <1>1, <1>3, <3>1, <3>2, <3>4, <4>7, <4>8, <4>9, <4>10
      <4> QED BY <4>1, <4>11
    <3> QED BY <1>1, <3>2, <3>5, <3>6
  <2> QED BY <2>1, <2>2
<1>5. seen' # {} /\ expectedSeqNo' - 1 \in seen' BY <1>1, <1>2
<1> QED BY <1>4, <1>5 DEF SeqInv

LEMMA InitSeqInv == Init => SeqInv
BY InitBookInv DEF BookInv, Init, SeqInv

LEMMA NextSeqInv == BookInv' /\ SeqInv /\ [Next]_bookVars => SeqInv'
<1> SUFFICES ASSUME BookInv', SeqInv, [Next]_bookVars PROVE SeqInv' OBVIOUS
<1>1. CASE UNCHANGED bookVars
  BY <1>1 DEF bookVars, SeqInv, BookInv
<1>2. CASE \E seqNo \in SeqNos, id \in OrderIds : ProcessMessage(seqNo, id)
  <2>1. PICK seqNo \in SeqNos : CheckSequence(seqNo)
    BY <1>2 DEF ProcessMessage, Add, AddRefused, Cancel, Execute, Ignored
  <2> QED BY <2>1, CheckSequenceCounts DEF BookInv
<1>3. CASE Reset
  BY <1>3 DEF Reset, SeqInv, BookInv
<1> QED BY <1>1, <1>2, <1>3 DEF Next

\* The gap counter never falls short of the messages missing below the highest
\* sequence number, though repeated and late messages move expectedSeqNo back.
THEOREM LossIsNoticed == Spec => []LossNoticed
<1>1. Spec => []SeqInv BY InitSeqInv, NextSeqInv, BookInvariant, PTL DEF Spec
<1>2. SeqInv => LossNoticed
  <2> SUFFICES ASSUME SeqInv, seen # {}
               PROVE  sequenceGapsDetected >= Cardinality((1 .. Max(seen)) \ seen)
    BY DEF LossNoticed
  <2>1. PICK m \in seen :
          Highest(seen, m) /\ sequenceGapsDetected >= Cardinality(Missing(seen, m))
    BY DEF SeqInv
  <2>2. m = Max(seen) BY <2>1, HighestIsMax DEF SeqInv, TypeOK
  <2> QED BY <2>1, <2>2 DEF Missing
<1> QED BY <1>1, <1>2, PTL

--------------------------------------------------------------------------------
(* What a message takes out of a side and brings into it                   *)

LEMMA AtMostOne ==
  ASSUME NEW S, NEW x, S \subseteq {x}
  PROVE  Cardinality(S) <= 1
<1>1. S = {} \/ S = {x} OBVIOUS
<1>2. Cardinality({}) = 0 BY FS_EmptySet
<1>3. Cardinality({x}) = 1 BY FS_Singleton
<1> QED BY <1>1, <1>2, <1>3

LEMMA NothingMoves ==
  ASSUME NEW L, NEW asc
  PROVE  OneLevelMoves(L, L, asc)
<1>1. Cardinality({}) = 0 BY FS_EmptySet
<1>2. ActivePrices(L) \ ActivePrices(L) = {} OBVIOUS
<1> QED BY <1>1, <1>2 DEF OneLevelMoves

\* A removal drops the level of its slot and keeps the others.
LEMMA RemoveContents ==
  ASSUME NEW L \in LevelArrays, NEW idx \in Levels
  PROVE  LET M == RemoveLevel(L, idx) IN
         /\ \A i \in Levels : M[i].active => \E k \in Levels \ {idx} : M[i] = L[k]
         /\ \A k \in Levels \ {idx} : L[k].active => \E i \in Levels : M[i] = L[k]
<1> DEFINE M == RemoveLevel(L, idx)
<1>1. ~EmptyLevel.active BY DEF EmptyLevel
<1>2. ASSUME NEW i \in Levels
      PROVE  /\ i < idx => M[i] = L[i]
             /\ i >= idx /\ i + 1 < Depth => i + 1 \in Levels /\ M[i] = L[i + 1]
             /\ i >= idx /\ ~(i + 1 < Depth) => M[i] = EmptyLevel
  BY LevelsFacts DEF RemoveLevel, Levels
<1> HIDE DEF M
<1>3. ASSUME NEW i \in Levels, M[i].active
      PROVE  \E k \in Levels \ {idx} : M[i] = L[k]
  <2>1. CASE i < idx BY <1>2, <2>1, LevelsFacts
  <2>2. CASE i >= idx
    <3>1. i + 1 \in Levels \ {idx} /\ M[i] = L[i + 1]
      BY <1>1, <1>2, <1>3, <2>2, LevelsFacts
    <3> QED BY <3>1
  <2> QED BY <2>1, <2>2, LevelsFacts
<1>4. ASSUME NEW k \in Levels \ {idx}, L[k].active
      PROVE  \E i \in Levels : M[i] = L[k]
  <2>1. CASE k < idx BY <1>2, <2>1
  <2>2. CASE k > idx
    <3>1. k - 1 \in Levels /\ k - 1 >= idx /\ (k - 1) + 1 < Depth /\ (k - 1) + 1 = k
      BY <2>2, LevelsFacts DEF Levels
    <3>2. M[k - 1] = L[k] BY <1>2, <3>1
    <3> QED BY <3>1, <3>2
  <2> QED BY <2>1, <2>2, LevelsFacts
<1> QED BY <1>3, <1>4 DEF M

\* A removal takes the price of its slot out, an update of a level nothing.
LEMMA RemoveMoves ==
  ASSUME NEW L \in LevelArrays, NEW idx \in Levels
  PROVE  LET M == RemoveLevel(L, idx) IN
         /\ ActivePrices(M) \subseteq ActivePrices(L)
         /\ ActivePrices(L) \ ActivePrices(M) \subseteq {L[idx].price}
<1> DEFINE M == RemoveLevel(L, idx)
<1>1. /\ \A i \in Levels : M[i].active => \E k \in Levels \ {idx} : M[i] = L[k]
      /\ \A k \in Levels \ {idx} : L[k].active => \E i \in Levels : M[i] = L[k]
  BY RemoveContents
<1> HIDE DEF M
<1>2. ActivePrices(M) \subseteq ActivePrices(L) BY <1>1 DEF ActivePrices
<1>3. ActivePrices(L) \ ActivePrices(M) \subseteq {L[idx].price}
  BY <1>1 DEF ActivePrices
<1> QED BY <1>2, <1>3 DEF M

LEMMA UpdateMoves ==
  ASSUME NEW L \in LevelArrays, NEW asc, NEW idx \in Levels, NEW q, NEW n
  PROVE  OneLevelMoves(L, UpdateLevel(L, idx, q, n), asc)
<1> DEFINE quantity == L[idx].quantity + q
           orderCount == L[idx].orderCount + n
           M == UpdateLevel(L, idx, q, n)
<1>1. CASE quantity <= 0 \/ orderCount <= 0
  <2>1. M = RemoveLevel(L, idx) BY <1>1 DEF UpdateLevel
  <2>2. ActivePrices(M) \ ActivePrices(L) = {} BY <2>1, RemoveMoves
  <2>3. Cardinality(ActivePrices(L) \ ActivePrices(M)) <= 1
    BY <2>1, RemoveMoves, AtMostOne
  <2>4. Cardinality({}) = 0 BY FS_EmptySet
  <2> QED BY <2>2, <2>3, <2>4 DEF OneLevelMoves
<1>2. CASE ~(quantity <= 0 \/ orderCount <= 0)
  <2>1. M = [L EXCEPT ![idx].quantity = quantity, ![idx].orderCount = orderCount]
    BY <1>2 DEF UpdateLevel
  <2>2. \A i \in Levels : M[i].price = L[i].price /\ M[i].active = L[i].active
    BY <2>1 DEF LevelArrays, LevelType
  <2> HIDE DEF M
  <2>3. ActivePrices(M) = ActivePrices(L) BY <2>2 DEF ActivePrices
  <2>4. OneLevelMoves(L, M, asc) BY <2>3, NothingMoves DEF OneLevelMoves
  <2> QED BY <2>4 DEF M
<1> QED BY <1>1, <1>2

\* Placing a level drops what the slot at pos held and keeps the others.
LEMMA PlaceContents ==
  ASSUME NEW L \in LevelArrays, NEW asc \in BOOLEAN, NEW pos \in Levels,
         NEW level \in LevelType
  PROVE  LET M == PlaceLevel(L, pos, level, asc) IN
         /\ \A i \in Levels : M[i] = level \/ \E k \in Levels \ {pos} : M[i] = L[k]
         /\ \A k \in Levels \ {pos} : \E i \in Levels : M[i] = L[k]
         /\ \E i \in Levels : M[i] = level
<1> DEFINE at == Landing(L, pos, level.price, asc)
           M == PlaceLevel(L, pos, level, asc)
<1>1. at \in 0 .. pos /\ at \in Levels /\ pos \in Nat /\ pos < Depth
  BY LandingStops, LevelsFacts DEF LevelType, Levels
<1> HIDE DEF at
<1>2. ASSUME NEW i \in Levels
      PROVE  /\ i < at => M[i] = L[i]
             /\ i = at => M[i] = level
             /\ at < i /\ i <= pos => i - 1 \in Levels /\ M[i] = L[i - 1]
             /\ i > pos => M[i] = L[i]
  BY <1>1, LevelsFacts DEF PlaceLevel, Levels, at
<1> HIDE DEF M
<1>3. ASSUME NEW i \in Levels
      PROVE  M[i] = level \/ \E k \in Levels \ {pos} : M[i] = L[k]
  <2>0. i \in Nat /\ at \in Nat BY <1>1, LevelsFacts
  <2>1. CASE i < at \/ i > pos
    <3>1. M[i] = L[i] /\ i # pos BY <1>1, <1>2, <2>0, <2>1
    <3> QED BY <3>1
  <2>2. CASE i = at BY <1>2, <2>2
  <2>3. CASE at < i /\ i <= pos
    <3>1. M[i] = L[i - 1] /\ i - 1 \in Levels \ {pos} BY <1>1, <1>2, <2>0, <2>3
    <3> QED BY <3>1
  <2> QED BY <1>1, <2>0, <2>1, <2>2, <2>3
<1>4. ASSUME NEW k \in Levels \ {pos}
      PROVE  \E i \in Levels : M[i] = L[k]
  <2>1. CASE k < at \/ k > pos BY <1>2, <2>1
  <2>2. CASE at <= k /\ k < pos
    <3>1. k + 1 \in Levels /\ at < k + 1 /\ k + 1 <= pos /\ (k + 1) - 1 = k
      BY <1>1, <2>2, LevelsFacts DEF Levels
    <3>2. M[k + 1] = L[k] BY <1>2, <3>1
    <3> QED BY <3>1, <3>2
  <2> QED BY <1>1, <2>1, <2>2, LevelsFacts
<1>5. \E i \in Levels : M[i] = level BY <1>1, <1>2
<1> QED BY <1>3, <1>4, <1>5 DEF M

\* So its price comes in, and at most the price that slot held goes.
LEMMA PlaceMoves ==
  ASSUME NEW L \in LevelArrays, NEW asc \in BOOLEAN, NEW pos \in Levels,
         NEW level \in LevelType
  PROVE  LET M == PlaceLevel(L, pos, level, asc) IN
         /\ ActivePrices(M) \ ActivePrices(L) \subseteq {level.price}
         /\ ActivePrices(L) \ ActivePrices(M) \subseteq {L[pos].price}
         /\ ~L[pos].active => ActivePrices(L) \subseteq ActivePrices(M)
<1> DEFINE M == PlaceLevel(L, pos, level, asc)
<1>1. /\ \A i \in Levels : M[i] = level \/ \E k \in Levels \ {pos} : M[i] = L[k]
      /\ \A k \in Levels \ {pos} : \E i \in Levels : M[i] = L[k]
  BY PlaceContents
<1> HIDE DEF M
<1>2. ActivePrices(M) \ ActivePrices(L) \subseteq {level.price}
  BY <1>1 DEF ActivePrices
<1>3. /\ ActivePrices(L) \ ActivePrices(M) \subseteq {L[pos].price}
      /\ ~L[pos].active => ActivePrices(L) \subseteq ActivePrices(M)
  BY <1>1 DEF ActivePrices
<1> QED BY <1>2, <1>3 DEF M

\* No price is shown twice.
LEMMA PricesDiffer ==
  ASSUME NEW L \in LevelArrays, NEW asc \in BOOLEAN, WellOrdered(L, asc),
         NEW i \in Levels, NEW j \in Levels, L[i].active, L[j].active,
         L[i].price = L[j].price
  PROVE  i = j
<1>1. L[i].price \in Int BY DEF LevelArrays, LevelType
<1>2. ~(i < j) BY <1>1, LevelsFacts DEF WellOrdered, Ahead
<1>3. ~(j < i) BY <1>1, LevelsFacts DEF WellOrdered, Ahead
<1> QED BY <1>2, <1>3, LevelsFacts

\* A full side shows as many prices as it has slots, the worst of them last.
LEMMA FullSide ==
  ASSUME NEW L \in LevelArrays, NEW asc \in BOOLEAN, WellOrdered(L, asc),
         \A i \in Levels : L[i].active
  PROVE  /\ Cardinality(ActivePrices(L)) = Depth
         /\ \A p \in ActivePrices(L) : ~Ahead(L[Depth - 1].price, p, asc)
<1>1. \A i \in Levels : L[i].price \in Int BY DEF LevelArrays, LevelType
<1>2. ASSUME NEW i \in Levels, NEW j \in Levels, L[i].price = L[j].price
      PROVE  i = j
  BY <1>2, PricesDiffer
<1>3. Cardinality(ActivePrices(L)) = Depth
  <2> DEFINE f == [i \in Levels |-> L[i].price]
  <2>1. f \in [Levels -> ActivePrices(L)] BY DEF ActivePrices
  <2>2. \A i, j \in Levels : f[i] = f[j] => i = j BY <1>2
  <2>3. \A p \in ActivePrices(L) : \E i \in Levels : f[i] = p BY DEF ActivePrices
  <2> HIDE DEF f
  <2>4. f \in Bijection(Levels, ActivePrices(L))
    BY <2>1, <2>2, <2>3 DEF Bijection, Injection, Surjection, IsInjective
  <2>5. IsFiniteSet(Levels) /\ Cardinality(Levels) = Depth
    <3>1. 0 \in Int /\ Depth - 1 \in Int BY LevelsFacts
    <3>2. /\ IsFiniteSet(0 .. Depth - 1)
          /\ Cardinality(0 .. Depth - 1) =
               IF 0 > Depth - 1 THEN 0 ELSE (Depth - 1) - 0 + 1
      BY <3>1, FS_Interval
    <3> QED BY <3>2, LevelsFacts DEF Levels
  <2>6. ExistsBijection(Levels, ActivePrices(L)) BY <2>4 DEF ExistsBijection
  <2> QED BY <2>5, <2>6, FS_Bijection
<1>4. ASSUME NEW i \in Levels
      PROVE  ~Ahead(L[Depth - 1].price, L[i].price, asc)
  <2>1. i = Depth - 1 \/ i < Depth - 1 BY LevelsFacts
  <2>2. i < Depth - 1 => Ahead(L[i].price, L[Depth - 1].price, asc)
    BY LevelsFacts DEF WellOrdered
  <2> QED BY <1>1, <2>1, <2>2, LevelsFacts DEF Ahead
<1> QED BY <1>3, <1>4 DEF ActivePrices

LEMMA ApplyDeltaMoves ==
  ASSUME NEW L \in LevelArrays, NEW asc \in BOOLEAN, WellOrdered(L, asc),
         NEW price \in Int, NEW q \in Int, NEW n \in Int
  PROVE  OneLevelMoves(L, ApplyDelta(L, price, q, n, asc), asc)
<1> DEFINE Here == {i \in Levels : L[i].active /\ L[i].price = price}
           Free == {i \in Levels : ~L[i].active}
           level == NewLevel(price, q, n)
           M == ApplyDelta(L, price, q, n, asc)
<1>1. Levels \subseteq Nat BY LevelsFacts
<1>2. CASE Here # {}
  <2>1. Min(Here) \in Levels BY <1>1, <1>2, MinIn
  <2>2. M = UpdateLevel(L, Min(Here), q, n) BY <1>2 DEF ApplyDelta
  <2> HIDE DEF M
  <2> QED BY <2>1, <2>2, UpdateMoves DEF M
<1>3. CASE Here = {} /\ q <= 0
  BY <1>3, NothingMoves DEF ApplyDelta
<1>4. CASE Here = {} /\ q > 0
  <2>1. level \in LevelType /\ level.price = price
    BY <1>4 DEF NewLevel, LevelType
  <2>2. CASE Free # {}
    <3>1. Min(Free) \in Free BY <1>1, <2>2, MinIn
    <3>2. PICK pos \in Levels : pos = Min(Free) /\ ~L[pos].active BY <3>1
    <3>3. M = PlaceLevel(L, pos, level, asc) BY <1>4, <2>2, <3>2 DEF ApplyDelta
    <3> HIDE DEF M, level, Free, Here
    <3>4. /\ ActivePrices(M) \ ActivePrices(L) \subseteq {price}
          /\ ActivePrices(L) \ ActivePrices(M) = {}
      BY <2>1, <3>2, <3>3, PlaceMoves
    <3>5. Cardinality(ActivePrices(M) \ ActivePrices(L)) <= 1 BY <3>4, AtMostOne
    <3>6. Cardinality({}) = 0 BY FS_EmptySet
    <3>7. OneLevelMoves(L, M, asc) BY <3>4, <3>5, <3>6 DEF OneLevelMoves
    <3> QED BY <3>7 DEF M
  <2>3. CASE Free = {} /\ Ahead(price, L[Depth - 1].price, asc)
    <3>1. \A i \in Levels : L[i].active BY <2>3
    <3>2. M = PlaceLevel(L, Depth - 1, level, asc) BY <1>4, <2>3 DEF ApplyDelta
    <3>3. Ahead(price, L[Depth - 1].price, asc) BY <2>3
    <3> HIDE DEF M, level, Free, Here
    <3>4. /\ ActivePrices(M) \ ActivePrices(L) \subseteq {price}
          /\ ActivePrices(L) \ ActivePrices(M) \subseteq {L[Depth - 1].price}
      BY <2>1, <3>2, LevelsFacts, PlaceMoves
    <3>5. /\ Cardinality(ActivePrices(M) \ ActivePrices(L)) <= 1
          /\ Cardinality(ActivePrices(L) \ ActivePrices(M)) <= 1
      BY <3>4, AtMostOne
    <3>6. /\ Cardinality(ActivePrices(L)) = Depth
          /\ \A p \in ActivePrices(L) : ~Ahead(L[Depth - 1].price, p, asc)
      BY <3>1, FullSide
    <3>7. OneLevelMoves(L, M, asc) BY <3>3, <3>4, <3>5, <3>6 DEF OneLevelMoves
    <3> QED BY <3>7 DEF M
  <2>4. CASE Free = {} /\ ~Ahead(price, L[Depth - 1].price, asc)
    BY <1>4, <2>4, NothingMoves DEF ApplyDelta
  <2> QED BY <2>2, <2>3, <2>4
<1> QED BY <1>2, <1>3, <1>4

BothMoveOne == OneLevelMoves(bids, bids', FALSE) /\ OneLevelMoves(asks, asks', TRUE)

LEMMA ApplyToSideMoves ==
  ASSUME BookInv, NEW side \in Sides, NEW price \in Int, NEW q \in Int, NEW n \in Int,
         ApplyToSide(side, price, q, n)
  PROVE  BothMoveOne
<1>1. bids \in LevelArrays /\ asks \in LevelArrays BY DEF BookInv, TypeOK, LevelArrays
<1>2. WellOrdered(bids, FALSE) /\ WellOrdered(asks, TRUE) BY DEF BookInv, LevelsOrdered
<1>3. CASE side = "B"
  <2>1. bids' = ApplyDelta(bids, price, q, n, FALSE) /\ asks' = asks
    BY <1>3 DEF ApplyToSide
  <2> QED BY <1>1, <1>2, <2>1, ApplyDeltaMoves, NothingMoves DEF BothMoveOne
<1>4. CASE side = "S"
  <2>1. asks' = ApplyDelta(asks, price, q, n, TRUE) /\ bids' = bids
    BY <1>4 DEF ApplyToSide
  <2> QED BY <1>1, <1>2, <2>1, ApplyDeltaMoves, NothingMoves DEF BothMoveOne
<1> QED BY <1>3, <1>4 DEF Sides

LEMMA MessageMoves ==
  ASSUME BookInv, NEW seqNo \in SeqNos, NEW id \in OrderIds, ProcessMessage(seqNo, id)
  PROVE  BothMoveOne
<1>1. TypeOK BY DEF BookInv
<1>2. ASSUME NEW side \in Sides, NEW price \in Prices, NEW q \in AddQuantities,
             Add(seqNo, id, side, price, q)
      PROVE  BothMoveOne
  <2>1. price \in Int /\ q \in Int OBVIOUS
  <2> QED BY <1>2, <2>1, ApplyToSideMoves DEF Add
<1>3. ASSUME NEW q \in CancelQuantities, Cancel(seqNo, id, q)
      PROVE  BothMoveOne
  <2>1. Live(id) BY <1>3 DEF Cancel
  <2>2. q \in Int /\ orders[id].val.quantity \in Int BY <1>1, <2>1, LiveRecord
  <2>3. q - orders[id].val.quantity \in Int /\ (IF q <= 0 THEN -1 ELSE 0) \in Int
    BY <2>2
  <2> QED BY <1>1, <1>3, <2>1, <2>3, LiveRecord, ApplyToSideMoves DEF Cancel
<1>4. ASSUME NEW q \in ExecQuantities, Execute(seqNo, id, q)
      PROVE  BothMoveOne
  <2>1. Live(id) BY <1>4 DEF Execute
  <2>2. PICK n \in {-1, 0} :
          ApplyToSide(orders[id].val.side, orders[id].val.price, -q, n)
    BY <1>4 DEF Execute
  <2>3. -q \in Int /\ n \in Int BY <2>2
  <2> QED BY <1>1, <2>1, <2>2, <2>3, LiveRecord, ApplyToSideMoves
<1>5. ASSUME UNCHANGED <<bids, asks>> PROVE BothMoveOne
  BY <1>5, NothingMoves DEF BothMoveOne
<1> QED BY <1>2, <1>3, <1>4, <1>5 DEF ProcessMessage, AddRefused, Ignored

\* Whatever a message asks for, at most one price leaves a side and at most one
\* enters; a price makes room for another only on a full side, and then it is the
\* worst one that applyDelta overwrites.
THEOREM EvictionTakesWorst == Spec => EvictsOnlyWorst
<1>1. BookInv /\ [Next]_bookVars =>
        [totalMessagesProcessed' > totalMessagesProcessed => BothMoveOne]_<<bids, asks>>
  <2> SUFFICES ASSUME BookInv, [Next]_bookVars,
                      totalMessagesProcessed' > totalMessagesProcessed,
                      ~UNCHANGED <<bids, asks>>
               PROVE  BothMoveOne
    OBVIOUS
  <2>1. ~UNCHANGED bookVars BY DEF bookVars
  <2>2. ~Reset
    <3>1. totalMessagesProcessed \in Nat BY DEF BookInv, TypeOK
    <3> QED BY <3>1 DEF Reset
  <2>3. PICK seqNo \in SeqNos, id \in OrderIds : ProcessMessage(seqNo, id)
    BY <2>1, <2>2 DEF Next
  <2> QED BY <2>3, MessageMoves
<1>2. (Spec => [][totalMessagesProcessed' > totalMessagesProcessed
                    => BothMoveOne]_<<bids, asks>>)
  BY <1>1, BookInvariant, PTL DEF Spec
<1> QED BY <1>2 DEF EvictsOnlyWorst, BothMoveOne

--------------------------------------------------------------------------------
(* What the levels of a side hold after a message                          *)

\* After applyDelta a level is an old one at another price, or the one at price with
\* the deltas added, or new.
DeltaLevel(L, level, price, q, n) ==
  \/ /\ level.price # price
     /\ \E k \in Levels : L[k].active /\ level = L[k]
  \/ /\ level.price = price
     /\ \E k \in Levels : /\ L[k].active /\ L[k].price = price
                          /\ level.quantity = L[k].quantity + q
                          /\ level.orderCount = L[k].orderCount + n
  \/ price \notin ActivePrices(L) /\ q > 0 /\ level = NewLevel(price, q, n)

\* A side has room for the deltas unless they bring in a price and every slot is taken.
HasRoom(L, price, q) ==
  price \in ActivePrices(L) \/ q <= 0 \/ \E i \in Levels : ~L[i].active

LEMMA UpdateContents ==
  ASSUME NEW L \in LevelArrays, NEW asc \in BOOLEAN, WellOrdered(L, asc),
         NEW idx \in Levels, L[idx].active, NEW q \in Int, NEW n \in Int
  PROVE  LET M == UpdateLevel(L, idx, q, n) IN
         /\ \A i \in Levels : M[i].active => DeltaLevel(L, M[i], L[idx].price, q, n)
         /\ \A k \in Levels : L[k].active /\ k # idx =>
              L[k].price \in ActivePrices(M)
         /\ L[idx].quantity + q > 0 /\ L[idx].orderCount + n > 0 =>
              L[idx].price \in ActivePrices(M)
<1> DEFINE price == L[idx].price
           quantity == L[idx].quantity + q
           orderCount == L[idx].orderCount + n
           M == UpdateLevel(L, idx, q, n)
<1>1. L[idx].quantity \in Int /\ L[idx].orderCount \in Int
  BY DEF LevelArrays, LevelType
<1>2. ASSUME NEW k \in Levels, k # idx, L[k].active PROVE L[k].price # price
  BY <1>2, PricesDiffer
<1>3. CASE quantity <= 0 \/ orderCount <= 0
  <2>1. M = RemoveLevel(L, idx) BY <1>3 DEF UpdateLevel
  <2>2. /\ \A i \in Levels : M[i].active => \E k \in Levels \ {idx} : M[i] = L[k]
        /\ \A k \in Levels \ {idx} : L[k].active => \E i \in Levels : M[i] = L[k]
    BY <2>1, RemoveContents
  <2> HIDE DEF M
  <2>3. ASSUME NEW i \in Levels, M[i].active PROVE DeltaLevel(L, M[i], price, q, n)
    BY <1>2, <2>2, <2>3 DEF DeltaLevel
  <2>4. ASSUME NEW k \in Levels, L[k].active, k # idx
        PROVE  L[k].price \in ActivePrices(M)
    BY <2>2, <2>4 DEF ActivePrices
  <2> QED BY <1>1, <1>3, <2>3, <2>4 DEF M
<1>4. CASE ~(quantity <= 0 \/ orderCount <= 0)
  <2>1. M = [L EXCEPT ![idx].quantity = quantity, ![idx].orderCount = orderCount]
    BY <1>4 DEF UpdateLevel
  <2>2. \A i \in Levels : /\ M[i].price = L[i].price /\ M[i].active = L[i].active
                          /\ i # idx => M[i] = L[i]
    BY <2>1 DEF LevelArrays, LevelType
  <2>3. M[idx].quantity = quantity /\ M[idx].orderCount = orderCount
    BY <2>1 DEF LevelArrays, LevelType
  <2> HIDE DEF M
  <2>4. ASSUME NEW i \in Levels, M[i].active PROVE DeltaLevel(L, M[i], price, q, n)
    BY <1>2, <2>2, <2>3, <2>4 DEF DeltaLevel
  <2>5. \A k \in Levels : L[k].active => L[k].price \in ActivePrices(M)
    BY <2>2 DEF ActivePrices
  <2> QED BY <2>4, <2>5 DEF M
<1> QED BY <1>3, <1>4

LEMMA DeltaContents ==
  ASSUME NEW L \in LevelArrays, NEW asc \in BOOLEAN, WellOrdered(L, asc),
         NEW price \in Int, NEW q \in Int, NEW n \in Int
  PROVE  LET M == ApplyDelta(L, price, q, n, asc) IN
         /\ \A i \in Levels : M[i].active => DeltaLevel(L, M[i], price, q, n)
         /\ HasRoom(L, price, q) =>
              \A p \in ActivePrices(L) : p # price => p \in ActivePrices(M)
         /\ \A k \in Levels :
              /\ L[k].active /\ L[k].price = price
              /\ L[k].quantity + q > 0 /\ L[k].orderCount + n > 0
              => price \in ActivePrices(M)
         /\ price \notin ActivePrices(L) /\ q > 0 /\ HasRoom(L, price, q) =>
              price \in ActivePrices(M)
<1> DEFINE Here == {i \in Levels : L[i].active /\ L[i].price = price}
           Free == {i \in Levels : ~L[i].active}
           level == NewLevel(price, q, n)
           M == ApplyDelta(L, price, q, n, asc)
<1>1. Levels \subseteq Nat BY LevelsFacts
<1>2. Here # {} <=> price \in ActivePrices(L) BY DEF ActivePrices
<1>3. CASE Here # {}
  <2>1. Min(Here) \in Here BY <1>1, <1>3, MinIn
  <2>2. PICK idx \in Levels : idx = Min(Here) /\ L[idx].active /\ L[idx].price = price
    BY <2>1
  <2>3. M = UpdateLevel(L, idx, q, n) BY <1>3, <2>2 DEF ApplyDelta
  <2> HIDE DEF M, Here
  <2>4. /\ \A i \in Levels : M[i].active => DeltaLevel(L, M[i], price, q, n)
        /\ \A k \in Levels : L[k].active /\ k # idx => L[k].price \in ActivePrices(M)
        /\ L[idx].quantity + q > 0 /\ L[idx].orderCount + n > 0 =>
             price \in ActivePrices(M)
    BY <2>2, <2>3, UpdateContents
  <2>5. \A p \in ActivePrices(L) : p # price => p \in ActivePrices(M)
    BY <2>2, <2>4 DEF ActivePrices
  <2>6. \A k \in Levels : L[k].active /\ L[k].price = price => k = idx
    BY <2>2, PricesDiffer
  <2> QED BY <1>2, <1>3, <2>4, <2>5, <2>6 DEF M
<1>4. CASE Here = {} /\ q <= 0
  <2>1. M = L BY <1>4 DEF ApplyDelta
  <2> HIDE DEF M
  <2>2. ASSUME NEW i \in Levels, M[i].active PROVE DeltaLevel(L, M[i], price, q, n)
    BY <1>4, <2>1, <2>2 DEF DeltaLevel
  <2>3. \A k \in Levels : ~(L[k].active /\ L[k].price = price) BY <1>4
  <2> QED BY <1>4, <2>1, <2>2, <2>3 DEF M
<1>5. CASE Here = {} /\ q > 0
  <2>1. level \in LevelType /\ level.active /\ level.price = price
    BY <1>5 DEF NewLevel, LevelType
  <2>2. \A k \in Levels : ~(L[k].active /\ L[k].price = price) BY <1>5
  <2>3. ASSUME NEW pos \in Levels, M = PlaceLevel(L, pos, level, asc)
        PROVE  /\ \A i \in Levels : M[i].active => DeltaLevel(L, M[i], price, q, n)
               /\ ~L[pos].active => ActivePrices(L) \subseteq ActivePrices(M)
               /\ price \in ActivePrices(M)
    <3> HIDE DEF M, level, Here, Free
    <3>1. /\ \A i \in Levels : M[i] = level \/ \E k \in Levels \ {pos} : M[i] = L[k]
          /\ \E i \in Levels : M[i] = level
      BY <2>1, <2>3, PlaceContents
    <3>2. ASSUME NEW i \in Levels, M[i].active
          PROVE  DeltaLevel(L, M[i], price, q, n)
      <4>1. CASE M[i] = level BY <1>2, <1>5, <4>1 DEF DeltaLevel, level
      <4>2. CASE \E k \in Levels : M[i] = L[k] BY <2>2, <3>2, <4>2 DEF DeltaLevel
      <4> QED BY <3>1, <4>1, <4>2
    <3>3. price \in ActivePrices(M) BY <2>1, <3>1 DEF ActivePrices
    <3> QED BY <2>1, <2>3, <3>2, <3>3, PlaceMoves
  <2>4. CASE Free # {}
    <3>1. Min(Free) \in Free BY <1>1, <2>4, MinIn
    <3>2. M = PlaceLevel(L, Min(Free), level, asc) BY <1>5, <2>4 DEF ApplyDelta
    <3>3. Min(Free) \in Levels /\ ~L[Min(Free)].active BY <3>1
    <3> HIDE DEF M, level, Here, Free
    <3> QED BY <2>2, <2>3, <3>2, <3>3 DEF M
  <2>5. CASE Free = {}
    <3>1. ~HasRoom(L, price, q) BY <1>2, <1>5, <2>5 DEF HasRoom
    <3>2. M = PlaceLevel(L, Depth - 1, level, asc) \/ M = L
      BY <1>5, <2>5 DEF ApplyDelta
    <3> HIDE DEF M, level, Here, Free
    <3>3. CASE M = PlaceLevel(L, Depth - 1, level, asc)
      BY <2>2, <2>3, <3>1, <3>3, LevelsFacts DEF M
    <3>4. CASE M = L
      <4>1. ASSUME NEW i \in Levels, M[i].active
            PROVE  DeltaLevel(L, M[i], price, q, n)
        BY <2>2, <3>4, <4>1 DEF DeltaLevel
      <4> QED BY <2>2, <3>1, <4>1 DEF M
    <3> QED BY <3>2, <3>3, <3>4
  <2> QED BY <2>4, <2>5
<1> QED BY <1>3, <1>4, <1>5

--------------------------------------------------------------------------------
(* A side against the quantities R and the numbers C of the orders that    *)
(* rest at each price.                                                     *)

Backed(L, R) == \A i \in Levels : L[i].active => L[i].quantity <= R[L[i].price]

Exact(L, R, C) == \A i \in Levels : L[i].active =>
                    L[i].quantity = R[L[i].price] /\ L[i].orderCount = C[L[i].price]

Shown(L, C) == \A p \in Int : C[p] > 0 => p \in ActivePrices(L)

\* Deltas that take no less from the level than from the orders keep a side backed.
LEMMA DeltaKeepsBacked ==
  ASSUME NEW L \in LevelArrays, NEW asc \in BOOLEAN, WellOrdered(L, asc),
         NEW price \in Int, NEW q \in Int, NEW n \in Int,
         NEW R1 \in [Int -> Nat], NEW R2 \in [Int -> Nat],
         \A p \in Int : p # price => R2[p] = R1[p],
         q <= R2[price] - R1[price],
         Backed(L, R1)
  PROVE  Backed(ApplyDelta(L, price, q, n, asc), R2)
<1> DEFINE M == ApplyDelta(L, price, q, n, asc)
<1>1. /\ \A i \in Levels : M[i].active => DeltaLevel(L, M[i], price, q, n)
      /\ M \in LevelArrays
  BY DeltaContents, ApplyDeltaKeepsOrder
<1> HIDE DEF M
<1>2. \A k \in Levels : L[k].price \in Int /\ L[k].quantity \in Int
  BY DEF LevelArrays, LevelType
<1>3. R1[price] \in Nat /\ R2[price] \in Nat OBVIOUS
<1>4. ASSUME NEW i \in Levels, M[i].active PROVE M[i].quantity <= R2[M[i].price]
  <2>1. CASE /\ M[i].price # price
             /\ \E k \in Levels : L[k].active /\ M[i] = L[k]
    BY <1>2, <2>1 DEF Backed
  <2>2. CASE /\ M[i].price = price
             /\ \E k \in Levels : /\ L[k].active /\ L[k].price = price
                                  /\ M[i].quantity = L[k].quantity + q
    <3>1. PICK k \in Levels : /\ L[k].active /\ L[k].price = price
                              /\ M[i].quantity = L[k].quantity + q
      BY <2>2
    <3>2. L[k].quantity <= R1[price] BY <3>1 DEF Backed
    <3> QED BY <1>2, <1>3, <2>2, <3>1, <3>2
  <2>3. CASE M[i] = NewLevel(price, q, n) BY <1>3, <2>3 DEF NewLevel
  <2> QED BY <1>1, <1>4, <2>1, <2>2, <2>3 DEF DeltaLevel
<1> QED BY <1>4 DEF Backed, M

\* From R1 and C1 to R2 and C2 the price gains q and n orders, other prices nothing.
TotalsMove(R1, C1, R2, C2, price, q, n) ==
  /\ \A p \in Int : p # price => R2[p] = R1[p] /\ C2[p] = C1[p]
  /\ R2[price] = R1[price] + q /\ C2[price] = C1[price] + n
  /\ C1[price] = 0 => R1[price] = 0
  /\ C2[price] > 0 <=> R2[price] > 0

\* Deltas that change the level as the orders changed keep a side exact.
LEMMA DeltaKeepsExact ==
  ASSUME NEW L \in LevelArrays, NEW asc \in BOOLEAN, WellOrdered(L, asc),
         NEW price \in Int, NEW q \in Int, NEW n \in Int,
         NEW R1 \in [Int -> Nat], NEW R2 \in [Int -> Nat],
         NEW C1 \in [Int -> Nat], NEW C2 \in [Int -> Nat],
         TotalsMove(R1, C1, R2, C2, price, q, n), HasRoom(L, price, q),
         Exact(L, R1, C1), Shown(L, C1)
  PROVE  LET M == ApplyDelta(L, price, q, n, asc) IN Exact(M, R2, C2) /\ Shown(M, C2)
<1> DEFINE M == ApplyDelta(L, price, q, n, asc)
<1>0. /\ \A p \in Int : p # price => R2[p] = R1[p] /\ C2[p] = C1[p]
      /\ R2[price] = R1[price] + q /\ C2[price] = C1[price] + n
      /\ C1[price] = 0 => R1[price] = 0
      /\ C2[price] > 0 <=> R2[price] > 0
  BY DEF TotalsMove
<1>1. /\ \A i \in Levels : M[i].active => DeltaLevel(L, M[i], price, q, n)
      /\ \A p \in ActivePrices(L) : p # price => p \in ActivePrices(M)
      /\ \A k \in Levels :
           /\ L[k].active /\ L[k].price = price
           /\ L[k].quantity + q > 0 /\ L[k].orderCount + n > 0
           => price \in ActivePrices(M)
      /\ price \notin ActivePrices(L) /\ q > 0 => price \in ActivePrices(M)
      /\ M \in LevelArrays
  BY DeltaContents, ApplyDeltaKeepsOrder
<1> HIDE DEF M
<1>2. \A k \in Levels :
        L[k].price \in Int /\ L[k].quantity \in Int /\ L[k].orderCount \in Int
  BY DEF LevelArrays, LevelType
<1>3. /\ R1[price] \in Nat /\ R2[price] \in Nat
      /\ C1[price] \in Nat /\ C2[price] \in Nat
  OBVIOUS
<1>4. price \notin ActivePrices(L) =>
        R1[price] = 0 /\ C1[price] = 0 /\ R2[price] = q /\ C2[price] = n
  BY <1>0, <1>3 DEF Shown
<1>5. ASSUME NEW i \in Levels, M[i].active
      PROVE  M[i].quantity = R2[M[i].price] /\ M[i].orderCount = C2[M[i].price]
  <2>1. CASE /\ M[i].price # price
             /\ \E k \in Levels : L[k].active /\ M[i] = L[k]
    BY <1>0, <1>2, <2>1 DEF Exact
  <2>2. CASE /\ M[i].price = price
             /\ \E k \in Levels : /\ L[k].active /\ L[k].price = price
                                  /\ M[i].quantity = L[k].quantity + q
                                  /\ M[i].orderCount = L[k].orderCount + n
    BY <1>0, <2>2 DEF Exact
  <2>3. CASE price \notin ActivePrices(L) /\ q > 0 /\ M[i] = NewLevel(price, q, n)
    <3>1. n > 0 BY <1>0, <1>3, <1>4, <2>3
    <3> QED BY <1>4, <2>3, <3>1 DEF NewLevel
  <2> QED BY <1>1, <1>5, <2>1, <2>2, <2>3 DEF DeltaLevel
<1>6. ASSUME NEW p \in Int, C2[p] > 0 PROVE p \in ActivePrices(M)
  <2>1. CASE p # price BY <1>0, <1>1, <1>6, <2>1 DEF Shown
  <2>2. CASE p = price /\ price \in ActivePrices(L)
    <3>1. PICK k \in Levels : L[k].active /\ L[k].price = price
      BY <2>2 DEF ActivePrices
    <3>2. L[k].quantity + q = R2[price] /\ L[k].orderCount + n = C2[price]
      BY <1>0, <3>1 DEF Exact
    <3> QED BY <1>0, <1>1, <1>6, <2>2, <3>1, <3>2
  <2>3. CASE p = price /\ price \notin ActivePrices(L)
    BY <1>0, <1>1, <1>4, <1>6, <2>3
  <2> QED BY <2>1, <2>2, <2>3
<1> QED BY <1>5, <1>6 DEF Exact, Shown, M

--------------------------------------------------------------------------------
(* What rests, order by order                                              *)

LivePositive == \A id \in OrderIds : Live(id) => orders[id].val.quantity > 0

\* What one order adds to the quantity, and to the number of orders, at a price.
Share(id, side, price) ==
  IF id \in RestingAt(side, price) THEN orders[id].val.quantity ELSE 0
Shares(side, price) == [id \in OrderIds |-> Share(id, side, price)]
Counted(id, side, price) == IF id \in RestingAt(side, price) THEN 1 ELSE 0

SharesFit ==
  \A side \in Sides, price \in Int :
    /\ Shares(side, price) \in [OrderIds -> Nat]
    /\ IsFiniteSet(RestingAt(side, price))
    /\ Cardinality(RestingAt(side, price)) \in Nat
    /\ Resting(side, price) \in Nat
    /\ Cardinality(RestingAt(side, price)) > 0 <=> Resting(side, price) > 0

LEMMA SharesTypes == TypeOK /\ LivePositive => SharesFit
<1> SUFFICES ASSUME TypeOK, LivePositive, NEW side \in Sides, NEW price \in Int
             PROVE  /\ Shares(side, price) \in [OrderIds -> Nat]
                    /\ IsFiniteSet(RestingAt(side, price))
                    /\ Cardinality(RestingAt(side, price)) \in Nat
                    /\ Resting(side, price) \in Nat
                    /\ Cardinality(RestingAt(side, price)) > 0 <=> Resting(side, price) > 0
  BY DEF SharesFit
<1> DEFINE f == Shares(side, price)
           S == RestingAt(side, price)
<1>1. S \subseteq OrderIds BY DEF RestingAt
<1>2. IsFiniteSet(S) /\ Cardinality(S) \in Nat
  BY <1>1, FiniteIds, FS_Subset, FS_CardinalityType
<1>3. ASSUME NEW id \in OrderIds
      PROVE  /\ f[id] \in Nat
             /\ id \in S <=> f[id] > 0
             /\ id \notin S <=> f[id] = 0
  <2>1. CASE id \in S
    <3>1. Live(id) BY <2>1 DEF RestingAt
    <3>2. orders[id].val.quantity \in Int /\ orders[id].val.quantity > 0
      BY <3>1, LiveRecord DEF LivePositive
    <3> QED BY <2>1, <3>2 DEF Shares, Share
  <2>2. CASE id \notin S BY <2>2 DEF Shares, Share
  <2> QED BY <2>1, <2>2
<1>4. f \in [OrderIds -> Nat]
  <2>1. f = [id \in OrderIds |-> f[id]] BY DEF Shares
  <2> HIDE DEF f
  <2> QED BY <1>3, <2>1
<1>5. Resting(side, price) = SumFunction(f) BY DEF Resting, Shares, Share
<1> HIDE DEF f
<1>6. /\ SumFunction(f) \in Nat
      /\ \A id \in OrderIds : f[id] <= SumFunction(f)
      /\ (\A id \in OrderIds : f[id] = 0) => SumFunction(f) = 0
  BY <1>4, FiniteIds, SumOfNaturals
<1>7. Cardinality(S) = 0 <=> S = {} BY <1>2, FS_EmptySet
<1>8. Cardinality(S) > 0 <=> SumFunction(f) > 0
  <2> HIDE DEF S
  <2>1. CASE S = {} BY <1>1, <1>2, <1>3, <1>6, <1>7, <2>1
  <2>2. CASE S # {}
    <3>1. PICK id \in S : id \in OrderIds BY <1>1, <2>2
    <3>2. f[id] \in Nat /\ f[id] > 0 /\ f[id] <= SumFunction(f) BY <1>3, <1>6, <3>1
    <3> QED BY <1>2, <1>6, <1>7, <2>2, <3>2
  <2> QED BY <2>1, <2>2
<1> QED BY <1>2, <1>4, <1>5, <1>6, <1>8 DEF f

LEMMA SharesTypesNext == (TypeOK /\ LivePositive => SharesFit)'
BY SharesTypes, PTL

\* Where one order changes, what rests changes by its share.
LEMMA OneOrderChanges ==
  ASSUME TypeOK, LivePositive, TypeOK', LivePositive', NEW id \in OrderIds,
         \A other \in OrderIds : other # id => orders'[other] = orders[other],
         NEW side \in Sides, NEW price \in Int
  PROVE  /\ Resting(side, price)' =
              Resting(side, price) - Share(id, side, price) + Share(id, side, price)'
         /\ Cardinality(RestingAt(side, price)') =
              Cardinality(RestingAt(side, price))
                - Counted(id, side, price) + Counted(id, side, price)'
<1> DEFINE f == Shares(side, price)
           S == RestingAt(side, price)
           g == Shares(side, price)'
           T == RestingAt(side, price)'
<1>1. /\ f \in [OrderIds -> Nat] /\ IsFiniteSet(S) /\ Cardinality(S) \in Nat
      /\ g \in [OrderIds -> Nat] /\ IsFiniteSet(T) /\ Cardinality(T) \in Nat
  BY SharesTypes, SharesTypesNext DEF SharesFit
<1>2. f \in [OrderIds -> Int] /\ g \in [OrderIds -> Int] BY <1>1
<1>3. ASSUME NEW other \in OrderIds, other # id
      PROVE  (other \in T <=> other \in S) /\ g[other] = f[other]
  <2>1. orders'[other] = orders[other] BY <1>3
  <2>2. other \in T <=> other \in S BY <2>1 DEF RestingAt, Live, Store!Known
  <2> QED BY <2>1, <2>2 DEF Shares, Share
<1>4. Resting(side, price) = SumFunction(f) /\ Resting(side, price)' = SumFunction(g)
  BY DEF Resting, Shares, Share
<1>5. f[id] = Share(id, side, price) /\ g[id] = Share(id, side, price)'
  BY DEF Shares
<1>6. S \subseteq OrderIds /\ T \subseteq OrderIds BY DEF RestingAt
<1> HIDE DEF f, g
<1>7. SumFunction(g) = SumFunction(f) - f[id] + g[id]
  BY <1>2, <1>3, FiniteIds, SumOfOneChange
<1>8. Cardinality(T) = Cardinality(S)
        - Counted(id, side, price) + Counted(id, side, price)'
  <2>0. /\ Counted(id, side, price) = IF id \in S THEN 1 ELSE 0
        /\ Counted(id, side, price)' = IF id \in T THEN 1 ELSE 0
    BY DEF Counted
  <2> HIDE DEF S, T
  <2>1. CASE (id \in T) <=> (id \in S)
    <3>1. T = S BY <1>3, <1>6, <2>1
    <3> QED BY <1>1, <2>0, <2>1, <3>1
  <2>2. CASE id \in T /\ id \notin S
    <3>1. T = S \cup {id} BY <1>3, <1>6, <2>2
    <3> QED BY <1>1, <2>0, <2>2, <3>1, FS_AddElement
  <2>3. CASE id \notin T /\ id \in S
    <3>1. T = S \ {id} BY <1>3, <1>6, <2>3
    <3> QED BY <1>1, <2>0, <2>3, <3>1, FS_RemoveElement
  <2> QED BY <2>1, <2>2, <2>3
<1> QED BY <1>4, <1>5, <1>7, <1>8

\* What rests at price on side changes by dq and by dn orders, elsewhere nothing does.
RestingChanges(side, price, dq, dn) ==
  \A s \in Sides, p \in Int :
    LET here == s = side /\ p = price
    IN  /\ Resting(s, p)' = Resting(s, p) + (IF here THEN dq ELSE 0)
        /\ Cardinality(RestingAt(s, p)') =
             Cardinality(RestingAt(s, p)) + (IF here THEN dn ELSE 0)

\* A new order, or one that comes after its id was cancelled, adds all it has.
LEMMA PutRests ==
  ASSUME TypeOK, LivePositive, TypeOK', NEW id \in OrderIds, NEW side \in Sides,
         NEW price \in Prices, NEW q \in AddQuantities,
         Store!Put(id, [side |-> side, price |-> price, quantity |-> q])
  PROVE  LivePositive' /\ (~Live(id) => RestingChanges(side, price, q, 1))
<1> DEFINE v == [side |-> side, price |-> price, quantity |-> q]
<1>1. q \in Nat /\ q > 0 /\ price \in Int OBVIOUS
<1>2. v \in Orders BY <1>1 DEF Orders
<1>3. [val |-> v, cancelled |-> FALSE] \in Store!Records BY <1>2 DEF Store!Records
<1>4. /\ orders'[id] = [val |-> v, cancelled |-> FALSE]
      /\ \A other \in OrderIds : other # id => orders'[other] = orders[other]
  BY DEF TypeOK, Store!Put
<1>5. orders'[id] # NoOrder BY <1>3, <1>4, NoOrderAssumption
<1>6. Live(id)' /\ orders'[id].val = v BY <1>4, <1>5 DEF Live, Store!Known
<1>7. LivePositive'
  <2> SUFFICES ASSUME NEW other \in OrderIds, Live(other)'
               PROVE  orders'[other].val.quantity > 0
    BY DEF LivePositive
  <2>1. CASE other = id BY <1>1, <1>6, <2>1
  <2>2. CASE other # id
    <3>1. orders'[other] = orders[other] BY <1>4, <2>2
    <3>2. Live(other) BY <3>1 DEF Live, Store!Known
    <3> QED BY <3>1, <3>2 DEF LivePositive
  <2> QED BY <2>1, <2>2
<1>8. ASSUME ~Live(id), NEW s \in Sides, NEW p \in Int
      PROVE  LET here == s = side /\ p = price
             IN  /\ Resting(s, p)' = Resting(s, p) + (IF here THEN q ELSE 0)
                 /\ Cardinality(RestingAt(s, p)') =
                      Cardinality(RestingAt(s, p)) + (IF here THEN 1 ELSE 0)
  <2>1. Share(id, s, p) = 0 /\ Counted(id, s, p) = 0
    BY <1>8 DEF Share, Counted, RestingAt
  <2>2. id \in RestingAt(s, p)' <=> s = side /\ p = price
    BY <1>6 DEF RestingAt
  <2>3. /\ Share(id, s, p)' = IF s = side /\ p = price THEN q ELSE 0
        /\ Counted(id, s, p)' = IF s = side /\ p = price THEN 1 ELSE 0
    BY <1>6, <2>2 DEF Share, Counted
  <2>4. Resting(s, p) \in Nat /\ Cardinality(RestingAt(s, p)) \in Nat
    BY SharesTypes DEF SharesFit
  <2>5. /\ Resting(s, p)' = Resting(s, p) - Share(id, s, p) + Share(id, s, p)'
        /\ Cardinality(RestingAt(s, p)') =
             Cardinality(RestingAt(s, p)) - Counted(id, s, p) + Counted(id, s, p)'
    BY <1>4, <1>7, OneOrderChanges
  <2> QED BY <1>1, <2>1, <2>3, <2>4, <2>5
<1> QED BY <1>7, <1>8 DEF RestingChanges

\* A live order left with q keeps as much, and is gone when that is nothing.
LEMMA RemainingRests ==
  ASSUME TypeOK, LivePositive, TypeOK', NEW id \in OrderIds, Live(id), NEW q \in Int,
         Remaining(id, q)
  PROVE  /\ LivePositive'
         /\ RestingChanges(orders[id].val.side, orders[id].val.price,
                           (IF q > 0 THEN q ELSE 0) - orders[id].val.quantity,
                           IF q <= 0 THEN -1 ELSE 0)
<1> DEFINE side == orders[id].val.side
           price == orders[id].val.price
           old == orders[id].val.quantity
           v == [orders[id].val EXCEPT !.quantity = q]
<1>1. orders[id].val \in Orders /\ side \in Sides /\ price \in Int /\ old \in Int
  BY LiveRecord
<1>2. v \in Orders /\ v.side = side /\ v.price = price /\ v.quantity = q
  BY <1>1 DEF Orders
<1>3. [val |-> v, cancelled |-> q <= 0] \in Store!Records BY <1>2 DEF Store!Records
<1>4. /\ orders'[id] = [val |-> v, cancelled |-> q <= 0]
      /\ \A other \in OrderIds : other # id => orders'[other] = orders[other]
  BY DEF TypeOK, Remaining, Store!Amend
<1>5. orders'[id] # NoOrder BY <1>3, <1>4, NoOrderAssumption
<1>6. (Live(id)' <=> q > 0) /\ orders'[id].val = v
  <2> HIDE DEF v
  <2>1. Live(id)' <=> ~orders'[id].cancelled BY <1>5 DEF Live, Store!Known
  <2>2. CASE q <= 0
    <3>1. (q <= 0) = TRUE BY <2>2
    <3>2. orders'[id] = [val |-> v, cancelled |-> TRUE] BY <1>4, <3>1, Zenon
    <3> QED BY <2>1, <2>2, <3>2
  <2>3. CASE ~(q <= 0)
    <3>1. (q <= 0) = FALSE BY <2>3
    <3>2. orders'[id] = [val |-> v, cancelled |-> FALSE] BY <1>4, <3>1, Zenon
    <3> QED BY <2>1, <2>3, <3>2
  <2> QED BY <2>2, <2>3
<1> HIDE DEF v
<1>7. LivePositive'
  <2> SUFFICES ASSUME NEW other \in OrderIds, Live(other)'
               PROVE  orders'[other].val.quantity > 0
    BY DEF LivePositive
  <2>1. CASE other = id BY <1>2, <1>6, <2>1
  <2>2. CASE other # id
    <3>1. orders'[other] = orders[other] BY <1>4, <2>2
    <3>2. Live(other) BY <3>1 DEF Live, Store!Known
    <3> QED BY <3>1, <3>2 DEF LivePositive
  <2> QED BY <2>1, <2>2
<1>8. ASSUME NEW s \in Sides, NEW p \in Int
      PROVE  LET here == s = side /\ p = price
             IN  /\ Resting(s, p)' = Resting(s, p)
                      + (IF here THEN (IF q > 0 THEN q ELSE 0) - old ELSE 0)
                 /\ Cardinality(RestingAt(s, p)') = Cardinality(RestingAt(s, p))
                      + (IF here THEN IF q <= 0 THEN -1 ELSE 0 ELSE 0)
  <2>1. id \in RestingAt(s, p) <=> s = side /\ p = price BY DEF RestingAt
  <2>2. id \in RestingAt(s, p)' <=> s = side /\ p = price /\ q > 0
    BY <1>2, <1>6 DEF RestingAt
  <2>3. /\ Share(id, s, p) = IF s = side /\ p = price THEN old ELSE 0
        /\ Counted(id, s, p) = IF s = side /\ p = price THEN 1 ELSE 0
    BY <2>1 DEF Share, Counted
  <2>4. /\ Share(id, s, p)' = IF s = side /\ p = price /\ q > 0 THEN q ELSE 0
        /\ Counted(id, s, p)' = IF s = side /\ p = price /\ q > 0 THEN 1 ELSE 0
    BY <1>2, <1>6, <2>2 DEF Share, Counted
  <2>5. Resting(s, p) \in Nat /\ Cardinality(RestingAt(s, p)) \in Nat
    BY SharesTypes DEF SharesFit
  <2>6. /\ Resting(s, p)' = Resting(s, p) - Share(id, s, p) + Share(id, s, p)'
        /\ Cardinality(RestingAt(s, p)') =
             Cardinality(RestingAt(s, p)) - Counted(id, s, p) + Counted(id, s, p)'
    BY <1>4, <1>7, OneOrderChanges
  <2> HIDE DEF side, price, old
  <2>7. CASE s = side /\ p = price
    BY <1>1, <2>3, <2>4, <2>5, <2>6, <2>7
  <2>8. CASE ~(s = side /\ p = price)
    BY <2>3, <2>4, <2>5, <2>6, <2>8
  <2> QED BY <2>7, <2>8
<1> QED BY <1>7, <1>8 DEF RestingChanges

--------------------------------------------------------------------------------
(* The levels follow the orders.                                           *)

Array(side) == IF side = "B" THEN bids ELSE asks
RestingOn(side) == [p \in Int |-> Resting(side, p)]
CountOn(side) == [p \in Int |-> Cardinality(RestingAt(side, p))]

AllBacked == \A side \in Sides : Backed(Array(side), RestingOn(side))
AllExact == \A side \in Sides : /\ Exact(Array(side), RestingOn(side), CountOn(side))
                                /\ Shown(Array(side), CountOn(side))

\* What ApplyToSide does to the array of each side.
LEMMA SideArrays ==
  ASSUME BookInv, NEW side \in Sides, NEW price \in Int, NEW q \in Int, NEW n \in Int,
         ApplyToSide(side, price, q, n), NEW s \in Sides
  PROVE  /\ Array(s) \in LevelArrays
         /\ \E asc \in BOOLEAN :
              /\ WellOrdered(Array(s), asc)
              /\ Array(s)' = IF s = side THEN ApplyDelta(Array(s), price, q, n, asc)
                                         ELSE Array(s)
<1>1. bids \in LevelArrays /\ asks \in LevelArrays BY DEF BookInv, TypeOK, LevelArrays
<1>2. WellOrdered(bids, FALSE) /\ WellOrdered(asks, TRUE) BY DEF BookInv, LevelsOrdered
<1>3. CASE s = "B" BY <1>1, <1>2, <1>3 DEF Array, ApplyToSide, Sides
<1>4. CASE s = "S" BY <1>1, <1>2, <1>4 DEF Array, ApplyToSide, Sides
<1> QED BY <1>3, <1>4 DEF Sides

LEMMA TotalsTypes ==
  TypeOK /\ LivePositive =>
    \A side \in Sides : /\ RestingOn(side) \in [Int -> Nat]
                        /\ CountOn(side) \in [Int -> Nat]
                        /\ \A p \in Int : CountOn(side)[p] > 0 <=> RestingOn(side)[p] > 0
BY SharesTypes DEF SharesFit, RestingOn, CountOn

LEMMA TotalsTypesNext ==
  (TypeOK /\ LivePositive =>
    \A side \in Sides : /\ RestingOn(side) \in [Int -> Nat]
                        /\ CountOn(side) \in [Int -> Nat]
                        /\ \A p \in Int : CountOn(side)[p] > 0 <=> RestingOn(side)[p] > 0)'
BY TotalsTypes, PTL

LEMMA StepKeepsBacked ==
  ASSUME BookInv, LivePositive, BookInv', LivePositive', AllBacked,
         NEW side \in Sides, NEW price \in Int, NEW q \in Int, NEW n \in Int,
         ApplyToSide(side, price, q, n),
         NEW dq \in Int, NEW dn \in Int, RestingChanges(side, price, dq, dn), q <= dq
  PROVE  AllBacked'
<1> SUFFICES ASSUME NEW s \in Sides PROVE Backed(Array(s)', RestingOn(s)')
  BY DEF AllBacked
<1> DEFINE L == Array(s)
           R1 == RestingOn(s)
           R2 == RestingOn(s)'
<1>1. L \in LevelArrays BY SideArrays
<1>2. PICK asc \in BOOLEAN :
        /\ WellOrdered(L, asc)
        /\ Array(s)' = IF s = side THEN ApplyDelta(L, price, q, n, asc) ELSE L
  BY SideArrays
<1>3. R1 \in [Int -> Nat] /\ R2 \in [Int -> Nat]
  BY TotalsTypes, TotalsTypesNext DEF BookInv
<1>4. \A p \in Int : R2[p] = R1[p] + (IF s = side /\ p = price THEN dq ELSE 0)
  BY DEF RestingChanges, RestingOn
<1>5. Backed(L, R1) BY DEF AllBacked
<1> HIDE DEF L, R1, R2
<1>6. CASE s = side
  <2>1. \A p \in Int : p # price => R2[p] = R1[p] BY <1>3, <1>4
  <2>2. q <= R2[price] - R1[price] BY <1>3, <1>4, <1>6
  <2> QED BY <1>1, <1>2, <1>3, <1>5, <1>6, <2>1, <2>2, DeltaKeepsBacked DEF R2
<1>7. CASE s # side
  <2>1. \A p \in Int : R2[p] = R1[p] BY <1>3, <1>4, <1>7
  <2>2. R1 = R2 BY <1>3, <2>1
  <2> QED BY <1>2, <1>5, <1>7, <2>2 DEF R2
<1> QED BY <1>6, <1>7

LEMMA PricesFinite == \A side \in Sides : IsFiniteSet(RestingPrices(side))
<1> SUFFICES ASSUME NEW side \in Sides PROVE IsFiniteSet(RestingPrices(side))
  OBVIOUS
<1> DEFINE Ids == {id \in OrderIds : Live(id) /\ orders[id].val.side = side}
           f == [id \in Ids |-> orders[id].val.price]
<1>1. IsFiniteSet(Ids) BY FiniteIds, FS_Subset
<1>2. f \in Surjection(Ids, RestingPrices(side)) BY DEF RestingPrices, Surjection
<1> HIDE DEF f, Ids
<1> QED BY <1>1, <1>2, FS_Surjection

LEMMA PricesFiniteNext == (\A side \in Sides : IsFiniteSet(RestingPrices(side)))'
BY PricesFinite, PTL

\* A side that shows all its orders, at no more prices than it has slots, has a slot
\* for the price of a new one.
LEMMA ExactHasRoom ==
  ASSUME BookInv, LivePositive, BookInv', LivePositive', AllExact,
         NEW side \in Sides, NEW price \in Int, NEW q \in Int, NEW n \in Int,
         RestingChanges(side, price, q, n),
         Cardinality(RestingPrices(side)') <= Depth
  PROVE  HasRoom(Array(side), price, q)
<1> SUFFICES ASSUME price \notin ActivePrices(Array(side)), q > 0,
                    \A i \in Levels : Array(side)[i].active
             PROVE  FALSE
  BY DEF HasRoom
<1> DEFINE L == Array(side)
           Shows == ActivePrices(L)
           After == RestingPrices(side)'
<1>1. /\ L \in LevelArrays
      /\ \E asc \in BOOLEAN : WellOrdered(L, asc)
  BY DEF BookInv, TypeOK, LevelsOrdered, Array, LevelArrays
<1>2. Cardinality(Shows) = Depth BY <1>1, FullSide
<1>3. \A i \in Levels : L[i].price \in Int /\ L[i].quantity > 0
  BY <1>1 DEF WellOrdered, LevelArrays, LevelType
<1>4. IsFiniteSet(After) BY PricesFiniteNext
<1>5. ASSUME NEW p \in Int, Resting(side, p)' > 0
      PROVE  p \in After
  <2>1. /\ Cardinality(RestingAt(side, p)') > 0
        /\ IsFiniteSet(RestingAt(side, p)')
    BY <1>5, SharesTypesNext DEF SharesFit, BookInv
  <2>2. RestingAt(side, p)' # {} BY <2>1, FS_EmptySet
  <2> QED BY <2>2 DEF RestingAt, RestingPrices
<1>6. price \in After
  <2>1. Resting(side, price)' = Resting(side, price) + q BY DEF RestingChanges
  <2>2. Resting(side, price) \in Nat BY SharesTypes DEF SharesFit, BookInv
  <2> QED BY <1>5, <2>1, <2>2
<1>7. ASSUME NEW p \in Shows PROVE p \in After
  <2>1. PICK i \in Levels : L[i].active /\ L[i].price = p BY DEF ActivePrices
  <2>2. p \in Int /\ L[i].quantity > 0 BY <1>3, <2>1
  <2>3. Exact(L, RestingOn(side), CountOn(side)) BY DEF AllExact
  <2>4. L[i].quantity = Resting(side, p) BY <2>1, <2>2, <2>3 DEF Exact, RestingOn
  <2>5. p # price BY <1>7
  <2>6. Resting(side, p)' = Resting(side, p) + 0 BY <2>2, <2>5 DEF RestingChanges
  <2>7. Resting(side, p) \in Nat BY <2>2, SharesTypes DEF SharesFit, BookInv
  <2> QED BY <1>5, <2>2, <2>4, <2>6, <2>7
<1> HIDE DEF L, Shows, After
<1>8. Shows \cup {price} \subseteq After BY <1>6, <1>7
<1>9. IsFiniteSet(Shows) BY <1>4, <1>8, FS_Subset
<1>10. Cardinality(Shows \cup {price}) = Depth + 1
  BY <1>2, <1>9, FS_AddElement DEF Shows, L
<1>11. Cardinality(Shows \cup {price}) <= Cardinality(After)
  BY <1>4, <1>8, FS_Subset
<1>12. Cardinality(After) \in Nat BY <1>4, FS_CardinalityType
<1> QED BY <1>10, <1>11, <1>12 DEF After

LEMMA StepKeepsExact ==
  ASSUME BookInv, LivePositive, BookInv', LivePositive', AllExact,
         NEW side \in Sides, NEW price \in Int, NEW q \in Int, NEW n \in Int,
         ApplyToSide(side, price, q, n), RestingChanges(side, price, q, n),
         Cardinality(RestingPrices(side)') <= Depth
  PROVE  AllExact'
<1> SUFFICES ASSUME NEW s \in Sides
             PROVE  /\ Exact(Array(s)', RestingOn(s)', CountOn(s)')
                    /\ Shown(Array(s)', CountOn(s)')
  BY DEF AllExact, Exact, Shown
<1> DEFINE L == Array(s)
           M == Array(s)'
           R1 == RestingOn(s)
           R2 == RestingOn(s)'
           C1 == CountOn(s)
           C2 == CountOn(s)'
<1>1. L \in LevelArrays BY SideArrays
<1>2. PICK asc \in BOOLEAN :
        /\ WellOrdered(L, asc)
        /\ M = IF s = side THEN ApplyDelta(L, price, q, n, asc) ELSE L
  BY SideArrays
<1>3. /\ R1 \in [Int -> Nat] /\ C1 \in [Int -> Nat]
      /\ \A p \in Int : C1[p] > 0 <=> R1[p] > 0
  BY TotalsTypes DEF BookInv
<1>4. /\ R2 \in [Int -> Nat] /\ C2 \in [Int -> Nat]
      /\ \A p \in Int : C2[p] > 0 <=> R2[p] > 0
  BY TotalsTypesNext DEF BookInv
<1>5. \A p \in Int : /\ R2[p] = R1[p] + (IF s = side /\ p = price THEN q ELSE 0)
                     /\ C2[p] = C1[p] + (IF s = side /\ p = price THEN n ELSE 0)
  BY DEF RestingChanges, RestingOn, CountOn
<1>6. Exact(L, R1, C1) /\ Shown(L, C1) BY DEF AllExact
<1>7. HasRoom(Array(side), price, q) BY ExactHasRoom
<1>8. s = side => HasRoom(L, price, q) BY <1>7
<1> HIDE DEF L, M, R1, R2, C1, C2
<1>9. CASE s = side
  <2>1. C1[price] \in Nat /\ R1[price] \in Nat BY <1>3
  <2>2. TotalsMove(R1, C1, R2, C2, price, q, n)
    BY <1>3, <1>4, <1>5, <1>9, <2>1 DEF TotalsMove
  <2>3. M = ApplyDelta(L, price, q, n, asc) BY <1>2, <1>9
  <2>4. Exact(M, R2, C2) /\ Shown(M, C2)
    <3>1. HasRoom(L, price, q) BY <1>8, <1>9
    <3>2. WellOrdered(L, asc) BY <1>2
    <3>3. R1 \in [Int -> Nat] /\ C1 \in [Int -> Nat] BY <1>3
    <3>4. R2 \in [Int -> Nat] /\ C2 \in [Int -> Nat] BY <1>4
    <3>5. LET D == ApplyDelta(L, price, q, n, asc) IN Exact(D, R2, C2) /\ Shown(D, C2)
      BY <1>1, <1>6, <2>2, <3>1, <3>2, <3>3, <3>4, DeltaKeepsExact
    <3> QED BY <2>3, <3>5
  <2> QED BY <2>4 DEF M, R2, C2
<1>10. CASE s # side
  <2>1. \A p \in Int : R2[p] = R1[p] /\ C2[p] = C1[p] BY <1>3, <1>4, <1>5, <1>10
  <2>2. R1 = R2 /\ C1 = C2 BY <1>3, <1>4, <2>1
  <2> QED BY <1>2, <1>6, <1>10, <2>2 DEF M, R2, C2
<1> QED BY <1>9, <1>10

--------------------------------------------------------------------------------
(* What the book shows is what rests.                                      *)

ShownInv ==
  /\ BookInv /\ LivePositive
  /\ "reuse" \notin irregular => AllBacked
  /\ irregular = {} => AllExact

LEMMA MarkTells ==
  ASSUME NEW what, NEW happened \in BOOLEAN, Mark(what, happened)
  PROVE  /\ irregular \subseteq irregular'
         /\ happened => what \in irregular'
         /\ irregular' = {} =>
              \A side \in Sides : ~(Cardinality(RestingPrices(side)') > Depth)
BY DEF Mark

LEMMA InitShownInv == Init => ShownInv
<1> SUFFICES ASSUME Init PROVE ShownInv OBVIOUS
<1>1. BookInv BY InitBookInv
<1>2. \A id \in OrderIds : ~Live(id) BY DEF Init, Store!Init, Live, Store!Known
<1>3. LivePositive BY <1>2 DEF LivePositive
<1>4. \A side \in Sides, i \in Levels : ~Array(side)[i].active
  BY DEF Init, Array, EmptyLevel
<1>5. ASSUME NEW side \in Sides, NEW p \in Int PROVE Cardinality(RestingAt(side, p)) = 0
  <2>1. RestingAt(side, p) = {} BY <1>2 DEF RestingAt
  <2> QED BY <2>1, FS_EmptySet
<1>6. AllBacked BY <1>4 DEF AllBacked, Backed
<1>7. AllExact
  <2>1. \A side \in Sides, p \in Int : CountOn(side)[p] = 0 BY <1>5 DEF CountOn
  <2> QED BY <1>4, <2>1 DEF AllExact, Exact, Shown
<1> QED BY <1>1, <1>3, <1>6, <1>7 DEF ShownInv

LEMMA AddShown ==
  ASSUME ShownInv, BookInv', NEW seqNo, NEW id \in OrderIds, NEW side \in Sides,
         NEW price \in Prices, NEW q \in AddQuantities, Add(seqNo, id, side, price, q)
  PROVE  ShownInv'
<1>1. BookInv /\ TypeOK /\ LivePositive /\ TypeOK' BY DEF ShownInv, BookInv
<1>2. q \in Int /\ price \in Int /\ 1 \in Int OBVIOUS
<1>3. LivePositive' /\ (~Live(id) => RestingChanges(side, price, q, 1))
  BY <1>1, PutRests DEF Add
<1>4. /\ irregular \subseteq irregular'
      /\ Live(id) => "reuse" \in irregular'
      /\ irregular' = {} => \A s \in Sides : ~(Cardinality(RestingPrices(s)') > Depth)
  <2>1. Live(id) \in BOOLEAN BY DEF Live
  <2> QED BY <2>1, MarkTells DEF Add
<1>5. ApplyToSide(side, price, q, 1) BY DEF Add
<1>6. ASSUME "reuse" \notin irregular' PROVE AllBacked'
  <2>1. AllBacked /\ RestingChanges(side, price, q, 1)
    BY <1>3, <1>4, <1>6 DEF ShownInv
  <2>2. q <= q BY <1>2
  <2> QED BY <1>1, <1>2, <1>3, <1>5, <2>1, <2>2, StepKeepsBacked
<1>7. ASSUME irregular' = {} PROVE AllExact'
  <2>1. AllExact /\ RestingChanges(side, price, q, 1)
    BY <1>3, <1>4, <1>7 DEF ShownInv
  <2>2. Cardinality(RestingPrices(side)') <= Depth
    <3>1. Cardinality(RestingPrices(side)') \in Nat
      BY PricesFiniteNext, FS_CardinalityType
    <3> QED BY <1>4, <1>7, <3>1
  <2> QED BY <1>1, <1>2, <1>3, <1>5, <2>1, <2>2, StepKeepsExact
<1> QED BY <1>3, <1>6, <1>7 DEF ShownInv

\* A cancel or an execution: the order keeps left, the level takes the delta q, which
\* takes no less, and just as much unless the message asks for more than there is.
LEMMA AmendShown ==
  ASSUME ShownInv, BookInv', NEW id \in OrderIds, Live(id), NEW left \in Int,
         NEW q \in Int, NEW n \in Int, NEW excess \in BOOLEAN,
         ApplyToSide(orders[id].val.side, orders[id].val.price, q, n),
         Remaining(id, left), Mark("excess", excess),
         n = IF left <= 0 THEN -1 ELSE 0,
         q <= (IF left > 0 THEN left ELSE 0) - orders[id].val.quantity,
         ~excess => q = (IF left > 0 THEN left ELSE 0) - orders[id].val.quantity
  PROVE  ShownInv'
<1>1. BookInv /\ TypeOK /\ LivePositive /\ TypeOK' BY DEF ShownInv, BookInv
<1>2. PICK side \in Sides, price \in Int, dq \in Int :
        /\ side = orders[id].val.side /\ price = orders[id].val.price
        /\ dq = (IF left > 0 THEN left ELSE 0) - orders[id].val.quantity
  <2>1. orders[id].val.quantity \in Int BY <1>1, LiveRecord
  <2>2. (IF left > 0 THEN left ELSE 0) - orders[id].val.quantity \in Int BY <2>1
  <2> QED BY <1>1, <2>2, LiveRecord
<1>3. LivePositive' /\ RestingChanges(side, price, dq, n)
  BY <1>1, <1>2, RemainingRests
<1>4. /\ irregular \subseteq irregular'
      /\ excess => "excess" \in irregular'
      /\ irregular' = {} => \A s \in Sides : ~(Cardinality(RestingPrices(s)') > Depth)
  BY MarkTells
<1>5. q <= dq /\ (~excess => q = dq) BY <1>2
<1>6. ApplyToSide(side, price, q, n) BY <1>2
<1>7. ASSUME "reuse" \notin irregular' PROVE AllBacked'
  <2>1. AllBacked BY <1>4, <1>7 DEF ShownInv
  <2> QED BY <1>1, <1>2, <1>3, <1>5, <1>6, <2>1, StepKeepsBacked
<1>8. ASSUME irregular' = {} PROVE AllExact'
  <2>1. AllExact /\ q = dq BY <1>4, <1>5, <1>8 DEF ShownInv
  <2>2. Cardinality(RestingPrices(side)') <= Depth
    <3>1. Cardinality(RestingPrices(side)') \in Nat
      BY <1>2, PricesFiniteNext, FS_CardinalityType
    <3> QED BY <1>2, <1>4, <1>8, <3>1
  <2>3. RestingChanges(side, price, q, n) BY <1>3, <2>1
  <2> QED BY <1>1, <1>2, <1>3, <1>6, <2>1, <2>2, <2>3, StepKeepsExact
<1> QED BY <1>3, <1>7, <1>8 DEF ShownInv

LEMMA CancelShown ==
  ASSUME ShownInv, BookInv', NEW seqNo, NEW id \in OrderIds,
         NEW q \in CancelQuantities, Cancel(seqNo, id, q)
  PROVE  ShownInv'
<1> DEFINE old == orders[id].val.quantity
           n == IF q <= 0 THEN -1 ELSE 0
           excess == q < 0
<1>1. TypeOK /\ Live(id) BY DEF ShownInv, BookInv, Cancel
<1>2. q \in Int /\ old \in Int BY <1>1, LiveRecord
<1>3. q - old \in Int /\ n \in Int /\ excess \in BOOLEAN BY <1>2
<1>4. /\ ApplyToSide(orders[id].val.side, orders[id].val.price, q - old, n)
      /\ Remaining(id, q) /\ Mark("excess", excess)
  BY DEF Cancel
<1>5. /\ q - old <= (IF q > 0 THEN q ELSE 0) - old
      /\ ~excess => q - old = (IF q > 0 THEN q ELSE 0) - old
  BY <1>2
<1>6. n = IF q <= 0 THEN -1 ELSE 0 OBVIOUS
<1> HIDE DEF n, excess
<1> QED BY <1>1, <1>2, <1>3, <1>4, <1>5, <1>6, AmendShown

LEMMA ExecuteShown ==
  ASSUME ShownInv, BookInv', NEW seqNo, NEW id \in OrderIds,
         NEW q \in ExecQuantities, Execute(seqNo, id, q)
  PROVE  ShownInv'
<1> DEFINE old == orders[id].val.quantity
           newQty == IF old > q THEN old - q ELSE 0
           n == IF newQty = 0 THEN -1 ELSE 0
           excess == q > old
<1>1. TypeOK /\ Live(id) BY DEF ShownInv, BookInv, Execute
<1>2. q \in Int /\ q > 0 /\ old \in Int
  <2>1. q \in Nat /\ q > 0 OBVIOUS
  <2> QED BY <1>1, <2>1, LiveRecord
<1>3. -q \in Int /\ newQty \in Int /\ newQty >= 0 /\ n \in Int /\ excess \in BOOLEAN
  BY <1>2
<1>4. /\ ApplyToSide(orders[id].val.side, orders[id].val.price, -q, n)
      /\ Remaining(id, newQty) /\ Mark("excess", excess)
  BY DEF Execute
<1>5. /\ -q <= (IF newQty > 0 THEN newQty ELSE 0) - old
      /\ ~excess => -q = (IF newQty > 0 THEN newQty ELSE 0) - old
  BY <1>2
<1>6. n = IF newQty <= 0 THEN -1 ELSE 0 BY <1>3
<1> HIDE DEF n, newQty, excess
<1> QED BY <1>1, <1>3, <1>4, <1>5, <1>6, AmendShown

LEMMA NextShownInv == ShownInv /\ BookInv' /\ [Next]_bookVars => ShownInv'
<1> SUFFICES ASSUME ShownInv, BookInv', [Next]_bookVars PROVE ShownInv' OBVIOUS
<1>1. ASSUME NEW seqNo \in SeqNos, NEW id \in OrderIds, ProcessMessage(seqNo, id),
             ~UNCHANGED <<orders, bids, asks, irregular>>
      PROVE  ShownInv'
  BY <1>1, AddShown, CancelShown, ExecuteShown DEF ProcessMessage, AddRefused, Ignored
<1>2. ASSUME UNCHANGED <<orders, bids, asks, irregular>> PROVE ShownInv'
  BY <1>2 DEF ShownInv, LivePositive, Live, Store!Known, AllBacked, AllExact, Array,
       RestingOn, CountOn, Resting, RestingAt
<1>3. CASE Reset
  <2>1. \A id \in OrderIds : ~Live(id)' BY <1>3 DEF Reset, Store!Clear, Live, Store!Known
  <2>2. LivePositive' BY <2>1 DEF LivePositive
  <2>3. \A side \in Sides, i \in Levels : ~Array(side)'[i].active
    BY <1>3 DEF Reset, Array, EmptyLevel
  <2>4. ASSUME NEW side \in Sides, NEW p \in Int
        PROVE  Cardinality(RestingAt(side, p)') = 0
    <3>1. RestingAt(side, p)' = {} BY <2>1 DEF RestingAt
    <3> QED BY <3>1, FS_EmptySet
  <2>5. AllBacked' BY <2>3 DEF AllBacked, Backed
  <2>6. AllExact'
    <3>1. \A side \in Sides, p \in Int : CountOn(side)'[p] = 0 BY <2>4 DEF CountOn
    <3> QED BY <2>3, <3>1 DEF AllExact, Exact, Shown
  <2> QED BY <2>2, <2>5, <2>6 DEF ShownInv
<1> QED BY <1>1, <1>2, <1>3 DEF Next, bookVars

LEMMA ShownInvariant == Spec => []ShownInv
BY InitShownInv, NextShownInv, BookInvariant, PTL DEF Spec

\* No level ever shows more than the live orders at its price add up to, for whatever
\* cancels and executions ask, as long as no id of a live order is added again.
THEOREM VisibleBacked == Spec => []VisibleIsBacked
<1>1. ShownInv => VisibleIsBacked
  <2> SUFFICES ASSUME ShownInv, "reuse" \notin irregular, NEW i \in Levels
               PROVE  /\ bids[i].active => bids[i].quantity <= Resting("B", bids[i].price)
                      /\ asks[i].active => asks[i].quantity <= Resting("S", asks[i].price)
    BY DEF VisibleIsBacked
  <2>1. bids[i].price \in Int /\ asks[i].price \in Int
    BY DEF ShownInv, BookInv, TypeOK, LevelType
  <2>2. Backed(bids, RestingOn("B")) /\ Backed(asks, RestingOn("S"))
    BY DEF ShownInv, AllBacked, Array, Sides
  <2> QED BY <2>1, <2>2 DEF Backed, RestingOn
<1> QED BY <1>1, ShownInvariant, PTL

\* As long as nothing irregular happened both sides show exactly the live orders: every
\* level has their total and their number, and no order's price is missing.
THEOREM BookMirrored == Spec => []BookMirrorsOrders
<1>1. ShownInv => BookMirrorsOrders
  <2> SUFFICES ASSUME ShownInv, irregular = {} PROVE TotalsExact /\ EveryOrderShown
    BY DEF BookMirrorsOrders
  <2>1. TypeOK /\ LivePositive /\ AllExact BY DEF ShownInv, BookInv
  <2>2. ASSUME NEW side \in Sides, NEW i \in Levels, Array(side)[i].active
        PROVE  /\ Array(side)[i].quantity = Resting(side, Array(side)[i].price)
               /\ Array(side)[i].orderCount =
                    Cardinality(RestingAt(side, Array(side)[i].price))
    <3>1. Array(side)[i].price \in Int BY <2>1 DEF TypeOK, LevelType, Array
    <3>2. Exact(Array(side), RestingOn(side), CountOn(side)) BY <2>1 DEF AllExact
    <3> QED BY <2>2, <3>1, <3>2 DEF Exact, RestingOn, CountOn
  <2>3. TotalsExact BY <2>2 DEF TotalsExact, Array
  <2>4. ASSUME NEW id \in OrderIds, Live(id)
        PROVE  LET L == Array(orders[id].val.side)
               IN  \E i \in Levels : L[i].active /\ L[i].price = orders[id].val.price
    <3>1. PICK side \in Sides, price \in Int :
            side = orders[id].val.side /\ price = orders[id].val.price
      BY <2>1, <2>4, LiveRecord
    <3>2. id \in RestingAt(side, price) BY <2>4, <3>1 DEF RestingAt
    <3>3. /\ IsFiniteSet(RestingAt(side, price))
          /\ Cardinality(RestingAt(side, price)) \in Nat
      BY <2>1, SharesTypes DEF SharesFit
    <3>4. Cardinality(RestingAt(side, price)) > 0 BY <3>2, <3>3, FS_EmptySet
    <3>5. CountOn(side)[price] > 0 BY <3>4 DEF CountOn
    <3>6. price \in ActivePrices(Array(side)) BY <2>1, <3>5 DEF AllExact, Shown
    <3> QED BY <3>1, <3>6 DEF ActivePrices
  <2>5. EveryOrderShown BY <2>4 DEF EveryOrderShown, Array
  <2> QED BY <2>3, <2>5
<1> QED BY <1>1, ShownInvariant, PTL

================================================================================
