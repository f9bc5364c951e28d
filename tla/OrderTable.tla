------------------------------- MODULE OrderTable -------------------------------
(***************************************************************************)
(* OrderTable (order_table.hpp): a fixed open-addressing hash table with   *)
(* linear probing.  A cancelled order keeps its slot as a tombstone; only  *)
(* the same id can use it again.  lookup hands out a pointer into the      *)
(* table, through which the order book changes quantity and cancels.       *)
(*                                                                         *)
(* The hash is any function from ids to slots: the constant Hash.  What a  *)
(* record holds besides id, occupied and cancelled is one value.           *)
(***************************************************************************)
EXTENDS Integers, FiniteSets

CONSTANTS OrderIds,   \* ids that occur
          Values,     \* side, price, quantity and timestamp together
          Capacity,   \* template parameter, a power of two
          Hash,       \* hash(orderId), already masked
          NoId,       \* the orderId of a slot never used
          NoValue, NoOrder,
          MaxActive   \* bound of the checked instances on activeCount

Slots == 0 .. Capacity - 1

ASSUME TableAssumption ==
  /\ Capacity \in Nat \ {0}
  /\ Hash \in [OrderIds -> Slots]
  /\ NoId \notin OrderIds /\ NoValue \notin Values
  /\ NoOrder \notin [val : Values, cancelled : BOOLEAN]

VARIABLES table,          \* the slots
          occupiedCount, activeCount

tableVars == <<table, occupiedCount, activeCount>>

NoRecord == [occupied |-> FALSE, cancelled |-> FALSE, orderId |-> NoId, val |-> NoValue]

\* clear(), which the constructor calls.
Init ==
  /\ table = [s \in Slots |-> NoRecord]
  /\ occupiedCount = 0 /\ activeCount = 0

--------------------------------------------------------------------------------
(* Probing *)

\* The slot of the k-th probe for an id.
Probe(id, k) == (Hash[id] + k) % Capacity

\* In table T a probe ends at a slot that was never used and at the id's own slot.
Stops(T, id, k) ==
  ~T[Probe(id, k)].occupied \/ T[Probe(id, k)].orderId = id

\* The probe loop of insert and lookup leaves at probe k.
EndsAt(T, id, k) ==
  /\ Stops(T, id, k)
  /\ \A j \in 0 .. k - 1 : ~Stops(T, id, j)

\* The loop comes to the id's own slot s: what lookup returns a pointer to.
Found(id, s) == \E k \in Slots :
  s = Probe(id, k) /\ EndsAt(table, id, k) /\ table[s].occupied

\* Mutant of Exhausted: gives up one probe too early.
ExhaustedEarly(T, id) == \A k \in 0 .. Capacity - 2 : ~Stops(T, id, k)

\* The loop runs through the whole table.
Exhausted(T, id) == \A k \in Slots : ~Stops(T, id, k)

--------------------------------------------------------------------------------
(* insert *)

\* Mutants of InsertNew: the id not stored; the first tombstone on the way taken.
InsertNewNoId(id, v) == \E k \in Slots :
  LET s == Probe(id, k) IN
  /\ EndsAt(table, id, k)
  /\ ~table[s].occupied
  /\ table' = [table EXCEPT ![s] =
       [occupied |-> TRUE, cancelled |-> FALSE, orderId |-> NoId, val |-> v]]
  /\ occupiedCount' = occupiedCount + 1
  /\ activeCount' = activeCount + 1

InsertNewInTombstone(id, v) == \E k \in Slots :
  LET s == Probe(id, k) IN
  /\ ~table[s].occupied \/ table[s].cancelled
  /\ \A j \in 0 .. k - 1 : ~Stops(table, id, j)
  /\ table' = [table EXCEPT ![s] =
       [occupied |-> TRUE, cancelled |-> FALSE, orderId |-> id, val |-> v]]
  /\ occupiedCount' = occupiedCount + 1
  /\ activeCount' = activeCount + 1

InsertNew(id, v) == \E k \in Slots :
  LET s == Probe(id, k) IN
  /\ EndsAt(table, id, k)
  /\ ~table[s].occupied
  /\ table' = [table EXCEPT ![s] =
       [occupied |-> TRUE, cancelled |-> FALSE, orderId |-> id, val |-> v]]
  /\ occupiedCount' = occupiedCount + 1
  /\ activeCount' = activeCount + 1

\* Mutants of InsertOver: a tombstone not reactivated; not counted as active again.
InsertOverTombstone(id, v) == \E s \in Slots :
  /\ Found(id, s)
  /\ table' = [table EXCEPT ![s].val = v]
  /\ UNCHANGED <<occupiedCount, activeCount>>

InsertOverUncounted(id, v) == \E s \in Slots :
  /\ Found(id, s)
  /\ table' = [table EXCEPT ![s] = [@ EXCEPT !.cancelled = FALSE, !.val = v]]
  /\ UNCHANGED <<occupiedCount, activeCount>>

\* The id has a slot: reactivate it if need be and overwrite what it holds.
InsertOver(id, v) == \E s \in Slots :
  /\ Found(id, s)
  /\ table' = [table EXCEPT ![s] = [@ EXCEPT !.cancelled = FALSE, !.val = v]]
  /\ activeCount' = IF table[s].cancelled THEN activeCount + 1 ELSE activeCount
  /\ UNCHANGED occupiedCount

\* return nullptr
InsertFails(id) == Exhausted(table, id) /\ UNCHANGED tableVars

Insert(id, v) == InsertNew(id, v) \/ InsertOver(id, v) \/ InsertFails(id)

--------------------------------------------------------------------------------
(* erase, and what is done through the pointer lookup returns *)

\* Mutant of Erase: frees the slot instead of leaving a tombstone.
EraseFreesSlot(id) == \E s \in Slots :
  /\ Found(id, s)
  /\ ~table[s].cancelled
  /\ table' = [table EXCEPT ![s] = NoRecord]
  /\ activeCount' = IF activeCount > 0 THEN activeCount - 1 ELSE activeCount
  /\ UNCHANGED occupiedCount

Erase(id) == \E s \in Slots :
  /\ Found(id, s)
  /\ ~table[s].cancelled
  /\ table' = [table EXCEPT ![s].cancelled = TRUE]
  /\ activeCount' = IF activeCount > 0 THEN activeCount - 1 ELSE activeCount
  /\ UNCHANGED occupiedCount

\* processCancel and processExecute write rec->quantity, and rec->cancelled when
\* nothing is left; neither count of the table learns of it.
WriteThrough(id, v, cancel) == \E s \in Slots :
  /\ Found(id, s)
  /\ ~table[s].cancelled
  /\ table' = [table EXCEPT ![s] = [@ EXCEPT !.val = v, !.cancelled = cancel]]
  /\ UNCHANGED <<occupiedCount, activeCount>>

\* clear(): the book's reset() calls it at any time.
Clear ==
  /\ table' = [s \in Slots |-> NoRecord]
  /\ occupiedCount' = 0 /\ activeCount' = 0

--------------------------------------------------------------------------------

Next ==
  \/ \E id \in OrderIds :
       \/ activeCount < MaxActive /\ \E v \in Values : Insert(id, v)
       \/ Erase(id)
       \/ \E v \in Values, cancel \in BOOLEAN : WriteThrough(id, v, cancel)
  \/ Clear

Spec == Init /\ [][Next]_tableVars

--------------------------------------------------------------------------------
(* Properties *)

TypeOK ==
  /\ table \in [Slots -> [occupied : BOOLEAN, cancelled : BOOLEAN,
                          orderId : OrderIds \cup {NoId}, val : Values \cup {NoValue}]]
  /\ \A s \in Slots : table[s].occupied =>
       table[s].orderId \in OrderIds /\ table[s].val \in Values
  /\ occupiedCount \in Nat /\ activeCount \in Nat

\* Every stored order is reachable: on the way from its hash to its slot no slot is
\* unused and none holds the same id.  Cancelling must not break this chain.
ChainsUnbroken ==
  \A s \in Slots : table[s].occupied =>
    \E k \in Slots :
      /\ s = Probe(table[s].orderId, k)
      /\ EndsAt(table, table[s].orderId, k)

\* No order is stored twice.
IdsUnique ==
  \A s, t \in Slots :
    table[s].occupied /\ table[t].occupied /\ table[s].orderId = table[t].orderId => s = t

TableInv == TypeOK /\ ChainsUnbroken

Occupied == {s \in Slots : table[s].occupied}
Live == {s \in Occupied : ~table[s].cancelled}

\* occupiedSlots(), the numerator of loadFactor(), counts the used slots; and as the
\* order book never counts an order out, size() is only an upper bound of the orders
\* that are live.
CountsBoundTable ==
  /\ occupiedCount = Cardinality(Occupied)
  /\ Cardinality(Live) <= activeCount

\* insert refuses an id only when every slot is taken: probing misses no slot,
\* wherever the hash makes it start and wrap.
RefusesOnlyWhenFull == \A id \in OrderIds : Exhausted(table, id) => occupiedCount = Capacity

\* The map the slots of a table stand for.
Stores(T, id, s) == T[s].occupied /\ T[s].orderId = id

Entry(T, id) ==
  IF \E s \in Slots : Stores(T, id, s)
  THEN LET s == CHOOSE s \in Slots : Stores(T, id, s)
       IN [val |-> T[s].val, cancelled |-> T[s].cancelled]
  ELSE NoOrder

Contents == [id \in OrderIds |-> Entry(table, id)]

Map == INSTANCE OrderMap WITH orders <- Contents

\* The table is a map: what was inserted under an id is what lookup finds, until
\* the table has handed out all its slots.
ImplementsMap == Map!Spec

================================================================================
