---------------------------- MODULE OrderTableProofs ----------------------------
(***************************************************************************)
(* Proofs about OrderTable, for every capacity and every hash function.    *)
(***************************************************************************)
EXTENDS OrderTable, Arithmetic, FiniteSetTheorems, TLAPS

USE TableAssumption

RecordType == [occupied : BOOLEAN, cancelled : BOOLEAN,
               orderId : OrderIds \cup {NoId}, val : Values \cup {NoValue}]

--------------------------------------------------------------------------------
(* The probes of an id visit every slot, each once.                        *)

LEMMA ProbeInRange ==
  ASSUME NEW id \in OrderIds, NEW k \in Slots
  PROVE  Probe(id, k) \in Slots
<1>1. Hash[id] + k \in Nat /\ Capacity \in Nat /\ Capacity >= 1 BY DEF Slots
<1> QED BY <1>1, DivMod DEF Probe, Slots

LEMMA ProbeInjective ==
  ASSUME NEW id \in OrderIds, NEW j \in Slots, NEW k \in Slots,
         Probe(id, j) = Probe(id, k)
  PROVE  j = k
<1>1. /\ Hash[id] + j \in Nat /\ Hash[id] + k \in Nat /\ Hash[id] \in Nat
      /\ Capacity \in Nat /\ Capacity >= 1 /\ j \in Nat /\ k \in Nat
      /\ j < Capacity /\ k < Capacity
  BY DEF Slots
<1>2. CASE j < k
  <2>1. (Hash[id] + k) - (Hash[id] + j) < Capacity /\ Hash[id] + j < Hash[id] + k
    BY <1>1, <1>2
  <2> QED BY <1>1, <2>1, RemaindersDistinct DEF Probe
<1>3. CASE k < j
  <2>1. (Hash[id] + j) - (Hash[id] + k) < Capacity /\ Hash[id] + k < Hash[id] + j
    BY <1>1, <1>3
  <2> QED BY <1>1, <2>1, RemaindersDistinct DEF Probe
<1> QED BY <1>1, <1>2, <1>3

LEMMA SlotsFinite == IsFiniteSet(Slots) /\ Cardinality(Slots) = Capacity
<1>1. Capacity - 1 \in Int /\ 0 \in Int /\ ~(0 > Capacity - 1) OBVIOUS
<1> QED BY <1>1, FS_Interval DEF Slots

LEMMA ProbeSurjective ==
  ASSUME NEW id \in OrderIds, NEW s \in Slots
  PROVE  \E k \in Slots : Probe(id, k) = s
<1> DEFINE f == [k \in Slots |-> Probe(id, k)]
<1>1. f \in [Slots -> Slots] BY ProbeInRange
<1>2. \A j, k \in Slots : f[j] = f[k] => j = k BY ProbeInjective
<1>3. f \in Injection(Slots, Slots) BY <1>1, <1>2 DEF Injection, IsInjective
<1>4. f \in Surjection(Slots, Slots) BY <1>3, SlotsFinite, FS_Injection
<1>5. \E k \in Slots : f[k] = s BY <1>4 DEF Surjection
<1> QED BY <1>5

\* Where the probe loop ends is determined by the table.
LEMMA EndUnique ==
  ASSUME NEW T, NEW id, NEW j \in Slots, NEW k \in Slots,
         EndsAt(T, id, j), EndsAt(T, id, k)
  PROVE  j = k
<1>1. j \in Nat /\ k \in Nat BY DEF Slots
<1>2. CASE j < k
  <2>1. j \in 0 .. k - 1 BY <1>1, <1>2
  <2> QED BY <2>1 DEF EndsAt
<1>3. CASE k < j
  <2>1. k \in 0 .. j - 1 BY <1>1, <1>3
  <2> QED BY <2>1 DEF EndsAt
<1> QED BY <1>1, <1>2, <1>3

--------------------------------------------------------------------------------
(* Types and probe chains                                                  *)

LEMMA InitTableInv == Init => TableInv
BY DEF Init, TableInv, TypeOK, ChainsUnbroken, NoRecord

\* A chain survives as long as no used slot changes its id.
LEMMA ChainKept ==
  ASSUME NEW T, NEW U, NEW id \in OrderIds, NEW k \in Slots, EndsAt(T, id, k),
         \A s \in Slots : T[s].occupied => U[s].occupied /\ U[s].orderId = T[s].orderId,
         U[Probe(id, k)].orderId = id
  PROVE  EndsAt(U, id, k)
<1>1. Stops(U, id, k) BY DEF Stops
<1>2. ASSUME NEW j \in 0 .. k - 1 PROVE ~Stops(U, id, j)
  <2>1. ~Stops(T, id, j) BY <1>2 DEF EndsAt
  <2>2. j \in Slots BY <1>2 DEF Slots
  <2>3. Probe(id, j) \in Slots BY <2>2, ProbeInRange
  <2> QED BY <2>1, <2>3 DEF Stops
<1> QED BY <1>1, <1>2 DEF EndsAt

\* A step that changes neither the id nor the use of any slot keeps all chains.
LEMMA SameKeys ==
  ASSUME TableInv, NEW s \in Slots, NEW r \in RecordType,
         r.occupied = table[s].occupied, r.orderId = table[s].orderId,
         r.occupied => r.val \in Values,
         table' = [table EXCEPT ![s] = r],
         occupiedCount' \in Nat, activeCount' \in Nat
  PROVE  TableInv'
<1>1. TypeOK' BY DEF TableInv, TypeOK, RecordType
<1>2. \A t \in Slots : /\ table'[t].occupied = table[t].occupied
                       /\ table'[t].orderId = table[t].orderId
  BY DEF TableInv, TypeOK
<1>3. ASSUME NEW t \in Slots, table'[t].occupied
      PROVE  \E k \in Slots : /\ t = Probe(table'[t].orderId, k)
                              /\ EndsAt(table', table'[t].orderId, k)
  <2>1. table[t].occupied /\ table'[t].orderId = table[t].orderId BY <1>2, <1>3
  <2>2. table[t].orderId \in OrderIds BY <2>1 DEF TableInv, TypeOK
  <2>3. PICK k \in Slots : /\ t = Probe(table[t].orderId, k)
                           /\ EndsAt(table, table[t].orderId, k)
    BY <2>1 DEF TableInv, ChainsUnbroken
  <2>4. \A u \in Slots : table[u].occupied => /\ table'[u].occupied
                                            /\ table'[u].orderId = table[u].orderId
    BY <1>2
  <2>5. table'[Probe(table[t].orderId, k)].orderId = table[t].orderId BY <2>1, <2>3
  <2>6. EndsAt(table, table[t].orderId, k) BY <2>3
  <2> HIDE DEF EndsAt, Probe
  <2>7. EndsAt(table', table[t].orderId, k) BY <2>2, <2>4, <2>5, <2>6, ChainKept
  <2> QED BY <2>1, <2>3, <2>7
<1>4. ChainsUnbroken' BY <1>3 DEF ChainsUnbroken
<1> QED BY <1>1, <1>4 DEF TableInv

LEMMA InsertNewInv ==
  ASSUME TableInv, NEW id \in OrderIds, NEW v \in Values, InsertNew(id, v)
  PROVE  TableInv'
<1>1. PICK k \in Slots :
        /\ EndsAt(table, id, k) /\ ~table[Probe(id, k)].occupied
        /\ table' = [table EXCEPT ![Probe(id, k)] =
             [occupied |-> TRUE, cancelled |-> FALSE, orderId |-> id, val |-> v]]
        /\ occupiedCount' = occupiedCount + 1 /\ activeCount' = activeCount + 1
  BY DEF InsertNew
<1> DEFINE s == Probe(id, k)
<1>2. s \in Slots BY ProbeInRange
<1>3. TypeOK' BY <1>1, <1>2 DEF TableInv, TypeOK
<1>4. /\ table'[s].occupied /\ table'[s].orderId = id
      /\ \A t \in Slots \ {s} : table'[t] = table[t]
  BY <1>1, <1>2 DEF TableInv, TypeOK
<1>5. \A t \in Slots : table[t].occupied =>
        table'[t].occupied /\ table'[t].orderId = table[t].orderId
  BY <1>1, <1>4
<1>6. EndsAt(table', id, k) BY <1>1, <1>4, <1>5, ChainKept
<1> HIDE DEF s
<1>7. ASSUME NEW t \in Slots, table'[t].occupied
      PROVE  \E j \in Slots : /\ t = Probe(table'[t].orderId, j)
                              /\ EndsAt(table', table'[t].orderId, j)
  <2>1. CASE t = s BY <1>4, <1>6, <2>1 DEF s
  <2>2. CASE t # s
    <3>1. table'[t] = table[t] /\ table[t].occupied BY <1>4, <1>7, <2>2
    <3>2. table[t].orderId \in OrderIds BY <3>1 DEF TableInv, TypeOK
    <3>3. PICK j \in Slots : /\ t = Probe(table[t].orderId, j)
                             /\ EndsAt(table, table[t].orderId, j)
      BY <3>1 DEF TableInv, ChainsUnbroken
    <3>4. EndsAt(table', table[t].orderId, j) BY <1>5, <3>1, <3>2, <3>3, ChainKept
    <3> QED BY <3>1, <3>3, <3>4
  <2> QED BY <2>1, <2>2
<1>8. ChainsUnbroken' BY <1>7 DEF ChainsUnbroken
<1> QED BY <1>3, <1>8 DEF TableInv

\* The slot an operation writes is in range, and is the id's own or unused.
LEMMA EndSlot ==
  ASSUME TableInv, NEW id \in OrderIds, NEW k \in Slots, EndsAt(table, id, k)
  PROVE  /\ Probe(id, k) \in Slots
         /\ table[Probe(id, k)] \in RecordType
         /\ table[Probe(id, k)].occupied => /\ table[Probe(id, k)].orderId = id
                                            /\ table[Probe(id, k)].val \in Values
BY ProbeInRange DEF EndsAt, Stops, TableInv, TypeOK, RecordType

LEMMA InsertOverInv ==
  ASSUME TableInv, NEW id \in OrderIds, NEW v \in Values, InsertOver(id, v)
  PROVE  TableInv'
<1>1. PICK s \in Slots :
        /\ Found(id, s)
        /\ table' = [table EXCEPT ![s] = [table[s] EXCEPT !.cancelled = FALSE, !.val = v]]
        /\ activeCount' = IF table[s].cancelled THEN activeCount + 1 ELSE activeCount
        /\ occupiedCount' = occupiedCount
  BY DEF InsertOver
<1> DEFINE r == [table[s] EXCEPT !.cancelled = FALSE, !.val = v]
<1>2. table[s] \in RecordType BY <1>1, EndSlot DEF Found
<1>3. /\ r \in RecordType /\ r.occupied = table[s].occupied
      /\ r.orderId = table[s].orderId /\ r.val \in Values
  BY <1>2 DEF RecordType
<1>4. occupiedCount' \in Nat /\ activeCount' \in Nat BY <1>1 DEF TableInv, TypeOK
<1>5. table' = [table EXCEPT ![s] = r] BY <1>1
<1> QED BY <1>2, <1>3, <1>4, <1>5, SameKeys

LEMMA EraseInv ==
  ASSUME TableInv, NEW id \in OrderIds, Erase(id)
  PROVE  TableInv'
<1>1. PICK s \in Slots :
        /\ Found(id, s) /\ table' = [table EXCEPT ![s].cancelled = TRUE]
        /\ activeCount' = IF activeCount > 0 THEN activeCount - 1 ELSE activeCount
        /\ occupiedCount' = occupiedCount
  BY DEF Erase
<1> DEFINE r == [table[s] EXCEPT !.cancelled = TRUE]
<1>2. table[s] \in RecordType /\ table[s].occupied /\ table[s].val \in Values
  BY <1>1, EndSlot DEF Found
<1>3. /\ r \in RecordType /\ r.occupied = table[s].occupied
      /\ r.orderId = table[s].orderId /\ r.val \in Values
  BY <1>2 DEF RecordType
<1>4. occupiedCount' \in Nat /\ activeCount' \in Nat BY <1>1 DEF TableInv, TypeOK
<1>5. table' = [table EXCEPT ![s] = r] BY <1>1
<1> QED BY <1>3, <1>4, <1>5, SameKeys

LEMMA WriteThroughInv ==
  ASSUME TableInv, NEW id \in OrderIds, NEW v \in Values, NEW c \in BOOLEAN,
         WriteThrough(id, v, c)
  PROVE  TableInv'
<1>1. PICK s \in Slots :
        /\ Found(id, s)
        /\ table' = [table EXCEPT ![s] = [table[s] EXCEPT !.val = v, !.cancelled = c]]
        /\ activeCount' = activeCount /\ occupiedCount' = occupiedCount
  BY DEF WriteThrough
<1> DEFINE r == [table[s] EXCEPT !.val = v, !.cancelled = c]
<1>2. table[s] \in RecordType BY <1>1, EndSlot DEF Found
<1>3. /\ r \in RecordType /\ r.occupied = table[s].occupied
      /\ r.orderId = table[s].orderId /\ r.val \in Values
  BY <1>2 DEF RecordType
<1>4. occupiedCount' \in Nat /\ activeCount' \in Nat BY <1>1 DEF TableInv, TypeOK
<1>5. table' = [table EXCEPT ![s] = r] BY <1>1
<1> QED BY <1>3, <1>4, <1>5, SameKeys

LEMMA NextTableInv == TableInv /\ [Next]_tableVars => TableInv'
<1> SUFFICES ASSUME TableInv, [Next]_tableVars PROVE TableInv' OBVIOUS
<1>1. CASE UNCHANGED tableVars
  BY <1>1 DEF tableVars, TableInv, TypeOK, ChainsUnbroken
<1>2. ASSUME NEW id \in OrderIds, NEW v \in Values, Insert(id, v) PROVE TableInv'
  BY <1>1, <1>2, InsertNewInv, InsertOverInv DEF Insert, InsertFails
<1>3. ASSUME NEW id \in OrderIds, Erase(id) PROVE TableInv'
  BY <1>3, EraseInv
<1>4. ASSUME NEW id \in OrderIds, NEW v \in Values, NEW c \in BOOLEAN,
             WriteThrough(id, v, c)
      PROVE  TableInv'
  BY <1>4, WriteThroughInv
<1>5. CASE Clear
  BY <1>5, InitTableInv DEF Clear, Init, NoRecord, TableInv, TypeOK, ChainsUnbroken
<1> QED BY <1>1, <1>2, <1>3, <1>4, <1>5 DEF Next

\* Probe chains stay unbroken through every insert, erase and write through a
\* pointer, for every hash function: tombstones never hide a stored order.
THEOREM TableInvariant == Spec => []TableInv
BY InitTableInv, NextTableInv, PTL DEF Spec

\* Every slot in use holds a proper order under a proper id, also after insert wrote
\* over a tombstone and the book wrote through the pointer lookup gave it.
THEOREM TableTypes == Spec => []TypeOK
<1>1. TableInv => TypeOK BY DEF TableInv
<1> QED BY <1>1, TableInvariant, PTL

\* The part of it that lookup depends on.
THEOREM ProbeChainsUnbroken == Spec => []ChainsUnbroken
<1>1. TableInv => ChainsUnbroken BY DEF TableInv
<1> QED BY <1>1, TableInvariant, PTL

LEMMA ChainsMakeUnique == TableInv => IdsUnique
<1> SUFFICES ASSUME TableInv, NEW s \in Slots, NEW t \in Slots,
                    table[s].occupied, table[t].occupied,
                    table[s].orderId = table[t].orderId
             PROVE  s = t
  BY DEF IdsUnique
<1> DEFINE id == table[s].orderId
<1>1. PICK j \in Slots : s = Probe(id, j) /\ EndsAt(table, id, j)
  BY DEF TableInv, ChainsUnbroken
<1>2. PICK k \in Slots : t = Probe(id, k) /\ EndsAt(table, id, k)
  BY DEF TableInv, ChainsUnbroken
<1>3. j = k BY <1>1, <1>2, EndUnique
<1> QED BY <1>1, <1>2, <1>3

\* No id ever occupies two slots, so an update cannot miss a second copy.
THEOREM OneSlotPerOrder == Spec => []IdsUnique
BY TableInvariant, ChainsMakeUnique, PTL

--------------------------------------------------------------------------------
(* The counts, and when the table refuses                                  *)

LEMMA OccupiedFinite ==
  /\ IsFiniteSet(Occupied) /\ Cardinality(Occupied) \in Nat
  /\ IsFiniteSet(Live) /\ Cardinality(Live) \in Nat
  /\ Cardinality(Occupied) <= Capacity
<1>1. Occupied \in SUBSET Slots /\ Live \in SUBSET Occupied BY DEF Occupied, Live
<1>2. IsFiniteSet(Occupied) /\ Cardinality(Occupied) <= Capacity
  BY <1>1, SlotsFinite, FS_Subset
<1>3. IsFiniteSet(Live) BY <1>1, <1>2, FS_Subset
<1> QED BY <1>2, <1>3, FS_CardinalityType

LEMMA InitCounts == Init => CountsBoundTable
<1> SUFFICES ASSUME Init PROVE CountsBoundTable OBVIOUS
<1>1. Occupied = {} /\ Live = {} BY DEF Init, NoRecord, Occupied, Live
<1> QED BY <1>1, FS_EmptySet DEF Init, CountsBoundTable

LEMMA NextCounts ==
  ASSUME TableInv, CountsBoundTable, [Next]_tableVars
  PROVE  CountsBoundTable'
<1> USE DEF CountsBoundTable
<1>1. CASE UNCHANGED tableVars BY <1>1 DEF tableVars, Occupied, Live
<1>2. ASSUME NEW id \in OrderIds, NEW v \in Values, InsertNew(id, v)
      PROVE  CountsBoundTable'
  <2>1. PICK s \in Slots :
          /\ ~table[s].occupied
          /\ table' = [table EXCEPT ![s] =
               [occupied |-> TRUE, cancelled |-> FALSE, orderId |-> id, val |-> v]]
          /\ occupiedCount' = occupiedCount + 1 /\ activeCount' = activeCount + 1
    BY <1>2, ProbeInRange DEF InsertNew
  <2>2. /\ Occupied' = Occupied \cup {s} /\ s \notin Occupied
        /\ Live' = Live \cup {s} /\ s \notin Live
    BY <2>1 DEF Occupied, Live, TableInv, TypeOK
  <2>3. /\ Cardinality(Occupied') = Cardinality(Occupied) + 1
        /\ Cardinality(Live') = Cardinality(Live) + 1
    BY <2>2, OccupiedFinite, FS_AddElement
  <2> QED BY <2>1, <2>3, OccupiedFinite DEF TableInv, TypeOK
<1>3. ASSUME NEW id \in OrderIds, NEW v \in Values, InsertOver(id, v)
      PROVE  CountsBoundTable'
  <2>1. PICK s \in Slots :
          /\ table[s].occupied
          /\ table' = [table EXCEPT ![s] = [table[s] EXCEPT !.cancelled = FALSE, !.val = v]]
          /\ activeCount' = IF table[s].cancelled THEN activeCount + 1 ELSE activeCount
          /\ occupiedCount' = occupiedCount
    BY <1>3 DEF InsertOver, Found
  <2>2. Occupied' = Occupied /\ Live' = Live \cup {s}
    BY <2>1 DEF Occupied, Live, TableInv, TypeOK
  <2>3. s \in Live <=> ~table[s].cancelled BY <2>1 DEF Occupied, Live
  <2>4. Cardinality(Live') =
          IF s \in Live THEN Cardinality(Live) ELSE Cardinality(Live) + 1
    BY <2>2, OccupiedFinite, FS_AddElement
  <2> QED BY <2>1, <2>2, <2>3, <2>4, OccupiedFinite DEF TableInv, TypeOK
<1>4. ASSUME NEW id \in OrderIds, Erase(id) PROVE CountsBoundTable'
  <2>1. PICK s \in Slots :
          /\ table[s].occupied /\ ~table[s].cancelled
          /\ table' = [table EXCEPT ![s].cancelled = TRUE]
          /\ activeCount' = IF activeCount > 0 THEN activeCount - 1 ELSE activeCount
          /\ occupiedCount' = occupiedCount
    BY <1>4 DEF Erase, Found
  <2>2. Occupied' = Occupied /\ Live' = Live \ {s} /\ s \in Live
    BY <2>1 DEF Occupied, Live, TableInv, TypeOK
  <2>3. Cardinality(Live') = Cardinality(Live) - 1
    BY <2>2, OccupiedFinite, FS_RemoveElement
  <2>4. Cardinality(Live') \in Nat BY OccupiedFinite, <2>2, FS_RemoveElement, FS_CardinalityType
  <2> QED BY <2>1, <2>2, <2>3, <2>4, OccupiedFinite DEF TableInv, TypeOK
<1>5. ASSUME NEW id \in OrderIds, NEW v \in Values, NEW c \in BOOLEAN,
             WriteThrough(id, v, c)
      PROVE  CountsBoundTable'
  <2>1. PICK s \in Slots :
          /\ table[s].occupied /\ ~table[s].cancelled
          /\ table' = [table EXCEPT ![s] = [table[s] EXCEPT !.val = v, !.cancelled = c]]
          /\ activeCount' = activeCount /\ occupiedCount' = occupiedCount
    BY <1>5 DEF WriteThrough, Found
  <2>2. Occupied' = Occupied /\ Live' \in SUBSET Live
    BY <2>1 DEF Occupied, Live, TableInv, TypeOK
  <2>3. IsFiniteSet(Live') /\ Cardinality(Live') <= Cardinality(Live)
    BY <2>2, OccupiedFinite, FS_Subset
  <2>4. Cardinality(Live') \in Nat BY <2>3, FS_CardinalityType
  <2> QED BY <2>1, <2>2, <2>3, <2>4, OccupiedFinite DEF TableInv, TypeOK
<1>6. CASE Clear
  <2>1. Occupied' = {} /\ Live' = {} BY <1>6 DEF Clear, NoRecord, Occupied, Live
  <2> QED BY <1>6, <2>1, FS_EmptySet DEF Clear
<1> QED
  BY <1>1, <1>2, <1>3, <1>4, <1>5, <1>6 DEF Next, Insert, InsertFails

\* occupiedCount is the number of used slots, and no live order is missing from
\* activeCount.
THEOREM CountsAreBounds == Spec => []CountsBoundTable
<1>1. Init => TableInv /\ CountsBoundTable BY InitTableInv, InitCounts
<1>2. TableInv /\ CountsBoundTable /\ [Next]_tableVars => TableInv' /\ CountsBoundTable'
  BY NextTableInv, NextCounts
<1> QED BY <1>1, <1>2, PTL DEF Spec

\* insert returns nullptr only when every slot is taken, whatever the hash: linear
\* probing with the mask visits all of them.
THEOREM RefusalMeansFull == Spec => []RefusesOnlyWhenFull
<1>1. CountsBoundTable => RefusesOnlyWhenFull
  <2> SUFFICES ASSUME CountsBoundTable, NEW id \in OrderIds, Exhausted(table, id)
               PROVE  occupiedCount = Capacity
    BY DEF RefusesOnlyWhenFull
  <2>1. ASSUME NEW s \in Slots PROVE table[s].occupied
    <3>1. PICK k \in Slots : Probe(id, k) = s BY ProbeSurjective
    <3> QED BY <3>1 DEF Exhausted, Stops
  <2>2. Occupied = Slots BY <2>1 DEF Occupied
  <2> QED BY <2>2, SlotsFinite DEF CountsBoundTable
<1> QED BY <1>1, CountsAreBounds, PTL

--------------------------------------------------------------------------------
(* The table implements the map.                                           *)

LEMMA EntryStored ==
  ASSUME TableInv, NEW id \in OrderIds, NEW s \in Slots, Stores(table, id, s)
  PROVE  Entry(table, id) = [val |-> table[s].val, cancelled |-> table[s].cancelled]
<1>1. \A t \in Slots : Stores(table, id, t) => t = s
  BY ChainsMakeUnique DEF IdsUnique, Stores
<1> QED BY <1>1 DEF Entry

LEMMA EntryKnown ==
  ASSUME TableInv, NEW id \in OrderIds
  PROVE  id \in Map!Known <=> \E s \in Slots : Stores(table, id, s)
<1>1. ASSUME NEW s \in Slots, Stores(table, id, s) PROVE Entry(table, id) # NoOrder
  <2>1. table[s].val \in Values /\ table[s].cancelled \in BOOLEAN
    BY <1>1 DEF Stores, TableInv, TypeOK
  <2> QED BY <1>1, <2>1, EntryStored
<1>2. (~\E s \in Slots : Stores(table, id, s)) => Entry(table, id) = NoOrder
  BY DEF Entry
<1> QED BY <1>1, <1>2 DEF Map!Known, Contents

\* A step that writes one slot, for its id, changes the map at that id only.
LEMMA OneEntryChanges ==
  ASSUME TableInv, TableInv', NEW id \in OrderIds, NEW s \in Slots,
         table[s].occupied => table[s].orderId = id,
         table'[s].occupied, table'[s].orderId = id,
         \A t \in Slots : t # s => table'[t] = table[t]
  PROVE  Contents' = [Contents EXCEPT ![id] =
           [val |-> table'[s].val, cancelled |-> table'[s].cancelled]]
<1>1. Entry(table', id) = [val |-> table'[s].val, cancelled |-> table'[s].cancelled]
  <2>1. \A t \in Slots : Stores(table', id, t) => t = s
    <3>1. IdsUnique' BY ChainsMakeUnique, PTL
    <3> QED BY <3>1 DEF IdsUnique, Stores
  <2>2. Stores(table', id, s) BY DEF Stores
  <2> QED BY <2>1, <2>2 DEF Entry
<1>2. ASSUME NEW i \in OrderIds, i # id PROVE Entry(table', i) = Entry(table, i)
  <2>1. \A t \in Slots : Stores(table', i, t) <=> Stores(table, i, t)
    BY <1>2 DEF Stores
  <2>2. CASE \E t \in Slots : Stores(table, i, t)
    <3>1. PICK t \in Slots : Stores(table, i, t) BY <2>2
    <3>2. t # s BY <1>2, <3>1 DEF Stores
    <3>3. Entry(table, i) = [val |-> table[t].val, cancelled |-> table[t].cancelled]
      BY <3>1, EntryStored
    <3>4. \A u \in Slots : Stores(table', i, u) => u = t
      BY <2>1, <3>1, ChainsMakeUnique DEF IdsUnique, Stores
    <3>5. Entry(table', i) = [val |-> table'[t].val, cancelled |-> table'[t].cancelled]
      BY <2>1, <3>1, <3>4 DEF Entry
    <3> QED BY <3>2, <3>3, <3>5
  <2>3. CASE ~\E t \in Slots : Stores(table, i, t) BY <2>1, <2>3 DEF Entry
  <2> QED BY <2>2, <2>3
<1> QED BY <1>1, <1>2 DEF Contents

LEMMA KnownFits ==
  ASSUME TableInv, NEW s \in Slots, ~table[s].occupied
  PROVE  Cardinality(Map!Known) < Capacity
<1> DEFINE f == [t \in Occupied |-> table[t].orderId]
<1>1. Map!Known = {id \in OrderIds : \E t \in Slots : Stores(table, id, t)}
  BY EntryKnown DEF Map!Known
<1>2. \A t \in Occupied : table[t].orderId \in Map!Known
  BY <1>1 DEF Occupied, Stores, TableInv, TypeOK
<1>3. \A id \in Map!Known : \E t \in Occupied : f[t] = id
  BY <1>1 DEF Occupied, Stores
<1>4. f \in Surjection(Occupied, Map!Known) BY <1>2, <1>3 DEF Surjection
<1>5. IsFiniteSet(Map!Known) /\ Cardinality(Map!Known) <= Cardinality(Occupied)
  BY <1>4, OccupiedFinite, FS_Surjection
<1>6. Cardinality(Occupied) <= Capacity - 1
  <2>1. Occupied \in SUBSET (Slots \ {s}) BY DEF Occupied
  <2>2. IsFiniteSet(Slots \ {s}) /\ Cardinality(Slots \ {s}) = Capacity - 1
    BY SlotsFinite, FS_RemoveElement
  <2> QED BY <2>1, <2>2, FS_Subset
<1>7. Cardinality(Map!Known) \in Nat BY <1>5, FS_CardinalityType
<1> QED BY <1>5, <1>6, <1>7, OccupiedFinite

\* OrderTable is the map the order book takes it for: lookup finds what the last
\* insert or write through a pointer left under the id; nothing else touches it.
THEOREM TableImplementsMap == Spec => ImplementsMap
<1>1. Init => Map!Init
  <2> SUFFICES ASSUME Init, NEW id \in OrderIds PROVE Entry(table, id) = NoOrder
    BY DEF Map!Init, Contents
  <2>1. \A s \in Slots : ~Stores(table, id, s) BY DEF Init, NoRecord, Stores
  <2> QED BY <2>1 DEF Entry
<1>2. TableInv /\ TableInv' /\ [Next]_tableVars => [Map!Next]_Contents
  <2> SUFFICES ASSUME TableInv, TableInv', [Next]_tableVars
               PROVE  Map!Next \/ UNCHANGED Contents
    OBVIOUS
  <2>1. CASE UNCHANGED tableVars BY <2>1 DEF tableVars, Contents
  <2>2. ASSUME NEW id \in OrderIds, NEW v \in Values, InsertNew(id, v)
        PROVE  Map!Put(id, v)
    <3>1. PICK s \in Slots :
            /\ ~table[s].occupied
            /\ table' = [table EXCEPT ![s] =
                 [occupied |-> TRUE, cancelled |-> FALSE, orderId |-> id, val |-> v]]
      BY <2>2, ProbeInRange DEF InsertNew
    <3>2. /\ table'[s].occupied /\ table'[s].orderId = id
          /\ table'[s].val = v /\ table'[s].cancelled = FALSE
          /\ \A t \in Slots : t # s => table'[t] = table[t]
      BY <3>1 DEF TableInv, TypeOK
    <3>3. Contents' = [Contents EXCEPT ![id] = [val |-> v, cancelled |-> FALSE]]
      <4>1. table[s].occupied => table[s].orderId = id BY <3>1
      <4>2. Contents' = [Contents EXCEPT ![id] =
              [val |-> table'[s].val, cancelled |-> table'[s].cancelled]]
        BY <3>2, <4>1, OneEntryChanges
      <4> QED BY <3>2, <4>2
    <3>4. Map!Cardinality(Map!Known) < Capacity
      BY <3>1, KnownFits DEF Map!Cardinality, Cardinality, Map!IsFiniteSet, IsFiniteSet
    <3> QED BY <3>3, <3>4 DEF Map!Put
  <2>3. ASSUME NEW id \in OrderIds, NEW v \in Values, InsertOver(id, v)
        PROVE  Map!Put(id, v)
    <3>1. PICK s \in Slots :
            /\ Found(id, s)
            /\ table' = [table EXCEPT ![s] = [table[s] EXCEPT !.cancelled = FALSE, !.val = v]]
      BY <2>3 DEF InsertOver
    <3>2. table[s] \in RecordType /\ table[s].orderId = id /\ table[s].occupied
      BY <3>1, EndSlot DEF Found
    <3>3. /\ table'[s].occupied /\ table'[s].orderId = id
          /\ table'[s].val = v /\ table'[s].cancelled = FALSE
          /\ \A t \in Slots : t # s => table'[t] = table[t]
      BY <3>1, <3>2 DEF TableInv, TypeOK, RecordType
    <3>4. Contents' = [Contents EXCEPT ![id] = [val |-> v, cancelled |-> FALSE]]
      BY <3>2, <3>3, OneEntryChanges
    <3>5. id \in Map!Known BY <3>1, <3>2, EntryKnown DEF Stores
    <3> QED BY <3>4, <3>5 DEF Map!Put
  <2>4. ASSUME NEW id \in OrderIds, NEW s \in Slots, Found(id, s), ~table[s].cancelled,
               NEW v \in Values, NEW c \in BOOLEAN,
               table' = [table EXCEPT ![s] = [table[s] EXCEPT !.val = v, !.cancelled = c]]
        PROVE  \E r \in Map!Records : Map!Amend(id, r)
    <3>1. table[s] \in RecordType /\ table[s].orderId = id /\ table[s].occupied
      BY <2>4, EndSlot DEF Found
    <3>2. /\ table'[s].occupied /\ table'[s].orderId = id
          /\ table'[s].val = v /\ table'[s].cancelled = c
          /\ \A t \in Slots : t # s => table'[t] = table[t]
      BY <2>4, <3>1 DEF TableInv, TypeOK, RecordType
    <3>3. Contents' = [Contents EXCEPT ![id] = [val |-> v, cancelled |-> c]]
      BY <3>1, <3>2, OneEntryChanges
    <3>4. id \in Map!Known BY <3>1, EntryKnown DEF Stores
    <3>5. ~Contents[id].cancelled BY <2>4, <3>1, EntryStored DEF Contents, Stores
    <3>6. [val |-> v, cancelled |-> c] \in Map!Records BY DEF Map!Records
    <3> QED BY <3>3, <3>4, <3>5, <3>6 DEF Map!Amend
  <2>5. ASSUME NEW id \in OrderIds, Erase(id)
        PROVE  \E r \in Map!Records : Map!Amend(id, r)
    <3>1. PICK s \in Slots : /\ Found(id, s) /\ ~table[s].cancelled
                             /\ table' = [table EXCEPT ![s].cancelled = TRUE]
      BY <2>5 DEF Erase
    <3>2. table[s] \in RecordType /\ table[s].val \in Values
      BY <3>1, EndSlot DEF Found
    <3> DEFINE v == table[s].val
    <3>3. [table[s] EXCEPT !.val = v, !.cancelled = TRUE] =
            [table[s] EXCEPT !.cancelled = TRUE]
      BY <3>2 DEF RecordType
    <3>4. table' = [table EXCEPT ![s] = [table[s] EXCEPT !.val = v, !.cancelled = TRUE]]
      BY <3>1, <3>3
    <3> QED BY <2>4, <3>1, <3>2, <3>4
  <2>6. ASSUME NEW id \in OrderIds, NEW v \in Values, NEW c \in BOOLEAN,
               WriteThrough(id, v, c)
        PROVE  \E r \in Map!Records : Map!Amend(id, r)
    BY <2>4, <2>6 DEF WriteThrough
  <2>7. CASE Clear
    <3>1. ASSUME NEW id \in OrderIds PROVE Entry(table', id) = NoOrder
      <4>1. \A s \in Slots : ~Stores(table', id, s) BY <2>7 DEF Clear, NoRecord, Stores
      <4> QED BY <4>1 DEF Entry
    <3> QED BY <3>1 DEF Contents, Map!Clear, Map!Next
  <2> QED
    BY <2>1, <2>2, <2>3, <2>5, <2>6, <2>7 DEF Next, Insert, InsertFails, Map!Next
<1> QED BY <1>1, <1>2, TableInvariant, PTL DEF Spec, ImplementsMap, Map!Spec

================================================================================
