------------------------- MODULE JournalTelemetryProofs -------------------------
(***************************************************************************)
(* Proofs about what the program keeps and tells of its work.  About       *)
(* WALJournal, for every file size, page size and number of messages: what *)
(* a replay yields while no mishap befell the file.  About Telemetry, for  *)
(* every size of the tape, the window and a batch, and any set of clients: *)
(* what a snapshot and a scrape show of threads that did not stop for them. *)
(***************************************************************************)
EXTENDS WALJournal, Telemetry, Arithmetic, SequenceTheorems, TLAPS

USE WALAssumption

LEMMA SizeRange ==
  ASSUME TypeOK
  PROVE  maxSize \in Nat /\ maxSize <= FileUnits
BY DEF TypeOK

LEMMA HalfRange ==
  ASSUME NEW size \in Nat
  PROVE  RecordsInFile(size) \in Nat /\ 2 * RecordsInFile(size) <= size
BY DEF RecordsInFile, RecordUnits

LEMMA TruncatedType ==
  ASSUME NEW n, NEW file \in [Units -> 0 .. n], n \in Nat, NEW size
  PROVE  Truncated(file, size) \in [Units -> 0 .. n]
BY DEF Truncated

\* The records of the running append and before lie in the file.
LEMMA RoomForAppend ==
  ASSUME TypeOK, AppendHolds, appending
  PROVE  /\ RestUnit(writeOffset) < FileUnits
         /\ RestUnit(writeOffset) \in Units /\ HeadUnit(writeOffset) \in Units
         /\ writeOffset \in Records
BY SizeRange DEF TypeOK, AppendHolds, Fits, RecordUnits, HeadUnit, RestUnit, Units,
  Records

LEMMA RecordsInUnits ==
  ASSUME NEW i \in Records
  PROVE  i \in Nat /\ HeadUnit(i) \in Units
BY DEF Records, HeadUnit, RecordUnits, Units

\* No two units of two records, nor of one, are the same.
LEMMA UnitsDistinct ==
  ASSUME NEW i \in Nat, NEW j \in Nat
  PROVE  /\ HeadUnit(i) = HeadUnit(j) <=> i = j
         /\ RestUnit(i) = RestUnit(j) <=> i = j
         /\ HeadUnit(i) # RestUnit(j)
BY DEF HeadUnit, RestUnit, RecordUnits

\* A store changes the one unit it writes, of the record at the append offset.
LEMMA StoreChangesUnit ==
  ASSUME TypeOK, AppendHolds, NEW part \in Parts, Store(part)
  PROVE  /\ cache' = [cache EXCEPT ![IF part = 0 THEN HeadUnit(writeOffset)
                                     ELSE RestUnit(writeOffset)] = messages]
         /\ writeOffset \in Nat
<1>1. writeOffset \in Nat BY DEF TypeOK
<1>2. HeadUnit(writeOffset) = RecordUnits * writeOffset + 0
  BY <1>1 DEF HeadUnit, RecordUnits
<1>3. RestUnit(writeOffset) = RecordUnits * writeOffset + 1 BY DEF RestUnit
<1> QED BY <1>1, <1>2, <1>3 DEF Store, Parts

LEMMA HeadsAfterStore ==
  ASSUME TypeOK, AppendHolds, NEW part \in Parts, Store(part), NEW i \in Records
  PROVE  HeadAt(i)' = IF part = 0 /\ i = writeOffset THEN messages ELSE HeadAt(i)
<1>1. i \in Nat /\ HeadUnit(i) \in Units BY RecordsInUnits
<1>2. cache \in [Units -> 0 .. messages] BY DEF TypeOK
<1>3. /\ HeadUnit(i) = HeadUnit(writeOffset) <=> i = writeOffset
      /\ HeadUnit(i) # RestUnit(writeOffset)
  BY <1>1, StoreChangesUnit, UnitsDistinct
<1>4. cache'[HeadUnit(i)] = IF part = 0 /\ i = writeOffset THEN messages
                            ELSE cache[HeadUnit(i)]
  BY <1>1, <1>2, <1>3, StoreChangesUnit
<1> QED BY <1>4 DEF HeadAt

LEMMA RestsAfterStore ==
  ASSUME TypeOK, AppendHolds, NEW part \in Parts, Store(part), NEW i \in Records,
         RestUnit(i) < FileUnits, part = 0 \/ i # writeOffset
  PROVE  RestAt(i)' = RestAt(i)
<1>1. i \in Nat BY RecordsInUnits
<1>2. RestUnit(i) \in Units BY <1>1, SizeRange DEF RestUnit, RecordUnits, Units
<1>3. cache \in [Units -> 0 .. messages] BY DEF TypeOK
<1>4. /\ RestUnit(i) = RestUnit(writeOffset) <=> i = writeOffset
      /\ RestUnit(i) # HeadUnit(writeOffset)
  BY <1>1, StoreChangesUnit, UnitsDistinct
<1>5. cache'[RestUnit(i)] = cache[RestUnit(i)]
  BY <1>2, <1>3, <1>4, StoreChangesUnit
<1> QED BY <1>5 DEF RestAt

--------------------------------------------------------------------------------
(* What open finds: when the first n records have a head, the others have    *)
(* none and one of them lies in the file, it starts at n.                  *)

LEMMA FirstFreeIsFree ==
  ASSUME NEW file, NEW size, Free(file, size) # {}
  PROVE  FirstFree(file, size) \in Free(file, size)
<1>1. Free(file, size) \subseteq Nat BY DEF Free
<1> QED BY <1>1, MinIn DEF FirstFree

LEMMA FirstFreeIsCount ==
  ASSUME NEW file, NEW size \in Sizes, Free(file, size) # {}, NEW n \in Nat,
         \A i \in Records : file[HeadUnit(i)] # 0 <=> i < n
  PROVE  FirstFree(file, size) = n /\ n <= RecordsInFile(size)
<1>1. size \in Nat /\ size <= FileUnits OBVIOUS
<1>2. RecordsInFile(size) \in Nat /\ 2 * RecordsInFile(size) <= size BY <1>1, HalfRange
<1>3. \A i \in 0 .. RecordsInFile(size) - 1 : i \in Records
  BY <1>1, <1>2 DEF Records, HeadUnit, RecordUnits
<1>4. \A i \in Free(file, size) : i \in Nat /\ n <= i /\ i < RecordsInFile(size)
  BY <1>2, <1>3 DEF Free
<1>5. n \in Free(file, size)
  <2>1. PICK k \in Free(file, size) : TRUE OBVIOUS
  <2>2. n \in 0 .. RecordsInFile(size) - 1 BY <1>2, <1>4, <2>1
  <2> QED BY <1>3, <2>2 DEF Free
<1>6. Min(Free(file, size)) = n
  <2>1. \A x \in Free(file, size) : (\A y \in Free(file, size) : x <= y) => x = n
    BY <1>4, <1>5
  <2>2. \A y \in Free(file, size) : n <= y BY <1>4
  <2> QED BY <1>5, <2>1, <2>2 DEF Min
<1> QED BY <1>2, <1>4, <1>5, <1>6 DEF FirstFree

\* A file cut where there was nothing is the same file.
LEMMA NotShrunk ==
  ASSUME NEW size \in Sizes, cache = [u \in Units |-> cache[u]],
         "shrunk" \notin MishapsOfOpen(size)
  PROVE  Truncated(cache, size) = cache
<1>1. \A u \in Units : u \in Nat /\ (u >= size => cache[u] = 0)
  BY DEF MishapsOfOpen, Units
<1>2. \A u \in Units : (IF u < size THEN cache[u] ELSE 0) = cache[u] BY <1>1
<1> QED BY <1>2 DEF Truncated

--------------------------------------------------------------------------------
(* Types, and what holds while an append runs.                              *)

TypeInv == TypeOK /\ AppendHolds

LEMMA InitTypeInv == Init => TypeInv
<1> SUFFICES ASSUME Init PROVE TypeInv OBVIOUS
<1>1. messages = 0 /\ 0 \in 0 .. messages BY DEF Init
<1>2. Empty \in [Units -> 0 .. messages] BY <1>1 DEF Empty
<1>3. cache \in [Units -> 0 .. messages] /\ disk \in [Units -> 0 .. messages]
  BY <1>2 DEF Init
<1>4. TypeOK
  <2>1. mapped \in BOOLEAN /\ appending \in BOOLEAN /\ ~mapped BY DEF Init
  <2>2. messages \in 0 .. MaxMessages /\ accepted \subseteq 1 .. messages
    BY <1>1 DEF Init
  <2>3. /\ maxSize \in Sizes \cup {0} /\ writeOffset \in Nat
        /\ pending \subseteq Parts /\ mishaps \subseteq Mishaps
    BY DEF Init
  <2> QED BY <1>3, <2>1, <2>2, <2>3 DEF TypeOK
<1>5. AppendHolds BY DEF Init, AppendHolds
<1> QED BY <1>4, <1>5 DEF TypeInv

LEMMA NextTypeInv == TypeInv /\ [Next]_walVars => TypeInv'
<1> SUFFICES ASSUME TypeInv, [Next]_walVars PROVE TypeInv' OBVIOUS
<1>0. TypeOK /\ AppendHolds /\ messages \in Nat BY DEF TypeInv, TypeOK
<1>1. ASSUME NEW size \in Sizes, Open(size) PROVE TypeInv'
  <2>1. cache' \in [Units -> 0 .. messages] BY <1>0, <1>1, TruncatedType DEF Open, TypeOK
  <2>2. FirstFree(cache', size) \in 0 .. RecordsInFile(size)
    <3>1. RecordsInFile(size) \in Nat BY HalfRange
    <3>2. CASE Free(cache', size) = {} BY <3>1, <3>2 DEF FirstFree
    <3>3. CASE Free(cache', size) # {}
      <4>1. FirstFree(cache', size) \in Free(cache', size) BY <3>3, FirstFreeIsFree
      <4> QED BY <3>1, <4>1 DEF Free
    <3> QED BY <3>2, <3>3
  <2>3. mishaps' \subseteq Mishaps
    BY <1>0, <1>1 DEF Open, TypeOK, MishapsOfOpen, Mishaps
  <2> QED BY <1>0, <1>1, <2>1, <2>2, <2>3, HalfRange
        DEF TypeInv, Open, TypeOK, AppendHolds
<1>2. ASSUME NEW size \in Sizes, NEW truncates \in BOOLEAN, OpenFails(size, truncates)
      PROVE TypeInv'
  <2>1. cache' \in [Units -> 0 .. messages]
    BY <1>0, <1>2, TruncatedType DEF OpenFails, TypeOK
  <2>2. mishaps' \subseteq Mishaps
    BY <1>0, <1>2 DEF OpenFails, TypeOK, MishapsOfOpen, Mishaps
  <2> QED BY <1>0, <1>2, <2>1, <2>2 DEF TypeInv, OpenFails, TypeOK, AppendHolds
<1>3. CASE AppendBegins
  <2>1. cache \in [Units -> 0 .. messages + 1] /\ disk \in [Units -> 0 .. messages + 1]
    BY <1>0 DEF TypeOK
  <2> QED BY <1>0, <1>3, <2>1
        DEF TypeInv, AppendBegins, TypeOK, AppendHolds, Parts, Mishaps
<1>4. ASSUME NEW part \in Parts, Store(part) PROVE TypeInv'
  <2>1. /\ RestUnit(writeOffset) \in Units /\ HeadUnit(writeOffset) \in Units
        /\ writeOffset \in Nat
    BY <1>0, <1>4, RoomForAppend DEF Store, TypeOK
  <2>2. TypeOK'
    <3>1. messages \in 0 .. messages BY <1>0
    <3>2. cache' \in [Units -> 0 .. messages] BY <1>0, <1>4, <3>1 DEF Store, TypeOK
    <3> QED BY <1>0, <1>4, <3>2 DEF Store, TypeOK
  <2>3. AppendHolds'
    BY <1>0, <1>4, <2>1
    DEF Store, TypeOK, AppendHolds, Parts, HeadAt, RestAt, HeadUnit, RestUnit,
      RecordUnits, Units
  <2> QED BY <2>2, <2>3 DEF TypeInv
<1>5. CASE AppendEnds
  <2>1. writeOffset + 1 <= RecordsInFile(maxSize)
    BY <1>0, <1>5, SizeRange
    DEF AppendEnds, TypeOK, AppendHolds, Fits, RecordsInFile, RecordUnits
  <2>2. messages \in 1 .. messages BY <1>0, <1>5 DEF AppendEnds, AppendHolds
  <2>3. TypeOK'
    <3>1. mapped' \in BOOLEAN /\ appending' \in BOOLEAN
      BY <1>0, <1>5 DEF AppendEnds, TypeOK
    <3>2. /\ writeOffset' \in Nat /\ maxSize' = maxSize
          /\ writeOffset' <= RecordsInFile(maxSize)
      BY <1>0, <1>5, <2>1 DEF AppendEnds, TypeOK
    <3>3. accepted' \subseteq 1 .. messages BY <1>0, <1>5, <2>2 DEF AppendEnds, TypeOK
    <3> QED BY <1>0, <1>5, <3>1, <3>2, <3>3 DEF AppendEnds, TypeOK
  <2>4. AppendHolds' BY <1>5 DEF AppendEnds, AppendHolds
  <2> QED BY <2>3, <2>4 DEF TypeInv
<1>6. CASE Close BY <1>0, <1>6 DEF TypeInv, Close, TypeOK, AppendHolds
<1>7. CASE ProcessCrash
  BY <1>0, <1>7 DEF TypeInv, ProcessCrash, ProcessDies, TypeOK, AppendHolds
<1>8. CASE PowerLoss
  BY <1>0, <1>8 DEF TypeInv, PowerLoss, ProcessDies, TypeOK, AppendHolds, Mishaps
<1>9. ASSUME NEW page \in Pages, WriteBack(page) PROVE TypeInv'
  <2>1. disk' \in [Units -> 0 .. messages] BY <1>0, <1>9 DEF WriteBack, TypeOK
  <2> QED BY <1>0, <1>9, <2>1
        DEF TypeInv, WriteBack, TypeOK, AppendHolds, HeadAt, RestAt
<1>10. CASE UNCHANGED walVars
  BY <1>0, <1>10 DEF TypeInv, walVars, TypeOK, AppendHolds, HeadAt, RestAt
<1> QED BY <1>1, <1>2, <1>3, <1>4, <1>5, <1>6, <1>7, <1>8, <1>9, <1>10 DEF Next

--------------------------------------------------------------------------------
(* Without a mishap the first n records stay the first n, and an append adds *)
(* the next.                                                               *)

\* A step that leaves the file and runs no append.
LEMMA GrownStays ==
  ASSUME NEW n \in Nat, Grown(n), UNCHANGED <<cache, accepted>>, ~appending',
         mapped' => writeOffset' = n
  PROVE  Grown(n)'
BY DEF Grown, HeadAt, Holds, RestAt

LEMMA GrownBegins ==
  ASSUME TypeInv, NEW n \in Nat, Grown(n), AppendBegins
  PROVE  Grown(n)'
<1>1. \A i \in Records : HeadAt(i) \in Nat /\ HeadAt(i) < messages + 1
  BY RecordsInUnits DEF TypeInv, TypeOK, HeadAt
<1> QED BY <1>1 DEF TypeInv, Grown, AppendBegins, HeadAt, Holds, RestAt, Parts

LEMMA GrownStoresHead ==
  ASSUME TypeInv, NEW n \in Nat, Grown(n), Store(0)
  PROVE  writeOffset = n /\ n + 1 \in 0 .. FileUnits /\ Grown(n + 1)'
<1>0. TypeOK /\ AppendHolds /\ appending BY DEF TypeInv, Store
<1>1. writeOffset = n BY <1>0 DEF Grown, Store, AppendHolds
<1>2. writeOffset \in Records /\ RestUnit(writeOffset) < FileUnits
  BY <1>0, RoomForAppend
<1>3. n + 1 \in 0 .. FileUnits BY <1>1, <1>2 DEF Records, HeadUnit, RecordUnits
<1>4. ASSUME NEW i \in Records
      PROVE  /\ HeadAt(i)' = IF i = n THEN messages ELSE HeadAt(i)
             /\ RestUnit(i) < FileUnits => RestAt(i)' = RestAt(i)
  BY <1>0, <1>1, <1>4, HeadsAfterStore, RestsAfterStore DEF Parts
<1>5. messages > 0 /\ messages \notin accepted /\ messages \in Nat
  BY <1>0 DEF AppendHolds, TypeOK
<1>6. \A i \in Records : i \in Nat /\ HeadAt(i) \in Nat
  BY <1>0, RecordsInUnits DEF TypeOK, HeadAt
<1>7. \A i \in Records : HeadAt(i)' # 0 <=> i < n + 1
  BY <1>4, <1>5, <1>6 DEF Grown
<1>8. \A i, j \in Records : i < j /\ j < n + 1 => HeadAt(i)' < HeadAt(j)'
  BY <1>0, <1>1, <1>4, <1>6 DEF Grown
<1>9. \A m \in accepted : \E i \in Records :
        i < n + 1 /\ RestUnit(i) < FileUnits /\ Holds(i, m)'
  BY <1>4, <1>6 DEF Grown, Holds
<1>10. \A i \in Records : i < writeOffset => HeadAt(i)' < messages
  BY <1>0, <1>1, <1>4, <1>6 DEF Grown
<1>11. /\ UNCHANGED <<mapped, writeOffset, appending, accepted, messages>>
       /\ 0 \notin pending'
  BY DEF Store
<1> QED BY <1>0, <1>1, <1>3, <1>7, <1>8, <1>9, <1>10, <1>11 DEF Grown

LEMMA GrownStoresRest ==
  ASSUME TypeInv, NEW n \in Nat, Grown(n), Store(1)
  PROVE  Grown(n)'
<1>0. TypeOK /\ AppendHolds /\ appending BY DEF TypeInv, Store
<1>1. ASSUME NEW i \in Records
      PROVE  /\ HeadAt(i)' = HeadAt(i)
             /\ RestUnit(i) < FileUnits /\ i # writeOffset => RestAt(i)' = RestAt(i)
  BY <1>0, <1>1, HeadsAfterStore, RestsAfterStore DEF Parts
<1>2. \A m \in accepted : \E i \in Records :
        i < n /\ RestUnit(i) < FileUnits /\ Holds(i, m)'
  <2> TAKE m \in accepted
  <2>1. PICK i \in Records : i < n /\ RestUnit(i) < FileUnits /\ Holds(i, m)
    BY DEF Grown
  <2>2. i # writeOffset
    <3>1. 0 \notin pending => HeadAt(writeOffset) \notin accepted
      BY <1>0 DEF AppendHolds
    <3>2. 0 \in pending => n = writeOffset BY <1>0 DEF Grown, AppendHolds
    <3>3. i \in Nat BY RecordsInUnits
    <3> QED BY <2>1, <3>1, <3>2, <3>3 DEF Holds
  <2> QED BY <1>1, <2>1, <2>2 DEF Holds
<1>3. /\ UNCHANGED <<mapped, writeOffset, appending, accepted, messages>>
      /\ 0 \in pending' <=> 0 \in pending
  BY DEF Store
<1> QED BY <1>1, <1>2, <1>3 DEF Grown

LEMMA GrownEnds ==
  ASSUME TypeInv, NEW n \in Nat, Grown(n), AppendEnds
  PROVE  Grown(n)'
<1>0. TypeOK /\ AppendHolds /\ appending /\ pending = {} /\ mapped
  BY DEF TypeInv, AppendEnds, AppendHolds
<1>1. n = writeOffset + 1 /\ writeOffset \in Nat BY <1>0 DEF Grown, TypeOK
<1>2. writeOffset \in Records /\ RestUnit(writeOffset) < FileUnits
  BY <1>0, RoomForAppend
<1>3. Holds(writeOffset, messages) BY <1>0 DEF AppendHolds, Holds
<1>4. \A m \in accepted' : \E i \in Records :
        i < n /\ RestUnit(i) < FileUnits /\ Holds(i, m)
  BY <1>1, <1>2, <1>3 DEF AppendEnds, Grown
<1> QED BY <1>0, <1>1, <1>4 DEF AppendEnds, Grown, HeadAt, RestAt, Holds

JournalInv == mishaps = {} => \E n \in 0 .. FileUnits : Grown(n)

LEMMA InitJournalInv == Init => JournalInv
<1> SUFFICES ASSUME Init PROVE Grown(0) BY DEF JournalInv
<1>1. \A i \in Records : i \in Nat /\ HeadAt(i) = 0
  BY RecordsInUnits DEF Init, Empty, HeadAt
<1> QED BY <1>1 DEF Init, Grown

LEMMA NextJournalInv == TypeInv /\ JournalInv /\ [Next]_walVars => JournalInv'
<1> SUFFICES ASSUME TypeInv, JournalInv, [Next]_walVars, mishaps' = {}
             PROVE  \E n \in 0 .. FileUnits : Grown(n)'
  BY DEF JournalInv
<1>1. mishaps = {}
  BY DEF Next, Open, OpenFails, AppendBegins, Store, AppendEnds, Close, ProcessCrash,
    PowerLoss, ProcessDies, WriteBack, walVars
<1>2. PICK n \in 0 .. FileUnits : Grown(n) BY <1>1 DEF JournalInv
<1>3. n \in Nat /\ TypeOK /\ AppendHolds BY DEF TypeInv
<1>4. cache = [u \in Units |-> cache[u]] BY <1>3 DEF TypeOK
<1>5. ASSUME NEW size \in Sizes, Open(size) PROVE Grown(n)'
  <2>1. MishapsOfOpen(size) = {} BY <1>5 DEF Open
  <2>2. cache' = cache BY <1>4, <1>5, <2>1, NotShrunk DEF Open
  <2>3. Free(cache, size) # {} BY <2>1 DEF MishapsOfOpen
  <2>4. FirstFree(cache, size) = n
    BY <1>2, <1>3, <2>3, FirstFreeIsCount DEF Grown, HeadAt
  <2> QED BY <1>2, <1>3, <1>5, <2>2, <2>4, GrownStays DEF Open
<1>6. ASSUME NEW size \in Sizes, NEW truncates \in BOOLEAN, OpenFails(size, truncates)
      PROVE Grown(n)'
  <2>1. cache' = cache
    <3>1. truncates => "shrunk" \notin MishapsOfOpen(size) BY <1>6 DEF OpenFails
    <3> QED BY <1>4, <1>6, <3>1, NotShrunk DEF OpenFails
  <2> QED BY <1>2, <1>3, <1>6, <2>1, GrownStays DEF OpenFails
<1>7. CASE AppendBegins BY <1>2, <1>3, <1>7, GrownBegins
<1>8. ASSUME NEW part \in Parts, Store(part)
      PROVE \E k \in 0 .. FileUnits : Grown(k)'
  <2>1. CASE part = 0 BY <1>2, <1>3, <1>8, <2>1, GrownStoresHead
  <2>2. CASE part = 1 BY <1>2, <1>3, <1>8, <2>2, GrownStoresRest
  <2> QED BY <2>1, <2>2 DEF Parts
<1>9. CASE AppendEnds BY <1>2, <1>3, <1>9, GrownEnds
<1>10. CASE Close BY <1>2, <1>3, <1>10, GrownStays DEF Close
<1>11. CASE ProcessCrash
  BY <1>2, <1>3, <1>11, GrownStays DEF ProcessCrash, ProcessDies
<1>12. CASE PowerLoss
  <2>1. cache' = cache BY <1>1, <1>12 DEF PowerLoss
  <2> QED BY <1>2, <1>3, <1>12, <2>1, GrownStays DEF PowerLoss, ProcessDies
<1>13. ASSUME NEW page \in Pages, WriteBack(page) PROVE Grown(n)'
  BY <1>2, <1>13 DEF WriteBack, Grown, HeadAt, RestAt, Holds
<1>14. CASE UNCHANGED walVars BY <1>2, <1>14 DEF walVars, Grown, HeadAt, RestAt, Holds
<1> QED BY <1>5, <1>6, <1>7, <1>8, <1>9, <1>10, <1>11, <1>12, <1>13, <1>14 DEF Next

--------------------------------------------------------------------------------
(* The disk lags behind the cache: what it lacks of a record came after what *)
(* it has of a later one only where a page ends between them.              *)

LEMMA RecordUnitsInFile ==
  ASSUME NEW i \in Records
  PROVE  /\ i \in Nat /\ HeadUnit(i) \in Units
         /\ SamePage(i) => /\ i + 1 \in Records /\ HeadUnit(i + 1) \in Units
                           /\ RestUnit(i) \in Units /\ RestUnit(i) < FileUnits
<1>1. i \in Nat /\ HeadUnit(i) \in Units BY RecordsInUnits
<1>2. ASSUME i + 1 \in Records
      PROVE  /\ HeadUnit(i + 1) \in Units /\ RestUnit(i) \in Units
             /\ RestUnit(i) < FileUnits
  BY <1>1, <1>2, SizeRange DEF Records, HeadUnit, RestUnit, RecordUnits, Units
<1> QED BY <1>1, <1>2 DEF SamePage

DiskInv == mishaps = {} => DiskFollows

LEMMA InitDiskInv == Init => DiskInv
<1> SUFFICES ASSUME Init, NEW i \in Records
             PROVE  /\ disk[HeadUnit(i)] = 0
                    /\ SamePage(i) => disk[RestUnit(i)] = RestAt(i)
  BY DEF DiskInv, DiskFollows
<1> QED BY RecordUnitsInFile DEF Init, Empty, RestAt

\* A store adds to records that nothing on the disk follows yet.
LEMMA DiskFollowsStore ==
  ASSUME TypeInv, DiskFollows, NEW n \in Nat, Grown(n), NEW part \in Parts, Store(part)
  PROVE  DiskFollows'
<1>0. TypeOK /\ AppendHolds /\ appending /\ mapped /\ writeOffset \in Nat
  BY DEF TypeInv, Store, TypeOK, AppendHolds
<1>1. writeOffset <= n /\ n <= writeOffset + 1 /\ (part = 0 => n = writeOffset)
  BY <1>0 DEF Grown, Store, AppendHolds
<1> SUFFICES ASSUME NEW i \in Records
             PROVE  /\ disk[HeadUnit(i)] \in {0, HeadAt(i)'}
                    /\ SamePage(i) /\ disk[HeadUnit(i + 1)] # 0 =>
                         disk[RestUnit(i)] = RestAt(i)'
  BY DEF DiskFollows, Store
<1>2. i \in Nat BY RecordUnitsInFile
<1>3. HeadAt(i)' = IF part = 0 /\ i = writeOffset THEN messages ELSE HeadAt(i)
  BY <1>0, HeadsAfterStore
<1>4. disk[HeadUnit(i)] \in {0, HeadAt(i)'}
  <2>1. disk[HeadUnit(i)] \in {0, HeadAt(i)} BY DEF DiskFollows
  <2>2. part = 0 /\ i = writeOffset => HeadAt(i) = 0 BY <1>1 DEF Grown
  <2> QED BY <1>3, <2>1, <2>2
<1>5. ASSUME SamePage(i), disk[HeadUnit(i + 1)] # 0
      PROVE  disk[RestUnit(i)] = RestAt(i)'
  <2>1. i + 1 \in Records /\ RestUnit(i) < FileUnits BY <1>5, RecordUnitsInFile
  <2>2. HeadAt(i + 1) # 0 BY <1>5, <2>1 DEF DiskFollows
  <2>3. i # writeOffset BY <1>1, <1>2, <2>1, <2>2 DEF Grown
  <2>4. RestAt(i)' = RestAt(i) BY <1>0, <2>1, <2>3, RestsAfterStore
  <2> QED BY <1>5, <2>4 DEF DiskFollows
<1> QED BY <1>4, <1>5

\* A page is written as a whole.
LEMMA DiskFollowsWriteBack ==
  ASSUME TypeInv, DiskFollows, NEW page \in Pages, WriteBack(page)
  PROVE  DiskFollows'
<1> SUFFICES ASSUME NEW i \in Records
             PROVE  /\ disk'[HeadUnit(i)] \in {0, HeadAt(i)}
                    /\ SamePage(i) /\ disk'[HeadUnit(i + 1)] # 0 =>
                         disk'[RestUnit(i)] = RestAt(i)
  BY DEF DiskFollows, WriteBack, HeadAt, RestAt
<1>1. ASSUME NEW u \in Units
      PROVE  disk'[u] = IF PageOf(u) = page THEN cache[u] ELSE disk[u]
  BY <1>1 DEF WriteBack
<1>2. HeadUnit(i) \in Units BY RecordUnitsInFile
<1>3. disk'[HeadUnit(i)] \in {0, HeadAt(i)} BY <1>1, <1>2 DEF DiskFollows, HeadAt
<1>4. ASSUME SamePage(i), disk'[HeadUnit(i + 1)] # 0
      PROVE  disk'[RestUnit(i)] = RestAt(i)
  <2>1. HeadUnit(i + 1) \in Units /\ RestUnit(i) \in Units
    BY <1>4, RecordUnitsInFile
  <2>2. PageOf(RestUnit(i)) = PageOf(HeadUnit(i + 1)) BY <1>4 DEF SamePage
  <2>3. CASE PageOf(RestUnit(i)) = page BY <1>1, <2>1, <2>3 DEF RestAt
  <2>4. CASE PageOf(RestUnit(i)) # page
    BY <1>1, <1>4, <2>1, <2>2, <2>4 DEF DiskFollows
  <2> QED BY <2>3, <2>4
<1> QED BY <1>3, <1>4

LEMMA NextDiskInv ==
  TypeInv /\ JournalInv /\ DiskInv /\ [Next]_walVars => DiskInv'
<1> SUFFICES ASSUME TypeInv, JournalInv, DiskInv, [Next]_walVars, mishaps' = {}
             PROVE  DiskFollows'
  BY DEF DiskInv
<1>1. mishaps = {}
  BY DEF Next, Open, OpenFails, AppendBegins, Store, AppendEnds, Close, ProcessCrash,
    PowerLoss, ProcessDies, WriteBack, walVars
<1>2. DiskFollows BY <1>1 DEF DiskInv
<1>3. PICK n \in 0 .. FileUnits : Grown(n) BY <1>1 DEF JournalInv
<1>4. cache = [u \in Units |-> cache[u]] BY DEF TypeInv, TypeOK
<1>5. ASSUME UNCHANGED <<cache, disk>> PROVE DiskFollows'
  BY <1>2, <1>5 DEF DiskFollows, HeadAt, RestAt
<1>6. ASSUME NEW size \in Sizes, Open(size) PROVE DiskFollows'
  <2>1. MishapsOfOpen(size) = {} BY <1>6 DEF Open
  <2>2. cache' = cache BY <1>4, <1>6, <2>1, NotShrunk DEF Open
  <2> QED BY <1>5, <1>6, <2>2 DEF Open
<1>7. ASSUME NEW size \in Sizes, NEW truncates \in BOOLEAN, OpenFails(size, truncates)
      PROVE DiskFollows'
  <2>1. truncates => "shrunk" \notin MishapsOfOpen(size) BY <1>7 DEF OpenFails
  <2>2. cache' = cache BY <1>4, <1>7, <2>1, NotShrunk DEF OpenFails
  <2> QED BY <1>5, <1>7, <2>2 DEF OpenFails
<1>8. CASE AppendBegins BY <1>5, <1>8 DEF AppendBegins
<1>9. ASSUME NEW part \in Parts, Store(part) PROVE DiskFollows'
  BY <1>2, <1>3, <1>9, DiskFollowsStore
<1>10. CASE AppendEnds BY <1>5, <1>10 DEF AppendEnds
<1>11. CASE Close BY <1>5, <1>11 DEF Close
<1>12. CASE ProcessCrash BY <1>5, <1>12 DEF ProcessCrash, ProcessDies
<1>13. CASE PowerLoss
  <2>1. cache' = cache BY <1>1, <1>13 DEF PowerLoss
  <2> QED BY <1>5, <1>13, <2>1 DEF PowerLoss, ProcessDies
<1>14. ASSUME NEW page \in Pages, WriteBack(page) PROVE DiskFollows'
  BY <1>2, <1>14, DiskFollowsWriteBack
<1>15. CASE UNCHANGED walVars BY <1>5, <1>15 DEF walVars
<1> QED BY <1>6, <1>7, <1>8, <1>9, <1>10, <1>11, <1>12, <1>13, <1>14, <1>15 DEF Next

--------------------------------------------------------------------------------
(* A power loss.                                                            *)

CutInv == mishaps = {"power"} => PowerCut

\* The loss itself: what the disk had is in order, and each accepted message has
\* its place in it.
LEMMA PowerLossCuts ==
  ASSUME TypeInv, DiskFollows, NEW n \in Nat, Grown(n), PowerLoss
  PROVE  PowerCut'
<1>0. TypeOK /\ cache' = disk /\ disk' = disk /\ accepted' = accepted /\ ~mapped' /\ ~appending'
  BY DEF TypeInv, PowerLoss, ProcessDies
<1>1. ASSUME NEW i \in Records
      PROVE  /\ i \in Nat /\ HeadAt(i) \in Nat
             /\ HeadAt(i)' \in {0, HeadAt(i)}
             /\ HeadAt(i)' # 0 => i < n
             /\ SamePage(i) /\ HeadAt(i + 1)' # 0 => RestAt(i)' = RestAt(i)
  <2>1. i \in Nat /\ HeadAt(i) \in Nat BY <1>0, RecordUnitsInFile DEF TypeOK, HeadAt
  <2>2. HeadAt(i)' \in {0, HeadAt(i)} BY <1>0 DEF DiskFollows, HeadAt
  <2>3. HeadAt(i)' # 0 => i < n BY <2>2 DEF Grown
  <2>4. SamePage(i) /\ HeadAt(i + 1)' # 0 => RestAt(i)' = RestAt(i)
    BY <1>0 DEF DiskFollows, HeadAt, RestAt
  <2> QED BY <2>1, <2>2, <2>3, <2>4
<1>2. ASSUME NEW i \in Records, NEW j \in Records, i < j, HeadAt(i)' # 0, HeadAt(j)' # 0
      PROVE  HeadAt(i)' < HeadAt(j)'
  BY <1>1, <1>2 DEF Grown
<1>3. ASSUME NEW m \in accepted PROVE \E j \in Records : Placed(j, m)'
  <2>1. PICK j \in Records : j < n /\ Holds(j, m) BY DEF Grown
  <2>2. m \in Nat /\ m > 0 BY <1>0 DEF TypeOK
  <2>3. HeadAt(j) = m /\ RestAt(j) = m BY <2>1 DEF Holds
  <2>4. HeadAt(j)' \in {0, m} BY <1>1, <2>3
  <2>5. \A i \in Records : i < j => HeadAt(i)' < m BY <1>1, <2>1, <2>2, <2>3 DEF Grown
  <2>6. \A i \in Records : i > j => HeadAt(i)' = 0 \/ HeadAt(i)' > m
    BY <1>1, <2>1, <2>3 DEF Grown
  <2>7. SamePage(j) /\ HeadAt(j + 1)' # 0 => RestAt(j)' = m BY <1>1, <2>3
  <2> QED BY <2>4, <2>5, <2>6, <2>7 DEF Placed, SamePage
<1> QED BY <1>0, <1>2, <1>3 DEF PowerCut

\* What keeps the file leaves the cut as it is.
LEMMA CutStays ==
  ASSUME PowerCut, UNCHANGED <<cache, disk, accepted>>, ~appending',
         mapped' => \A i \in 0 .. writeOffset' - 1 : HeadAt(i) # 0
  PROVE  PowerCut'
BY DEF PowerCut, Placed, HeadAt, RestAt, SamePage

\* The scan of open stops at the first record without a head.
LEMMA ScanStopsAtHole ==
  ASSUME NEW size \in Sizes, Free(cache, size) # {}
  PROVE  \A i \in 0 .. FirstFree(cache, size) - 1 : HeadAt(i) # 0
<1>1. Free(cache, size) \subseteq Nat /\ FirstFree(cache, size) = Min(Free(cache, size))
  BY DEF Free, FirstFree
<1>2. /\ FirstFree(cache, size) \in Free(cache, size)
      /\ \A k \in Free(cache, size) : FirstFree(cache, size) <= k
  BY <1>1, MinIn
<1>3. RecordsInFile(size) \in Nat BY HalfRange
<1>4. FirstFree(cache, size) \in Nat /\ FirstFree(cache, size) < RecordsInFile(size)
  BY <1>2, <1>3 DEF Free
<1> SUFFICES ASSUME NEW i \in 0 .. FirstFree(cache, size) - 1, HeadAt(i) = 0
             PROVE  FALSE
  OBVIOUS
<1>5. i \in Free(cache, size) BY <1>3, <1>4 DEF Free, HeadAt
<1> QED BY <1>2, <1>4, <1>5

LEMMA NextCutInv ==
  TypeInv /\ JournalInv /\ DiskInv /\ CutInv /\ [Next]_walVars => CutInv'
<1> SUFFICES ASSUME TypeInv, JournalInv, DiskInv, CutInv, [Next]_walVars,
                    mishaps' = {"power"}
             PROVE  PowerCut'
  BY DEF CutInv
<1>1. cache = [u \in Units |-> cache[u]] /\ disk = [u \in Units |-> disk[u]]
  BY DEF TypeInv, TypeOK
<1>2. CASE PowerLoss
  <2>1. mishaps \in {{}, {"power"}} BY <1>2 DEF PowerLoss
  <2>2. CASE mishaps = {}
    <3>1. PICK n \in 0 .. FileUnits : Grown(n) BY <2>2 DEF JournalInv
    <3> QED BY <1>2, <2>2, <3>1, PowerLossCuts DEF DiskInv
  <2>3. CASE mishaps = {"power"}
    <3>1. PowerCut /\ cache' = cache BY <1>2, <2>3 DEF CutInv, PowerCut, PowerLoss
    <3> QED BY <1>2, <3>1, CutStays DEF PowerLoss, ProcessDies
  <2> QED BY <2>1, <2>2, <2>3
<1>3. ASSUME ~PowerLoss PROVE mishaps = {"power"}
  BY <1>3 DEF Next, Open, OpenFails, MishapsOfOpen, AppendBegins, Store, AppendEnds,
    Close, ProcessCrash, WriteBack, walVars
<1>4. ASSUME ~PowerLoss PROVE PowerCut /\ ~appending /\ cache = disk
  BY <1>3, <1>4 DEF CutInv, PowerCut
<1> SUFFICES ASSUME ~PowerLoss PROVE PowerCut' BY <1>2
<1>5. mapped => \A i \in 0 .. writeOffset - 1 : HeadAt(i) # 0 BY <1>4 DEF PowerCut
<1>6. ASSUME NEW size \in Sizes, Open(size) PROVE PowerCut'
  <2>1. "shrunk" \notin MishapsOfOpen(size) /\ "full" \notin MishapsOfOpen(size)
    BY <1>6 DEF Open
  <2>2. cache' = cache BY <1>1, <1>6, <2>1, NotShrunk DEF Open
  <2>3. Free(cache, size) # {} BY <2>1 DEF MishapsOfOpen
  <2>4. \A i \in 0 .. FirstFree(cache, size) - 1 : HeadAt(i) # 0
    BY <2>3, ScanStopsAtHole
  <2> QED BY <1>4, <1>6, <2>2, <2>4, CutStays DEF Open
<1>7. ASSUME NEW size \in Sizes, NEW truncates \in BOOLEAN, OpenFails(size, truncates)
      PROVE PowerCut'
  <2>1. truncates => "shrunk" \notin MishapsOfOpen(size) BY <1>7 DEF OpenFails
  <2>2. cache' = cache BY <1>1, <1>7, <2>1, NotShrunk DEF OpenFails
  <2> QED BY <1>4, <1>7, <2>2, CutStays DEF OpenFails
<1>8. CASE AppendBegins BY <1>3, <1>8 DEF AppendBegins
<1>9. ASSUME NEW part \in Parts, Store(part) PROVE PowerCut'
  BY <1>4, <1>9 DEF Store
<1>10. CASE AppendEnds BY <1>4, <1>10 DEF AppendEnds
<1>11. CASE Close BY <1>4, <1>11, CutStays DEF Close
<1>12. CASE ProcessCrash BY <1>4, <1>12, CutStays DEF ProcessCrash, ProcessDies
<1>13. ASSUME NEW page \in Pages, WriteBack(page) PROVE PowerCut'
  <2>1. disk' = disk
    <3>1. \A u \in Units : (IF PageOf(u) = page THEN cache[u] ELSE disk[u]) = disk[u]
      BY <1>4
    <3> QED BY <1>1, <1>13, <3>1 DEF WriteBack
  <2> QED BY <1>4, <1>5, <1>13, <2>1, CutStays DEF WriteBack
<1>14. CASE UNCHANGED walVars BY <1>4, <1>5, <1>14, CutStays DEF walVars
<1> QED BY <1>6, <1>7, <1>8, <1>9, <1>10, <1>11, <1>12, <1>13, <1>14 DEF Next

--------------------------------------------------------------------------------

\* Every reachable state satisfies the inductive invariant: the types, what holds
\* while an append runs; without a mishap, a journal that only grows and a disk that
\* lags behind it; and after a power loss, a file with a place for every message.
THEOREM JournalInvariant == Spec => []WALInv
<1> DEFINE Inv == TypeInv /\ JournalInv /\ DiskInv /\ CutInv
<1>1. Init => Inv
  <2>1. Init => CutInv BY DEF Init, CutInv
  <2> QED BY <2>1, InitTypeInv, InitJournalInv, InitDiskInv
<1>2. Inv /\ [Next]_walVars => Inv'
  BY NextTypeInv, NextJournalInv, NextDiskInv, NextCutInv
<1>3. Inv => WALInv BY DEF TypeInv, JournalInv, DiskInv, CutInv, WALInv
<1> QED BY <1>1, <1>2, <1>3, PTL DEF Spec

LEMMA InvariantReplays == WALInv => NothingAcceptedIsLost
<1> SUFFICES ASSUME WALInv, mapped, mishaps = {}
             PROVE  InOrder /\ \A m \in ToRecover : Recovers(m)
  BY DEF NothingAcceptedIsLost
<1>1. PICK n \in 0 .. FileUnits : Grown(n) BY DEF WALInv
<1>2. TypeOK /\ AppendHolds /\ writeOffset \in Nat /\ n \in Nat BY DEF WALInv, TypeOK
<1>3. n = IF appending /\ 0 \notin pending THEN writeOffset + 1 ELSE writeOffset
  BY <1>1 DEF Grown
<1>4. \A i \in Replayed : i \in Records /\ i \in Nat /\ i < n
  <2>1. 2 * writeOffset <= FileUnits
    BY <1>2, SizeRange, HalfRange DEF TypeOK
  <2> QED BY <1>2, <1>3, <2>1 DEF Replayed, Records, HeadUnit, RecordUnits
<1>5. InOrder BY <1>1, <1>4 DEF Grown, InOrder
<1>6. ASSUME NEW m \in ToRecover PROVE Recovers(m)
  <2>1. m \in accepted /\ m \notin Foreign BY DEF ToRecover
  <2>2. PICK i \in Records : i < n /\ Holds(i, m) BY <1>1, <2>1 DEF Grown
  <2>3. i \in Nat BY RecordsInUnits
  <2>4. i < writeOffset
    <3>1. appending /\ 0 \notin pending => HeadAt(writeOffset) \notin accepted
      BY <1>2 DEF AppendHolds
    <3> QED BY <1>2, <1>3, <2>1, <2>2, <2>3, <3>1 DEF Holds
  <2>5. i \in Replayed BY <1>2, <2>1, <2>2, <2>3, <2>4 DEF Replayed, Holds
  <2> QED BY <2>2, <2>5 DEF Recovers
<1> QED BY <1>5, <1>6

\* For every file, page and message count: while the file was neither full nor cut
\* when opened and the power held, a replay yields every message whose append
\* returned true, whole and in order, whatever crashes came between.
THEOREM NothingAcceptedIsEverLost == Spec => []NothingAcceptedIsLost
BY JournalInvariant, InvariantReplays, PTL

LEMMA InvariantKeepsPrefix == WALInv => PowerLossKeepsPrefix
<1> SUFFICES ASSUME WALInv, mapped, mishaps \subseteq {"power"}
             PROVE  /\ InOrder
                    /\ \A m \in ToRecover :
                         (\E i \in Replayed : HeadAt(i) > m) =>
                           \E j \in Replayed :
                             HeadAt(j) = m /\ (SamePage(j) => RestAt(j) = m)
  BY DEF PowerLossKeepsPrefix
<1>1. mishaps \in {{}, {"power"}} OBVIOUS
<1>2. CASE mishaps = {}
  <2>1. InOrder /\ \A m \in ToRecover : Recovers(m)
    BY <1>2, InvariantReplays DEF NothingAcceptedIsLost
  <2> QED BY <2>1 DEF Recovers, Holds
<1>3. CASE mishaps = {"power"}
  <2>1. TypeOK /\ PowerCut BY <1>3 DEF WALInv
  <2>2. writeOffset \in Nat /\ 2 * writeOffset <= FileUnits
    BY <2>1, SizeRange, HalfRange DEF TypeOK
  <2>3. \A i \in 0 .. writeOffset - 1 :
          /\ i \in Nat /\ i \in Records /\ HeadAt(i) # 0
          /\ HeadAt(i) \notin Foreign => i \in Replayed
    BY <2>1, <2>2 DEF PowerCut, Records, HeadUnit, RecordUnits, Replayed
  <2>4. \A i \in Replayed : i \in 0 .. writeOffset - 1 BY DEF Replayed
  <2>5. InOrder BY <2>1, <2>3, <2>4 DEF InOrder, PowerCut
  <2>6. ASSUME NEW m \in ToRecover, NEW i \in Replayed, HeadAt(i) > m
        PROVE  \E j \in Replayed : HeadAt(j) = m /\ (SamePage(j) => RestAt(j) = m)
    <3>1. m \in accepted /\ m \notin Foreign /\ m \in Nat
      BY <2>1 DEF ToRecover, TypeOK
    <3>2. PICK j \in Records : Placed(j, m) BY <2>1, <3>1 DEF PowerCut
    <3>3. i \in Records /\ i \in 0 .. writeOffset - 1 /\ HeadAt(i) # 0
      BY <2>3, <2>4
    <3>4. j \in Nat /\ HeadAt(i) \in Nat
      BY <2>1, <3>3, RecordUnitsInFile DEF TypeOK, HeadAt
    <3>5. j < i
      <4>1. ~(i < j) BY <2>6, <3>1, <3>2, <3>3, <3>4 DEF Placed
      <4>2. i # j BY <2>6, <3>1, <3>2, <3>3, <3>4 DEF Placed
      <4> QED BY <3>3, <3>4, <4>1, <4>2
    <3>6. j \in 0 .. writeOffset - 1 /\ j + 1 \in 0 .. writeOffset - 1
      BY <2>2, <3>3, <3>4, <3>5
    <3>7. HeadAt(j) = m BY <2>3, <3>2, <3>6 DEF Placed
    <3>8. j \in Replayed BY <2>3, <3>1, <3>6, <3>7
    <3>9. SamePage(j) => RestAt(j) = m BY <2>3, <3>2, <3>6 DEF Placed
    <3> QED BY <3>7, <3>8, <3>9
  <2> QED BY <2>5, <2>6
<1> QED BY <1>1, <1>2, <1>3

\* For every file, page and message count: after a power loss, whichever pages had
\* been written back, and until appends go on, a replay is in order and misses no
\* accepted message before one it yields; a message it yields may have lost its rest
\* only at the end of a page, or as the last one.
THEOREM PowerLossLeavesPrefix == Spec => []PowerLossKeepsPrefix
BY JournalInvariant, InvariantKeepsPrefix, PTL

--------------------------------------------------------------------------------
(* Telemetry: what a snapshot, a scrape and the latency window show.        *)

HIDE WALAssumption

LEMMA TelemetryConstants ==
  /\ TapeSize \in Nat /\ TapeSize >= 1 /\ Batch \in Nat /\ Batch >= 1
  /\ Window \in Nat /\ Window + 1 >= Batch
BY TelemetryAssumption

Resetting == commandAt \in {"resetSamples", "resetIngested", "resetProcessed"}

\* The last message on the tape, and the last one counted.
Recorded == IF consumerAt = "tape" THEN popped - 1 ELSE popped
Counted == IF consumerAt \in {"tape", "count"} THEN popped - 1 ELSE popped

TelemetryTypes ==
  /\ running \in BOOLEAN
  /\ commandAt \in {"loop", "count", "resetSamples", "resetIngested", "resetProcessed",
                    "exit"}
  /\ consumerAt \in {"loop", "tape", "count", "flush", "exit"}
  /\ snapshotAt \in {"loop", "sleep", "copy", "publish", "print", "exit"}
  /\ pushed \in Nat /\ totalIngested \in Nat /\ popped \in Nat /\ base \in Nat
  /\ tape \in [0 .. TapeSize - 1 -> Nat] /\ tapeHead \in Nat /\ totalProcessed \in Nat
  /\ localLatencyBuffer \in Seq(Nat) /\ latencySamples \in Seq(Nat)
  /\ currentProcessed \in Nat /\ latCount \in Nat /\ printed \in Seq(Nat)
  /\ undisturbed \in BOOLEAN
  /\ metrics \in [ingested : Nat, processed : Nat, samples : Nat, undisturbed : BOOLEAN]

\* A RESET begins with nothing in the ring and stops new messages until it is done.
ResetsFindNothing ==
  /\ base <= Counted /\ popped <= pushed
  /\ Resetting => pushed = base /\ consumerAt \in {"loop", "exit"}

\* The last messages recorded since the RESET are on the tape, at their places.
TapeHoldsLast ==
  /\ tapeHead = Recorded - base
  /\ \A k \in 0 .. tapeHead - 1 :
       tapeHead - TapeSize <= k => tape[k % TapeSize] = base + k + 1

\* The consumer hands over its samples as soon as there is a batch of them; there are
\* no more samples than messages since the RESET and what it found in the buffer.
BatchesAreWhole ==
  /\ Len(localLatencyBuffer) <= Batch
  /\ consumerAt \in {"loop", "exit"} => Len(localLatencyBuffer) < Batch
  /\ consumerAt = "flush" => Len(localLatencyBuffer) = Batch
  /\ commandAt # "resetSamples" =>
       Len(latencySamples) + Len(localLatencyBuffer) < popped - base + Batch

\* Between RESETs the two totals count what was pushed and processed since the last.
TotalsCountSince ==
  /\ ~Resetting =>
       /\ totalProcessed = Counted - base
       /\ totalIngested = pushed - base - (IF commandAt = "count" THEN 1 ELSE 0)
  /\ commandAt = "resetProcessed" => totalIngested = 0

\* What an undisturbed snapshot has read is not ahead of the threads it read from.
ReadsAreBehind ==
  /\ latCount <= Window + Batch
  /\ undisturbed /\ snapshotAt \in {"copy", "publish", "print"} =>
       ~Resetting /\ currentProcessed <= Counted - base
  /\ undisturbed /\ snapshotAt = "publish" => latCount < pushed - base + Batch

\* The inductive invariant.
TelemetryInv ==
  /\ TelemetryTypes /\ ResetsFindNothing /\ TapeHoldsLast /\ BatchesAreWhole
  /\ TotalsCountSince /\ ReadsAreBehind
  /\ SnapshotCoherent /\ ScrapesAddUp /\ SamplesAreLatest

\* The samples handed over, and behind them those in the consumer's buffer.
SamplesInTwoParts ==
  /\ \A i \in 1 .. Len(latencySamples) :
       latencySamples[i] = popped - Len(localLatencyBuffer) - Len(latencySamples) + i
  /\ \A i \in 1 .. Len(localLatencyBuffer) :
       localLatencyBuffer[i] = popped - Len(localLatencyBuffer) + i
  /\ Len(latencySamples) <= Window + Batch
  /\ Len(latencySamples) + Len(localLatencyBuffer) >=
       IF popped - base < Window THEN popped - base ELSE Window

LEMMA SamplesAreTwoParts ==
  ASSUME NEW s \in Seq(Nat), NEW l \in Seq(Nat), NEW p \in Nat
  PROVE  /\ Len(s \o l) = Len(s) + Len(l)
         /\ (\A i \in DOMAIN (s \o l) : (s \o l)[i] = p - (Len(s \o l) - i)) <=>
              /\ \A i \in 1 .. Len(s) : s[i] = p - Len(l) - Len(s) + i
              /\ \A i \in 1 .. Len(l) : l[i] = p - Len(l) + i
<1> DEFINE all == s \o l
           m == Len(s)
           n == Len(l)
<1>1. /\ all \in Seq(Nat) /\ Len(all) = m + n
      /\ \A i \in 1 .. m + n : all[i] = IF i <= m THEN s[i] ELSE l[i - m]
  BY ConcatProperties
<1>2. DOMAIN all = 1 .. m + n /\ m \in Nat /\ n \in Nat BY <1>1
<1> SUFFICES (\A i \in DOMAIN all : all[i] = p - (Len(all) - i)) <=>
               /\ \A i \in 1 .. m : s[i] = p - n - m + i
               /\ \A i \in 1 .. n : l[i] = p - n + i
  BY <1>1
<1> HIDE DEF all, m, n
<1>a. ASSUME NEW i \in 1 .. m PROVE i \in 1 .. m + n /\ all[i] = s[i]
  BY <1>1, <1>2
<1>b. ASSUME NEW i \in 1 .. n PROVE m + i \in 1 .. m + n /\ all[m + i] = l[i]
  <2>1. m + i \in 1 .. m + n /\ ~(m + i <= m) /\ (m + i) - m = i BY <1>2
  <2> QED BY <1>1, <2>1
<1>3. ASSUME \A i \in DOMAIN all : all[i] = p - (Len(all) - i)
      PROVE  /\ \A i \in 1 .. m : s[i] = p - n - m + i
             /\ \A i \in 1 .. n : l[i] = p - n + i
  <2>0. \A i \in 1 .. m + n : all[i] = p - ((m + n) - i) BY <1>1, <1>2, <1>3
  <2>1. ASSUME NEW i \in 1 .. m PROVE s[i] = p - n - m + i
    <3>1. s[i] = p - ((m + n) - i) BY <1>a, <2>0
    <3> QED BY <1>2, <3>1
  <2>2. ASSUME NEW i \in 1 .. n PROVE l[i] = p - n + i
    <3>1. l[i] = p - ((m + n) - (m + i)) BY <1>b, <2>0
    <3> QED BY <1>2, <3>1
  <2> QED BY <2>1, <2>2
<1>4. ASSUME \A i \in 1 .. m : s[i] = p - n - m + i,
             \A i \in 1 .. n : l[i] = p - n + i,
             NEW i \in 1 .. m + n
      PROVE  all[i] = p - ((m + n) - i)
  <2>1. CASE i <= m
    <3>1. i \in 1 .. m BY <2>1
    <3>2. all[i] = p - n - m + i BY <1>4, <1>a, <3>1
    <3> QED BY <1>2, <3>2
  <2>2. CASE ~(i <= m)
    <3>1. i - m \in 1 .. n /\ m + (i - m) = i BY <1>2, <2>2
    <3>2. all[i] = l[i - m] BY <1>b, <3>1
    <3>3. l[i - m] = p - n + (i - m) BY <1>4, <3>1
    <3> QED BY <1>2, <3>2, <3>3
  <2> QED BY <2>1, <2>2
<1>5. (\A i \in 1 .. m : s[i] = p - n - m + i) /\ (\A i \in 1 .. n : l[i] = p - n + i)
        => \A i \in DOMAIN all : all[i] = p - (Len(all) - i)
  BY <1>1, <1>2, <1>4
<1> QED BY <1>3, <1>5

LEMMA SamplesInTwo == TelemetryTypes => (SamplesAreLatest <=> SamplesInTwoParts)
<1> SUFFICES ASSUME TelemetryTypes PROVE SamplesAreLatest <=> SamplesInTwoParts
  OBVIOUS
<1> DEFINE all == latencySamples \o localLatencyBuffer
           Latest == \A i \in DOMAIN all : all[i] = popped - (Len(all) - i)
           Parted == /\ \A i \in 1 .. Len(latencySamples) :
                          latencySamples[i] =
                            popped - Len(localLatencyBuffer) - Len(latencySamples) + i
                     /\ \A i \in 1 .. Len(localLatencyBuffer) :
                          localLatencyBuffer[i] = popped - Len(localLatencyBuffer) + i
<1>0. latencySamples \in Seq(Nat) /\ localLatencyBuffer \in Seq(Nat) /\ popped \in Nat
  BY DEF TelemetryTypes
<1>1. Len(all) = Len(latencySamples) + Len(localLatencyBuffer) /\ (Latest <=> Parted)
  BY <1>0, SamplesAreTwoParts, Zenon
<1>2. SamplesAreLatest <=>
        /\ Latest
        /\ Len(latencySamples) <= Window + Batch
        /\ Len(all) >= IF popped - base < Window THEN popped - base ELSE Window
  BY Zenon DEF SamplesAreLatest
<1>3. SamplesInTwoParts <=>
        /\ Parted
        /\ Len(latencySamples) <= Window + Batch
        /\ Len(latencySamples) + Len(localLatencyBuffer) >=
             IF popped - base < Window THEN popped - base ELSE Window
  BY Zenon DEF SamplesInTwoParts
<1> HIDE DEF all, Latest, Parted
<1> QED BY <1>1, <1>2, <1>3

LEMMA SamplesInTwoNext == (TelemetryTypes => (SamplesAreLatest <=> SamplesInTwoParts))'
BY SamplesInTwo, PTL

\* Parts of the invariant that a step leaves alone.
LEMMA SamplesKept ==
  SamplesAreLatest /\ UNCHANGED <<popped, base, localLatencyBuffer, latencySamples>>
    => SamplesAreLatest'
BY DEF SamplesAreLatest

LEMMA TapeKept ==
  TapeHoldsLast /\ UNCHANGED <<consumerAt, popped, base, tape, tapeHead>>
    => TapeHoldsLast'
BY DEF TapeHoldsLast, Recorded

LEMMA PrintedKept ==
  /\ SnapshotCoherent /\ (undisturbed' => undisturbed)
  /\ UNCHANGED <<snapshotAt, printed, base, currentProcessed>>
  => SnapshotCoherent'
BY DEF SnapshotCoherent

LEMMA ScrapesKept == ScrapesAddUp /\ UNCHANGED metrics => ScrapesAddUp'
BY DEF ScrapesAddUp, Payload

LEMMA MorePushed ==
  ASSUME NEW p \in Nat, NEW q \in Nat, p <= q, NEW b \in Nat, NEW c \in Nat, NEW n \in Nat
  PROVE  n < p - b + c => n < q - b + c
OBVIOUS

LEMMA InitTelemetryInv == TelemetryInit => TelemetryInv
<1> SUFFICES ASSUME TelemetryInit PROVE TelemetryInv
  OBVIOUS
<1> USE TelemetryConstants DEF TelemetryInit
<1>1. TelemetryTypes BY DEF TelemetryTypes, Cleared, NoMetrics
<1>2. ResetsFindNothing BY DEF ResetsFindNothing, Resetting, Counted
<1>3. TapeHoldsLast BY DEF TapeHoldsLast, Recorded
<1>4. BatchesAreWhole BY DEF BatchesAreWhole
<1>5. TotalsCountSince BY DEF TotalsCountSince, Counted
<1>6. ReadsAreBehind BY DEF ReadsAreBehind
<1>7. SnapshotCoherent BY DEF SnapshotCoherent
<1>8. ScrapesAddUp BY DEF ScrapesAddUp, Payload, NoMetrics
<1>9. SamplesAreLatest
  <2>1. SamplesInTwoParts BY DEF SamplesInTwoParts
  <2> QED BY <1>1, <2>1, SamplesInTwo
<1> QED BY <1>1, <1>2, <1>3, <1>4, <1>5, <1>6, <1>7, <1>8, <1>9 DEF TelemetryInv

\* The command thread between two RESETs.
LEMMA CommandInv ==
  TelemetryInv /\ (Push \/ Count \/ Quit) => TelemetryInv'
<1> SUFFICES ASSUME TelemetryInv, Push \/ Count \/ Quit PROVE TelemetryInv'
  OBVIOUS
<1> USE TelemetryConstants
<1>0. /\ TelemetryTypes /\ ResetsFindNothing /\ TapeHoldsLast /\ BatchesAreWhole
      /\ TotalsCountSince /\ ReadsAreBehind
      /\ SnapshotCoherent /\ ScrapesAddUp /\ SamplesAreLatest
  BY DEF TelemetryInv
<1>1. /\ UNCHANGED <<consumerVars, shared, snapshotVars, metrics, base, undisturbed>>
      /\ running' \in BOOLEAN /\ ~Resetting /\ ~Resetting'
      /\ \/ commandAt = "loop" /\ commandAt' = "count" /\ pushed' = pushed + 1
            /\ totalIngested' = totalIngested
         \/ commandAt = "count" /\ commandAt' = "loop" /\ pushed' = pushed
            /\ totalIngested' = totalIngested + 1
         \/ commandAt = "loop" /\ commandAt' = "exit" /\ pushed' = pushed
            /\ totalIngested' = totalIngested
  BY <1>0 DEF Push, Count, Quit, histories, Resetting, TelemetryTypes
<1> USE <1>1 DEF consumerVars, shared, snapshotVars
<1>2. TelemetryTypes'
  <2>1. /\ commandAt' \in {"loop", "count", "resetSamples", "resetIngested",
                          "resetProcessed", "exit"}
        /\ pushed' \in Nat /\ totalIngested' \in Nat
    BY <1>0 DEF TelemetryTypes
  <2> QED BY <1>0, <2>1 DEF TelemetryTypes
<1>a. pushed <= pushed' /\ pushed \in Nat /\ pushed' \in Nat
  BY <1>0 DEF TelemetryTypes
<1>b. base \in Nat /\ popped \in Nat /\ totalIngested \in Nat /\ Counted' = Counted
  BY <1>0 DEF TelemetryTypes, Counted
<1>3. ResetsFindNothing' BY <1>0, <1>a, <1>b DEF ResetsFindNothing
<1>4. TapeHoldsLast' BY <1>0, TapeKept
<1>5. BatchesAreWhole' BY <1>0 DEF BatchesAreWhole, Resetting
<1>6. TotalsCountSince'
  <2>1. /\ totalProcessed = Counted - base
        /\ totalIngested = pushed - base - (IF commandAt = "count" THEN 1 ELSE 0)
    BY <1>0 DEF TotalsCountSince
  <2>2. totalIngested' = pushed' - base - (IF commandAt' = "count" THEN 1 ELSE 0)
    <3>1. CASE commandAt = "loop" /\ commandAt' = "count" BY <1>a, <1>b, <2>1, <3>1
    <3>2. CASE commandAt = "count" /\ commandAt' = "loop" BY <1>a, <1>b, <2>1, <3>2
    <3>3. CASE commandAt = "loop" /\ commandAt' = "exit" BY <1>a, <1>b, <2>1, <3>3
    <3> QED BY <3>1, <3>2, <3>3
  <2>3. commandAt' # "resetProcessed" OBVIOUS
  <2> QED BY <1>b, <2>1, <2>2, <2>3 DEF TotalsCountSince
<1>7. ReadsAreBehind'
  <2>1. /\ UNCHANGED <<undisturbed, snapshotAt, currentProcessed, latCount, base>>
        /\ ~Resetting' /\ latCount \in Nat
    BY <1>0 DEF TelemetryTypes
  <2> HIDE <1>1
  <2>2. latCount < pushed - base + Batch => latCount < pushed' - base + Batch
    BY <1>a, <1>b, <2>1, MorePushed
  <2>3. ReadsAreBehind BY <1>0
  <2> QED BY <1>b, <2>1, <2>2, <2>3 DEF ReadsAreBehind
<1>8. SnapshotCoherent' /\ ScrapesAddUp' /\ SamplesAreLatest'
  BY <1>0, PrintedKept, ScrapesKept, SamplesKept
<1> QED BY <1>2, <1>3, <1>4, <1>5, <1>6, <1>7, <1>8 DEF TelemetryInv

\* RESET, its first step: the tape.
LEMMA ResetTapeInv == TelemetryInv /\ ResetTape => TelemetryInv'
<1> SUFFICES ASSUME TelemetryInv, ResetTape PROVE TelemetryInv'
  OBVIOUS
<1> USE TelemetryConstants
<1>0. /\ TelemetryTypes /\ ResetsFindNothing /\ BatchesAreWhole /\ ReadsAreBehind
      /\ ScrapesAddUp /\ SamplesAreLatest
  BY DEF TelemetryInv
<1>1. /\ popped = pushed /\ consumerAt = "loop" /\ tapeHead' = 0 /\ tape' = Cleared
      /\ base' = pushed /\ ~undisturbed' /\ undisturbed' \in BOOLEAN
      /\ commandAt' = "resetSamples"
      /\ UNCHANGED <<running, pushed, totalIngested, consumerVars, totalProcessed,
                     latencySamples, snapshotVars, metrics>>
  BY DEF ResetTape, Drained
<1> USE <1>1 DEF consumerVars, snapshotVars
<1>2. TelemetryTypes' BY <1>0 DEF TelemetryTypes, Cleared
<1>3. ResetsFindNothing' BY <1>0 DEF ResetsFindNothing, TelemetryTypes, Counted
<1>4. TapeHoldsLast' BY <1>0 DEF TapeHoldsLast, TelemetryTypes, Recorded
<1>5. BatchesAreWhole' BY <1>0 DEF BatchesAreWhole
<1>6. TotalsCountSince' BY DEF TotalsCountSince, Resetting
<1>7. ReadsAreBehind' BY <1>0 DEF ReadsAreBehind
<1>8. SnapshotCoherent' /\ ScrapesAddUp' BY <1>0, ScrapesKept DEF SnapshotCoherent
<1>9. SamplesAreLatest'
  <2>1. SamplesInTwoParts BY <1>0, SamplesInTwo
  <2>2. popped - base' = 0 /\ 0 <= Window BY <1>0 DEF TelemetryTypes
  <2>3. Len(latencySamples) \in Nat /\ Len(localLatencyBuffer) \in Nat
    BY <1>0 DEF TelemetryTypes
  <2>4. SamplesInTwoParts' BY <2>1, <2>2, <2>3 DEF SamplesInTwoParts
  <2> QED BY <1>2, <2>4, SamplesInTwoNext
<1> QED BY <1>2, <1>3, <1>4, <1>5, <1>6, <1>7, <1>8, <1>9 DEF TelemetryInv

\* RESET, its second step: the samples handed over.
LEMMA ResetSamplesInv == TelemetryInv /\ ResetSamples => TelemetryInv'
<1> SUFFICES ASSUME TelemetryInv, ResetSamples PROVE TelemetryInv'
  OBVIOUS
<1> USE TelemetryConstants
<1>0. /\ TelemetryTypes /\ ResetsFindNothing /\ TapeHoldsLast /\ BatchesAreWhole
      /\ ReadsAreBehind /\ SnapshotCoherent /\ ScrapesAddUp /\ SamplesAreLatest
  BY DEF TelemetryInv
<1>1. /\ commandAt = "resetSamples" /\ commandAt' = "resetIngested"
      /\ latencySamples' = <<>>
      /\ UNCHANGED <<running, pushed, totalIngested, consumerVars, tape, tapeHead,
                     totalProcessed, snapshotVars, metrics, base, undisturbed>>
  BY DEF ResetSamples, histories
<1> USE <1>1 DEF consumerVars, snapshotVars
<1>2. TelemetryTypes' BY <1>0 DEF TelemetryTypes
<1>a. pushed = base /\ popped = base /\ Counted = popped /\ consumerAt \in {"loop", "exit"}
  BY <1>0 DEF ResetsFindNothing, Resetting, TelemetryTypes, Counted
<1>3. ResetsFindNothing' BY <1>0, <1>a DEF ResetsFindNothing, TelemetryTypes, Counted
<1>4. TapeHoldsLast' BY <1>0, TapeKept
<1>5. BatchesAreWhole' BY <1>0, <1>a DEF BatchesAreWhole, TelemetryTypes
<1>6. TotalsCountSince' BY DEF TotalsCountSince, Resetting
<1>7. ReadsAreBehind' BY <1>0 DEF ReadsAreBehind, Resetting
<1>8. SnapshotCoherent' /\ ScrapesAddUp' BY <1>0, PrintedKept, ScrapesKept
<1>9. SamplesAreLatest'
  <2>1. SamplesInTwoParts'
    BY <1>0, <1>a, SamplesInTwo DEF SamplesInTwoParts, TelemetryTypes
  <2> QED BY <1>2, <2>1, SamplesInTwoNext
<1> QED BY <1>2, <1>3, <1>4, <1>5, <1>6, <1>7, <1>8, <1>9 DEF TelemetryInv

\* RESET, its last steps: the two totals.
LEMMA ResetTotalsInv ==
  TelemetryInv /\ (ResetIngested \/ ResetProcessed) => TelemetryInv'
<1> SUFFICES ASSUME TelemetryInv, ResetIngested \/ ResetProcessed PROVE TelemetryInv'
  OBVIOUS
<1> USE TelemetryConstants
<1>0. /\ TelemetryTypes /\ ResetsFindNothing /\ TapeHoldsLast /\ BatchesAreWhole
      /\ ReadsAreBehind /\ SnapshotCoherent /\ ScrapesAddUp /\ SamplesAreLatest
      /\ TotalsCountSince
  BY DEF TelemetryInv
<1>1. /\ UNCHANGED <<running, pushed, consumerVars, tape, tapeHead, latencySamples,
                     snapshotVars, metrics, base>>
      /\ \/ commandAt = "resetIngested" /\ commandAt' = "resetProcessed"
            /\ totalIngested' = 0 /\ UNCHANGED <<totalProcessed, undisturbed>>
         \/ commandAt = "resetProcessed" /\ commandAt' = "loop"
            /\ totalProcessed' = 0 /\ UNCHANGED totalIngested /\ undisturbed' = FALSE
  BY DEF ResetIngested, ResetProcessed, shared, histories
<1> USE DEF consumerVars, snapshotVars
<1>a. pushed = base /\ popped = base /\ Counted = popped /\ consumerAt \in {"loop", "exit"}
  BY <1>0, <1>1 DEF ResetsFindNothing, Resetting, TelemetryTypes, Counted
<1>b. base \in Nat /\ Counted' = Counted BY <1>0, <1>1 DEF TelemetryTypes, Counted
<1>2. TelemetryTypes'
  <2>1. /\ commandAt' \in {"loop", "count", "resetSamples", "resetIngested",
                          "resetProcessed", "exit"}
        /\ totalProcessed' \in Nat /\ totalIngested' \in Nat
    BY <1>0, <1>1 DEF TelemetryTypes
  <2>2. undisturbed' \in BOOLEAN
    <3>1. undisturbed' = undisturbed \/ undisturbed' = FALSE BY <1>1
    <3>2. undisturbed \in BOOLEAN BY <1>0 DEF TelemetryTypes
    <3> QED BY <3>1, <3>2, Zenon
  <2> QED BY <1>0, <1>1, <2>1, <2>2 DEF TelemetryTypes
<1>3. ResetsFindNothing' BY <1>0, <1>1, <1>a, <1>b DEF ResetsFindNothing
<1>4. TapeHoldsLast' BY <1>0, <1>1, TapeKept
<1>5. BatchesAreWhole' BY <1>0, <1>1 DEF BatchesAreWhole
<1>6. TotalsCountSince'
  BY <1>0, <1>1, <1>a, <1>b DEF TotalsCountSince, Resetting, TelemetryTypes
<1>7. ReadsAreBehind'
  <2>1. undisturbed' => undisturbed BY <1>1
  <2>2. ~(undisturbed /\ snapshotAt \in {"copy", "publish", "print"})
    BY <1>0, <1>1 DEF ReadsAreBehind, Resetting
  <2> QED BY <1>0, <1>1, <2>1, <2>2 DEF ReadsAreBehind
<1>8. SnapshotCoherent' /\ ScrapesAddUp' /\ SamplesAreLatest'
  BY <1>0, <1>1, PrintedKept, ScrapesKept, SamplesKept
<1> QED BY <1>2, <1>3, <1>4, <1>5, <1>6, <1>7, <1>8 DEF TelemetryInv

\* The consumer takes a message: the sample goes to its own buffer.
LEMMA ProcessInv == TelemetryInv /\ Process => TelemetryInv'
<1> SUFFICES ASSUME TelemetryInv, Process PROVE TelemetryInv'
  OBVIOUS
<1> USE TelemetryConstants
<1>0. /\ TelemetryTypes /\ ResetsFindNothing /\ TapeHoldsLast /\ BatchesAreWhole
      /\ TotalsCountSince /\ ReadsAreBehind
      /\ SnapshotCoherent /\ ScrapesAddUp /\ SamplesAreLatest
  BY DEF TelemetryInv
<1>1. /\ consumerAt = "loop" /\ popped < pushed /\ popped' = popped + 1
      /\ localLatencyBuffer' = Append(localLatencyBuffer, popped + 1)
      /\ consumerAt' = "tape"
      /\ UNCHANGED <<running, commandVars, shared, snapshotVars, metrics, base,
                     undisturbed>>
  BY DEF Process, histories
<1> USE <1>1 DEF commandVars, shared, snapshotVars
<1>a. /\ popped \in Nat /\ pushed \in Nat /\ base \in Nat
      /\ Recorded = popped /\ Recorded' = popped /\ Counted = popped /\ Counted' = popped
      /\ ~Resetting /\ ~Resetting'
  BY <1>0 DEF TelemetryTypes, Recorded, Counted, Resetting, ResetsFindNothing
<1>b. /\ localLatencyBuffer \in Seq(Nat) /\ latencySamples \in Seq(Nat)
      /\ localLatencyBuffer' \in Seq(Nat)
      /\ Len(localLatencyBuffer') = Len(localLatencyBuffer) + 1
      /\ localLatencyBuffer'[Len(localLatencyBuffer) + 1] = popped + 1
      /\ \A i \in 1 .. Len(localLatencyBuffer) :
           localLatencyBuffer'[i] = localLatencyBuffer[i]
      /\ Len(localLatencyBuffer) \in Nat /\ Len(latencySamples) \in Nat
      /\ Len(localLatencyBuffer') \in Nat
  BY <1>0, <1>a, AppendProperties DEF TelemetryTypes
<1>2. TelemetryTypes' BY <1>0, <1>a, <1>b DEF TelemetryTypes
<1>3. ResetsFindNothing' BY <1>0, <1>a DEF ResetsFindNothing
<1>4. TapeHoldsLast' BY <1>0, <1>a DEF TapeHoldsLast
<1>5. BatchesAreWhole' BY <1>0, <1>a, <1>b DEF BatchesAreWhole
<1>6. TotalsCountSince' BY <1>0, <1>a DEF TotalsCountSince
<1>7. ReadsAreBehind' BY <1>0, <1>a DEF ReadsAreBehind
<1>8. SnapshotCoherent' /\ ScrapesAddUp' BY <1>0, PrintedKept, ScrapesKept
<1>9. SamplesAreLatest'
  <2>1. SamplesInTwoParts BY <1>0, SamplesInTwo
  <2>2. ASSUME NEW i \in 1 .. Len(latencySamples')
        PROVE  latencySamples'[i] =
                 popped' - Len(localLatencyBuffer') - Len(latencySamples') + i
    <3>1. latencySamples[i] =
            popped - Len(localLatencyBuffer) - Len(latencySamples) + i
      BY <2>1 DEF SamplesInTwoParts
    <3> QED BY <1>a, <1>b, <3>1
  <2>3. ASSUME NEW i \in 1 .. Len(localLatencyBuffer')
        PROVE  localLatencyBuffer'[i] = popped' - Len(localLatencyBuffer') + i
    <3>1. CASE i = Len(localLatencyBuffer) + 1 BY <1>a, <1>b, <3>1
    <3>2. CASE i # Len(localLatencyBuffer) + 1
      <4>1. i \in 1 .. Len(localLatencyBuffer) BY <1>b, <3>2
      <4>2. localLatencyBuffer[i] = popped - Len(localLatencyBuffer) + i
        BY <2>1, <4>1 DEF SamplesInTwoParts
      <4> QED BY <1>a, <1>b, <4>1, <4>2
    <3> QED BY <3>1, <3>2
  <2>4. /\ Len(latencySamples') <= Window + Batch
        /\ Len(latencySamples') + Len(localLatencyBuffer') >=
             IF popped' - base' < Window THEN popped' - base' ELSE Window
    BY <1>a, <1>b, <2>1 DEF SamplesInTwoParts
  <2>5. SamplesInTwoParts' BY <2>2, <2>3, <2>4 DEF SamplesInTwoParts
  <2> QED BY <1>2, <2>5, SamplesInTwoNext
<1> QED BY <1>2, <1>3, <1>4, <1>5, <1>6, <1>7, <1>8, <1>9 DEF TelemetryInv

\* The consumer writes the message on the tape: its slot is that of the message
\* TapeSize places earlier, and of no later one.
LEMMA RecordInv == TelemetryInv /\ Record => TelemetryInv'
<1> SUFFICES ASSUME TelemetryInv, Record PROVE TelemetryInv'
  OBVIOUS
<1> USE TelemetryConstants
<1>0. /\ TelemetryTypes /\ ResetsFindNothing /\ TapeHoldsLast /\ BatchesAreWhole
      /\ TotalsCountSince /\ ReadsAreBehind
      /\ SnapshotCoherent /\ ScrapesAddUp /\ SamplesAreLatest
  BY DEF TelemetryInv
<1>1. /\ consumerAt = "tape" /\ consumerAt' = "count" /\ tapeHead' = tapeHead + 1
      /\ tape' = [tape EXCEPT ![tapeHead % TapeSize] = popped]
      /\ UNCHANGED <<running, commandVars, popped, localLatencyBuffer, totalProcessed,
                     latencySamples, snapshotVars, metrics, base, undisturbed>>
  BY DEF Record, histories
<1> USE <1>1 DEF commandVars, snapshotVars
<1>a. /\ popped \in Nat /\ base \in Nat /\ tapeHead \in Nat
      /\ tape \in [0 .. TapeSize - 1 -> Nat]
      /\ Recorded = popped - 1 /\ Recorded' = popped
      /\ Counted = popped - 1 /\ Counted' = popped - 1 /\ ~Resetting /\ ~Resetting'
      /\ tapeHead = popped - 1 - base
  BY <1>0 DEF TelemetryTypes, Recorded, Counted, Resetting, ResetsFindNothing,
    TapeHoldsLast
<1>b. tapeHead % TapeSize \in 0 .. TapeSize - 1 BY <1>a, DivMod
<1>2. TelemetryTypes' BY <1>0, <1>a, <1>b DEF TelemetryTypes
<1>3. ResetsFindNothing' BY <1>0, <1>a DEF ResetsFindNothing
<1>4. TapeHoldsLast'
  <2>1. tapeHead' = Recorded' - base' BY <1>a
  <2>2. ASSUME NEW k \in 0 .. tapeHead' - 1, tapeHead' - TapeSize <= k
        PROVE  tape'[k % TapeSize] = base' + k + 1
    <3>1. CASE k = tapeHead
      <4>1. tape'[tapeHead % TapeSize] = popped BY <1>a, <1>b
      <4> QED BY <1>a, <3>1, <4>1
    <3>2. CASE k # tapeHead
      <4>1. k \in 0 .. tapeHead - 1 /\ tapeHead - k < TapeSize /\ tapeHead - TapeSize <= k
        BY <1>a, <2>2, <3>2
      <4>2. k % TapeSize # tapeHead % TapeSize
        <5>1. k \in Nat /\ k < tapeHead /\ tapeHead \in Nat BY <1>a, <4>1
        <5> QED BY <4>1, <5>1, RemaindersDistinct
      <4>3. k % TapeSize \in 0 .. TapeSize - 1 BY <4>1, DivMod
      <4>4. tape'[k % TapeSize] = tape[k % TapeSize] BY <1>a, <4>2, <4>3
      <4>5. tape[k % TapeSize] = base + k + 1 BY <1>0, <4>1 DEF TapeHoldsLast
      <4> QED BY <4>4, <4>5
    <3> QED BY <3>1, <3>2
  <2> QED BY <2>1, <2>2 DEF TapeHoldsLast
<1>5. BatchesAreWhole' BY <1>0 DEF BatchesAreWhole
<1>6. TotalsCountSince' BY <1>0, <1>a DEF TotalsCountSince
<1>7. ReadsAreBehind' BY <1>0, <1>a DEF ReadsAreBehind
<1>8. SnapshotCoherent' /\ ScrapesAddUp' /\ SamplesAreLatest'
  BY <1>0, PrintedKept, ScrapesKept, SamplesKept
<1> QED BY <1>2, <1>3, <1>4, <1>5, <1>6, <1>7, <1>8 DEF TelemetryInv

\* The consumer counts the message, or leaves.
LEMMA CountOrExitInv ==
  TelemetryInv /\ (CountProcessed \/ ConsumerExits) => TelemetryInv'
<1> SUFFICES ASSUME TelemetryInv, CountProcessed \/ ConsumerExits PROVE TelemetryInv'
  OBVIOUS
<1> USE TelemetryConstants
<1>0. /\ TelemetryTypes /\ ResetsFindNothing /\ TapeHoldsLast /\ BatchesAreWhole
      /\ TotalsCountSince /\ ReadsAreBehind
      /\ SnapshotCoherent /\ ScrapesAddUp /\ SamplesAreLatest
  BY DEF TelemetryInv
<1>1. /\ UNCHANGED <<running, commandVars, popped, localLatencyBuffer, tape, tapeHead,
                     latencySamples, snapshotVars, metrics, base, undisturbed>>
      /\ \/ /\ consumerAt = "count" /\ totalProcessed' = totalProcessed + 1
            /\ consumerAt' = IF Len(localLatencyBuffer) >= Batch THEN "flush" ELSE "loop"
         \/ consumerAt = "loop" /\ consumerAt' = "exit" /\ UNCHANGED totalProcessed
  BY DEF CountProcessed, ConsumerExits, consumerVars, shared, histories
<1>u. UNCHANGED <<running, commandAt, pushed, totalIngested, popped, localLatencyBuffer,
                  tape, tapeHead, latencySamples, snapshotAt, currentProcessed, latCount,
                  printed, metrics, base, undisturbed>>
  BY <1>1 DEF commandVars, snapshotVars
<1>a. /\ popped \in Nat /\ base \in Nat /\ totalProcessed \in Nat
      /\ Len(localLatencyBuffer) \in Nat
      /\ Recorded = popped /\ Recorded' = popped /\ Counted' = popped
      /\ consumerAt' \in {"loop", "flush", "exit"}
      /\ Counted <= popped
  BY <1>0, <1>1 DEF TelemetryTypes, Recorded, Counted
<1>b. /\ totalProcessed' \in Nat
      /\ ~Resetting => totalProcessed' = popped - base
      /\ Resetting => consumerAt' = "exit"
  <2>1. CASE consumerAt = "count"
    BY <1>0, <1>1, <1>a, <2>1 DEF TotalsCountSince, ResetsFindNothing, Counted
  <2>2. CASE consumerAt = "loop"
    BY <1>0, <1>1, <1>a, <2>2 DEF TotalsCountSince, ResetsFindNothing, Counted
  <2> QED BY <1>1, <2>1, <2>2
<1>2. TelemetryTypes' BY <1>0, <1>u, <1>a, <1>b DEF TelemetryTypes
<1>3. ResetsFindNothing'
  BY <1>0, <1>u, <1>a, <1>b DEF ResetsFindNothing, TelemetryTypes, Resetting, Counted
<1>4. TapeHoldsLast' BY <1>0, <1>u, <1>a DEF TapeHoldsLast
<1>5. BatchesAreWhole'
  <2>1. /\ consumerAt' \in {"loop", "exit"} => Len(localLatencyBuffer) < Batch
        /\ consumerAt' = "flush" => Len(localLatencyBuffer) = Batch
    BY <1>0, <1>1, <1>a DEF BatchesAreWhole
  <2> QED BY <1>0, <1>u, <2>1 DEF BatchesAreWhole
<1>6. TotalsCountSince' BY <1>0, <1>u, <1>a, <1>b DEF TotalsCountSince, Resetting
<1>7. ReadsAreBehind'
  BY <1>0, <1>u, <1>a DEF ReadsAreBehind, Resetting, TelemetryTypes, Counted
<1>8. SnapshotCoherent' /\ ScrapesAddUp' /\ SamplesAreLatest'
  BY <1>0, <1>u, PrintedKept, ScrapesKept, SamplesKept
<1> QED BY <1>2, <1>3, <1>4, <1>5, <1>6, <1>7, <1>8 DEF TelemetryInv

\* What Rolled keeps: the samples, or all but the oldest batch of them.
LEMMA RolledKeeps ==
  ASSUME NEW s \in Seq(Nat)
  PROVE  /\ Rolled(s) \in Seq(Nat) /\ Len(Rolled(s)) \in Nat
         /\ Len(Rolled(s)) = IF Len(s) > Window THEN Len(s) - Batch ELSE Len(s)
         /\ \A i \in 1 .. Len(Rolled(s)) : Rolled(s)[i] = s[Len(s) - Len(Rolled(s)) + i]
<1> USE TelemetryConstants
<1>0. Len(s) \in Nat OBVIOUS
<1>1. CASE Len(s) > Window
  <2> DEFINE r == SubSeq(s, Batch + 1, Len(s))
             m == Len(s)
  <2>1. Batch + 1 \in 1 .. m + 1 /\ m \in 1 .. m + 1 /\ m \in Nat BY <1>0, <1>1
  <2>2. /\ r \in Seq(Nat) /\ Len(r) = m - Batch
        /\ \A i \in 1 .. m - Batch : r[i] = s[Batch + i]
    <3>1. /\ r \in Seq(Nat)
          /\ Len(r) = IF Batch + 1 <= m THEN m - (Batch + 1) + 1 ELSE 0
          /\ \A i \in 1 .. m - (Batch + 1) + 1 : r[i] = s[(Batch + 1) + i - 1]
      BY <2>1, SubSeqProperties
    <3> HIDE DEF r, m
    <3>2. /\ m - (Batch + 1) + 1 = m - Batch
          /\ Len(r) = m - Batch
      BY <2>1, <3>1
    <3>3. ASSUME NEW i \in 1 .. m - Batch PROVE r[i] = s[Batch + i]
      <4>1. (Batch + 1) + i - 1 = Batch + i OBVIOUS
      <4> QED BY <3>1, <3>2, <4>1
    <3> QED BY <3>1, <3>2, <3>3
  <2>3. Rolled(s) = r BY <1>1 DEF Rolled
  <2>4. m - (m - Batch) = Batch /\ m - Batch \in Nat BY <2>1
  <2> HIDE DEF r
  <2> QED BY <1>1, <2>2, <2>3, <2>4
<1>2. CASE ~(Len(s) > Window)
  <2>1. Rolled(s) = s BY <1>2 DEF Rolled
  <2>2. \A i \in 1 .. Len(s) : Len(s) - Len(s) + i = i BY <1>0
  <2> QED BY <1>0, <1>2, <2>1, <2>2
<1> QED BY <1>1, <1>2

LEMMA FewerSamples ==
  ASSUME NEW m \in Nat, NEW n \in Nat, n <= m, NEW b \in Nat, NEW t \in Int, m + b < t
  PROVE  n + b < t
OBVIOUS

LEMMA PlaceFromEnd ==
  ASSUME NEW m \in Nat, NEW n \in Nat, n <= m, NEW i \in 1 .. n
  PROVE  m - n + i \in 1 .. m
OBVIOUS

\* The consumer hands over a batch: the oldest go when the window is full.
LEMMA FlushInv == TelemetryInv /\ Flush => TelemetryInv'
<1> SUFFICES ASSUME TelemetryInv, Flush PROVE TelemetryInv'
  OBVIOUS
<1> USE TelemetryConstants
<1>0. /\ TelemetryTypes /\ ResetsFindNothing /\ TapeHoldsLast /\ BatchesAreWhole
      /\ TotalsCountSince /\ ReadsAreBehind
      /\ SnapshotCoherent /\ ScrapesAddUp /\ SamplesAreLatest
  BY DEF TelemetryInv
<1> DEFINE s == latencySamples
           l == localLatencyBuffer
           r == Rolled(latencySamples)
<1>1. /\ consumerAt = "flush" /\ consumerAt' = "loop"
      /\ latencySamples' = r \o l /\ localLatencyBuffer' = <<>>
      /\ UNCHANGED <<running, commandAt, pushed, totalIngested, popped, tape, tapeHead,
                     totalProcessed, snapshotAt, currentProcessed, latCount, printed,
                     metrics, base, undisturbed>>
  BY DEF Flush, commandVars, snapshotVars, histories
<1>a. /\ popped \in Nat /\ base \in Nat /\ s \in Seq(Nat) /\ l \in Seq(Nat)
      /\ Len(s) \in Nat /\ Len(l) = Batch
      /\ Recorded = popped /\ Recorded' = popped /\ Counted = popped /\ Counted' = popped
      /\ ~Resetting /\ ~Resetting'
  BY <1>0, <1>1 DEF TelemetryTypes, Recorded, Counted, BatchesAreWhole,
    ResetsFindNothing, Resetting
<1>b. /\ r \in Seq(Nat) /\ Len(r) \in Nat
      /\ Len(r) = IF Len(s) > Window THEN Len(s) - Batch ELSE Len(s)
      /\ \A i \in 1 .. Len(r) : r[i] = s[Len(s) - Len(r) + i]
  BY <1>a, RolledKeeps
<1>d. /\ localLatencyBuffer' \in Seq(Nat) /\ Len(localLatencyBuffer') = 0 BY <1>1
<1>e. /\ \A i \in 1 .. Len(s) : s[i] = popped - Batch - Len(s) + i
      /\ \A i \in 1 .. Batch : l[i] = popped - Batch + i
      /\ Len(s) <= Window + Batch
      /\ Len(s) + Batch >= IF popped - base < Window THEN popped - base ELSE Window
  BY <1>0, <1>a, SamplesInTwo DEF SamplesInTwoParts
<1>f. /\ Len(s) + Len(l) < popped - base + Batch BY <1>0, <1>a DEF BatchesAreWhole, Resetting
<1> HIDE DEF s, l, r
<1>c. /\ latencySamples' \in Seq(Nat) /\ Len(latencySamples') = Len(r) + Batch
      /\ \A i \in 1 .. Len(r) + Batch :
           latencySamples'[i] = IF i <= Len(r) THEN r[i] ELSE l[i - Len(r)]
  <2>1. latencySamples' = r \o l /\ r \in Seq(Nat) /\ l \in Seq(Nat) BY <1>1, <1>a, <1>b
  <2>2. /\ latencySamples' \in Seq(Nat) /\ Len(latencySamples') = Len(r) + Len(l)
        /\ \A i \in 1 .. Len(r) + Len(l) :
             latencySamples'[i] = IF i <= Len(r) THEN r[i] ELSE l[i - Len(r)]
    BY <2>1, ConcatProperties
  <2>3. Len(l) = Batch BY <1>a
  <2> QED BY <2>2, <2>3
<1>g. Len(r) <= Len(s) /\ Len(r) <= Window
  BY <1>a, <1>b, <1>e
<1>2. TelemetryTypes' BY <1>0, <1>1, <1>c, <1>d DEF TelemetryTypes
<1>3. ResetsFindNothing' BY <1>0, <1>1, <1>a DEF ResetsFindNothing
<1>4. TapeHoldsLast' BY <1>0, <1>1, <1>a DEF TapeHoldsLast
<1>5. BatchesAreWhole'
  <2>0. Len(s) + Batch < popped - base + Batch BY <1>a, <1>f
  <2>1. Len(r) + Batch < popped - base + Batch
    <3>1. popped - base + Batch \in Int BY <1>a
    <3> QED BY <1>a, <1>b, <1>g, <2>0, <3>1, FewerSamples
  <2>2. /\ Len(localLatencyBuffer') <= Batch /\ Len(localLatencyBuffer') < Batch
        /\ Len(latencySamples') + Len(localLatencyBuffer') < popped - base + Batch
    BY <1>c, <1>d, <2>1
  <2> QED BY <1>1, <2>2 DEF BatchesAreWhole
<1>6. TotalsCountSince' BY <1>0, <1>1, <1>a DEF TotalsCountSince
<1>7. ReadsAreBehind' BY <1>0, <1>1, <1>a DEF ReadsAreBehind
<1>8. SnapshotCoherent' /\ ScrapesAddUp' BY <1>0, <1>1, PrintedKept, ScrapesKept
<1>9. SamplesAreLatest'
  <2>1. ASSUME NEW i \in 1 .. Len(latencySamples')
        PROVE  latencySamples'[i] = popped - 0 - Len(latencySamples') + i
    <3>1. CASE i <= Len(r)
      <4>1. i \in 1 .. Len(r) /\ Len(s) - Len(r) + i \in 1 .. Len(s)
        <5>1. i \in 1 .. Len(r) BY <1>b, <1>c, <3>1
        <5> QED BY <1>a, <1>b, <1>g, <5>1, PlaceFromEnd
      <4>2. latencySamples'[i] = s[Len(s) - Len(r) + i] BY <1>b, <1>c, <3>1, <4>1
      <4>3. s[Len(s) - Len(r) + i] = popped - Batch - Len(s) + (Len(s) - Len(r) + i)
        BY <1>e, <4>1
      <4> QED BY <1>a, <1>b, <1>c, <4>2, <4>3
    <3>2. CASE ~(i <= Len(r))
      <4>1. i - Len(r) \in 1 .. Batch BY <1>b, <1>c, <3>2
      <4>2. latencySamples'[i] = l[i - Len(r)] BY <1>c, <3>2
      <4>3. l[i - Len(r)] = popped - Batch + (i - Len(r)) BY <1>e, <4>1
      <4> QED BY <1>a, <1>b, <1>c, <4>2, <4>3
    <3> QED BY <3>1, <3>2
  <2>2. /\ Len(r) + Batch <= Window + Batch
        /\ Len(r) + Batch + 0 >= IF popped - base < Window THEN popped - base ELSE Window
    BY <1>a, <1>b, <1>e, <1>g
  <2>3. SamplesInTwoParts' BY <1>1, <1>c, <1>d, <2>1, <2>2 DEF SamplesInTwoParts
  <2> QED BY <1>2, <2>3, SamplesInTwoNext
<1> QED BY <1>2, <1>3, <1>4, <1>5, <1>6, <1>7, <1>8, <1>9 DEF TelemetryInv

\* The snapshot thread goes to sleep, reads the count, the samples.
LEMMA ReadingInv ==
  TelemetryInv /\ (Sleep \/ ReadProcessed \/ CopySamples) => TelemetryInv'
<1> SUFFICES ASSUME TelemetryInv, Sleep \/ ReadProcessed \/ CopySamples
             PROVE  TelemetryInv'
  OBVIOUS
<1> USE TelemetryConstants
<1>0. /\ TelemetryTypes /\ ResetsFindNothing /\ TapeHoldsLast /\ BatchesAreWhole
      /\ TotalsCountSince /\ ReadsAreBehind /\ ScrapesAddUp /\ SamplesAreLatest
  BY DEF TelemetryInv
<1>1. /\ UNCHANGED <<running, commandAt, pushed, totalIngested, consumerAt, popped,
                     localLatencyBuffer, tape, tapeHead, totalProcessed, latencySamples,
                     metrics, base>>
      /\ \/ /\ snapshotAt' \in {"sleep", "exit"}
            /\ currentProcessed' = 0 /\ latCount' = 0 /\ printed' = <<>>
         \/ /\ snapshotAt' = "copy" /\ currentProcessed' = totalProcessed
            /\ UNCHANGED <<latCount, printed>>
         \/ /\ snapshotAt = "copy" /\ snapshotAt' = "publish"
            /\ latCount' = Len(latencySamples)
            /\ UNCHANGED <<currentProcessed, printed>>
  BY DEF Sleep, ReadProcessed, CopySamples, commandVars, consumerVars, shared, histories
<1>d. /\ snapshotAt' = "copy" => undisturbed' = ~Resetting
      /\ snapshotAt' # "copy" => undisturbed' = undisturbed
  BY DEF Sleep, ReadProcessed, CopySamples, histories, Resetting
<1>a. /\ popped \in Nat /\ pushed \in Nat /\ base \in Nat /\ popped <= pushed
      /\ totalProcessed \in Nat /\ Len(latencySamples) \in Nat
      /\ Len(localLatencyBuffer) \in Nat /\ latCount \in Nat /\ currentProcessed \in Nat
      /\ undisturbed \in BOOLEAN /\ Resetting \in BOOLEAN
  BY <1>0 DEF TelemetryTypes, ResetsFindNothing, Resetting
<1>b. Counted' = Counted /\ Resetting' = Resetting BY <1>1 DEF Counted, Resetting
<1>2. TelemetryTypes'
  <2>1. /\ snapshotAt' \in {"loop", "sleep", "copy", "publish", "print", "exit"}
        /\ latCount' \in Nat /\ currentProcessed' \in Nat /\ printed' \in Seq(Nat)
    <3>1. CASE snapshotAt' \in {"sleep", "exit"}
      <4>1. printed' = <<>> /\ latCount' = 0 /\ currentProcessed' = 0 BY <1>1, <3>1
      <4>2. <<>> \in Seq(Nat) OBVIOUS
      <4> QED BY <3>1, <4>1, <4>2
    <3>2. CASE snapshotAt' = "copy" BY <1>0, <1>1, <1>a, <3>2 DEF TelemetryTypes
    <3>3. CASE snapshotAt' = "publish" BY <1>0, <1>1, <1>a, <3>3 DEF TelemetryTypes
    <3> QED BY <1>1, <3>1, <3>2, <3>3
  <2>2. undisturbed' \in BOOLEAN
    <3>1. undisturbed' = undisturbed \/ undisturbed' = ~Resetting BY <1>d
    <3> QED BY <1>a, <3>1, Zenon
  <2> QED BY <1>0, <1>1, <2>1, <2>2 DEF TelemetryTypes
<1>3. ResetsFindNothing' BY <1>0, <1>1, <1>b DEF ResetsFindNothing
<1>4. TapeHoldsLast' BY <1>0, <1>1, TapeKept
<1>5. BatchesAreWhole' BY <1>0, <1>1 DEF BatchesAreWhole
<1>6. TotalsCountSince' BY <1>0, <1>1, <1>b DEF TotalsCountSince
<1>7. ReadsAreBehind'
  <2>1. CASE snapshotAt' \in {"sleep", "exit"}
    <3>1. latCount' = 0 BY <1>1, <2>1
    <3> QED BY <2>1, <3>1 DEF ReadsAreBehind
  <2>2. CASE snapshotAt' = "copy"
    <3>1. /\ undisturbed' = ~Resetting /\ currentProcessed' = totalProcessed
          /\ latCount' = latCount /\ base' = base
      BY <1>1, <1>d, <2>2
    <3>2. ~Resetting => totalProcessed <= Counted - base
      BY <1>0, <1>a DEF TotalsCountSince
    <3>3. latCount' <= Window + Batch BY <1>0, <3>1 DEF ReadsAreBehind
    <3>4. undisturbed' => ~Resetting' /\ currentProcessed' <= Counted' - base'
      BY <1>b, <3>1, <3>2
    <3> QED BY <2>2, <3>3, <3>4 DEF ReadsAreBehind
  <2>3. CASE snapshotAt' = "publish"
    <3>1. /\ snapshotAt = "copy" /\ latCount' = Len(latencySamples)
          /\ UNCHANGED <<undisturbed, currentProcessed, base, pushed>>
      BY <1>1, <1>d, <2>3
    <3>2. Len(latencySamples) <= Window + Batch BY <1>0 DEF SamplesAreLatest
    <3>3. undisturbed => ~Resetting /\ currentProcessed <= Counted - base
      BY <1>0, <3>1 DEF ReadsAreBehind
    <3>4. undisturbed => Len(latencySamples) + Len(localLatencyBuffer) < popped - base + Batch
      BY <1>0, <3>3 DEF BatchesAreWhole, Resetting
    <3>5. undisturbed => Len(latencySamples) < pushed - base + Batch
      <4>1. SUFFICES ASSUME undisturbed PROVE Len(latencySamples) < pushed - base + Batch
        OBVIOUS
      <4>2. Len(latencySamples) < popped - base + Batch BY <1>a, <3>4, <4>1
      <4> QED BY <1>a, <4>2, MorePushed
    <3> QED BY <1>b, <3>1, <3>2, <3>3, <3>5 DEF ReadsAreBehind
  <2> QED BY <1>1, <2>1, <2>2, <2>3
<1>8. SnapshotCoherent' /\ ScrapesAddUp' /\ SamplesAreLatest'
  BY <1>0, <1>1, ScrapesKept, SamplesKept DEF SnapshotCoherent
<1> QED BY <1>2, <1>3, <1>4, <1>5, <1>6, <1>7, <1>8 DEF TelemetryInv

\* The snapshot thread publishes the metrics.
LEMMA PublishInv == TelemetryInv /\ Publish => TelemetryInv'
<1> SUFFICES ASSUME TelemetryInv, Publish PROVE TelemetryInv'
  OBVIOUS
<1> USE TelemetryConstants
<1>0. /\ TelemetryTypes /\ ResetsFindNothing /\ TapeHoldsLast /\ BatchesAreWhole
      /\ TotalsCountSince /\ ReadsAreBehind /\ SamplesAreLatest
  BY DEF TelemetryInv
<1>1. /\ snapshotAt = "publish" /\ snapshotAt' = "print"
      /\ metrics' = [ingested |-> totalIngested, processed |-> currentProcessed,
                     samples |-> latCount, undisturbed |-> undisturbed]
      /\ UNCHANGED <<running, commandVars, consumerVars, shared, currentProcessed,
                     latCount, printed, base, undisturbed>>
  BY DEF Publish, histories
<1> USE <1>1 DEF commandVars, consumerVars, shared
<1>b. Counted' = Counted /\ Resetting' = Resetting BY DEF Counted, Resetting
<1>2. TelemetryTypes' BY <1>0 DEF TelemetryTypes
<1>3. ResetsFindNothing' BY <1>0, <1>b DEF ResetsFindNothing
<1>4. TapeHoldsLast' BY <1>0, TapeKept
<1>5. BatchesAreWhole' BY <1>0 DEF BatchesAreWhole
<1>6. TotalsCountSince' BY <1>0, <1>b DEF TotalsCountSince
<1>7. ReadsAreBehind' BY <1>0, <1>b DEF ReadsAreBehind
<1>8. SnapshotCoherent' /\ SamplesAreLatest' BY <1>0, SamplesKept DEF SnapshotCoherent
<1>9. ScrapesAddUp'
  <2>1. latCount <= Window + Batch BY <1>0 DEF ReadsAreBehind
  <2>2. ASSUME undisturbed
        PROVE  /\ currentProcessed <= totalIngested + 1
               /\ latCount <= totalIngested + Batch
    <3>1. /\ ~Resetting /\ currentProcessed <= Counted - base
          /\ latCount < pushed - base + Batch
      BY <1>0, <2>2 DEF ReadsAreBehind
    <3>2. totalIngested = pushed - base - (IF commandAt = "count" THEN 1 ELSE 0)
      BY <1>0, <3>1 DEF TotalsCountSince
    <3>3. /\ Counted <= popped /\ popped <= pushed /\ Counted \in Int /\ popped \in Nat
          /\ pushed \in Nat /\ base \in Nat /\ latCount \in Nat /\ currentProcessed \in Nat
      BY <1>0 DEF Counted, TelemetryTypes, ResetsFindNothing
    <3>4. totalIngested \in Nat /\ pushed - base <= totalIngested + 1
      BY <1>0, <3>2, <3>3 DEF TelemetryTypes
    <3>5. currentProcessed <= pushed - base BY <3>1, <3>3
    <3>6. latCount <= (pushed - base) - 1 + Batch BY <3>1, <3>3
    <3> QED BY <3>3, <3>4, <3>5, <3>6
  <2>3. /\ Payload'.processed_total = currentProcessed
        /\ Payload'.messages_total = totalIngested /\ Payload'.bucket_inf = latCount
        /\ metrics'.undisturbed = undisturbed
    BY DEF Payload
  <2> QED BY <2>1, <2>2, <2>3 DEF ScrapesAddUp
<1> QED BY <1>2, <1>3, <1>4, <1>5, <1>6, <1>7, <1>8, <1>9 DEF TelemetryInv

LEMMA TapePlace ==
  ASSUME NEW b \in Nat, NEW h \in Nat, NEW i \in Nat
  PROVE  b + (h - i) + 1 = b + h - (i - 1)
OBVIOUS

\* The snapshot thread copies the tape and prints.
LEMMA PrintInv == TelemetryInv /\ PrintLine => TelemetryInv'
<1> SUFFICES ASSUME TelemetryInv, PrintLine PROVE TelemetryInv'
  OBVIOUS
<1> USE TelemetryConstants
<1>0. /\ TelemetryTypes /\ ResetsFindNothing /\ TapeHoldsLast /\ BatchesAreWhole
      /\ TotalsCountSince /\ ReadsAreBehind /\ ScrapesAddUp /\ SamplesAreLatest
  BY DEF TelemetryInv
<1>1. /\ snapshotAt = "print" /\ snapshotAt' = "loop" /\ printed' = Recent
      /\ UNCHANGED <<running, commandVars, consumerVars, shared, currentProcessed,
                     latCount, metrics, base, undisturbed>>
  BY DEF PrintLine, histories
<1> USE <1>1 DEF commandVars, consumerVars, shared
<1>a. /\ tapeHead \in Nat /\ base \in Nat /\ popped \in Nat /\ tapeHead = Recorded - base
      /\ Counted <= Recorded /\ Counted \in Int /\ Recorded \in Int
      /\ currentProcessed \in Nat
      /\ tape \in [0 .. TapeSize - 1 -> Nat]
  BY <1>0 DEF TelemetryTypes, TapeHoldsLast, Recorded, Counted
<1>b. Counted' = Counted /\ Resetting' = Resetting BY DEF Counted, Resetting
<1> DEFINE n == IF tapeHead < TapeSize THEN tapeHead ELSE TapeSize
<1>c. n \in Nat /\ n <= tapeHead /\ n <= TapeSize /\ (tapeHead > 0 => n > 0) BY <1>a
<1>d. printed' = [i \in 1 .. n |-> tape[(tapeHead - i) % TapeSize]] BY DEF Recent
<1>e. ASSUME NEW i \in 1 .. n
      PROVE  /\ tape[(tapeHead - i) % TapeSize] \in Nat
             /\ tape[(tapeHead - i) % TapeSize] = base + tapeHead - (i - 1)
  <2> DEFINE k == tapeHead - i
  <2>1. k \in 0 .. tapeHead - 1 /\ tapeHead - TapeSize <= k /\ k \in Nat BY <1>a, <1>c
  <2>2. base + k + 1 = base + tapeHead - (i - 1) BY <1>a, <1>c, TapePlace
  <2> HIDE DEF k
  <2>3. tape[k % TapeSize] = base + k + 1 BY <1>0, <2>1 DEF TapeHoldsLast
  <2>4. k % TapeSize \in 0 .. TapeSize - 1 BY <2>1, DivMod
  <2> QED BY <1>a, <2>2, <2>3, <2>4 DEF k
<1> HIDE DEF n
<1>f. /\ printed' \in Seq(Nat) /\ Len(printed') = n
      /\ \A i \in 1 .. n : printed'[i] = base + tapeHead - (i - 1)
  BY <1>c, <1>d, <1>e
<1>2. TelemetryTypes' BY <1>0, <1>f DEF TelemetryTypes
<1>3. ResetsFindNothing' BY <1>0, <1>b DEF ResetsFindNothing
<1>4. TapeHoldsLast' BY <1>0, TapeKept
<1>5. BatchesAreWhole' BY <1>0 DEF BatchesAreWhole
<1>6. TotalsCountSince' BY <1>0, <1>b DEF TotalsCountSince
<1>7. ReadsAreBehind' BY <1>0, <1>b DEF ReadsAreBehind
<1>8. ScrapesAddUp' /\ SamplesAreLatest' BY <1>0, ScrapesKept, SamplesKept
<1>9. SnapshotCoherent'
  <2> DEFINE newest == IF printed' = <<>> THEN base ELSE printed'[1]
             since == newest - base
  <2> SUFFICES ASSUME undisturbed'
               PROVE  /\ since >= currentProcessed
                      /\ Len(printed') = IF since < TapeSize THEN since ELSE TapeSize
                      /\ \A i \in DOMAIN printed' : printed'[i] = newest - (i - 1)
    BY DEF SnapshotCoherent
  <2>0. undisturbed BY <1>1
  <2>1. currentProcessed <= tapeHead
    <3>1. currentProcessed <= Counted - base BY <1>0, <1>1, <2>0 DEF ReadsAreBehind
    <3> QED BY <1>a, <3>1
  <2>2. newest = base + tapeHead
    <3>1. CASE tapeHead = 0
      <4>1. printed' = <<>> BY <1>c, <1>f, <3>1
      <4> QED BY <1>a, <3>1, <4>1
    <3>2. CASE tapeHead # 0
      <4>1. 1 \in 1 .. n /\ printed' # <<>> BY <1>a, <1>c, <1>f, <3>2
      <4>2. printed'[1] = base + tapeHead - (1 - 1) BY <1>f, <4>1
      <4> QED BY <1>a, <4>1, <4>2
    <3> QED BY <3>1, <3>2
  <2>3. since = tapeHead /\ DOMAIN printed' = 1 .. n BY <1>a, <1>f, <2>2
  <2>4. n = IF tapeHead < TapeSize THEN tapeHead ELSE TapeSize BY DEF n
  <2> HIDE <1>1 DEF newest, since
  <2> QED BY <1>a, <1>f, <2>1, <2>2, <2>3, <2>4
<1> QED BY <1>2, <1>3, <1>4, <1>5, <1>6, <1>7, <1>8, <1>9 DEF TelemetryInv

\* The exporter, its clients and main touch nothing of this but running.
LEMMA OtherThreadsInv ==
  /\ TelemetryInv /\ running' \in BOOLEAN
  /\ UNCHANGED <<commandVars, consumerVars, shared, snapshotVars, metrics, histories>>
  => TelemetryInv'
<1> SUFFICES ASSUME TelemetryInv, running' \in BOOLEAN,
                    UNCHANGED <<commandVars, consumerVars, shared, snapshotVars, metrics,
                                histories>>
             PROVE  TelemetryInv'
  OBVIOUS
<1>1. UNCHANGED <<commandAt, pushed, totalIngested, consumerAt, popped,
                  localLatencyBuffer, tape, tapeHead, totalProcessed, latencySamples,
                  snapshotAt, currentProcessed, latCount, printed, metrics, base,
                  undisturbed>>
  BY DEF commandVars, consumerVars, shared, snapshotVars, histories
<1>2. Counted' = Counted /\ Resetting' = Resetting BY <1>1 DEF Counted, Resetting
<1>3. TelemetryTypes' BY <1>1 DEF TelemetryInv, TelemetryTypes
<1>4. ResetsFindNothing' BY <1>1, <1>2 DEF TelemetryInv, ResetsFindNothing
<1>5. BatchesAreWhole' BY <1>1 DEF TelemetryInv, BatchesAreWhole
<1>6. TotalsCountSince' BY <1>1, <1>2 DEF TelemetryInv, TotalsCountSince
<1>7. ReadsAreBehind' BY <1>1, <1>2 DEF TelemetryInv, ReadsAreBehind
<1>8. TapeHoldsLast' /\ SnapshotCoherent' /\ ScrapesAddUp' /\ SamplesAreLatest'
  BY <1>1, TapeKept, PrintedKept, ScrapesKept, SamplesKept DEF TelemetryInv
<1> QED BY <1>3, <1>4, <1>5, <1>6, <1>7, <1>8 DEF TelemetryInv

LEMMA NextTelemetryInv ==
  TelemetryInv /\ [TelemetryNext]_telemetryVars => TelemetryInv'
<1> SUFFICES ASSUME TelemetryInv, [TelemetryNext]_telemetryVars PROVE TelemetryInv'
  OBVIOUS
<1>1. running \in BOOLEAN BY DEF TelemetryInv, TelemetryTypes
<1>2. CASE Push \/ Count \/ Quit BY <1>2, CommandInv
<1>3. CASE ResetTape \/ ResetSamples \/ ResetIngested \/ ResetProcessed
  BY <1>3, ResetTapeInv, ResetSamplesInv, ResetTotalsInv
<1>4. CASE ConsumerThread
  BY <1>4, ProcessInv, RecordInv, CountOrExitInv, FlushInv DEF ConsumerThread
<1>5. CASE SnapshotThread
  BY <1>5, ReadingInv, PublishInv, PrintInv DEF SnapshotThread
<1>6. ASSUME NEW c \in Clients, Connect(c) \/ Talks(c) \/ Accept(c)
      PROVE  TelemetryInv'
  BY <1>1, <1>6, OtherThreadsInv DEF Connect, Talks, Accept
<1>7. CASE Respond \/ ExporterExits
  BY <1>1, <1>7, OtherThreadsInv DEF Respond, ExporterExits
<1>8. ASSUME NEW thread, NEW ended, NEW next, Join(thread, ended, next)
      PROVE  TelemetryInv'
  <2>1. running' \in BOOLEAN
    <3>1. running' = (running /\ thread # "commander") BY <1>8 DEF Join
    <3> QED BY <3>1
  <2>2. UNCHANGED <<commandVars, consumerVars, shared, snapshotVars, metrics, histories>>
    BY <1>8 DEF Join
  <2> QED BY <2>1, <2>2, OtherThreadsInv
<1>9. CASE MainThread BY <1>8, <1>9, Zenon DEF MainThread
<1>10. CASE Exited \/ UNCHANGED telemetryVars
  BY <1>1, <1>10, OtherThreadsInv DEF Exited, telemetryVars
<1> QED BY <1>2, <1>3, <1>4, <1>5, <1>6, <1>7, <1>9, <1>10
  DEF TelemetryNext, CommandThread, ExporterThread

\* The inductive invariant of the server's records: what the consumer leaves behind,
\* what RESET clears and what the snapshot thread has read of it so far fit together
\* after every step.
THEOREM TelemetryInvariant == TelemetrySpec => []TelemetryInv
BY InitTelemetryInv, NextTelemetryInv, PTL DEF TelemetrySpec

\* Every snapshot printed while no RESET came between is coherent: the tape is an
\* unbroken run of messages that reaches at least to the count printed with it.
THEOREM SnapshotsAreCoherent == TelemetrySpec => []SnapshotCoherent
<1>1. TelemetryInv => SnapshotCoherent BY DEF TelemetryInv
<1> QED BY <1>1, TelemetryInvariant, PTL

\* Every scrape adds up, whichever snapshot it falls on: the histogram is bounded and
\* no more is processed than ingested but for the message just pushed.
THEOREM ScrapesAreConsistent == TelemetrySpec => []ScrapesAddUp
<1>1. TelemetryInv => ScrapesAddUp BY DEF TelemetryInv
<1> QED BY <1>1, TelemetryInvariant, PTL

\* The latency window holds the latest messages without a hole, across RESETs, and
\* never more than the window and a batch.
THEOREM WindowHoldsLatest == TelemetrySpec => []SamplesAreLatest
<1>1. TelemetryInv => SamplesAreLatest BY DEF TelemetryInv
<1> QED BY <1>1, TelemetryInvariant, PTL

================================================================================
