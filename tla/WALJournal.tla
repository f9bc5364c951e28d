------------------------------- MODULE WALJournal -------------------------------
(***************************************************************************)
(* WALJournal (wal_journal.hpp): wire messages are copied one after another *)
(* into a memory-mapped file whose unused part is zero; open finds the end *)
(* again by looking for the first record whose msgType is zero, and recover *)
(* replays what comes before it into an order book.                        *)
(*                                                                         *)
(* A record is two units, the head, which holds the msgType, and the rest. *)
(* They are stored in any order, as memcpy may.  A unit holds the number of *)
(* the message it was copied from, 0 where nothing was.  Pages need not be *)
(* a whole number of records (34 bytes against 4096).  The stores go to the *)
(* page cache, which outlives the process; the system writes a page back   *)
(* whenever it likes, and a power loss leaves the pages as last written.   *)
(***************************************************************************)
EXTENDS Integers, FiniteSetsExt

CONSTANTS
  FileUnits,      \* units of the largest file
  Sizes,          \* file sizes a caller may ask for, in units
  PageUnits,      \* units of a page
  Foreign,        \* messages that are not 'A', 'X' or 'E'
  MaxMessages     \* bound of the checked instances

ASSUME WALAssumption ==
  /\ FileUnits \in Nat /\ Sizes \subseteq 0 .. FileUnits
  /\ PageUnits \in Nat \ {0}
  /\ MaxMessages \in Nat

VARIABLES
  mapped,              \* mappedPtr_ # nullptr
  maxSize,             \* maxSizeBytes_, in units
  writeOffset,         \* writeOffsetBytes_, in records
  pending,             \* units of the running append not stored yet
  appending,           \* an append is running
  cache, disk,         \* the file as processes see it, and as a power loss leaves it
  messages,            \* number of messages handed to append so far
  accepted,            \* history: messages whose append returned true
  mishaps              \* history: what makes a replay incomplete, see Mishaps

walVars == <<mapped, maxSize, writeOffset, pending, appending, cache, disk,
             messages, accepted, mishaps>>

--------------------------------------------------------------------------------
(* The file *)

RecordUnits == 2
Parts == {0, 1}                          \* head and rest
Units == 0 .. FileUnits - 1
Empty == [u \in Units |-> 0]
HeadUnit(i) == RecordUnits * i
RestUnit(i) == RecordUnits * i + 1

PageOf(u) == u \div PageUnits
Pages == {PageOf(u) : u \in Units}

\* ftruncate: units past the end are gone, and zero should the file grow again.
Truncated(file, size) == [u \in Units |-> IF u < size THEN file[u] ELSE 0]

RecordsInFile(size) == size \div RecordUnits
Free(file, size) == {i \in 0 .. RecordsInFile(size) - 1 : file[HeadUnit(i)] = 0}

\* Mutant of FirstFree: nobody looks.
FirstRecord(file, size) == 0

\* Where open goes on appending: the first free record, 0 when there is none.
FirstFree(file, size) ==
  IF Free(file, size) = {} THEN 0 ELSE Min(Free(file, size))

\* Why a replay may miss messages: the file was opened with no free record in it,
\* or with a smaller size, or lost its unwritten pages; "reuse" when appends went
\* on after such a loss.
Mishaps == {"full", "shrunk", "power", "reuse"}

MishapsOfOpen(size) ==
  (IF \E u \in Units : u >= size /\ cache[u] # 0 THEN {"shrunk"} ELSE {})
    \cup (IF Free(cache, size) = {} THEN {"full"} ELSE {})

--------------------------------------------------------------------------------
(* Operations *)

Init ==
  /\ mapped = FALSE /\ maxSize = 0 /\ writeOffset = 0
  /\ pending = {} /\ appending = FALSE
  /\ cache = Empty /\ disk = Empty
  /\ messages = 0 /\ accepted = {} /\ mishaps = {}

\* open closes the file it holds, sets the size of the new one and maps it.
Open(size) ==
  /\ ~appending
  /\ mapped' = TRUE
  /\ maxSize' = size
  /\ cache' = Truncated(cache, size)
  /\ writeOffset' = FirstFree(cache', size)
  /\ mishaps' = mishaps \cup MishapsOfOpen(size)
  /\ UNCHANGED <<pending, appending, disk, messages, accepted>>

\* The file cannot be opened or sized, or (truncates) it is sized but not mapped.
OpenFails(size, truncates) ==
  /\ ~appending
  /\ mapped' = FALSE
  /\ maxSize' = size
  /\ cache' = IF truncates THEN Truncated(cache, size) ELSE cache
  /\ mishaps' = IF truncates THEN mishaps \cup (MishapsOfOpen(size) \ {"full"})
                             ELSE mishaps
  /\ UNCHANGED <<writeOffset, pending, appending, disk, messages, accepted>>

\* Mutant of Fits: the file may be overrun by a record.
FitsLoosely(offset, size) == RecordUnits * offset <= size

Fits(offset, size) == RecordUnits * (offset + 1) <= size

\* append: the check, the stores of the memcpy, the advance of the offset.
AppendBegins ==
  /\ mapped /\ ~appending
  /\ Fits(writeOffset, maxSize)
  /\ messages < MaxMessages
  /\ appending' = TRUE /\ pending' = Parts
  /\ messages' = messages + 1
  /\ mishaps' = IF "power" \in mishaps THEN mishaps \cup {"reuse"} ELSE mishaps
  /\ UNCHANGED <<mapped, maxSize, writeOffset, cache, disk, accepted>>

Store(part) ==
  /\ appending /\ part \in pending
  /\ cache' = [cache EXCEPT ![RecordUnits * writeOffset + part] = messages]
  /\ pending' = pending \ {part}
  /\ UNCHANGED <<mapped, maxSize, writeOffset, appending, disk, messages,
                 accepted, mishaps>>

\* Mutant of AppendEnds: the offset may advance before the head is stored.
AppendEndsEarly ==
  /\ appending /\ 1 \notin pending
  /\ writeOffset' = writeOffset + 1
  /\ appending' = FALSE /\ pending' = {}
  /\ accepted' = accepted \cup {messages}
  /\ UNCHANGED <<mapped, maxSize, cache, disk, messages, mishaps>>

AppendEnds ==
  /\ appending /\ pending = {}
  /\ writeOffset' = writeOffset + 1
  /\ appending' = FALSE
  /\ accepted' = accepted \cup {messages}
  /\ UNCHANGED <<mapped, maxSize, pending, cache, disk, messages, mishaps>>

\* close: flushAsync waits for nothing, so unmapping is all it does.
Close ==
  /\ mapped /\ ~appending
  /\ mapped' = FALSE
  /\ UNCHANGED <<maxSize, writeOffset, pending, appending, cache, disk, messages,
                 accepted, mishaps>>

\* The process dies, in the middle of an append or not; the next one has a new
\* WALJournal.
ProcessDies ==
  /\ mapped' = FALSE /\ maxSize' = 0 /\ writeOffset' = 0
  /\ pending' = {} /\ appending' = FALSE
  /\ UNCHANGED <<disk, messages, accepted>>

ProcessCrash == ProcessDies /\ UNCHANGED <<cache, mishaps>>

PowerLoss ==
  /\ ProcessDies
  /\ cache' = disk
  /\ mishaps' = IF cache = disk THEN mishaps ELSE mishaps \cup {"power"}

\* The system writes a page back.
WriteBack(page) ==
  /\ disk' = [u \in Units |-> IF PageOf(u) = page THEN cache[u] ELSE disk[u]]
  /\ UNCHANGED <<mapped, maxSize, writeOffset, pending, appending, cache, messages,
                 accepted, mishaps>>

Next ==
  \/ \E size \in Sizes : Open(size)
  \/ \E size \in Sizes, truncates \in BOOLEAN : OpenFails(size, truncates)
  \/ AppendBegins
  \/ \E part \in Parts : Store(part)
  \/ AppendEnds
  \/ Close
  \/ ProcessCrash
  \/ PowerLoss
  \/ \E page \in Pages : WriteBack(page)

Spec == Init /\ [][Next]_walVars

--------------------------------------------------------------------------------
(* recover: the records handed to the order book, in the order of their     *)
(* indices.  Nothing of the journal changes.                               *)

HeadAt(i) == cache[HeadUnit(i)]
RestAt(i) == cache[RestUnit(i)]

Replayed ==
  IF mapped THEN {i \in 0 .. writeOffset - 1 : HeadAt(i) \notin Foreign} ELSE {}

--------------------------------------------------------------------------------
(* Properties *)

TypeOK ==
  /\ mapped \in BOOLEAN /\ appending \in BOOLEAN
  /\ maxSize \in Sizes \cup {0}
  /\ writeOffset \in Nat
  /\ mapped => writeOffset <= RecordsInFile(maxSize)
  /\ pending \subseteq Parts
  /\ cache \in [Units -> 0 .. messages] /\ disk \in [Units -> 0 .. messages]
  /\ messages \in 0 .. MaxMessages
  /\ accepted \subseteq 1 .. messages
  /\ mishaps \subseteq Mishaps

Holds(i, m) == HeadAt(i) = m /\ RestAt(i) = m
Recovers(m) == \E i \in Replayed : Holds(i, m)
ToRecover == accepted \ Foreign

InOrder == \A i, j \in Replayed : i < j => HeadAt(i) < HeadAt(j)

\* Why the properties hold.  While an append runs, its record lies within the file
\* and what is not pending is stored.
AppendHolds ==
  /\ pending # {} => appending
  /\ appending =>
       /\ mapped /\ Fits(writeOffset, maxSize)
       /\ messages > 0 /\ messages \notin accepted
       /\ 0 \notin pending => HeadAt(writeOffset) = messages
       /\ 1 \notin pending => RestAt(writeOffset) = messages

\* The records whose head is in the file; one may be left without its rest.
Records == {i \in 0 .. FileUnits : HeadUnit(i) < FileUnits}

\* The first n records and no others have a head, in the order of the messages;
\* every accepted message is one of them, whole; and the offset is n, or one less
\* when the running append has stored its head.
Grown(n) ==
  /\ \A i \in Records : HeadAt(i) # 0 <=> i < n
  /\ \A i, j \in Records : i < j /\ j < n => HeadAt(i) < HeadAt(j)
  /\ \A m \in accepted : \E i \in Records :
       i < n /\ RestUnit(i) < FileUnits /\ Holds(i, m)
  /\ mapped => n = IF appending /\ 0 \notin pending THEN writeOffset + 1 ELSE writeOffset
  /\ appending => \A i \in Records : i < writeOffset => HeadAt(i) < messages

\* What the rest of record i and the head of the next one share a page for: the
\* latter is not on the disk without the former.
SamePage(i) == i + 1 \in Records /\ PageOf(RestUnit(i)) = PageOf(HeadUnit(i + 1))

\* The disk lags behind: a head is there or not yet, and once a head is there the
\* rest before it on its page is.
DiskFollows ==
  \A i \in Records :
    /\ disk[HeadUnit(i)] \in {0, HeadAt(i)}
    /\ SamePage(i) /\ disk[HeadUnit(i + 1)] # 0 => disk[RestUnit(i)] = RestAt(i)

\* Record j is where message m was: with its head or empty, between the messages
\* before and after m, and whole where the next record vouches for it.
Placed(j, m) ==
  /\ HeadAt(j) \in {0, m}
  /\ \A i \in Records : i < j => HeadAt(i) < m
  /\ \A i \in Records : i > j => HeadAt(i) = 0 \/ HeadAt(i) > m
  /\ SamePage(j) /\ HeadAt(j + 1) # 0 => RestAt(j) = m

\* What a power loss left of the file: heads in the order of the messages, with holes.
\* Every accepted message has its place, between the messages before and after it.
PowerCut ==
  /\ cache = disk /\ ~appending
  /\ mapped => \A i \in 0 .. writeOffset - 1 : HeadAt(i) # 0
  /\ \A i, j \in Records : i < j /\ HeadAt(i) # 0 /\ HeadAt(j) # 0 => HeadAt(i) < HeadAt(j)
  /\ \A m \in accepted : \E j \in Records : Placed(j, m)

\* The inductive invariant of the journal.
WALInv ==
  /\ TypeOK
  /\ AppendHolds
  /\ mishaps = {} => DiskFollows /\ \E n \in 0 .. FileUnits : Grown(n)
  /\ mishaps = {"power"} => PowerCut

\* Crashes of the process, in the middle of an append too, and failed opens take
\* nothing from the journal: while the file was neither full nor cut when it was
\* opened, and the power held, recover replays every message whose append
\* returned true, whole and in the order they were appended (append, open's scan
\* and recover, together).
NothingAcceptedIsLost ==
  mapped /\ mishaps = {} => InOrder /\ \A m \in ToRecover : Recovers(m)

\* After a power loss, with pages written back in any order, and until appends go
\* on, recover replays a prefix: no accepted message is missing before one that is
\* replayed (the scan stops at the first hole).  But nothing tells a torn record from
\* a whole one: where the next record starts on another page, a message before the
\* last one replayed may have lost its rest.
PowerLossKeepsPrefix ==
  mapped /\ mishaps \subseteq {"power"} =>
    /\ InOrder
    /\ \A m \in ToRecover :
         (\E i \in Replayed : HeadAt(i) > m) =>
           \E j \in Replayed :
             /\ HeadAt(j) = m
             /\ SamePage(j) => RestAt(j) = m

\* PRODUCTION_READINESS.md:38 promises "recovery and replay after abrupt engine
\* termination".  A journal filled to the last record is not recovered: with no
\* free record to stop at, open's scan leaves the offset at 0.
FullJournalIsRecovered ==
  mapped /\ mishaps \subseteq {"full"} => \A m \in ToRecover : Recovers(m)

================================================================================
