# Verification of the Quant Feed Handler

TLA+ models of the feed handler's own logic, TLC runs that check them on small
instances, and TLAPS proofs of the safety properties for every value of the
constants. Paths below are relative to the repository.

## 1. The system

Market data messages (add `A`, cancel/reduce `X`, execute `E`, each with a
sequence number) enter from a file, a UDP socket, a generator or an operator,
pass a lock-free ring between two threads and update a limit order book. A
stream server prints the book as JSON lines; a Python bridge runs the server as
a child process and broadcasts the lines over WebSockets to a browser client,
whose commands travel the other way.

```
 feeds A/B -> DualFeedArbitrator -> (library only, no executable uses it)
 generator / UDP / stdin -> SPSCRingBuffer -> LimitOrderBook -> OrderTable
                                                  |
 web/app.js <- WebSocket -> bridge.py <- stdout - stream_server -> metrics
```

| Component | State | Operations | Interaction | What is hard |
|---|---|---|---|---|
| SPSC ring (`ring_buffer.hpp`) | two published indices, one cached index per side, slots | tryPush, tryEmplace, tryPop, empty, size | shared memory between one producer and one consumer | late reads of the other index, slots that are not atomic, full/empty boundary |
| Benchmark (`main.cpp` runSPSCBenchmark) | start and finished flags | push loop, pop loop, join | two threads around the ring | the exit test against the last messages, spinning on both sides |
| Arbitrator (`feed_arbitrator.hpp`) | expected number, gap buffer, counters | ingest, tryDrainBuffered, reset | called with messages of two feeds | loss, reordering and duplication on each feed; slots shared by numbers |
| Order table (`order_table.hpp`) | slots, two counts | insert, lookup, erase, clear | the book writes through the pointers lookup returns | tombstones, collisions, a full table |
| Order book (`order_book.hpp`) | order table, two arrays of levels, counters | processMessage, reset, getters | called by one thread | incremental totals, eviction at the edge of the array, sequence check |
| Stream server (`stream_server.cpp`) | running, pending burst, next number, totals, ring, book, tape, latency window | threads: producer, command, consumer, snapshot, main | ring, atomics, two mutexes, stdin/stdout | two threads push; RESET and QUIT meet a burst; snapshots are read piece by piece |
| Protocol, parser (`protocol.hpp`, `parser_validator.hpp`) | none | isValid, validateAndParse, parseUserLine | between the socket or the text and the book | which values get through |
| WAL (`wal_journal.hpp`) | mapped file, append offset | open, append, flushAsync, close, recover | file system; library and tests only | crash between append and write-back, reopening |
| Exporter (`metrics_exporter.hpp`) | atomics, a listening socket, a thread | start, updateMetrics, stop | HTTP scrapes | stopping while a client is silent |
| Latency tracker (`latency_tracker.hpp`) | samples, sorted flag | record, reset, percentile | sequential | stale sorted flag |
| UDP receiver, live mode (`udp_receiver.hpp`, `main.cpp`) | socket, one receive buffer | bind, receive, push loop, worker | kernel, ring, book | short datagrams in a reused buffer, loss at three places, a full ring stops receiving |
| Bridge (`bridge.py`) | child process, clients, limiters | route command, broadcast, respawn | pipes, WebSockets, HTTP | awaits between reads and writes, a blocking write on the event loop, unread stderr, restart |
| Web client (`web/app.js`) | socket, standalone flag, book copy, portfolio | connect, retry, trade, import | WebSocket | events of an old socket, retry |
| Mock exchange (`mock_exchange.cpp`), pcap replayer (`pcap_replayer.cpp`) | next number, live orders; messages found in a capture | send | UDP | how many bytes of which message are sent |
| Affinity, kernel bypass, deployment | — | platform wrappers, configuration | — | not modelled |

What makes each component correct:

* ring: items arrive in order and once; no slot is copied in and out at the same
  time; whoever waits is served;
* benchmark: the whole feed is processed, and it ends;
* arbitrator: one in-order stream; nothing that fits the buffer is lost;
* order table: a bounded map from ids to records;
* order book: sorted levels that show what rests, as far as array and messages
  allow; gaps in the numbers never go unnoticed;
* stream server: numbers without holes, totals that agree, a RESET that clears,
  a QUIT that ends;
* WAL: what was accepted is recovered after a crash; after a power loss, a prefix;
* parser: what it accepts is what the book expects, and what the bridge writes
  is what the engine reads;
* live mode: whole messages, every loss accounted for, nothing lost behind the
  socket;
* telemetry: a snapshot is coherent, a scrape adds up, the latency window holds
  the latest samples;
* bridge: a dead engine is replaced, the event loop is not stopped for ever, a
  connected client gets every broadcast.

`PROJECT.json` lists every hazard at its source line with the properties that
cover it.

## 2. Modules

| Module | Models | Proofs |
|---|---|---|
| `BoundedFifo` | abstract: a bounded queue | |
| `SPSCRing` | the ring, one action per access to shared memory | `SPSCRingProofs` |
| `SPSCBenchmark` | the benchmark's two threads, EXTENDS `SPSCRing` | `SPSCRingProofs` |
| `OrderedDelivery` | abstract: in-order delivery of what arrived | |
| `DualFeedArbitrator` | arbitrator, exchange and two feeds | `DualFeedArbitratorProofs` |
| `OrderMap` | abstract: a bounded map | |
| `OrderTable` | the hash table | `OrderTableProofs` |
| `OrderBook` | the book, over `OrderMap` | `OrderBookProofs` |
| `StreamServer` | the server's threads, EXTENDS `SPSCRing` | `StreamServerProofs` |
| `WALJournal` | the journal, its file in the page cache and on disk | `JournalTelemetryProofs` |
| `WireProtocol` | message structs, validateAndParse, parseUserLine, the bridge's lines | `LiveFeedProofs` |
| `LiveFeed` | publishers, network, socket, receiving and worker thread, EXTENDS `WireProtocol` | `LiveFeedProofs` |
| `Telemetry` | tape, latency window, snapshots, metrics exporter, shutdown | `JournalTelemetryProofs` |
| `Bridge` | event loop, clients, broadcast, the engine behind its pipes | |
| `Arithmetic` | lemmas on remainders, least elements of sets of naturals and finite sums, used by the proof modules | itself |
| `MC*` | values a configuration cannot write | |

The composition follows the code: `OrderTable` implements `OrderMap`, which
`OrderBook` instantiates; the benchmark and the server run their loops around
`SPSCRing`, every step inside tryPush and tryPop included. The server and live
mode keep of the book its sequence check only. `LiveFeed` uses `BoundedFifo` for
the ring: one thread pushes and one pops there, and for that `SPSCRing` is
proved to implement it. `Telemetry` is the part of the server that `StreamServer`
leaves out; the ring is a queue of numbers there, and one thread pushes.

How code becomes actions:

* **Ring.** A call is several actions because the other thread may act between
  them: the test against the cached index (`PushCheck`, `PopCheck`), the acquire
  load (`PushRefresh`/`PushFull`, `PopRefresh`/`PopEmpty`), the copy
  (`PushWrite`, `PopRead`), the release store (`PushPublish`, `PopRelease`).
  With `StaleReads` a load may return any value the index had since this side
  last saw it, which is what coherence leaves open. Producers is a set because
  the stream server has two.
* **Arbitrator.** ingest is one action per outcome. A message is its number; the
  feeds hold copies that arrive in any order, once or never.
* **Order table.** A probe loop is one action: where it ends is determined by
  the table (`EndsAt`). The hash is the constant `Hash`. `WriteThrough` is what
  the book does to a record behind the table's back.
* **Order book.** Every message is one action that does the sequence check, the
  counters, the level and the record, as processMessage does. `irregular` is a
  history of three things the level arrays do not keep track of: an `A` for a
  live id, a message that takes more than an order has, and more prices than
  levels. The properties say which of them they exclude.
* **Stream server.** Reads and writes of the atomics are steps; numbering,
  pushing and counting a message are separate; RESET is four steps;
  processMessage's sequence check is two, as a RESET can fall between them. A
  line that does not parse (`Reject`) spends its number. `Patient` describes the
  operator: a patient one sends orders only while no burst is pending or being
  pushed and RESET only when everything was processed. An impatient one makes
  two threads push at once, which one run shows; after that the ring's state is
  the outcome of a data race, and nothing further is claimed.

* **WAL.** A record is two units, its head (which holds msgType) and the rest; a
  unit holds the number of the message it was copied from. append is a check, the
  two stores in any order, and the advance of the offset, as a process can die
  between any of them. `cache` is the page cache, which survives the process;
  `disk` is what survives a power loss, page by page, and pages need not hold
  whole records. flushAsync changes nothing: msync(MS_ASYNC) only asks for the
  write-back that `WriteBack` may do at any time. open is one action, its scan
  and its ftruncate included; `OpenFails` is an open that stops before or after
  the ftruncate. `mishaps` is a history of what the properties exclude: a file
  opened without a free record or cut, a power loss, appends after one.

* **Wire protocol.** Pure operators. A token of a typed line is what the parser
  can make of it: its first letter, the integer strtol reads and the ticks
  parsePriceTicks reads, both before the cast to 32 bits (`Int32`). The lines of
  format_order_command are such tokens too.
* **Live mode.** A message's bytes are four segments, cut where the three structs
  differ; `Receive` overwrites as many as the datagram has. `Arrives(i)` with
  i > 1 is a datagram that overtakes. `Extract` is the replayer's search of a
  captured frame. `overtaken` is a history: a datagram overtook another, or the
  capture itself has its messages out of order or twice. Validation
  plays no part: runLiveUDP passes every datagram on.
* **Telemetry.** A message, its tape entry and its latency sample are its number.
  Every access under a mutex or to an atomic is a step; what one iteration of the
  snapshot loop reads is local to it. `undisturbed` marks snapshots no RESET
  touched, `base` is the number of messages of before the last RESET.
* **Bridge.** A stretch of a coroutine between two awaits is a step; `writing`
  is a write that keeps the event loop. Clients are numbered in the order the
  set is iterated, so both uses of `list(connected_clients)` agree as long as the
  set does not change. The pipes hold lines; `Diagnose` is the line
  loadFileIntoEngine writes to stderr.

A definition marked "Mutant of X" is a plausible mistake in X. The
specifications do not use it: putting it in place of X makes the property that
guards against the mistake fail, and `PROJECT.json` pairs each property with
one.

## 3. Runs

| Run | Instance | What it shows |
|---|---|---|
| `benchmark` | ring of 2 slots, feed of 6, stale loads | order, no slot race, the inductive invariant `BenchInv` (with that of the ring in it), refinement of the FIFO, nothing left behind at exit, both loops end |
| `arbitrator` | 2 feeds, 4 messages, 2 gap slots | in sequence, nothing forgotten within reach of the buffer, refinement, completion unless lost twice or outrun |
| `order_table` | 4 slots, 5 ids, 2 values | probe chains, uniqueness, counts, refusal, refinement of the map |
| `order_book` | 2 levels, 3 prices, 4 ids, table of 3, 5 messages, numbers early, late, repeated | sorted levels, nothing shown that does not rest, exact totals in regular histories, eviction of the worst level only, no loss unnoticed |
| `stream_server` | ring of 2, bursts of 3, files of 1 or 2 lines, 3 commands, patient operator | the inductive invariant `ServerInv`, numbering, totals, RESET, backpressure, shutdown when quiet |
| `stream_server_shutdown` | ring of 2, one burst of 3 | **violated**: the server ends after QUIT |
| `wal` | files of 3 and 5 records, pages of 3 units, 4 messages of which one is foreign | the inductive invariant, nothing accepted is lost to process crashes and failed opens, a prefix after a power loss, whole but where the next record starts on another page |
| `wal_full` | file of 2 records | **violated**: a full journal is recovered |
| `live_feed` | 4 messages or a capture of up to 3 frames, one of them out of order, socket of 2, ring of 1 | every field of a message is from its datagram, the gap counter accounts for losses, what the kernel accepted is processed |
| `telemetry` | tape of 2, window of 1, batches of 2, 4 messages, 1 RESET, 1 scraper | snapshots are coherent, scrapes add up, samples are the latest, all threads end |
| `bridge` | 2 clients, pipes of 1 line, 5 commands, 2 deaths | a dead engine is replaced, writes that stop the loop end unless stderr is full |
| `bridge_drop` | 2 clients | **violated**: a connected client stays in the set |

Why the bounds are enough. Two slots make the ring wrap after two items and be
full, empty and half full; six pushes wrap it three times. Two gap slots with
four messages give collisions, wrap-around and a consumer outrun by more than
the buffer. Five ids for four slots fill the table with a run of colliding
hashes that wraps past the last slot and leave one id refused. Two levels and
three prices give a full side, eviction, and a price that returns. A burst of
three does not fit the ring of two. Pages of a record and a half make some
records straddle a page boundary, some end at one and some share a page with
the next; four messages in files of three or five records leave room for torn
records, holes, a full file and a cut one, and the larger file has a record
behind the last message, so that open stops at a free one after a torn one. The
captures put long messages before short ones, short ones at the end of a frame
and invalid ones between, and numbers late or twice; a ring of one and a socket
of two fill up with four datagrams. A tape of two wraps twice with four
messages, and the second batch of two exceeds a window of one. Pipes of one
line are full after one command; the fourth of five chatty ones stops the loop,
and two deaths let the engine die again while it is being replaced or after.
`Half` of 128 keeps 32-bit casts within TLC's integers; the proofs hold for
every width. Bounds are the constants `LastSeqNo`, `MaxActive`, `MaxMessages`,
`MaxCommands`, `MaxSeqNo`, `MaxPushes`, `MaxResets`, `MaxDeaths` and the
constraint `FewOddNumbers`; ids of the book are symmetric, no liveness property
is checked there.

`CHECK_DEADLOCK FALSE` stands where the environment may have nothing left to
send (arbitrator, table, book, live mode) and for the bridge, which does stop
for ever when stderr is full. Elsewhere deadlock is checked, with an explicit
step for a program that has ended.

### Findings

1. **Shutdown can hang** (`ShutdownCompletes`). The consumer stops at once, the
   producer spins on the full ring without looking at `g_running`, main joins it.
   Without a burst under way the shutdown completes (`QuietShutdownCompletes`).
2. **A full journal is lost** (`FullJournalIsRecovered`). open's scan starts from
   offset 0 and keeps it when no record is free, so a file filled to its last
   record is not replayed and is overwritten.
3. **A live client is dropped** (`NoLiveClientDropped`). The bridge matches the
   results of a broadcast with the clients connected when it ends. A client that
   leaves in between shifts its failure to another one, which stays connected and
   hears nothing more.

Observed while modelling, and visible in the definitions, without a run of
their own:

* With a full side the worst level is overwritten; when a slot frees, the price
  comes back only with the next order's quantity. `VisibleIsBacked` holds: the
  error is always on the low side.
* The command thread pushes into the ring the producer thread is pushing into;
  only a patient operator keeps them apart.
* Live mode never validates a datagram, though PRODUCTION_READINESS.md:115 says
  truncated wire bytes are discarded; `WholeMessagesOnly` holds because both
  publishers send whole structs.
* The replayer passes over an `X` or `E` at the end of its frame (`Extract`).
* The bridge accepts a price below half a tick and a quantity that is a multiple
  of 2^32; the engine rejects both, and a number is spent (`MCLiveFeed`).
* parseUserLine documents "parsed and valid", but lets pass a cancel of negative
  quantity and an execution without a price (`ParserLetsPass`).
* A RESET does not reach the samples the consumer has not handed over, so the
  histogram may start with up to a batch less one of old ones (`ScrapesAddUp`).
* The exporter's `_count` is the number of messages processed, its `+Inf` bucket
  the size of the latency window (`Payload`).
* stderr of the engine is never read: `WritesEnd` has to except the full pipe.

PRODUCTION_READINESS.md:118 also promises exact reconstruction after a power
loss. With MS_ASYNC that cannot be: `PowerLossKeepsPrefix` is what does hold. A
replay stops at the first hole, so the last messages are missing; and since
nothing tells a torn record from a whole one, a message whose head was written
back and whose rest lay on the next page is replayed torn, in the middle of the
replay too: one whose successor starts on yet another page (`SamePage`). An
earlier version of the property denied that, on a file too short to show it;
the attempt to prove it did. It holds only until appends go on, since records
left behind a hole are counted again once the hole is filled (hazard at
`wal_journal.hpp:111`).

## 4. Fairness

Ring: weak fairness of each side (both spin on a core of their own) and strong
fairness of a load that sees the newest head, as a store becomes visible in
finite time and a spinning reader looks again and again. Benchmark: the same,
and the finished flag is eventually seen. Arbitrator: the exchange goes on, a
copy that is not lost arrives, the caller drains when it can; nothing prevents
loss. Server: weak fairness of each thread; the operator owes no command, but
the command thread finishes one it has begun. The refutation of
`ShutdownCompletes` uses this fairness: no scheduling helps. No liveness is
claimed of the journal. Live mode: the receiving and the worker thread run; the
network and the publishers owe nothing, which is why `AcceptedIsProcessed`
begins at the socket. Telemetry: each thread runs, the command thread finishes
what it has begun, and a client of the metrics port sends its request or hangs
up in the end; without the last, recv has no timeout and stop() would wait for
ever. Bridge: the coroutines and the engine's threads run when they can, a send
ends because the library closes connections that do not answer its pings, and an
engine started again and again starts in the end (strong fairness of `Respawn`,
as each failed attempt disables it for a while).

## 5. Proofs

All theorems hold for every value of the constants under the named assumptions
of the modules; TLC evaluates those assumptions in the runs.

* **Ring** (`SPSCRingProofs`, for exactly one producer). `RingInv` is inductive:
  caches are conservative (`tail <= cachedHead <= head`, `cachedTail <= tail`,
  `head - tail <= Capacity`), what a side concluded from a cache is still true
  when it acts on it, and the slots between the indices hold what was published.
  The order of delivery alone is not inductive: it needs to know that a slot
  being written is not among those still to be read, hence the caches and, for
  slots, that indices less than Capacity apart differ modulo Capacity
  (`SlotArithmetic`). From it follow in-order delivery, absence of slot races and
  the refinement of `BoundedFifo`. The assumption of one producer is necessary:
  two would take the same slot.
* **Benchmark** (same module). `BenchInv` adds to `RingInv` that the main thread
  alone pushes, that what it published is the feed so far (`FeedInOrder`), and
  that the flag is set only with all of it in the ring and the consumer has left
  only with an empty ring behind it (`FinishedMeansAll`). The last is the point:
  the consumer's view of the head may be old, but it looks only after it saw the
  flag, and the head it may then see is the last one.
* **Stream server** (`StreamServerProofs`, ASSUME `Patient`: without it two
  threads push at once and the ring's theorems do not apply). `ServerInv` says
  which thread is where when the other acts (`ThreadsTakeTurns`), so that the
  ring's invariant, proved for one producer, survives two; and it keeps the
  books since the last RESET: with `base` the number of messages sent before
  it, the numbers in the ring rise up to the next one to be given, those
  missing were spent on rejected lines, and each counter is a known number of
  messages behind the ring. `base` is a witness, not a variable; a RESET is the
  step that moves it. No number exceeds `MaxSeqNo` because no command asks for
  more than the longest burst or file (`NumbersWithinBounds`). From it follow
  order, gaps, totals and RESET, and that the ring still implements
  `BoundedFifo` and its slots do not race.
* **Arbitrator.** `ArbInv` adds to in-sequence delivery that parked messages have
  arrived and lie in their own slots, and that nothing arrives that was not sent.
  The hard step is that parking a message overwrites none that is still needed:
  both lie within `lead <= MaxBufferedGaps` above the expected number, so their
  remainders differ.
* **Order table.** The invariant is that every stored record is where the probe
  loop for its id ends (`ChainsUnbroken`). An insert uses the first unused slot,
  and so lies on no other record's chain; a cancelled record keeps its slot.
  Uniqueness of ids follows because a probe loop ends at one place only. That a
  refusal means a full table is the surjectivity of probing, a counting argument.
  The refinement of `OrderMap` uses both.
* **Order book.** `BookInv` (types and sorted levels) is inductive through
  applyDelta and removeLevel for every depth. That the bubbling loop stops at a
  place is proved by a minimal counterexample. `LossNoticed` needs the stronger
  `SeqInv`: the number before the expected one was seen. `EvictsOnlyWorst`
  follows from `BookInv` alone: a removal takes out its slot's price and a
  placement the price its slot held, a sorted full side shows `Depth` different
  prices, and its last slot holds the worst. For `VisibleIsBacked` and
  `BookMirrorsOrders` what rests at a price is a sum over the live orders; the
  module sees each message as a change (dq, dn) of one price's sum and of one
  level, and asks of applyDelta only that both move alike: what is shown never
  exceeds the sum, and equals it while no price was turned away. That the sum of
  a finite function changes by what one of its values changes is proved in
  `Arithmetic` from the well-founded order of finite sets. It needs two assumptions
  the code meets: there are finitely many ids (`FiniteIds`, 64-bit numbers), and
  the mark of an absent order is not a record (`NoOrderAssumption`).
* **WAL.** `WALInv` says that without a mishap the records with a head are the
  first n, in the order of the messages, that each accepted message is one of
  them, whole, and that the offset is n, or n - 1 while the running append has
  stored its head. n is a witness, not a count: open's scan ends at n because a
  free record exists and all others with a smaller index have a head. Without
  the running append's part the invariant would not survive a crash between the
  two stores. That the scan's result lies in the file needs only that a set of
  naturals has a least element (`Arithmetic`). For power losses two more parts:
  before one, the disk is behind the cache unit by unit, and a head on it implies
  the rest of the record before it where both share a page (`DiskFollows`: pages
  are written back whole, and that rest was stored first); after one, every
  accepted message still has a place between its neighbours, holding its head or
  nothing (`PowerCut`). A scan that stops at the first hole then yields a prefix.

* **Wire protocol.** No state, so no invariant: `ValidatorAgrees` compares
  validateAndParse with isValid, which are written twice in the code;
  `ParserLetsPass` says which messages a typed line can become after the casts to
  32 bits; `BridgeLinesParse` that the engine reads the bridge's lines back as
  the orders they were made from. Each rests on lemmas about the cast
  (`CastKeeps`, `CastInRange`) and one per message type. The width is a constant.
* **Live mode.** `FeedInv`, in the proof module: every datagram carries at least
  the bytes of its own type, hence what the buffer holds below that length is
  its (`Intact`), whatever longer message was there before; and the numbers in
  the ring, in the receiving thread, in the socket, in the network and still to be
  sent, one after the other, are a rising sequence above what the book expects as
  long as nothing overtook (`InOrder`). Taking from the front of one queue and
  putting at the end of the next keeps that, losing one anywhere too; the five
  places are one chain in the lemmas. The counter then grows by exactly the
  numbers that are skipped, and with overtaking by at least those.
* **Telemetry** (`JournalTelemetryProofs`). `TelemetryInv` measures everything
  from `base`: the tape holds the last `TapeSize` messages recorded, each at its
  index modulo the size; shared and local samples are in one piece the last
  messages, the local ones less than a batch; the totals count what was pushed
  and processed; and a snapshot that no RESET touched has read nothing that is
  ahead of the threads. That a message on the tape is not overwritten before it
  is too old is again that numbers less than the size apart differ modulo it.
  The invariant's parts beyond the three properties are defined beside the proof;
  TLC agreed with them on the run's instance and on one with a tape of 3, a
  window of 3, 7 messages and 2 RESETs. `Window + 1 >= Batch` is assumed, as the
  code's 200000 and 1000 satisfy: a window shorter than a batch would never be full.

| Theorem | Property | Run |
|---|---|---|
| `BenchInvariant`, `BenchmarkProcessesAll`, `BenchmarkNeverRaces`, `BenchmarkImplementsFifo` | `BenchInv`, `WholeFeedProcessed`, `NoSlotRace`, `ImplementsFifo` | `benchmark` |
| `RingInvariant`, `InOrderDelivery`, `SlotsNeverRace`, `RingImplementsFifo` (the ring alone, driven by any one producer) | `RingInv`, `InOrderExactlyOnce`, `NoSlotRace`, `ImplementsFifo` | as parts of `benchmark` and `stream_server` |
| `ArbitratorInvariant`, `ArbitratorTypes`, `DeliveredInSequence`, `NoCollisionWithinBuffer`, `ArbitratorImplementsDelivery` | `ArbInv`, `TypeOK`, `InSequence`, `NothingForgotten`, `ImplementsDelivery` | `arbitrator` |
| `TableInvariant`, `TableTypes`, `ProbeChainsUnbroken`, `OneSlotPerOrder`, `CountsAreBounds`, `RefusalMeansFull`, `TableImplementsMap` | `TableInv`, `TypeOK`, `ChainsUnbroken`, `IdsUnique`, `CountsBoundTable`, `RefusesOnlyWhenFull`, `ImplementsMap` | `order_table` |
| `BookInvariant`, `BookStaysSorted`, `VisibleBacked`, `BookMirrored`, `LossIsNoticed`, `EvictionTakesWorst` | `BookInv`, `LevelsOrdered`, `VisibleIsBacked`, `BookMirrorsOrders`, `LossNoticed`, `EvictsOnlyWorst` | `order_book` |
| `ServerInvariant`, `ServerDeliversInOrder`, `GapsAreRejectedLines`, `TotalsAgree`, `ResetIsClean`, `ServerNeverRaces`, `ServerImplementsFifo` | `ServerInv`, `InOrderExactlyOnce`, `GapsAreRejections`, `CountersAgree`, `ResetClears`, `NoSlotRace`, `ImplementsFifo` | `stream_server` (the last two on `benchmark`) |
| `JournalInvariant`, `NothingAcceptedIsEverLost`, `PowerLossLeavesPrefix` | `WALInv`, `NothingAcceptedIsLost`, `PowerLossKeepsPrefix` | `wal` |
| `FeedInvariant`, `MessagesStayWhole`, `LossesAccounted` | `FeedInv`, `WholeMessagesOnly`, `LossAccounted` | `live_feed` |
| `TelemetryInvariant`, `SnapshotsAreCoherent`, `ScrapesAreConsistent`, `WindowHoldsLatest` | `TelemetryInv`, `SnapshotCoherent`, `ScrapesAddUp`, `SamplesAreLatest` | `telemetry` |

Every safety property of a passing run has its theorem. Only model-checked are
the liveness properties, which TLAPS does not prove under fairness
(`BenchmarkEnds`, `WholeStreamDelivered`, `BackpressureEnds`,
`QuietShutdownCompletes`, `AcceptedIsProcessed`, `ServerEnds`, and both of
`Bridge`, `EngineReplaced` and `WritesEnd`), and the three refutations, which
are TLC's counterexamples. The theorems about the server speak of the patient
operator only.

## 6. Not modelled, and why

The book's ladder in a snapshot: plain fields read while the consumer writes
them, so anything may be printed, nothing to check. Printing, formatting and
pinning have no state the properties could speak of; of sockets only what they
lose and reorder is kept. int32 overflow of level quantities, the hash's mixing
and timestamps are abstracted. The impatient operator's data races are not
followed. The single-threaded modes of `main.cpp` (user file, interactive,
direct benchmark) call processMessage in a loop, which `OrderBook` covers. The
bridge's rate limiter depends on wall-clock time and only refuses commands; its
allowlist and HTTP server keep no state. The web client's one protocol question,
late events of an old socket, is listed as a hazard. Components marked
`not_modelled` in `PROJECT.json` carry their reason.

## 7. Plan

Done: ring and benchmark; arbitrator; order table; order book; server threads;
journal; wire protocol and parser; live mode with its publishers; telemetry and
exporter; bridge. Next, in this order:

1. Proofs: safety facts about `Bridge` that its two liveness properties lean on.
2. `WebClient`: connection state against events of old sockets, retry,
   standalone mode.
3. A 32-bit variant of level totals; the arbitrator's gap count against the
   number of early copies.
