-------------------------------- MODULE Telemetry --------------------------------
(***************************************************************************)
(* What the stream server tells about itself (stream_server.cpp and        *)
(* metrics_exporter.hpp): the consumer thread leaves every message on the  *)
(* tape, in the count and among the latency samples, RESET clears the      *)
(* three one by one, the snapshot thread reads them one by one into a      *)
(* printed snapshot and the published metrics, the exporter thread serves  *)
(* the metrics to HTTP clients, and main ends them all.                    *)
(*                                                                         *)
(* A message, its place on the tape and its latency sample are its number, *)
(* counted from 1 and never reset.  The ring is a queue of numbers.  The   *)
(* operator waits: orders are sent by the command thread alone, and RESET  *)
(* when everything was processed (StreamServer has the other threads'      *)
(* part).  Every access under a mutex, and every atomic one, is a step.    *)
(* The reading of the ladder and the percentiles are left out.             *)
(***************************************************************************)
EXTENDS Integers, Sequences, FiniteSets

CONSTANTS
  TapeSize,      \* RECENT_TAPE_SIZE
  Window,        \* LATENCY_WINDOW
  Batch,         \* samples the consumer collects before it hands them over
  Clients,       \* of the metrics port
  NoClient,
  MaxPushes, MaxResets   \* bounds of the checked instances

ASSUME TelemetryAssumption ==
  /\ TapeSize \in Nat \ {0} /\ Batch \in Nat \ {0}
  /\ Window \in Nat /\ Window + 1 >= Batch
  /\ NoClient \notin Clients
  /\ MaxPushes \in Nat /\ MaxResets \in Nat

VARIABLES
  running,                     \* g_running
  commandAt,                   \* where the command thread is
  pushed, totalIngested,       \* messages pushed, and those counted
  consumerAt, popped,          \* where the consumer is; the message it took last
  tape, tapeHead, totalProcessed,
  localLatencyBuffer, latencySamples,
  snapshotAt, currentProcessed, latCount,  \* the snapshot thread and what it has read
  metrics,                     \* data_ of the exporter
  printed,                     \* the tape of the snapshot put together
  exporterAt, exporterRunning, client,     \* the exporter thread, running_, clientSock
  connection,                  \* connection[c]: "none", "open" or "talked"
  mainAt,                      \* the thread main waits for, then "done"
  resets, base,                \* histories: RESETs, and messages pushed before the last one
  undisturbed                  \* history: no RESET since the snapshot thread woke up

commandVars == <<commandAt, pushed, totalIngested>>
consumerVars == <<consumerAt, popped, localLatencyBuffer>>
shared == <<tape, tapeHead, totalProcessed, latencySamples>>
snapshotVars == <<snapshotAt, currentProcessed, latCount, printed>>
exporterVars == <<exporterAt, client, connection>>
histories == <<resets, base, undisturbed>>
telemetryVars == <<running, commandVars, consumerVars, shared, snapshotVars, metrics,
                   exporterVars, exporterRunning, mainAt, histories>>

Cleared == [i \in 0 .. TapeSize - 1 |-> 0]
NoMetrics == [ingested |-> 0, processed |-> 0, samples |-> 0, undisturbed |-> TRUE]

TelemetryInit ==
  /\ running = TRUE
  /\ commandAt = "loop" /\ pushed = 0 /\ totalIngested = 0
  /\ consumerAt = "loop" /\ popped = 0
  /\ tape = Cleared /\ tapeHead = 0 /\ totalProcessed = 0
  /\ localLatencyBuffer = <<>> /\ latencySamples = <<>>
  /\ snapshotAt = "loop" /\ currentProcessed = 0 /\ latCount = 0
  /\ metrics = NoMetrics /\ printed = <<>>
  /\ exporterAt \in {"select", "exit"}    \* the port may be taken
  /\ exporterRunning = TRUE /\ client = NoClient
  /\ connection = [c \in Clients |-> "none"]
  /\ mainAt = "commander"
  /\ resets = 0 /\ base = 0 /\ undisturbed = TRUE

--------------------------------------------------------------------------------
(* The command thread *)

Push ==
  /\ commandAt = "loop" /\ running /\ pushed < MaxPushes
  /\ pushed' = pushed + 1
  /\ commandAt' = "count"
  /\ UNCHANGED <<running, totalIngested, consumerVars, shared, snapshotVars, metrics,
                 exporterVars, exporterRunning, mainAt, histories>>

Count ==
  /\ commandAt = "count"
  /\ totalIngested' = totalIngested + 1
  /\ commandAt' = "loop"
  /\ UNCHANGED <<running, pushed, consumerVars, shared, snapshotVars, metrics,
                 exporterVars, exporterRunning, mainAt, histories>>

Drained == popped = pushed /\ consumerAt = "loop"

\* RESET, after the book: the tape, the samples, the two totals.
ResetTape ==
  /\ commandAt = "loop" /\ running /\ Drained /\ resets < MaxResets
  /\ tapeHead' = 0 /\ tape' = Cleared
  /\ resets' = resets + 1 /\ base' = pushed /\ undisturbed' = FALSE
  /\ commandAt' = "resetSamples"
  /\ UNCHANGED <<running, pushed, totalIngested, consumerVars, totalProcessed,
                 latencySamples, snapshotVars, metrics, exporterVars, exporterRunning,
                 mainAt>>

ResetSamples ==
  /\ commandAt = "resetSamples"
  /\ latencySamples' = <<>>
  /\ commandAt' = "resetIngested"
  /\ UNCHANGED <<running, pushed, totalIngested, consumerVars, tape, tapeHead,
                 totalProcessed, snapshotVars, metrics, exporterVars, exporterRunning,
                 mainAt, histories>>

ResetIngested ==
  /\ commandAt = "resetIngested"
  /\ totalIngested' = 0
  /\ commandAt' = "resetProcessed"
  /\ UNCHANGED <<running, pushed, consumerVars, shared, snapshotVars, metrics,
                 exporterVars, exporterRunning, mainAt, histories>>

ResetProcessed ==
  /\ commandAt = "resetProcessed"
  /\ totalProcessed' = 0
  /\ undisturbed' = FALSE
  /\ commandAt' = "loop"
  /\ UNCHANGED <<running, pushed, totalIngested, consumerVars, tape, tapeHead,
                 latencySamples, snapshotVars, metrics, exporterVars, exporterRunning,
                 mainAt, resets, base>>

\* QUIT, or the end of stdin.
Quit ==
  /\ commandAt = "loop"
  /\ running' \in {running, FALSE}
  /\ commandAt' = "exit"
  /\ UNCHANGED <<pushed, totalIngested, consumerVars, shared, snapshotVars, metrics,
                 exporterVars, exporterRunning, mainAt, histories>>

CommandThread ==
  Count \/ ResetSamples \/ ResetIngested \/ ResetProcessed

--------------------------------------------------------------------------------
(* The consumer thread *)

\* tryPop and processMessage; the latency is measured around the latter.
Process ==
  /\ consumerAt = "loop" /\ running /\ popped < pushed
  /\ popped' = popped + 1
  /\ localLatencyBuffer' = Append(localLatencyBuffer, popped + 1)
  /\ consumerAt' = "tape"
  /\ UNCHANGED <<running, commandVars, shared, snapshotVars, metrics, exporterVars,
                 exporterRunning, mainAt, histories>>

Record ==
  /\ consumerAt = "tape"
  /\ tape' = [tape EXCEPT ![tapeHead % TapeSize] = popped]
  /\ tapeHead' = tapeHead + 1
  /\ consumerAt' = "count"
  /\ UNCHANGED <<running, commandVars, popped, localLatencyBuffer, totalProcessed,
                 latencySamples, snapshotVars, metrics, exporterVars, exporterRunning,
                 mainAt, histories>>

CountProcessed ==
  /\ consumerAt = "count"
  /\ totalProcessed' = totalProcessed + 1
  /\ consumerAt' = IF Len(localLatencyBuffer) >= Batch THEN "flush" ELSE "loop"
  /\ UNCHANGED <<running, commandVars, popped, localLatencyBuffer, tape, tapeHead,
                 latencySamples, snapshotVars, metrics, exporterVars, exporterRunning,
                 mainAt, histories>>

\* Mutant of Rolled: one sample more before the oldest go.
RolledLate(samples) ==
  IF Len(samples) > Window + 1 THEN SubSeq(samples, Batch + 1, Len(samples)) ELSE samples

\* The samples kept when a batch is to be added.
Rolled(samples) ==
  IF Len(samples) > Window THEN SubSeq(samples, Batch + 1, Len(samples)) ELSE samples

Flush ==
  /\ consumerAt = "flush"
  /\ latencySamples' = Rolled(latencySamples) \o localLatencyBuffer
  /\ localLatencyBuffer' = <<>>
  /\ consumerAt' = "loop"
  /\ UNCHANGED <<running, commandVars, popped, tape, tapeHead, totalProcessed,
                 snapshotVars, metrics, exporterVars, exporterRunning, mainAt, histories>>

ConsumerExits ==
  /\ consumerAt = "loop" /\ ~running
  /\ consumerAt' = "exit"
  /\ UNCHANGED <<running, commandVars, popped, localLatencyBuffer, shared, snapshotVars,
                 metrics, exporterVars, exporterRunning, mainAt, histories>>

ConsumerThread == Process \/ Record \/ CountProcessed \/ Flush \/ ConsumerExits

--------------------------------------------------------------------------------
(* The snapshot thread *)

\* The loop test, then the sleep; what an iteration reads is local to it.
Sleep ==
  /\ snapshotAt = "loop"
  /\ snapshotAt' = IF running THEN "sleep" ELSE "exit"
  /\ currentProcessed' = 0 /\ latCount' = 0 /\ printed' = <<>>
  /\ UNCHANGED <<running, commandVars, consumerVars, shared, metrics, exporterVars,
                 exporterRunning, mainAt, histories>>

ReadProcessed ==
  /\ snapshotAt = "sleep"
  /\ currentProcessed' = totalProcessed
  /\ undisturbed' = (commandAt \notin {"resetSamples", "resetIngested", "resetProcessed"})
  /\ snapshotAt' = "copy"
  /\ UNCHANGED <<running, commandVars, consumerVars, shared, latCount, printed, metrics,
                 exporterVars, exporterRunning, mainAt, resets, base>>

CopySamples ==
  /\ snapshotAt = "copy"
  /\ latCount' = Len(latencySamples)
  /\ snapshotAt' = "publish"
  /\ UNCHANGED <<running, commandVars, consumerVars, shared, currentProcessed, printed,
                 metrics, exporterVars, exporterRunning, mainAt, histories>>

\* Mutant of Publish: the messages ingested are those of the last snapshot.
PublishLastIngested ==
  /\ snapshotAt = "publish"
  /\ metrics' = [ingested |-> metrics.ingested, processed |-> currentProcessed,
                 samples |-> latCount, undisturbed |-> undisturbed]
  /\ snapshotAt' = "print"
  /\ UNCHANGED <<running, commandVars, consumerVars, shared, currentProcessed, latCount,
                 printed, exporterVars, exporterRunning, mainAt, histories>>

\* updateMetrics; bucket_inf is the number of samples.
Publish ==
  /\ snapshotAt = "publish"
  /\ metrics' = [ingested |-> totalIngested, processed |-> currentProcessed,
                 samples |-> latCount, undisturbed |-> undisturbed]
  /\ snapshotAt' = "print"
  /\ UNCHANGED <<running, commandVars, consumerVars, shared, currentProcessed, latCount,
                 printed, exporterVars, exporterRunning, mainAt, histories>>

\* Mutant of Recent: begins at the slot that is written next.
RecentOffByOne ==
  [i \in 1 .. (IF tapeHead < TapeSize THEN tapeHead ELSE TapeSize) |->
     tape[(tapeHead + 1 - i) % TapeSize]]

\* The tape, newest message first.
Recent ==
  [i \in 1 .. (IF tapeHead < TapeSize THEN tapeHead ELSE TapeSize) |->
     tape[(tapeHead - i) % TapeSize]]

PrintLine ==
  /\ snapshotAt = "print"
  /\ printed' = Recent
  /\ snapshotAt' = "loop"
  /\ UNCHANGED <<running, commandVars, consumerVars, shared, currentProcessed, latCount,
                 metrics, exporterVars, exporterRunning, mainAt, histories>>

SnapshotThread == Sleep \/ ReadProcessed \/ CopySamples \/ Publish \/ PrintLine

--------------------------------------------------------------------------------
(* The exporter thread and its clients *)

Connect(c) ==
  /\ connection[c] = "none" /\ exporterAt # "exit"
  /\ connection' = [connection EXCEPT ![c] = "open"]
  /\ UNCHANGED <<running, commandVars, consumerVars, shared, snapshotVars, metrics,
                 exporterAt, client, exporterRunning, mainAt, histories>>

\* A client sends its request, or hangs up without one.
Talks(c) ==
  /\ connection[c] = "open"
  /\ connection' = [connection EXCEPT ![c] = "talked"]
  /\ UNCHANGED <<running, commandVars, consumerVars, shared, snapshotVars, metrics,
                 exporterAt, client, exporterRunning, mainAt, histories>>

\* select finds a client in time; without one the loop tests running_ again.
Accept(c) ==
  /\ exporterAt = "select" /\ exporterRunning
  /\ connection[c] # "none"
  /\ client' = c
  /\ exporterAt' = "recv"
  /\ UNCHANGED <<running, commandVars, consumerVars, shared, snapshotVars, metrics,
                 connection, exporterRunning, mainAt, histories>>

\* recv waits for the client.  /healthz and /readyz are answered without the metrics.
Respond ==
  /\ exporterAt = "recv" /\ connection[client] = "talked"
  /\ connection' = [connection EXCEPT ![client] = "none"]
  /\ client' = NoClient
  /\ exporterAt' = "select"
  /\ UNCHANGED <<running, commandVars, consumerVars, shared, snapshotVars, metrics,
                 exporterRunning, mainAt, histories>>

\* buildMetricsPayload, under the mutex: what a scrape gets at this moment.
Payload ==
  [messages_total |-> metrics.ingested, processed_total |-> metrics.processed,
   bucket_inf |-> metrics.samples, count |-> metrics.processed]

ExporterExits ==
  /\ exporterAt = "select" /\ ~exporterRunning
  /\ exporterAt' = "exit"
  /\ connection' = [c \in Clients |-> "none"]
  /\ UNCHANGED <<running, commandVars, consumerVars, shared, snapshotVars, metrics,
                 client, exporterRunning, mainAt, histories>>

ExporterThread == (\E c \in Clients : Accept(c)) \/ Respond \/ ExporterExits

--------------------------------------------------------------------------------
(* main *)

\* Mutant of Join: running_ is not cleared before the exporter is joined.
JoinExporterOnly(thread, ended, next) ==
  /\ mainAt = thread /\ ended
  /\ mainAt' = next
  /\ running' = (running /\ thread # "commander")
  /\ UNCHANGED <<commandVars, consumerVars, shared, snapshotVars, metrics, exporterVars,
                 exporterRunning, histories>>

\* main joins a thread; it then clears the flag the next ones wait for.
Join(thread, ended, next) ==
  /\ mainAt = thread /\ ended
  /\ mainAt' = next
  /\ running' = (running /\ thread # "commander")
  /\ exporterRunning' = (exporterRunning /\ next # "exporter")
  /\ UNCHANGED <<commandVars, consumerVars, shared, snapshotVars, metrics, exporterVars,
                 histories>>

MainThread ==
  \/ Join("commander", commandAt = "exit", "consumer")
  \/ Join("consumer", consumerAt = "exit", "snapshotter")
  \/ Join("snapshotter", snapshotAt = "exit", "exporter")
  \/ Join("exporter", exporterAt = "exit", "done")

Exited == mainAt = "done" /\ UNCHANGED telemetryVars

TelemetryNext ==
  \/ Push \/ ResetTape \/ Quit \/ CommandThread
  \/ ConsumerThread
  \/ SnapshotThread
  \/ \E c \in Clients : Connect(c) \/ Talks(c)
  \/ ExporterThread
  \/ MainThread
  \/ Exited

\* Each thread runs; nobody owes a command; a client that connected sends its request or
\* hangs up in the end, which recv without a timeout relies on.
TelemetryFairness ==
  /\ WF_telemetryVars(CommandThread)
  /\ WF_telemetryVars(ConsumerThread)
  /\ WF_telemetryVars(SnapshotThread)
  /\ WF_telemetryVars(ExporterThread)
  /\ WF_telemetryVars(MainThread)
  /\ \A c \in Clients : WF_telemetryVars(Talks(c))

TelemetrySpec == TelemetryInit /\ [][TelemetryNext]_telemetryVars /\ TelemetryFairness

--------------------------------------------------------------------------------
(* Properties *)

\* A snapshot is coherent though its parts are read one by one while the consumer goes
\* on: the tape is an unbroken run of messages, newest first, as long as fits, and holds
\* at least the message that made the count (or newer ones pushed it out).
SnapshotCoherent ==
  snapshotAt = "loop" /\ undisturbed =>
    LET t == printed
        newest == IF t = <<>> THEN base ELSE t[1]
        since == newest - base
    IN  /\ since >= currentProcessed
        /\ Len(t) = IF since < TapeSize THEN since ELSE TapeSize
        /\ \A i \in DOMAIN t : t[i] = newest - (i - 1)

\* What a scrape shows adds up, whichever snapshot it falls on: no more processed than
\* ingested, but for the one message a thread has pushed and not yet counted; the
\* histogram has no more samples than the window and a batch, and than messages ingested
\* but for those a RESET found with the consumer, not yet handed over, less than a batch.
ScrapesAddUp ==
  /\ metrics.undisturbed => Payload.processed_total <= Payload.messages_total + 1
  /\ Payload.bucket_inf <= Window + Batch
  /\ metrics.undisturbed => Payload.bucket_inf <= Payload.messages_total + Batch

\* The samples are the latest messages without a hole, those not yet handed over
\* included, also across a RESET; once the window is full it stays full.
SamplesAreLatest ==
  LET all == latencySamples \o localLatencyBuffer IN
  /\ \A i \in DOMAIN all : all[i] = popped - (Len(all) - i)
  /\ Len(latencySamples) <= Window + Batch
  /\ Len(all) >= IF popped - base < Window THEN popped - base ELSE Window

\* QUIT ends the server, exporter included, if clients of the metrics port do not stay
\* silent for ever.
ServerEnds == commandAt = "exit" ~> mainAt = "done"

================================================================================
