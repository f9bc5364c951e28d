--------------------------------- MODULE Bridge ---------------------------------
(***************************************************************************)
(* The bridge (bridge.py): one event loop runs a handler per client and    *)
(* the reader of the engine's output; the engine is a child process with   *)
(* three bounded pipes.  Between two awaits a coroutine has the loop for   *)
(* itself, so each such stretch is a step.  A write into the full stdin    *)
(* pipe is not awaited: it stops the loop (writing).  readline waits in a  *)
(* thread of its own.                                                      *)
(*                                                                         *)
(* A client is one connection; a browser that returns is another one.      *)
(* Clients are numbered in the order in which the set is iterated.  A      *)
(* command is "quiet", or "chatty" when the engine answers it on stderr    *)
(* (FILE, LOAD_EXAMPLE), which nobody reads.  Refused commands change      *)
(* nothing and are left out, the rate limiter with them.                   *)
(***************************************************************************)
EXTENDS Integers, Sequences, FiniteSets, SequencesExt

CONSTANTS
  Clients,
  StdinRoom, StdoutRoom, StderrRoom,    \* lines the pipes hold
  MaxCommands, MaxDeaths                \* bounds of the checked instances

ASSUME BridgeAssumption ==
  /\ Clients \subseteq Nat
  /\ {StdinRoom, StdoutRoom, StderrRoom} \subseteq Nat \ {0}
  /\ {MaxCommands, MaxDeaths} \subseteq Nat

VARIABLES
  connection,            \* connection[c]: "none", "open", "closed", "gone" (handler ended)
  connected_clients,
  writing,               \* the command whose write stops the event loop, or "none"
  reader,                \* where read_cpp_stdout_loop is
  targets, results,      \* clients of the broadcast, and what gather has of them
  engine, commandAt,     \* cpp_process and its command thread
  stdin, stdoutLines, stderrLines,      \* the pipes
  commands, deaths       \* routed so far; engines that died

clientVars == <<connection, connected_clients>>
readerVars == <<reader, targets, results>>
pipes == <<stdin, stdoutLines, stderrLines>>
bridgeVars == <<clientVars, writing, readerVars, engine, commandAt, pipes, commands, deaths>>

Kinds == {"quiet", "chatty"}
LoopIsFree == writing = "none"

\* list(connected_clients)
InOrder(S) == SetToSortSeq(S, <)

Spawned ==
  /\ engine' = "up" /\ commandAt' = "getline"
  /\ stdin' = <<>> /\ stdoutLines' = 0 /\ stderrLines' = 0

Init ==
  /\ connection = [c \in Clients |-> "none"] /\ connected_clients = {}
  /\ writing = "none"
  /\ reader = "poll" /\ targets = <<>> /\ results = <<>>
  /\ engine = "up" /\ commandAt = "getline"
  /\ stdin = <<>> /\ stdoutLines = 0 /\ stderrLines = 0
  /\ commands = 0 /\ deaths = 0

--------------------------------------------------------------------------------
(* ws_handler *)

Connect(c) ==
  /\ LoopIsFree /\ connection[c] = "none"
  /\ connection' = [connection EXCEPT ![c] = "open"]
  /\ connected_clients' = connected_clients \cup {c}
  /\ UNCHANGED <<writing, readerVars, engine, commandAt, pipes, commands, deaths>>

\* The client leaves, or does not answer the library's pings.
Closes(c) ==
  /\ LoopIsFree /\ connection[c] = "open"
  /\ connection' = [connection EXCEPT ![c] = "closed"]
  /\ UNCHANGED <<connected_clients, writing, readerVars, engine, commandAt, pipes,
                 commands, deaths>>

\* finally
HandlerEnds(c) ==
  /\ LoopIsFree /\ connection[c] = "closed"
  /\ connection' = [connection EXCEPT ![c] = "gone"]
  /\ connected_clients' = connected_clients \ {c}
  /\ UNCHANGED <<writing, readerVars, engine, commandAt, pipes, commands, deaths>>

\* stdin.write and flush.  Into a dead engine's pipe they raise, which is logged and
\* the command is gone; into a full one they wait.
Write(kind) ==
  CASE engine = "dead" -> writing' = "none" /\ UNCHANGED stdin
    [] engine = "up" /\ Len(stdin) < StdinRoom ->
         writing' = "none" /\ stdin' = Append(stdin, kind)
    [] OTHER -> writing' = kind /\ UNCHANGED stdin

Route(c, kind) ==
  /\ LoopIsFree /\ connection[c] = "open" /\ commands < MaxCommands
  /\ Write(kind)
  /\ commands' = commands + 1
  /\ UNCHANGED <<clientVars, readerVars, engine, commandAt, stdoutLines, stderrLines,
                 deaths>>

WriteGoesOn ==
  /\ ~LoopIsFree
  /\ engine = "dead" \/ Len(stdin) < StdinRoom
  /\ Write(writing)
  /\ UNCHANGED <<clientVars, readerVars, engine, commandAt, stdoutLines, stderrLines,
                 commands, deaths>>

--------------------------------------------------------------------------------
(* read_cpp_stdout_loop *)

\* Mutant of Poll: an engine counts as running once it was started.
PollOnce ==
  /\ LoopIsFree /\ reader = "poll"
  /\ reader' = "readline"
  /\ UNCHANGED <<clientVars, writing, targets, results, engine, commandAt, pipes,
                 commands, deaths>>

Poll ==
  /\ LoopIsFree /\ reader = "poll"
  /\ reader' = IF engine = "dead" THEN "respawn" ELSE "readline"
  /\ UNCHANGED <<clientVars, writing, targets, results, engine, commandAt, pipes,
                 commands, deaths>>

\* After a second; what the dead engine's pipes still held is gone.
Respawn ==
  /\ LoopIsFree /\ reader = "respawn"
  /\ Spawned
  /\ reader' = "readline"
  /\ UNCHANGED <<clientVars, writing, targets, results, commands, deaths>>

RespawnFails ==
  /\ LoopIsFree /\ reader = "respawn"
  /\ reader' = "poll"
  /\ UNCHANGED <<clientVars, writing, targets, results, engine, commandAt, pipes,
                 commands, deaths>>

\* In the executor's thread: a line, or the end of a dead engine's output.
ReadLine ==
  /\ reader = "readline"
  /\ \/ /\ stdoutLines > 0
        /\ stdoutLines' = stdoutLines - 1
        /\ reader' = "line"
     \/ /\ stdoutLines = 0 /\ engine = "dead"
        /\ reader' = "poll"
        /\ UNCHANGED stdoutLines
  /\ UNCHANGED <<clientVars, writing, targets, results, engine, commandAt, stdin,
                 stderrLines, commands, deaths>>

Broadcast ==
  /\ LoopIsFree /\ reader = "line"
  /\ targets' = InOrder(connected_clients)
  /\ results' = [i \in DOMAIN targets' |-> "pending"]
  /\ reader' = IF connected_clients = {} THEN "poll" ELSE "gather"
  /\ UNCHANGED <<clientVars, writing, engine, commandAt, pipes, commands, deaths>>

\* A send ends when the line is out, however slow the client, or the connection closed.
SendEnds(i) ==
  /\ LoopIsFree /\ reader = "gather" /\ results[i] = "pending"
  /\ results' = [results EXCEPT ![i] =
                   IF connection[targets[i]] = "open" THEN "sent" ELSE "failed"]
  /\ UNCHANGED <<clientVars, writing, reader, targets, engine, commandAt, pipes,
                 commands, deaths>>

\* The results are matched with the clients connected by now.
DiscardFailed ==
  /\ LoopIsFree /\ reader = "gather"
  /\ \A i \in DOMAIN results : results[i] # "pending"
  /\ LET now == InOrder(connected_clients)
         failed == {i \in DOMAIN results \cap DOMAIN now : results[i] = "failed"}
     IN  connected_clients' = connected_clients \ {now[i] : i \in failed}
  /\ reader' = "poll" /\ targets' = <<>> /\ results' = <<>>
  /\ UNCHANGED <<connection, writing, engine, commandAt, pipes, commands, deaths>>

--------------------------------------------------------------------------------
(* The engine, as far as its pipes go *)

\* getline of the command thread.
TakeCommand ==
  /\ engine = "up" /\ commandAt = "getline" /\ stdin # <<>>
  /\ commandAt' = IF Head(stdin) = "chatty" THEN "diagnose" ELSE "getline"
  /\ stdin' = Tail(stdin)
  /\ UNCHANGED <<clientVars, writing, readerVars, engine, stdoutLines, stderrLines,
                 commands, deaths>>

\* Mutant of Diagnose: the line goes to stdout, among the snapshots.
DiagnoseOnStdout ==
  /\ engine = "up" /\ commandAt = "diagnose" /\ stdoutLines < StdoutRoom
  /\ stdoutLines' = stdoutLines + 1
  /\ commandAt' = "getline"
  /\ UNCHANGED <<clientVars, writing, readerVars, engine, stdin, stderrLines, commands,
                 deaths>>

\* loadFileIntoEngine ends with a line on stderr.
Diagnose ==
  /\ engine = "up" /\ commandAt = "diagnose" /\ stderrLines < StderrRoom
  /\ stderrLines' = stderrLines + 1
  /\ commandAt' = "getline"
  /\ UNCHANGED <<clientVars, writing, readerVars, engine, stdin, stdoutLines, commands,
                 deaths>>

\* The snapshot thread.
Emit ==
  /\ engine = "up" /\ stdoutLines < StdoutRoom
  /\ stdoutLines' = stdoutLines + 1
  /\ UNCHANGED <<clientVars, writing, readerVars, engine, commandAt, stdin, stderrLines,
                 commands, deaths>>

Dies ==
  /\ engine = "up" /\ deaths < MaxDeaths
  /\ engine' = "dead" /\ commandAt' = "getline" /\ stdin' = <<>>
  /\ deaths' = deaths + 1
  /\ UNCHANGED <<clientVars, writing, readerVars, stdoutLines, stderrLines, commands>>

--------------------------------------------------------------------------------

Sends == \E i \in DOMAIN results : SendEnds(i)
Reader == Poll \/ Respawn \/ RespawnFails \/ ReadLine \/ Broadcast \/ Sends \/ DiscardFailed
Engine == TakeCommand \/ Diagnose \/ Emit

Next ==
  \/ \E c \in Clients : Connect(c) \/ Closes(c) \/ HandlerEnds(c)
  \/ \E c \in Clients, kind \in Kinds : Route(c, kind)
  \/ WriteGoesOn
  \/ Reader
  \/ Engine
  \/ Dies

\* The loop and the threads run; handlers of closed connections end; an engine that is
\* started again and again starts in the end.
Fairness ==
  /\ WF_bridgeVars(WriteGoesOn) /\ WF_bridgeVars(Reader)
  /\ WF_bridgeVars(TakeCommand) /\ WF_bridgeVars(Diagnose) /\ WF_bridgeVars(Emit)
  /\ \A c \in Clients : WF_bridgeVars(HandlerEnds(c))
  /\ SF_bridgeVars(Respawn)

Spec == Init /\ [][Next]_bridgeVars /\ Fairness

--------------------------------------------------------------------------------
(* Properties *)

\* A dead engine is replaced, whatever the bridge was doing: its loop stopped in a write
\* to the engine, its reader waiting for a line or for a slow client.
EngineReplaced == engine = "dead" ~> engine = "up"

\* A write that stops the loop ends, though the loop reads no output meanwhile, unless
\* the engine has filled the stderr pipe, which nobody reads.
WritesEnd == writing # "none" ~> (writing = "none" \/ stderrLines = StderrRoom)

\* "remove disconnected sockets cleanly": a client that is connected stays one of those
\* broadcasts are for.
NoLiveClientDropped == \A c \in Clients : connection[c] = "open" => c \in connected_clients

================================================================================
