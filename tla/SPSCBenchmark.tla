------------------------------ MODULE SPSCBenchmark ------------------------------
(***************************************************************************)
(* runSPSCBenchmark (main.cpp): the main thread pushes a generated feed     *)
(* through the ring, spinning while it is full; a consumer thread pops and *)
(* processes until it sees the feed finished and the ring empty.  Composes *)
(* SPSCRing with the two threads' loops and their flags.  The start flag   *)
(* and producerFinished are atomics; the consumer reads the latter, and    *)
(* the indices in empty(), with relaxed loads.  A load may be stale, but    *)
(* the loads of one thread keep their order, as on x86-64: who sees the    *)
(* flag set sees the indices stored before it.                             *)
(***************************************************************************)
EXTENDS SPSCRing

CONSTANTS Main,   \* the thread that runs the benchmark
          Feed    \* g_benchFeed[0 .. messageCount - 1]

\* Other threads may exist; in this mode only the main thread calls tryPush.
ASSUME FeedAssumption == Feed \in Seq(Msgs) /\ Main \in Producers

VARIABLES
  startFlag,
  producerFinished,
  pushed,           \* the main thread's loop counter: messages pushed
  mainThread,      \* "push", "join" or "report"
  consumerThread   \* "wait", "finished?", "empty?", "pop", "popping" or "exit"

flags == <<startFlag, producerFinished, pushed, mainThread, consumerThread>>
benchVars == <<ringVars, flags>>

messageCount == Len(Feed)

BenchInit ==
  /\ Init
  /\ startFlag = FALSE /\ producerFinished = FALSE
  /\ pushed = 0 /\ mainThread = "push" /\ consumerThread = "wait"

--------------------------------------------------------------------------------
(* The main thread *)

Start ==
  /\ ~startFlag
  /\ startFlag' = TRUE
  /\ UNCHANGED <<ringVars, producerFinished, pushed, mainThread, consumerThread>>

\* while (!ringBuffer.tryPush(g_benchFeed[i])): the next call, or the same again.
CallTryPush ==
  /\ startFlag /\ mainThread = "push" /\ pushed < messageCount
  /\ PushCheck(Main, Feed[pushed + 1])
  /\ UNCHANGED flags

InsideTryPush ==
  /\ PushStep(Main)
  /\ pushed' = IF ppc[Main] = "publish" THEN pushed + 1 ELSE pushed
  /\ UNCHANGED <<startFlag, producerFinished, mainThread, consumerThread>>

Finish ==
  /\ startFlag /\ mainThread = "push" /\ pushed = messageCount
  /\ producerFinished' = TRUE
  /\ mainThread' = "join"
  /\ UNCHANGED <<ringVars, startFlag, pushed, consumerThread>>

\* consumerThread.join() returns and the results are printed.
Join ==
  /\ mainThread = "join" /\ consumerThread = "exit"
  /\ mainThread' = "report"
  /\ UNCHANGED <<ringVars, startFlag, producerFinished, pushed, consumerThread>>

--------------------------------------------------------------------------------
(* The consumer thread *)

AwaitStart ==
  /\ consumerThread = "wait" /\ startFlag
  /\ consumerThread' = "finished?"
  /\ UNCHANGED <<ringVars, startFlag, producerFinished, pushed, mainThread>>

\* Mutant of TestFinished: leaves as soon as the producer is done.
TestFinishedOnly(seen) ==
  /\ consumerThread = "finished?"
  /\ consumerThread' = IF seen THEN "exit" ELSE "pop"
  /\ UNCHANGED <<ringVars, startFlag, producerFinished, pushed, mainThread>>

\* !producerFinished.load(relaxed): only a load that returns TRUE goes on to empty().
TestFinished(seen) ==
  /\ consumerThread = "finished?"
  /\ consumerThread' = IF seen THEN "empty?" ELSE "pop"
  /\ UNCHANGED <<ringVars, startFlag, producerFinished, pushed, mainThread>>

\* Mutant of TestEmpty: the negation forgotten.
TestNotEmpty(h) ==
  /\ consumerThread = "empty?"
  /\ consumerThread' = IF tail = h THEN "pop" ELSE "exit"
  /\ UNCHANGED <<ringVars, startFlag, producerFinished, pushed, mainThread>>

\* !ringBuffer.empty(): relaxed loads of both indices, the cached one untouched.
\* It is asked after the flag was seen set, which the last store of head precedes.
TestEmpty(h) ==
  /\ consumerThread = "empty?"
  /\ consumerThread' = IF tail = h THEN "exit" ELSE "pop"
  /\ UNCHANGED <<ringVars, startFlag, producerFinished, pushed, mainThread>>

CallTryPop ==
  /\ consumerThread = "pop"
  /\ PopCheck
  /\ consumerThread' = "popping"
  /\ UNCHANGED <<startFlag, producerFinished, pushed, mainThread>>

\* tryPop returns, with a message to process or without, and the loop tests again.
InsideTryPop ==
  /\ PopStep
  /\ consumerThread' = IF cpc' = "idle" THEN "finished?" ELSE "popping"
  /\ UNCHANGED <<startFlag, producerFinished, pushed, mainThread>>

VisibleFinished ==
  {producerFinished} \cup (IF StaleReads THEN {FALSE} ELSE {})

--------------------------------------------------------------------------------

BenchMain == Start \/ CallTryPush \/ InsideTryPush \/ Finish \/ Join

BenchConsumer ==
  \/ AwaitStart
  \/ \E seen \in VisibleFinished : TestFinished(seen)
  \/ TestEmpty(head)
  \/ CallTryPop
  \/ InsideTryPop

Done == mainThread = "report" /\ UNCHANGED benchVars

BenchNext == BenchMain \/ BenchConsumer \/ Done

\* Each thread has a core of its own and never blocks; what the other side stored
\* is seen after finitely many loads.
BenchFairness ==
  /\ WF_benchVars(BenchMain)
  /\ WF_benchVars(BenchConsumer)
  /\ SF_benchVars(PushRefresh(Main, tail) /\ InsideTryPush)
  /\ SF_benchVars(PopRefresh(head) /\ InsideTryPop)
  /\ SF_benchVars(TestFinished(producerFinished))

BenchSpec == BenchInit /\ [][BenchNext]_benchVars /\ BenchFairness

--------------------------------------------------------------------------------
(* Properties *)

\* When the consumer has left its loop the book has seen the whole feed: the test
\* "finished and empty" leaves no message behind, although the indices tryPop sees
\* may be old.  It takes loads in program order: the flag is read relaxed, so the
\* language does not order the loads of empty() after it, x86-64 does.
WholeFeedProcessed == consumerThread = "exit" => received = Feed

\* The main thread is the ring's one producer.
OnlyMainPushes == \A p \in Producers : p # Main => ppc[p] = "idle"

\* The loop counter is the published index, what was published is the feed so far,
\* and the call under way carries the next message of it.
FeedInOrder ==
  /\ pushed = head /\ head <= messageCount
  /\ \A k \in 1 .. Len(sent) : sent[k] = Feed[k]
  /\ ppc[Main] # "idle" => pushed < messageCount /\ pmsg[Main] = Feed[pushed + 1]

\* Once the flag is set all of the feed is in the ring; the consumer asks for an
\* empty ring only after it saw the flag, and leaves only when it found one.
FinishedMeansAll ==
  /\ producerFinished => pushed = messageCount
  /\ consumerThread \in {"empty?", "exit"} => producerFinished
  /\ consumerThread = "exit" => tail = head /\ cpc = "idle"
  /\ consumerThread # "popping" => cpc = "idle"

BenchInv == RingInv /\ OnlyMainPushes /\ FeedInOrder /\ FinishedMeansAll

\* The benchmark comes to its report: the producer's spin on a full ring ends and
\* so does the consumer's loop.
BenchmarkEnds == <>(mainThread = "report")

================================================================================
