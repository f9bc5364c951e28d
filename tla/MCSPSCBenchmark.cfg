CONSTANTS
  m1 = m1
  m2 = m2
  Main = main
  Producers = {main}
  Msgs = {m1, m2}
  NoMsg = NoMsg
  Capacity = 2
  StaleReads = TRUE
  MaxSends = 6
  Feed <- MCFeed
SPECIFICATION BenchSpec
INVARIANT NoSlotRace
INVARIANT BenchInv
INVARIANT WholeFeedProcessed
PROPERTY ImplementsFifo
PROPERTY BenchmarkEnds
