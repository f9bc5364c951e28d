CONSTANTS
  Producers = {producer, command}
  Producer = producer
  Command = command
  Msgs <- MCMsgs
  NoMsg = NoMsg
  Capacity = 2
  StaleReads = FALSE
  MaxSends = 0
  BurstSizes = {3}
  LineCounts = {1, 2}
  Patient = TRUE
  MaxCommands = 3
  MaxSeqNo = 9
SPECIFICATION FairServerSpec
INVARIANTS
  ServerInv
  
  GapsAreRejections
  CountersAgree
  
PROPERTIES
  BackpressureEnds
  QuietShutdownCompletes
