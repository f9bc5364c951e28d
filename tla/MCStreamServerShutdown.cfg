CONSTANTS
  Producers = {producer, command}
  Producer = producer
  Command = command
  Msgs <- MCMsgs
  NoMsg = NoMsg
  Capacity = 2
  StaleReads = FALSE
  MaxSends = 0
  BurstSizes = {3}
  LineCounts = {1}
  Patient = TRUE
  MaxCommands = 1
  MaxSeqNo = 3
SPECIFICATION FairServerSpec
PROPERTIES
  ShutdownCompletes
