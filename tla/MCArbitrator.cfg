CONSTANTS
  Feeds = {FeedA, FeedB}
  MaxBufferedGaps = 2
  LastSeqNo = 4
SPECIFICATION FairSpec
INVARIANTS
  TypeOK
  InSequence
  NothingForgotten
PROPERTIES
  ImplementsDelivery
  WholeStreamDelivered
CHECK_DEADLOCK FALSE
