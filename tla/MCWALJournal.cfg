SPECIFICATION Spec
CONSTANTS
  FileUnits = 10
  Sizes = {7,10}
  PageUnits = 3
  Foreign = {2}
  MaxMessages = 4
INVARIANTS
  WALInv
  NothingAcceptedIsLost
  PowerLossKeepsPrefix
