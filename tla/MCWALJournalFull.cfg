SPECIFICATION Spec
CONSTANTS
  FileUnits = 4
  Sizes = {4}
  PageUnits = 3
  Foreign = {}
  MaxMessages = 3
INVARIANT
  FullJournalIsRecovered
