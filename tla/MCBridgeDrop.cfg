CONSTANTS
  Clients = {1, 2}
  StdinRoom = 1
  StdoutRoom = 1
  StderrRoom = 1
  MaxCommands = 1
  MaxDeaths = 0
SPECIFICATION Spec
INVARIANTS
  NoLiveClientDropped
CHECK_DEADLOCK FALSE
