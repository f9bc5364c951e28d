CONSTANTS
  Clients = {1, 2}
  StdinRoom = 1
  StdoutRoom = 1
  StderrRoom = 1
  MaxCommands = 5
  MaxDeaths = 2
SPECIFICATION Spec
PROPERTIES
  EngineReplaced
  WritesEnd
CHECK_DEADLOCK FALSE
