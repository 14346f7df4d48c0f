SPECIFICATION RelaySpec
CONSTANTS
  Engines = {"restore", "tasks", "logs"}
  Streams = {1, 2}
  Cap = 1
  MaxLines = 2
INVARIANTS OutputRight
PROPERTIES StopEnds
CHECK_DEADLOCK FALSE
