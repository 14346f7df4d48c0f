SPECIFICATION RelaySpec
CONSTANTS
  Engines = {"logs"}
  Streams = {1, 2}
  Cap = 1
  MaxLines = 2

PROPERTIES StopEndsLogs
CHECK_DEADLOCK FALSE
