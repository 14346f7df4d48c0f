SPECIFICATION RelaySpec
CONSTANTS
  Engines = {"tasks"}
  Streams = {1, 2}
  Cap = 1
  MaxLines = 2

PROPERTIES StopAborts
CHECK_DEADLOCK FALSE
