SPECIFICATION ListsSpec
CONSTANTS
  h1 = h1
  h2 = h2
  app = app
  None = None
  Hosts = {h1, h2}
  FirstHost = h1
  Things <- MCThings
  Changing <- MCChanging
  MaxCalls = 2
  FirstViews = {"containers", "compose"}
  MaxKeys = 2
  MaxChanges = 1
INVARIANTS ListsRight
PROPERTIES PointedStays RowsCatchUp
CHECK_DEADLOCK FALSE
