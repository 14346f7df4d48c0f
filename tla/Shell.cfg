SPECIFICATION MCSpec
CONSTANTS
  s1 = s1
  s2 = s2
  Sessions = {s1, s2}
  None = None
  QueueCap = 1
  MaxChunks = 1
  MaxTyped = 2
  Queries = {"q1", "q2"}
  NoQuery = NoQuery
  Cap = 3
  BatchMax = 2
  MaxLines = 5
  c1 = c1
  c2 = c2
  h1 = h1
  h2 = h2
  Hosts = {h1, h2}
  Containers = {c1, c2}
  HostOf <- MCHostOf
  Names = {"a", "b", "c"}
  FileSystem <- MCFileSystem
  Nowhere = Nowhere
  MaxRequests = 3
  MaxFsChanges = 2
INVARIANTS PanelRight ViewersRight
PROPERTIES ClosedEnds MatchStays
CHECK_DEADLOCK FALSE
