SPECIFICATION StoreSpec
CONSTANTS
  p1 = p1
  p2 = p2
  Procs = {p1, p2}
  Bases = {"a", "b"}
  Themes = {"dark"}
  MaxOps = 2
  MaxHosts = 2
SYMMETRY Alike
INVARIANTS HostsRight
PROPERTIES NothingLost
CHECK_DEADLOCK FALSE
