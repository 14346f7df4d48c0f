SPECIFICATION Spec
CONSTANTS
  Procs = {p1, p2}
  Clients = {c1}
  Targets = {g1}
  Ports = {1, 2}
  AskedPorts = {0}
  Dialers = {d1}
  NoDialer = NoDialer
  MaxTunnels = 2
  MaxListeners = 2
INVARIANT NoDuplicate
CHECK_DEADLOCK FALSE
