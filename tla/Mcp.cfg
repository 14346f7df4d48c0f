SPECIFICATION Spec
CONSTANTS
  Calls = {p, q}
  Conns = {k1, k2, k3}
  None = None
  Ceilings = {1}
INVARIANTS TypeOK OneConnection TriedRight WritesLeaveTrail
PROPERTY EveryCallAnswered
CHECK_DEADLOCK FALSE
