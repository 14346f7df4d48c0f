SPECIFICATION Spec
CONSTANTS
  Hosts = {a, b}
  AskPass = {b}
  ReadOnly = {a}
  CanForward = {b}
  Given = {a}
  NoHost = NoHost
  Conns = {c1, c2}
  Offline = Offline
  MaxFlying = 2
PROPERTY TunnelsKeepHost
