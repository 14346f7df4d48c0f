SPECIFICATION Spec
CONSTANTS
  h1 = h1
  h2 = h2
  None = None
  Hosts = {h1, h2}
  Start = h1
  ReadOnlyHosts = {h2}
  SshHosts = {h1}
  Commands <- AllCommands
  Archives <- MCArchives
  Themes = 2
  MaxPosts = 2
  MaxCalls = 2
  MaxKeys = 5
  MaxChanges = 1
INVARIANTS WindowsRight BusyIsWaiting WritesWereAdmitted
CHECK_DEADLOCK FALSE
