SPECIFICATION Spec
CONSTANTS
  N = 2
  a = a
  b = b
  Names = {a, b}
  Checked = {1}
  NHosts = 3
  Workers = 2
  HostCodes = {"connection", "not_found"}
  MaxRefs = 2
  MaxPolls = 2
  MaxLines = 2
  Invocations <- MCInvocations
  Policies <- MCPolicies
INVARIANT EveryWriteLogged
CHECK_DEADLOCK FALSE
