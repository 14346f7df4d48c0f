CONSTANTS
  None = None
  Calls = {1, 2}
  Engines = {"docker", "nerdctl", "cri", "demo"}
  MaxWorkers = 1
  MaxMishaps = 1
  Stamps = {1}
  HostKinds <- MCHosts
SPECIFICATION ProjectsSpec
INVARIANTS ProjectsRight
PROPERTIES SweepsAsPlanned
