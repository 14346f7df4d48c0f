CONSTANTS
  None = None
  Calls = {1}
  Engines = {"nerdctl"}
  MaxWorkers = 1
  MaxMishaps = 1
  Stamps = {1}
  HostKinds <- MCHosts
SPECIFICATION ProjectsSpec
INVARIANTS FailureTold
