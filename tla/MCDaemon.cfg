SPECIFICATION Spec
CONSTANTS
  Caller = {cli}
  MaxPids = 3
  MaxFaults = 2
INVARIANTS
  OneDaemon
PROPERTIES
  StopReachesDaemon
