\* Progress, and callers that wait for each answer.
SPECIFICATION FairSpec
CONSTANTS
  w1 = w1
  w2 = w2
  Workspaces = {w1, w2}
  NoWorkspace = NoWorkspace
  Ports = {1, 2}
  ForeignPorts = {}
  MaxConcurrent = 2
  MaxPending = 1
  MaxStarts = 3
INVARIANTS NoOrphanProcess
PROPERTIES CrashNoticed EveryStartAnswered ShutdownStopsChildren
CHECK_DEADLOCK FALSE
