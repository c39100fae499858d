\* Two callers, two workspaces, one of three ports taken by the API server.
SPECIFICATION Spec
CONSTANTS
  w1 = w1
  w2 = w2
  Workspaces = {w1, w2}
  NoWorkspace = NoWorkspace
  Ports = {1, 2, 3}
  ForeignPorts = {2}
  MaxConcurrent = 1
  MaxPending = 2
  MaxStarts = 3
SYMMETRY WorkspaceSymmetry
INVARIANTS TypeOK WatchCoverage CrashIsReal SlotBound
PROPERTIES NoLaunchAfterDestruction ImplementsLifecycle
CHECK_DEADLOCK FALSE
