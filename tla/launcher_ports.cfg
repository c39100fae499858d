\* Two starts before the first child has bound its port.
SPECIFICATION Spec
CONSTANTS
  w1 = w1
  w2 = w2
  Workspaces = {w1, w2}
  NoWorkspace = NoWorkspace
  Ports = {1, 2, 3}
  ForeignPorts = {2}
  MaxConcurrent = 2
  MaxPending = 1
  MaxStarts = 2
SYMMETRY WorkspaceSymmetry
INVARIANTS DistinctCdpPorts
CHECK_DEADLOCK FALSE
