\* Two starts of one workspace under way at once.
SPECIFICATION Spec
CONSTANTS
  w1 = w1
  w2 = w2
  Workspaces = {w1, w2}
  NoWorkspace = NoWorkspace
  Ports = {1, 2, 3}
  ForeignPorts = {2}
  MaxConcurrent = 2
  MaxPending = 2
  MaxStarts = 2
SYMMETRY WorkspaceSymmetry
INVARIANTS NoOrphanProcess
CHECK_DEADLOCK FALSE
