SPECIFICATION FairSpec
CONSTANTS
  Conns = {c1}
  Workspaces <- MCWorkspaces
  NoSession = NoSession
  MaxFrames = 1
  MaxMessages = 1
CHECK_DEADLOCK FALSE
PROPERTIES FramesRelayed
