SPECIFICATION FairSpec
CONSTANTS
  Conns = {c1, c2}
  Workspaces <- MCWorkspaces
  NoSession = NoSession
  MaxFrames = 1
  MaxMessages = 1
CHECK_DEADLOCK FALSE
INVARIANTS TypeOK OneRead NoZombieSession NoPayloadBeforeUpgrade
PROPERTIES CloseDuringHandshakeNoticed
