\* A workspace created before the file is read.
SPECIFICATION Spec
CONSTANTS
  a = a
  b = b
  kNormal = kNormal
  kFingerprint = kFingerprint
  Ids = {a, b}
  Types = {kNormal, kFingerprint}
  Absent = Absent
  NoFile = NoFile
  NoReply = NoReply
  Faults = {}
  MaxOps = 2
  MaxSessions = 3
SYMMETRY StoreSymmetry
INVARIANTS KeepsEarlyCalls
CHECK_DEADLOCK FALSE
