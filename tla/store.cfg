\* Callers that may act before the file is read; exits, crashes, torn
\* files and failing writes.
SPECIFICATION FairSpec
CONSTANTS
  a = a
  b = b
  kNormal = kNormal
  kFingerprint = kFingerprint
  Ids = {a, b}
  Types = {kNormal, kFingerprint}
  Absent = Absent
  NoFile = NoFile
  NoReply = NoReply
  Faults = {"crash", "torn", "write_error"}
  MaxOps = 4
  MaxSessions = 3
INVARIANTS TypeOK DiskWithinMemory TypeLocked
PROPERTIES ImplementsDurableMap DiskNeverGoesBack EventuallyLoaded
CHECK_DEADLOCK FALSE
