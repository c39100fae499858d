\* A hang-up after the first answer.
SPECIFICATION Spec
CONSTANTS
  ApplyRetries = 2
  ReconnectRetries = 2
  MaxChecks = 2
INVARIANTS CallbackRunOnce
CHECK_DEADLOCK FALSE
