\* Finding: an internal edit made after the worker's read is overwritten.
SPECIFICATION Spec
CONSTANTS
  w1 = w1
  w2 = w2
  None = None
  Workers <- OneWorker
  UserOps = {"int_create", "int_edit", "ext_edit"}
  Faults = {}
  MaxEdits = 3
  MaxFaults = 0
  MaxExternal = 3
  MaxAttempts = 3
CHECK_DEADLOCK FALSE
INVARIANT NothingLostSilently
