\* Every operation of the users of both systems, four of them; one worker, no faults.
SPECIFICATION Spec
CONSTANTS
  w1 = w1
  w2 = w2
  None = None
  Workers <- OneWorker
  UserOps = {"int_create", "int_edit", "int_void", "int_delete", "int_pay",
             "ext_create", "ext_edit", "ext_void", "ext_delete", "ext_pay"}
  Faults = {}
  MaxEdits = 4
  MaxFaults = 0
  MaxExternal = 4
  MaxAttempts = 3
CHECK_DEADLOCK FALSE
INVARIANTS TypeOK Convergent ExternalLossAudited LossAuditedUndisturbed LastEditWins
