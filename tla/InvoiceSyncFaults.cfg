\* Invoices entered internally, with crashes, lost answers and provider errors.
SPECIFICATION FairSpec
CONSTANTS
  w1 = w1
  w2 = w2
  None = None
  Workers <- OneWorker
  UserOps = {"int_create", "int_edit", "int_void", "int_delete", "int_pay", "ext_edit", "ext_void", "ext_pay"}
  Faults = {"crash", "timeout", "transient"}
  MaxEdits = 3
  MaxFaults = 1
  MaxExternal = 4
  MaxAttempts = 3
CHECK_DEADLOCK FALSE
INVARIANTS Convergent OneExternalInvoice
PROPERTY ComesToRest
