\* Finding: the webhook of a create whose answer was lost overtakes its retry.
SPECIFICATION Spec
CONSTANTS
  i1 = i1
  i2 = i2
  w1 = w1
  w2 = w2
  None = None
  Invoices <- MCInvoices
  Workers <- OneWorker
  Splits <- MCSplits
  Stored <- MCStored
  Faults = {"timeout"}
  MaxInternal = 1
  MaxEntered = 0
  MaxExternal = 2
  MaxFaults = 1
  MaxAttempts = 2
CHECK_DEADLOCK FALSE
INVARIANT NoDoubleCount
