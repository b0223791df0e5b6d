\* Two workers, every fault.
SPECIFICATION Spec
CONSTANTS
  i1 = i1
  i2 = i2
  w1 = w1
  w2 = w2
  None = None
  Invoices <- MCInvoices
  Workers <- TwoWorkers
  Splits <- MCDoubled
  Stored <- Allocations
  Faults = {"crash", "timeout", "transient", "permanent"}
  MaxInternal = 1
  MaxEntered = 1
  MaxExternal = 3
  MaxFaults = 2
  MaxAttempts = 2
CHECK_DEADLOCK FALSE
INVARIANTS ReplicatedOnce LinkedIsWhole
