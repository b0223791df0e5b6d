\* One worker, no lost answers and no crashes: what it replicates does not come back.
SPECIFICATION FairSpec
CONSTANTS
  i1 = i1
  i2 = i2
  w1 = w1
  w2 = w2
  None = None
  Invoices <- MCInvoices
  Workers <- OneWorker
  Splits <- MCSplits
  Stored <- MCStored
  Faults = {"transient", "permanent"}
  MaxInternal = 2
  MaxEntered = 1
  MaxExternal = 3
  MaxFaults = 2
  MaxAttempts = 2
CHECK_DEADLOCK FALSE
INVARIANTS TypeOK NoDoubleCount DivergenceAudited
PROPERTY EventuallyReplicated
