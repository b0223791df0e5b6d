\* A worker repeats an external payment while the invoice is voided.
SPECIFICATION Spec
CONSTANTS
  c1 = c1
  c2 = c2
  c3 = c3
  r1 = r1
  None = None
  Clients <- TwoClients
  Totals <- MCTotals
  Amounts <- MCAmounts
  Refs <- MCRefs
  MaxOps = 3
INVARIANTS DeadIsSticky
CHECK_DEADLOCK FALSE
