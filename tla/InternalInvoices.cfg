\* Three transactions, all at a time, on an invoice of total 1 or 2
\* that payments of 1 leave open, partial or paid; one external reference.
SPECIFICATION FairSpec
CONSTANTS
  c1 = c1
  c2 = c2
  c3 = c3
  r1 = r1
  None = None
  Clients <- MCClients
  Totals <- MCTotals
  Amounts <- MCAmounts
  Refs <- MCRefs
  MaxOps = 3
INVARIANTS TypeOK StatusFollows EveryWriteCounts
PROPERTIES EventuallyDone
CHECK_DEADLOCK FALSE
