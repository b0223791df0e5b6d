\* Two calls at a time, three in all, two connections of two companies, and
\* one fault; tokens live four ticks, of which two are the margin.
SPECIFICATION Spec
CONSTANTS
  a = a
  b = b
  r1 = r1
  r2 = r2
  None = None
  Callers <- MCCallers
  Realms <- MCRealms
  Life = 4
  Margin = 2
  Window = 2
  Limit = 2
  Faults <- MCFaults
  MaxFaults = 1
  MaxCalls = 3
  MaxGrants = 3
  MaxConnects = 2
SYMMETRY Symmetry
INVARIANTS TypeOK StoreIsCurrent WithinLimit
PROPERTIES RefreshesSerialized NoExpiredToken
CHECK_DEADLOCK FALSE
