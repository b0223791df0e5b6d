\* A delivery of two events, which may be too large, the app and a tunnel, two
\* changes by the operator and two faults of any kind.
SPECIFICATION FairSpec
CONSTANTS
  app = app
  tunnel = tunnel
  d1 = d1
  e1 = e1
  e2 = e2
  None = None
  App = app
  Deliveries <- MCDeliveries
  Batch <- MCBatch
  Targets <- MCTargets
  Env <- MCEnv
  Faults <- MCFaults
  MaxFaults = 2
  MaxChanges = 2
INVARIANTS TypeOK StoredIsStored ChangeSurvives
PROPERTIES EventuallyAnswered EventuallyStored
CHECK_DEADLOCK FALSE
