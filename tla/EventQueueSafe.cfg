\* Two workers, two notifications; processes die, restart and lose database
\* calls, but finish within their leases; operators requeue dead letters.
SPECIFICATION Spec
CONSTANTS
  k1 = k1
  k2 = k2
  w1 = w1
  w2 = w2
  NoKey = NoKey
  Keys <- MCKeys
  Workers <- MCWorkers
  MaxAttempts = 2
  LeaseTicks = 2
  BackoffBase = 1
  BackoffMax = 2
  StaleDelay = 1
  Skews <- NoSkew
  RequeueFrom <- DeadOnly
  MaxRequeues = 1
  Faults <- LostWorkers
  MaxFaults = 2
SYMMETRY Symmetry
INVARIANTS TypeOK ExclusiveClaim HolderOwnsRow AttemptsBounded
PROPERTIES DoneIsFinal StopWaits ImplementsPort
