\* One notification, two workers that may be lost, lose answers of the database
\* or outlive their leases: it is settled, and its death audited.
SPECIFICATION FairSpec
CONSTANTS
  k1 = k1
  k2 = k2
  w1 = w1
  w2 = w2
  NoKey = NoKey
  Keys <- OneKey
  Workers <- MCWorkers
  MaxAttempts = 2
  LeaseTicks = 2
  BackoffBase = 1
  BackoffMax = 2
  StaleDelay = 1
  Skews <- SomeSkew
  RequeueFrom <- DeadOnly
  MaxRequeues = 1
  Faults <- LostOrSlow
  MaxFaults = 2
PROPERTIES EventuallySettled DeadIsAudited
