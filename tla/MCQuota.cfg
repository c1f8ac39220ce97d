SPECIFICATION Spec
CONSTANTS
  t1 = t1
  t2 = t2
  t3 = t3
  lane1 = lane1
  lane2 = lane2
  egress = egress
  Free = Free
  Task = {t1, t2, t3}
  Resource <- MCResource
  Bucket <- MCBucket
  Shared = {"shared"}
  Pools <- MCPools
  BucketsOf <- MCBucketsOf
  Interval <- MCInterval
  Capacity <- MCCapacity
  Safety <- MCSafety
  Demands <- MCDemands
  Mortal = {lane1}
  Headers <- MCHeaders
  Window = 2
  MaxNow = 4
  MaxUpdates = 1
SYMMETRY MCSymmetry
INVARIANTS
  RateConformance
  AllocationAhead
  DebtBounded
  BacklogBounded
  NoOversleep
PROPERTIES
  TightenOnly
  LimitRespected
CHECK_DEADLOCK FALSE
