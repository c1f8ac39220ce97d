SPECIFICATION FairSpec
CONSTANTS
  w1 = w1
  w2 = w2
  w3 = w3
  e1 = e1
  Free = Free
  Missing = Missing
  Silent = Silent
  Old = Old
  Call = {1, 2}
  Workloads <- MCWorkloads
  Webhooks <- MCWebhooks
  Egresses <- MCEgresses
  Attempts = 2
  IntervalOf <- MCInterval
  CapacityOf <- MCCapacity
  Window = 2
  Replies <- MCReplies
  Chunks = 2
  MaxNow = 0
  Doomed = {w1}
  Faults = {"body", "drop"}
INVARIANTS
  NothingUnpaid
  AnswersTrue
  ReportsCount
PROPERTIES
  CallEnds
  DeadAvoided
CHECK_DEADLOCK FALSE
