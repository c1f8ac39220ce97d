SPECIFICATION Spec
CONSTANTS
  s1 = s1
  s2 = s2
  Session = {s1, s2}
  Jobs <- MCJobs
  Prefetch <- MCPrefetch
  Capacity = 2
  Faulty = {s2}
  Stalled = {}
INVARIANTS
  PermitsConserved
  FramesCovered
  FrontServedFirst
  RestsArmed
PROPERTY
  DeliversInOrder
CHECK_DEADLOCK FALSE
